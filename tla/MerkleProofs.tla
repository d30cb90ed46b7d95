---------------------------- MODULE MerkleProofs ----------------------------
(***************************************************************************)
(* Proofs about the Merkle tree over a ledger, for any contents, ledgers   *)
(* of any length and proofs with any path: what the verifiers' loops       *)
(* accept is what the tree commits to.                                     *)
(*                                                                         *)
(* The generators recurse from the root down, the verifiers fold from the  *)
(* leaf up with two indices that they halve.  The proofs are by induction  *)
(* on the number of leaves: a path in a tree is a path in one of its       *)
(* halves and one more node, and after the half's part of the path the     *)
(* verifier holds the half's hash, at the half's place of its level.  That *)
(* place is on the right edge or it is not, so that there are two claims   *)
(* about a path (Inside, OnEdge), and two about a consistency proof        *)
(* (Within, OnRim).                                                        *)
(***************************************************************************)
EXTENDS Merkle, FiniteSetTheorems, SequenceTheorems, WellFoundedInduction, TLAPS

(* Induction over data, as induction over sets: a claim about every element  *)
(* of a set holds if no element is the first one without it, in the order of *)
(* a rank. A recursive function is then shown to exist as the limit of       *)
(* functions that are right up to a rank.                                    *)

(* A set of numbers that is not empty has a least one. *)
LEMMA LeastNat ==
  ASSUME NEW S \in SUBSET Nat, S # {}
  PROVE  \E x \in S : \A y \in S : x <= y
<1> DEFINE R == OpToRel(<, Nat)
<1>1. \E x \in S : \A y \in S : ~(<<y, x>> \in R)
  BY NatLessThanWellFounded, WFMin, Zenon
<1>2. \A x, y \in Nat : y < x => <<y, x>> \in R
  BY Zenon DEF OpToRel
<1> HIDE DEF R
<1>3. PICK x \in S : \A y \in S : ~(<<y, x>> \in R)
  BY <1>1
<1>4. ASSUME NEW y \in S PROVE ~(y < x)
  BY <1>2, <1>3, Zenon
<1>5. \A y \in S : x <= y
  BY <1>4
<1>6. QED
  BY <1>5

(* What holds at 0 and goes on from i-1 to i holds up to N. *)
LEMMA CountUp ==
  ASSUME NEW N \in Nat, NEW S, 0 \in S, \A i \in 1..N : i - 1 \in S => i \in S
  PROVE  0..N \subseteq S
<1> DEFINE out == {i \in 0..N : i \notin S}
<1>1. SUFFICES ASSUME out # {} PROVE FALSE
  OBVIOUS
<1>2. out \in SUBSET Nat
  OBVIOUS
<1>3. PICK x \in out : \A y \in out : x <= y
  BY <1>1, <1>2, LeastNat
<1>4. x \in 1..N /\ x - 1 \in 0..N /\ x - 1 \notin out
  BY <1>3
<1>5. QED
  BY <1>3, <1>4

(* What holds of an element if it holds of all of lower rank holds of all. *)
LEMMA RankInduction ==
  ASSUME NEW D, NEW rank \in [D -> Nat], NEW S,
         \A x \in D : (\A y \in D : rank[y] < rank[x] => y \in S) => x \in S
  PROVE  D \subseteq S
<1> DEFINE out == {x \in D : x \notin S}
           ranks == {rank[x] : x \in out}
<1>1. SUFFICES ASSUME out # {} PROVE FALSE
  OBVIOUS
<1>2. ranks \in SUBSET Nat /\ ranks # {}
  BY <1>1
<1>3. PICK n \in ranks : \A m \in ranks : n <= m
  BY <1>2, LeastNat
<1>4. PICK x \in out : rank[x] = n
  OBVIOUS
<1>5. \A y \in D : rank[y] < rank[x] => y \in S
  <2> SUFFICES ASSUME NEW y \in D, rank[y] < rank[x], y \notin S PROVE FALSE
    OBVIOUS
  <2>1. rank[y] \in ranks
    OBVIOUS
  <2>2. rank[y] \in Nat /\ n \in Nat
    BY <1>2
  <2>3. QED
    BY <1>3, <1>4, <2>1, <2>2, SMTT(30)
<1>6. QED
  BY <1>4, <1>5

(* A recursive definition whose body looks at lower ranks only, *)
WellRanked(D, R, rank, body) ==
  /\ R # {} /\ rank \in [D -> Nat] /\ body \in [D \X [D -> R] -> R]
  /\ \A x \in D : \A g, h \in [D -> R] :
       (\A y \in D : rank[y] < rank[x] => g[y] = h[y]) => body[<<x, g>>] = body[<<x, h>>]
(* and a function that satisfies it. *)
Solves(f, D, R, body) == f \in [D -> R] /\ \A x \in D : f[x] = body[<<x, f>>]

(* Every such definition has a solution: a function that is right up to rank *)
(* n can be made right up to n + 1, and two of them agree where both are     *)
(* right.                                                                    *)
LEMMA Recursion ==
  ASSUME NEW D, NEW R, NEW rank, NEW body, WellRanked(D, R, rank, body)
  PROVE  \E f : Solves(f, D, R, body)
<1> USE DEF WellRanked
<1> DEFINE Good(g, n) == \A x \in D : rank[x] < n => g[x] = body[<<x, g>>]
           F == [D -> R]
<1>1. ASSUME NEW n \in Nat PROVE \E g \in F : Good(g, n)
  <2> DEFINE S == {i \in 0..n : \E g \in F : Good(g, i)}
  <2>1. 0 \in S
    <3>1. PICK r \in R : TRUE
      OBVIOUS
    <3>2. [x \in D |-> r] \in F
      OBVIOUS
    <3>3. Good([x \in D |-> r], 0)
      OBVIOUS
    <3> HIDE DEF Good, F
    <3>4. QED
      BY <3>2, <3>3
  <2>2. ASSUME NEW i \in 1..n, i - 1 \in S PROVE i \in S
    <3>1. PICK g \in F : Good(g, i - 1)
      BY <2>2
    <3> DEFINE h == [x \in D |-> body[<<x, g>>]]
    <3>2. h \in F
      OBVIOUS
    <3>3. ASSUME NEW x \in D, rank[x] < i PROVE h[x] = body[<<x, h>>]
      <4>1. ASSUME NEW y \in D, rank[y] < rank[x] PROVE g[y] = h[y]
        <5>1. rank[y] < i - 1
          BY <3>3, <4>1
        <5>2. QED
          BY <3>1, <5>1
      <4> HIDE DEF h
      <4>2. body[<<x, g>>] = body[<<x, h>>]
        BY <4>1, <3>2, Zenon
      <4>3. QED
        BY <4>2 DEF h
    <3> HIDE DEF h
    <3>4. Good(h, i)
      BY <3>3, Zenon
    <3>5. i \in 0..n
      OBVIOUS
    <3> HIDE DEF Good, F
    <3>6. QED
      BY <3>2, <3>4, <3>5
  <2> HIDE DEF S
  <2>3. 0..n \subseteq S
    BY <2>1, <2>2, CountUp
  <2>4. n \in S
    BY <2>3
  <2> HIDE DEF Good, F
  <2>5. QED
    BY <2>4 DEF S
<1>2. ASSUME NEW g \in F, NEW h \in F, NEW n \in Nat, Good(g, n), Good(h, n), NEW z \in D,
             rank[z] < n
      PROVE  g[z] = h[z]
  <2> DEFINE S == {x \in D : rank[x] < n => g[x] = h[x]}
  <2>1. ASSUME NEW x \in D, \A y \in D : rank[y] < rank[x] => y \in S PROVE x \in S
    <3>1. SUFFICES ASSUME rank[x] < n PROVE g[x] = h[x]
      OBVIOUS
    <3>2. \A y \in D : rank[y] < rank[x] => g[y] = h[y]
      BY <2>1, <3>1
    <3>3. body[<<x, g>>] = body[<<x, h>>]
      BY <3>2, Zenon
    <3>4. QED
      BY <1>2, <3>1, <3>3
  <2> HIDE DEF S
  <2>2. D \subseteq S
    BY <2>1, RankInduction
  <2>3. QED
    BY <2>2, <1>2 DEF S
<1> DEFINE G(n) == CHOOSE g \in F : Good(g, n)
           f == [x \in D |-> G(rank[x] + 1)[x]]
<1>3. ASSUME NEW n \in Nat PROVE G(n) \in F /\ Good(G(n), n)
  <2> HIDE DEF Good, F
  <2> QED BY <1>1
<1> HIDE DEF G
<1>4. f \in F
  BY <1>3
<1>5. ASSUME NEW x \in D PROVE f[x] = body[<<x, f>>]
  <2>1. rank[x] + 1 \in Nat /\ rank[x] < rank[x] + 1
    OBVIOUS
  <2>2. PICK g \in F : Good(g, rank[x] + 1) /\ g = G(rank[x] + 1)
    <3> HIDE DEF Good, F
    <3> QED BY <2>1, <1>3
  <2>3. ASSUME NEW y \in D, rank[y] < rank[x] PROVE f[y] = g[y]
    <3>1. rank[y] + 1 \in Nat /\ rank[y] < rank[y] + 1
      OBVIOUS
    <3>2. PICK h \in F : Good(h, rank[y] + 1) /\ h = G(rank[y] + 1)
      <4> HIDE DEF Good, F
      <4> QED BY <3>1, <1>3
    <3>3. Good(g, rank[y] + 1)
      <4> SUFFICES ASSUME NEW z \in D, rank[z] < rank[y] + 1 PROVE g[z] = body[<<z, g>>]
        OBVIOUS
      <4>1. rank[z] < rank[x] + 1
        BY <2>3
      <4>2. QED
        BY <2>2, <4>1
    <3>4. g[y] = h[y]
      <4> HIDE DEF Good, F
      <4> QED BY <2>2, <3>1, <3>2, <3>3, <1>2
    <3>5. QED
      BY <3>4, <3>2
  <2>4. body[<<x, f>>] = body[<<x, g>>]
    <3> HIDE DEF f
    <3> QED BY <2>3, <1>4, Zenon
  <2>5. g[x] = body[<<x, g>>]
    BY <2>1, <2>2
  <2>6. f[x] = g[x]
    BY <2>2
  <2>7. QED
    BY <2>4, <2>5, <2>6
<1>6. Solves(f, D, R, body)
  <2> HIDE DEF f
  <2> QED BY <1>4, <1>5 DEF Solves
<1>7. QED
  BY <1>6, Zenon

(* What a loop holds after i of its N turns. *)
Iterates(f, N, S, a, step) ==
  f \in [0..N -> S] /\ f[0] = a /\ \A i \in 1..N : f[i] = step[<<i, f[i-1]>>]

(* A loop's values exist. *)
LEMMA Loop ==
  ASSUME NEW N \in Nat, NEW S, NEW a \in S, NEW step \in [(1..N) \X S -> S]
  PROVE  \E f : Iterates(f, N, S, a, step)
<1> DEFINE D    == 0..N
           F    == [D -> S]
           rank == [i \in D |-> i]
           body == [p \in D \X F |-> IF p[1] = 0 THEN a ELSE step[<<p[1], p[2][p[1] - 1]>>]]
<1>1. rank \in [D -> Nat]
  OBVIOUS
<1>2. ASSUME NEW i \in D, NEW g \in F
      PROVE  body[<<i, g>>] = IF i = 0 THEN a ELSE step[<<i, g[i-1]>>]
  <2>1. <<i, g>> \in D \X F
    OBVIOUS
  <2>2. QED
    BY <2>1, Zenon
<1>3. body \in [D \X F -> S]
  <2>1. ASSUME NEW p \in D \X F
        PROVE  (IF p[1] = 0 THEN a ELSE step[<<p[1], p[2][p[1] - 1]>>]) \in S
    <3>1. p[1] \in D /\ p[2] \in F
      OBVIOUS
    <3>2. p[1] # 0 => p[1] \in 1..N /\ p[1] - 1 \in D
      BY <3>1
    <3>3. p[1] # 0 => <<p[1], p[2][p[1] - 1]>> \in (1..N) \X S
      BY <3>1, <3>2
    <3>4. QED
      BY <3>3
  <2> QED BY <2>1
<1>4. ASSUME NEW i \in D, NEW g \in F, NEW h \in F, \A j \in D : rank[j] < rank[i] => g[j] = h[j]
      PROVE  body[<<i, g>>] = body[<<i, h>>]
  <2>1. i # 0 => g[i-1] = h[i-1]
    BY <1>4
  <2> HIDE DEF body
  <2>2. QED
    BY <1>2, <2>1
<1> HIDE DEF body, rank, D
<1>5. \A i \in D : \A g, h \in [D -> S] :
        (\A j \in D : rank[j] < rank[i] => g[j] = h[j]) => body[<<i, g>>] = body[<<i, h>>]
  BY <1>4, Zenon
<1>6. S # {}
  OBVIOUS
<1>7. PICK f : Solves(f, D, S, body)
  <2>1. WellRanked(D, S, rank, body)
    BY <1>1, <1>3, <1>5, <1>6 DEF WellRanked
  <2>2. QED
    BY <2>1, Recursion, Zenon
<1>8. ASSUME NEW i \in D PROVE f[i] = IF i = 0 THEN a ELSE step[<<i, f[i-1]>>]
  BY <1>2, <1>7 DEF Solves
<1>9. 0 \in D /\ \A i \in 1..N : i \in D /\ i # 0
  BY DEF D
<1>10. f[0] = a /\ \A i \in 1..N : f[i] = step[<<i, f[i-1]>>]
  BY <1>8, <1>9
<1>11. QED
  BY <1>7, <1>10 DEF D, Solves, Iterates

(* A function on the turns of a loop. *)
CountsTo(f, N) == f = [i \in 0..N |-> f[i]]

(* Two loops that start alike and go on alike are the same. *)
LEMMA LoopUnique ==
  ASSUME NEW N \in Nat, NEW f, NEW g, CountsTo(f, N), CountsTo(g, N),
         f[0] = g[0], \A i \in 1..N : f[i-1] = g[i-1] => f[i] = g[i]
  PROVE  f = g
<1> DEFINE T == {i \in 0..N : f[i] = g[i]}
<1>1. 0 \in T /\ \A i \in 1..N : i - 1 \in T => i \in T
  OBVIOUS
<1>2. 0..N \subseteq T
  <2> HIDE DEF T
  <2> QED BY <1>1, CountUp
<1>3. \A i \in 0..N : f[i] = g[i]
  BY <1>2
<1>4. QED
  BY <1>3, Zenon DEF CountsTo
-----------------------------------------------------------------------------
(* Powers of two, and largestPowerOfTwoLessThan: the split of a tree of n    *)
(* leaves.                                                                   *)

(* The powers of two exist, are positive and double. *)
LEMMA PowerSteps ==
  Power \in [Nat -> Nat \ {0}] /\ Power[0] = 1 /\ \A p \in Nat : Power[p + 1] = 2 * Power[p]
<1> DEFINE f    == Power
           R    == Nat \ {0}
           F    == [Nat -> R]
           rank == [p \in Nat |-> p]
           body == [x \in Nat \X F |-> IF x[1] = 0 THEN 1 ELSE 2 * x[2][x[1] - 1]]
<1>1. ASSUME NEW p \in Nat, NEW g \in F
      PROVE  body[<<p, g>>] = IF p = 0 THEN 1 ELSE 2 * g[p - 1]
  <2>1. <<p, g>> \in Nat \X F
    OBVIOUS
  <2>2. QED
    BY <2>1, Zenon
<1>2. body \in [Nat \X F -> R]
  <2>1. ASSUME NEW x \in Nat \X F PROVE (IF x[1] = 0 THEN 1 ELSE 2 * x[2][x[1] - 1]) \in R
    <3>1. x[1] \in Nat /\ x[2] \in F
      OBVIOUS
    <3>2. x[1] # 0 => x[2][x[1] - 1] \in R
      BY <3>1
    <3>3. QED
      BY <3>2
  <2>2. QED
    BY <2>1
<1>3. ASSUME NEW p \in Nat, NEW g \in F, NEW h \in F, \A q \in Nat : rank[q] < rank[p]
               => g[q] = h[q]
      PROVE  body[<<p, g>>] = body[<<p, h>>]
  <2>1. p # 0 => g[p - 1] = h[p - 1]
    BY <1>3
  <2> HIDE DEF body
  <2>2. QED
    BY <1>1, <2>1
<1> HIDE DEF body
<1>4. WellRanked(Nat, R, rank, body)
  <2>1. R # {} /\ rank \in [Nat -> Nat]
    OBVIOUS
  <2> HIDE DEF rank, R
  <2>2. \A p \in Nat : \A g, h \in F :
          (\A q \in Nat : rank[q] < rank[p] => g[q] = h[q]) => body[<<p, g>>] = body[<<p, h>>]
    BY <1>3, Zenon
  <2>3. QED
    BY <1>2, <2>1, <2>2 DEF WellRanked
<1>5. PICK g : Solves(g, Nat, R, body)
  BY <1>4, Recursion, Zenon
<1>6. g \in F /\ g = [p \in Nat |-> IF p = 0 THEN 1 ELSE 2 * g[p - 1]]
  BY <1>1, <1>5 DEF Solves
<1>7. f = [p \in Nat |-> IF p = 0 THEN 1 ELSE 2 * f[p - 1]]
  BY <1>6, Zenon DEF Power
<1> HIDE DEF f
<1>8. \A p \in Nat : f[p] = IF p = 0 THEN 1 ELSE 2 * f[p - 1]
  BY <1>7, Zenon
<1>9. ASSUME NEW N \in Nat PROVE f[N] \in R
  <2> DEFINE T == {p \in 0..N : f[p] \in R}
  <2>1. 0 \in T /\ \A p \in 1..N : p - 1 \in T => p \in T
    BY <1>8
  <2>2. 0..N \subseteq T
    <3> HIDE DEF T
    <3> QED BY <2>1, CountUp
  <2>3. QED
    BY <2>2
<1>10. f \in F
  BY <1>7, <1>9
<1>11. QED
  BY <1>8, <1>10 DEF f

(* The product of two powers of two is the one of their sum. *)
LEMMA PowerSum == ASSUME NEW r \in Nat, NEW p \in Nat PROVE Power[r + p] = Power[r] * Power[p]
<1> DEFINE T == {i \in 0..r : Power[i + p] = Power[i] * Power[p]}
<1>1. 0 \in T
  BY PowerSteps
<1>2. ASSUME NEW i \in 1..r, i - 1 \in T PROVE i \in T
  <2> DEFINE j == i - 1
  <2>1. j \in Nat /\ i = j + 1 /\ Power[j + p] = Power[j] * Power[p]
    BY <1>2
  <2> HIDE DEF j
  <2>2. Power[(j + p) + 1] = 2 * Power[j + p] /\ Power[j + 1] = 2 * Power[j]
    BY <2>1, PowerSteps
  <2>3. (j + p) + 1 = i + p
    BY <2>1
  <2> DEFINE a == Power[j]
             b == Power[p]
  <2>4. a \in Nat /\ b \in Nat
    BY <2>1, PowerSteps
  <2>5. Power[i + p] = 2 * (a * b) /\ Power[i] = 2 * a
    BY <2>1, <2>2, <2>3
  <2> HIDE DEF a, b
  <2>6. 2 * (a * b) = (2 * a) * b
    BY <2>4
  <2>7. QED
    BY <2>5, <2>6 DEF b
<1>3. 0..r \subseteq T
  <2> HIDE DEF T
  <2> QED BY <1>1, <1>2, CountUp
<1>4. QED
  BY <1>3

(* A higher power is at least twice a lower one, and only a higher one is    *)
(* larger.                                                                   *)
LEMMA PowerGrows ==
  ASSUME NEW p \in Nat, NEW q \in Nat
  PROVE  (p < q => 2 * Power[p] <= Power[q]) /\ (Power[p] < Power[q] => p < q)
<1>1. ASSUME NEW x \in Nat, NEW y \in Nat, x < y PROVE 2 * Power[x] <= Power[y]
  <2> DEFINE r == y - x - 1
             a == Power[r]
             b == Power[x + 1]
  <2>1. r \in Nat /\ r + (x + 1) = y /\ x + 1 \in Nat
    BY <1>1
  <2>2. Power[y] = a * b
    BY <2>1, PowerSum
  <2>3. a \in Nat /\ a >= 1 /\ b \in Nat /\ b = 2 * Power[x]
    BY <2>1, PowerSteps
  <2> HIDE DEF a, b
  <2>4. b <= a * b
    BY <2>3
  <2>5. QED
    BY <2>2, <2>3, <2>4
<1>2. ASSUME Power[p] < Power[q] PROVE p < q
  <2>1. Power[p] \in Nat /\ Power[q] \in Nat
    BY PowerSteps
  <2>2. q < p => 2 * Power[q] <= Power[p]
    BY <1>1
  <2>3. p # q
    BY <1>2, <2>1
  <2>4. QED
    BY <1>2, <2>1, <2>2, <2>3
<1>3. QED
  BY <1>1, <1>2

(* Every number has a power of two above it. *)
LEMMA PowerAbove == ASSUME NEW n \in Nat PROVE n < Power[n]
<1> DEFINE T == {i \in 0..n : i < Power[i]}
<1>1. 0 \in T
  BY PowerSteps
<1>2. ASSUME NEW i \in 1..n, i - 1 \in T PROVE i \in T
  <2> DEFINE j == i - 1
  <2>1. j \in Nat /\ i = j + 1 /\ j < Power[j]
    BY <1>2
  <2> HIDE DEF j
  <2>2. Power[i] = 2 * Power[j] /\ Power[j] \in Nat
    BY <2>1, PowerSteps
  <2>3. QED
    BY <2>1, <2>2
<1>3. 0..n \subseteq T
  <2> HIDE DEF T
  <2> QED BY <1>1, <1>2, CountUp
<1>4. QED
  BY <1>3

(* largestPowerOfTwoLessThan finds a power of two below n that is at least   *)
(* half of it,                                                               *)
LEMMA SplitIs ==
  ASSUME NEW n \in Nat, n >= 2
  PROVE  \E p \in Nat : Split(n) = Power[p] /\ Power[p] < n /\ n <= 2 * Power[p]
<1> DEFINE far == {p \in Nat : n <= 2 * Power[p]}
           K   == {Power[p] : p \in 0..n}
           Good(k) == k < n /\ 2 * k >= n
<1>1. n \in far
  BY PowerAbove, PowerSteps
<1>2. PICK p \in far : \A q \in far : p <= q
  BY <1>1, LeastNat
<1>3. p \in 0..n /\ n <= 2 * Power[p] /\ Power[p] \in Nat
  BY <1>1, <1>2, PowerSteps
<1>4. Power[p] < n
  <2>1. CASE p = 0
    BY <2>1, PowerSteps
  <2>2. CASE p # 0
    <3>1. p - 1 \in Nat /\ p - 1 \notin far
      BY <1>2, <1>3, <2>2
    <3>2. 2 * Power[p - 1] = Power[(p - 1) + 1] /\ (p - 1) + 1 = p
      BY <3>1, PowerSteps
    <3>3. Power[p - 1] \in Nat
      BY <3>1, PowerSteps
    <3>4. QED
      BY <3>1, <3>2, <3>3
  <2>3. QED
    BY <2>1, <2>2
<1>5. Power[p] \in K /\ Good(Power[p])
  BY <1>3, <1>4
<1>6. Split(n) \in K /\ Good(Split(n))
  <2> HIDE DEF K
  <2> QED BY <1>5, Zenon DEF Split, K
<1>7. PICK q \in 0..n : Split(n) = Power[q]
  BY <1>6
<1>8. QED
  BY <1>6, <1>7, PowerSteps

(* and there is only one. *)
LEMMA SplitOnly ==
  ASSUME NEW n \in Nat, NEW p \in Nat, Power[p] < n, n <= 2 * Power[p]
  PROVE  Split(n) = Power[p]
<1>1. Power[p] \in Nat /\ Power[p] >= 1
  BY PowerSteps
<1>2. PICK q \in Nat : Split(n) = Power[q] /\ Power[q] < n /\ n <= 2 * Power[q]
  BY <1>1, SplitIs
<1>3. Power[q] \in Nat
  BY PowerSteps
<1>4. ~(p < q) /\ ~(q < p)
  <2>1. (p < q => 2 * Power[p] <= Power[q]) /\ (q < p => 2 * Power[q] <= Power[p])
    BY PowerGrows
  <2>2. QED
    BY <1>1, <1>2, <1>3, <2>1
<1>5. QED
  BY <1>2, <1>4
-----------------------------------------------------------------------------
(* Cutting a sequence in two, as the tree is cut at its split. *)

(* The first k elements of a sequence and the rest: their lengths and        *)
(* elements.                                                                 *)
LEMMA Cuts ==
  ASSUME NEW S, NEW d \in Seq(S), NEW k \in 0..Len(d)
  PROVE  /\ Prefix(d, k) \in Seq(S) /\ Len(Prefix(d, k)) = k
         /\ Rest(d, k) \in Seq(S) /\ Len(Rest(d, k)) = Len(d) - k
         /\ \A i \in 1..k : Prefix(d, k)[i] = d[i]
         /\ \A i \in 1..(Len(d) - k) : Rest(d, k)[i] = d[k + i]
<1>1. Prefix(d, k) \in Seq(S) /\ Len(Prefix(d, k)) = k /\ \A i \in 1..k : Prefix(d, k)[i] = d[i]
  BY DEF Prefix
<1>2. Rest(d, k) \in Seq(S) /\ Len(Rest(d, k)) = Len(d) - k
  BY DEF Rest
<1>3. \A i \in 1..(Len(d) - k) : Rest(d, k)[i] = d[k + i]
  BY DEF Rest
<1>4. QED
  BY <1>1, <1>2, <1>3

(* A sequence is empty, has one element, or at least two. *)
LEMMA Lengths ==
  ASSUME NEW S, NEW d \in Seq(S)
  PROVE  Len(d) \in Nat /\ (d # <<>> /\ Len(d) # 1 => Len(d) >= 2) /\ (d = <<>> <=> Len(d) = 0)
<1>1. Len(d) \in Nat /\ Len(<<>>) = 0
  OBVIOUS
<1>2. d # <<>> => Len(d) # 0
  BY EmptySeq
<1>3. d = <<>> => Len(d) = 0
  BY <1>1, Zenon
<1> DEFINE n == Len(d)
           none == d = <<>>
<1> HIDE DEF n, none
<1>4. n \in Nat /\ (~none => n # 0) /\ (none => n = 0)
  BY <1>1, <1>2, <1>3, Zenon DEF n, none
<1>5. n \in Nat /\ (~none /\ n # 1 => n >= 2) /\ (none <=> n = 0)
  BY <1>4
<1>6. QED
  BY <1>5, Zenon DEF n, none

(* Both halves of a tree of two leaves or more are smaller, and not empty. *)
LEMMA Halves ==
  ASSUME NEW S, NEW d \in Seq(S), Len(d) >= 2
  PROVE  LET k == Split(Len(d)) IN
           /\ k \in 1..(Len(d) - 1) /\ k \in Nat /\ Len(d) - k \in Nat /\ Len(d) - k < Len(d)
           /\ Prefix(d, k) \in Seq(S) /\ Len(Prefix(d, k)) = k
           /\ Rest(d, k) \in Seq(S) /\ Len(Rest(d, k)) = Len(d) - k
<1> DEFINE k == Split(Len(d))
<1>1. PICK p \in Nat : k = Power[p] /\ Power[p] < Len(d)
  BY SplitIs
<1>2. Power[p] \in Nat \ {0}
  BY PowerSteps
<1>3. k \in 1..(Len(d) - 1) /\ k \in 0..Len(d) /\ Len(d) \in Nat
  BY <1>1, <1>2
<1> HIDE DEF k
<1>4. Prefix(d, k) \in Seq(S) /\ Len(Prefix(d, k)) = k /\ Rest(d, k) \in Seq(S)
        /\ Len(Rest(d, k)) = Len(d) - k
  BY <1>3, Cuts
<1>5. QED
  BY <1>3, <1>4 DEF k

(* The hash of two trees and that of the empty tree are words. *)
LEMMA WordTypes ==
  /\ EmptyRoot \in Word
  /\ \A l, r \in Word : NodeHash(l, r) \in Word
<1>1. EmptyRoot \in Word
  BY DEF EmptyRoot, Word
<1>2. ASSUME NEW l \in Word, NEW r \in Word PROVE NodeHash(l, r) \in Word
  <2>1. <<1>> \in Word
    BY DEF Word
  <2>2. <<1>> \o l \in Word
    BY <2>1, ConcatProperties DEF Word
  <2>3. QED
    BY <2>2, ConcatProperties DEF Word, NodeHash
<1>3. QED
  BY <1>1, <1>2
-----------------------------------------------------------------------------
(* The recursive functions of module Merkle exist, and satisfy their         *)
(* equations: merkleTreeHash, inclusionPathLen, inclusionPath, subProof and  *)
(* the two inner loops of the verifiers.                                     *)

(* merkleTreeHash is defined for all leaves, and does what its code says. *)
LEMMA TreeHashSteps ==
  /\ TreeHash \in [Seq(Word) -> Word] /\ TreeHash[<<>>] = EmptyRoot
  /\ \A d \in Seq(Word) : Len(d) = 1 => TreeHash[d] = d[1]
  /\ \A d \in Seq(Word) : Len(d) >= 2 =>
       TreeHash[d] = NodeHash(TreeHash[Prefix(d, Split(Len(d)))],
       TreeHash[Rest(d, Split(Len(d)))])
<1> DEFINE D    == Seq(Word)
           F    == [D -> Word]
           f    == TreeHash
           rank == [d \in D |-> Len(d)]
           Two(d, g) == NodeHash(g[Prefix(d, Split(Len(d)))], g[Rest(d, Split(Len(d)))])
           Body(d, g) == IF d = <<>> THEN EmptyRoot ELSE IF Len(d) = 1 THEN d[1] ELSE Two(d, g)
           body == [x \in D \X F |-> Body(x[1], x[2])]
<1>0. ASSUME NEW d \in D
      PROVE Len(d) \in Nat /\ (d # <<>> /\ Len(d) # 1 => Len(d) >= 2) /\ (d = <<>> <=> Len(d) = 0)
  BY Lengths
<1>1. ASSUME NEW d \in D, NEW g, NEW h,
             \A e \in D : Len(e) < Len(d) => g[e] = h[e] /\ h[e] \in Word
      PROVE  Body(d, g) = Body(d, h) /\ Body(d, h) \in Word
  <2>1. CASE d = <<>>
    BY <2>1, WordTypes
  <2>2. CASE Len(d) = 1
    <3>1. d[1] \in Word /\ d # <<>>
      BY <2>2
    <3>2. QED
      BY <2>2, <3>1
  <2>3. CASE d # <<>> /\ Len(d) # 1
    <3> DEFINE a == Prefix(d, Split(Len(d)))
               b == Rest(d, Split(Len(d)))
    <3>1. Len(d) >= 2
      BY <1>0, <2>3
    <3>2. a \in D /\ b \in D /\ Len(a) < Len(d) /\ Len(b) < Len(d)
      BY <3>1, Halves
    <3> HIDE DEF a, b
    <3>3. g[a] = h[a] /\ g[b] = h[b] /\ h[a] \in Word /\ h[b] \in Word
      BY <1>1, <3>2
    <3>4. Two(d, g) = Two(d, h) /\ Two(d, h) \in Word
      BY <3>3, WordTypes, Zenon DEF a, b
    <3> HIDE DEF Two
    <3>5. QED
      BY <2>3, <3>4
  <2>4. QED
    BY <2>1, <2>2, <2>3
<1> HIDE DEF Body
<1>2. ASSUME NEW d \in D, NEW g \in F PROVE body[<<d, g>>] = Body(d, g) /\ Body(d, g) \in Word
  <2>1. <<d, g>> \in D \X F
    OBVIOUS
  <2>2. body[<<d, g>>] = Body(d, g)
    BY <2>1, Zenon
  <2>3. Body(d, g) \in Word
    BY <1>1
  <2>4. QED
    BY <2>2, <2>3
<1>3. body \in [D \X F -> Word]
  <2>1. ASSUME NEW x \in D \X F PROVE Body(x[1], x[2]) \in Word
    <3>1. x[1] \in D /\ x[2] \in F
      OBVIOUS
    <3>2. QED
      BY <1>2, <3>1
  <2>2. QED
    BY <2>1
<1> HIDE DEF body
<1>4. WellRanked(D, Word, rank, body)
  <2>1. Word # {} /\ rank \in [D -> Nat]
    BY <1>0, WordTypes
  <2>2. ASSUME NEW d \in D, NEW g \in F, NEW h \in F, \A e \in D : rank[e] < rank[d]
                 => g[e] = h[e]
        PROVE  body[<<d, g>>] = body[<<d, h>>]
    <3>1. \A e \in D : Len(e) < Len(d) => g[e] = h[e] /\ h[e] \in Word
      BY <2>2
    <3>2. Body(d, g) = Body(d, h)
      BY <1>1, <3>1
    <3>3. QED
      BY <1>2, <3>2
  <2> HIDE DEF rank, D
  <2>3. \A d \in D : \A g, h \in [D -> Word] :
          (\A e \in D : rank[e] < rank[d] => g[e] = h[e]) => body[<<d, g>>] = body[<<d, h>>]
    BY <2>2, Zenon
  <2>4. QED
    BY <1>3, <2>1, <2>3 DEF WellRanked
<1>5. PICK g : Solves(g, D, Word, body)
  BY <1>4, Recursion, Zenon
<1>6. g \in F /\ g = [d \in D |-> Body(d, g)]
  BY <1>2, <1>5 DEF Solves
<1>7. \A d, h : Body(d, h) = CASE d = <<>>   -> EmptyRoot
                               [] Len(d) = 1 -> d[1]
                               [] OTHER      -> Two(d, h)
  <2>1. Len(<<>>) = 0
    OBVIOUS
  <2>2. QED
    BY <2>1 DEF Body
<1>8. f = [d \in D |-> Body(d, f)]
  <2>1. g = [d \in D |-> CASE d = <<>>   -> EmptyRoot
                           [] Len(d) = 1 -> d[1]
                           [] OTHER      -> Two(d, g)]
    BY <1>6, <1>7, Zenon
  <2>2. f = [d \in D |-> CASE d = <<>>   -> EmptyRoot
                           [] Len(d) = 1 -> d[1]
                           [] OTHER      -> Two(d, f)]
    BY <2>1, Zenon DEF TreeHash
  <2>3. QED
    BY <1>7, <2>2, Zenon
<1> HIDE DEF f
<1>9. \A d \in D : f[d] = Body(d, f)
  BY <1>8, Zenon
<1>10. D \subseteq {d \in D : f[d] \in Word}
  <2> DEFINE S == {d \in D : f[d] \in Word}
  <2>1. ASSUME NEW d \in D, \A e \in D : rank[e] < rank[d] => e \in S PROVE d \in S
    <3>1. \A e \in D : Len(e) < Len(d) => f[e] \in Word
      BY <2>1
    <3>2. Body(d, f) \in Word
      BY <1>1, <3>1
    <3>3. QED
      BY <1>9, <3>2
  <2>2. rank \in [D -> Nat]
    BY <1>0
  <2> HIDE DEF S, D, rank
  <2>3. QED
    <3>1. D \subseteq S
      BY <2>1, <2>2, RankInduction
    <3>2. QED
      BY <3>1 DEF S
<1>11. f \in F
  BY <1>8, <1>10
<1>12. <<>> \in D /\ f[<<>>] = EmptyRoot
  <2>1. <<>> \in D
    OBVIOUS
  <2>2. QED
    BY <1>9, <2>1, Zenon DEF Body
<1>13. ASSUME NEW d \in D, Len(d) = 1 PROVE f[d] = d[1]
  BY <1>0, <1>9, <1>13 DEF Body
<1>14. ASSUME NEW d \in D, Len(d) >= 2 PROVE f[d] = Two(d, f)
  <2> HIDE DEF Two
  <2>1. Len(d) # 0 /\ Len(d) # 1 /\ d # <<>>
    <3> DEFINE n == Len(d)
    <3>1. n \in Nat /\ n >= 2 /\ (d = <<>> <=> n = 0)
      BY <1>0, <1>14, Zenon
    <3> HIDE DEF n
    <3>2. n # 0 /\ n # 1
      BY <3>1
    <3>3. QED
      BY <3>1, <3>2, Zenon DEF n
  <2>2. QED
    BY <1>9, <2>1 DEF Body
<1>15. QED
  BY <1>11, <1>12, <1>13, <1>14 DEF f

(* A recursive function that calls itself once, with an argument of lower    *)
(* rank, unless it stops;                                                    *)
CallsDown(D, rank, stop, down) ==
  rank \in [D -> Nat] /\ down \in [D -> D] /\ \A x \in D : x \in stop \/ rank[down[x]] < rank[x]
(* and what it computes from that call. *)
Calls(f, D, R, stop, base, down, up) ==
  f \in [D -> R] /\ \A x \in D : f[x] = IF x \in stop THEN base[x] ELSE up[<<x, f[down[x]]>>]

(* Such a function exists. *)
LEMMA OneCall ==
  ASSUME NEW D, NEW R, R # {}, NEW rank, NEW stop, NEW base \in [D -> R], NEW down,
         NEW up \in [D \X R -> R],
         CallsDown(D, rank, stop, down)
  PROVE  \E f : Calls(f, D, R, stop, base, down, up)
<1> DEFINE F == [D -> R]
           Body(x, g) == IF x \in stop THEN base[x] ELSE up[<<x, g[down[x]]>>]
           body == [y \in D \X F |-> Body(y[1], y[2])]
<1>0. rank \in [D -> Nat] /\ down \in [D -> D] /\ \A x \in D : x \in stop
        \/ rank[down[x]] < rank[x]
  BY DEF CallsDown
<1>1. ASSUME NEW x \in D, NEW g \in F PROVE Body(x, g) \in R
  BY <1>0
<1>2. ASSUME NEW x \in D, NEW g \in F, NEW h \in F, \A y \in D : rank[y] < rank[x] => g[y] = h[y]
      PROVE  Body(x, g) = Body(x, h)
  BY <1>0, <1>2
<1> HIDE DEF Body
<1>3. ASSUME NEW x \in D, NEW g \in F PROVE body[<<x, g>>] = Body(x, g)
  <2>1. <<x, g>> \in D \X F
    OBVIOUS
  <2>2. QED
    BY <2>1, Zenon
<1>4. body \in [D \X F -> R]
  BY <1>1
<1> HIDE DEF body
<1>5. \A x \in D : \A g, h \in [D -> R] :
        (\A y \in D : rank[y] < rank[x] => g[y] = h[y]) => body[<<x, g>>] = body[<<x, h>>]
  <2>1. ASSUME NEW x \in D, NEW g \in F, NEW h \in F, \A y \in D : rank[y] < rank[x]
                 => g[y] = h[y]
        PROVE  body[<<x, g>>] = body[<<x, h>>]
    <3>1. Body(x, g) = Body(x, h)
      BY <1>2, <2>1, Zenon
    <3>2. QED
      BY <1>3, <3>1
  <2>2. QED
    BY <2>1, Zenon
<1>6. WellRanked(D, R, rank, body)
  BY <1>0, <1>4, <1>5 DEF WellRanked
<1>7. PICK f : Solves(f, D, R, body)
  BY <1>6, Recursion, Zenon
<1>8. f \in F /\ \A x \in D : f[x] = Body(x, f)
  BY <1>3, <1>7 DEF Solves
<1>9. Calls(f, D, R, stop, base, down, up)
  BY <1>8, Zenon DEF Calls, Body
<1>10. QED
  BY <1>9, Zenon

(* It returns a value of R if its call does. *)
KeepsType(f, D, R, stop, down) == \A x \in D : x \in stop \/ f[down[x]] \in R => f[x] \in R

(* Then it returns a value of R for every argument. *)
LEMMA OneCallType ==
  ASSUME NEW D, NEW R, NEW rank, NEW stop, NEW down, CallsDown(D, rank, stop, down), NEW f,
         KeepsType(f, D, R, stop, down)
  PROVE  \A x \in D : f[x] \in R
<1> DEFINE S == {x \in D : f[x] \in R}
<1>1. rank \in [D -> Nat] /\ down \in [D -> D] /\ \A x \in D : x \in stop
        \/ rank[down[x]] < rank[x]
  BY DEF CallsDown
<1>2. ASSUME NEW x \in D, \A y \in D : rank[y] < rank[x] => y \in S PROVE x \in S
  BY <1>1, <1>2 DEF KeepsType
<1>3. D \subseteq S
  <2> HIDE DEF S
  <2> QED BY <1>1, <1>2, RankInduction
<1>4. QED
  BY <1>3

(* inclusionPathLen is a number for every index and size, and recurs as      *)
(* written.                                                                  *)
LEMMA PathLenSteps ==
  /\ PathLen \in [Nat \X Nat -> Nat]
  /\ \A m, n \in Nat :
       /\ n <= 1 => PathLen[<<m, n>>] = 0
       /\ n >= 2 => PathLen[<<m, n>>] = 1 + IF m < Split(n) THEN PathLen[<<m, Split(n)>>]
                                            ELSE PathLen[<<m - Split(n), n - Split(n)>>]
<1> DEFINE D    == Nat \X Nat
           f    == PathLen
           stop == {x \in D : x[2] <= 1}
           Less(x) == IF x[1] < Split(x[2]) THEN <<x[1], Split(x[2])>>
                      ELSE <<x[1] - Split(x[2]), x[2] - Split(x[2])>>
           down == [x \in D |-> IF x \in stop THEN x ELSE Less(x)]
           rank == [x \in D |-> x[2]]
           base == [x \in D |-> 0]
           up   == [y \in D \X Nat |-> 1 + y[2]]
<1>1. ASSUME NEW x \in D, x \notin stop PROVE Less(x) \in D /\ rank[Less(x)] < rank[x]
  <2> DEFINE k == Split(x[2])
             m == x[1]
             n == x[2]
  <2>1. m \in Nat /\ n \in Nat /\ n >= 2
    BY <1>1
  <2>2. PICK p \in Nat : k = Power[p] /\ Power[p] < n
    BY <2>1, SplitIs
  <2>3. k \in Nat /\ k >= 1 /\ k < n
    BY <2>2, PowerSteps
  <2>4. /\ <<m, k>> \in D /\ <<m, k>>[2] = k
        /\ m >= k => <<m - k, n - k>> \in D /\ <<m - k, n - k>>[2] = n - k
    BY <2>1, <2>3
  <2>5. rank[x] = n
    OBVIOUS
  <2> HIDE DEF k, m, n, D
  <2>6. CASE m < k
    <3>1. rank[<<m, k>>] = k
      BY <2>4
    <3>2. Less(x) = <<m, k>>
      BY <2>6, Zenon DEF m, n, k
    <3> HIDE DEF Less, rank
    <3>3. QED
      BY <2>3, <2>4, <2>5, <3>1, <3>2
  <2>7. CASE ~(m < k)
    <3>1. m >= k
      BY <2>1, <2>3, <2>7
    <3>2. rank[<<m - k, n - k>>] = n - k
      BY <2>4, <3>1
    <3>3. Less(x) = <<m - k, n - k>>
      BY <2>7, Zenon DEF m, n, k
    <3> HIDE DEF Less, rank
    <3>4. n - k < n
      BY <2>1, <2>3
    <3>5. QED
      BY <2>4, <2>5, <3>1, <3>2, <3>3, <3>4
  <2>8. QED
    BY <2>6, <2>7
<1>2. base \in [D -> Nat] /\ up \in [D \X Nat -> Nat] /\ Nat # {}
  OBVIOUS
<1>3. CallsDown(D, rank, stop, down)
  <2>1. rank \in [D -> Nat]
    OBVIOUS
  <2> HIDE DEF Less
  <2>2. down \in [D -> D]
    BY <1>1
  <2>3. \A x \in D : x \in stop \/ rank[down[x]] < rank[x]
    <3> HIDE DEF stop, rank, D
    <3> QED BY <1>1
  <2> HIDE DEF rank, down, stop, D
  <2>4. QED
    BY <2>1, <2>2, <2>3 DEF CallsDown
<1>4. PICK g : Calls(g, D, Nat, stop, base, down, up)
  <2> HIDE DEF rank, down, stop, D, base, up
  <2> QED BY <1>2, <1>3, OneCall
<1> DEFINE Body(x, h) == LET m == x[1] n == x[2] k == Split(n) IN
                           IF n <= 1 THEN 0
                           ELSE 1 + IF m < k THEN h[<<m, k>>] ELSE h[<<m - k, n - k>>]
<1>5. ASSUME NEW x \in D, NEW h
      PROVE  Body(x, h) = IF x \in stop THEN 0 ELSE 1 + h[Less(x)]
  OBVIOUS
<1>6. g \in [D -> Nat] /\ \A x \in D : g[x] = IF x \in stop THEN base[x]
        ELSE up[<<x, g[down[x]]>>]
  BY <1>4, Zenon DEF Calls
<1>7. ASSUME NEW x \in D PROVE g[x] = IF x \in stop THEN 0 ELSE 1 + g[Less(x)]
  <2> HIDE DEF Less, D, stop
  <2>1. x \notin stop => down[x] = Less(x) /\ Less(x) \in D
    BY <1>1
  <2>2. base[x] = 0
    OBVIOUS
  <2> HIDE DEF down
  <2>3. x \notin stop => up[<<x, g[Less(x)]>>] = 1 + g[Less(x)]
    BY <1>6, <2>1
  <2> HIDE DEF up, base
  <2>4. QED
    BY <1>6, <2>1, <2>2, <2>3
<1>8. g = [x \in D |-> Body(x, g)]
  <2>1. g = [x \in D |-> g[x]]
    BY <1>6, Zenon
  <2>2. \A x \in D : g[x] = Body(x, g)
    <3> HIDE DEF Body, Less, stop, D
    <3> QED BY <1>5, <1>7
  <2> HIDE DEF Body, D
  <2>3. QED
    BY <2>1, <2>2, Zenon
<1>9. f = [x \in D |-> Body(x, f)]
  BY <1>8, Zenon DEF PathLen
<1> HIDE DEF f
<1>10. ASSUME NEW x \in D PROVE f[x] = IF x \in stop THEN 0 ELSE 1 + f[Less(x)]
  <2> HIDE DEF Body, Less, stop
  <2>1. f[x] = Body(x, f)
    BY <1>9, Zenon
  <2>2. QED
    BY <1>5, <2>1, Zenon
<1>11. \A x \in D : f[x] \in Nat
  <2> HIDE DEF Less
  <2>1. \A x \in D : x \notin stop => down[x] = Less(x)
    OBVIOUS
  <2> HIDE DEF D, stop, down, rank
  <2>2. \A x \in D : x \in stop \/ f[down[x]] \in Nat => f[x] \in Nat
    BY <1>10, <2>1
  <2>3. KeepsType(f, D, Nat, stop, down)
    BY <2>2, Zenon DEF KeepsType
  <2>4. QED
    BY <1>3, <2>3, OneCallType, Zenon
<1>12. f \in [D -> Nat]
  <2> HIDE DEF Body
  <2> QED BY <1>9, <1>11
<1>13. ASSUME NEW m \in Nat, NEW n \in Nat
       PROVE  /\ n <= 1 => f[<<m, n>>] = 0
              /\ n >= 2 => f[<<m, n>>] = 1 + IF m < Split(n) THEN f[<<m, Split(n)>>]
                                           ELSE f[<<m - Split(n), n - Split(n)>>]
  <2> DEFINE x == <<m, n>>
  <2>1. x \in D /\ x[1] = m /\ x[2] = n
    OBVIOUS
  <2> HIDE DEF x
  <2>2. f[x] = IF x \in stop THEN 0 ELSE 1 + f[Less(x)]
    BY <1>10, <2>1
  <2>3. (n <= 1 => x \in stop) /\ (n >= 2 => x \notin stop)
    BY <2>1
  <2>4. Less(x) = IF m < Split(n) THEN <<m, Split(n)>> ELSE <<m - Split(n), n - Split(n)>>
    BY <2>1
  <2> HIDE DEF stop, Less
  <2>5. QED
    BY <2>2, <2>3, <2>4, Zenon DEF x
<1>14. QED
  BY <1>12, <1>13 DEF f

(* The inner loop over the levels of an edge ends, for any index. *)
LEMMA EdgeSteps ==
  /\ Edge \in [Nat \X Nat -> Nat \X Nat]
  /\ \A a, b \in Nat :
       Edge[<<a, b>>] = IF a % 2 = 0 /\ a # 0 THEN Edge[<<a \div 2, b \div 2>>] ELSE <<a, b>>
<1> DEFINE D    == Nat \X Nat
           f    == Edge
           More(x) == x[1] % 2 = 0 /\ x[1] # 0
           stop == {x \in D : ~More(x)}
           Less(x) == <<x[1] \div 2, x[2] \div 2>>
           down == [x \in D |-> Less(x)]
           rank == [x \in D |-> x[1]]
           base == [x \in D |-> x]
           up   == [y \in D \X D |-> y[2]]
<1>1. ASSUME NEW x \in D PROVE Less(x) \in D /\ (x \notin stop => rank[Less(x)] < rank[x])
  <2> DEFINE a == x[1]
             b == x[2]
  <2>1. a \in Nat /\ b \in Nat
    OBVIOUS
  <2> HIDE DEF a, b
  <2>2. a \div 2 \in Nat /\ b \div 2 \in Nat /\ (a # 0 => a \div 2 < a)
    BY <2>1
  <2>3. <<a \div 2, b \div 2>> \in D /\ <<a \div 2, b \div 2>>[1] = a \div 2
    BY <2>2
  <2>4. Less(x) = <<a \div 2, b \div 2>>
    BY DEF a, b
  <2>5. x \notin stop => a # 0
    BY <2>1 DEF a
  <2> HIDE DEF Less
  <2>6. rank[Less(x)] = a \div 2 /\ rank[x] = a
    BY <2>3, <2>4 DEF a
  <2> HIDE DEF rank, stop, D
  <2>7. QED
    BY <2>2, <2>3, <2>4, <2>5, <2>6
<1>2. base \in [D -> D] /\ up \in [D \X D -> D]
  OBVIOUS
<1>3. D # {}
  <2>1. <<0, 0>> \in D
    OBVIOUS
  <2>2. QED
    BY <2>1
<1>4. CallsDown(D, rank, stop, down)
  <2>1. rank \in [D -> Nat]
    OBVIOUS
  <2> HIDE DEF Less
  <2>2. down \in [D -> D]
    BY <1>1
  <2>3. \A x \in D : x \in stop \/ rank[down[x]] < rank[x]
    <3> HIDE DEF stop, rank, D
    <3> QED BY <1>1
  <2> HIDE DEF rank, down, stop, D
  <2>4. QED
    BY <2>1, <2>2, <2>3 DEF CallsDown
<1>5. PICK g : Calls(g, D, D, stop, base, down, up)
  <2> HIDE DEF rank, down, stop, D, base, up
  <2> QED BY <1>2, <1>3, <1>4, OneCall
<1> DEFINE Body(x, h) == IF x[1] % 2 = 0 /\ x[1] # 0 THEN h[<<x[1] \div 2, x[2] \div 2>>] ELSE x
<1>6. ASSUME NEW x \in D, NEW h PROVE Body(x, h) = IF x \in stop THEN x ELSE h[Less(x)]
  OBVIOUS
<1>7. g \in [D -> D] /\ \A x \in D : g[x] = IF x \in stop THEN base[x] ELSE up[<<x, g[down[x]]>>]
  BY <1>5, Zenon DEF Calls
<1>8. ASSUME NEW x \in D PROVE g[x] = IF x \in stop THEN x ELSE g[Less(x)]
  <2> HIDE DEF Less, D, stop
  <2>1. down[x] = Less(x) /\ Less(x) \in D /\ base[x] = x
    BY <1>1
  <2> HIDE DEF down
  <2>2. up[<<x, g[Less(x)]>>] = g[Less(x)]
    BY <1>7, <2>1
  <2> HIDE DEF up, base
  <2>3. QED
    BY <1>7, <2>1, <2>2
<1>9. g = [x \in D |-> Body(x, g)]
  <2>1. g = [x \in D |-> g[x]]
    BY <1>7, Zenon
  <2>2. \A x \in D : g[x] = Body(x, g)
    <3> HIDE DEF Body, Less, stop, D
    <3> QED BY <1>6, <1>8
  <2> HIDE DEF Body, D
  <2>3. QED
    BY <2>1, <2>2, Zenon
<1>10. f = [x \in D |-> Body(x, f)]
  BY <1>9, Zenon DEF Edge
<1> HIDE DEF f
<1>11. ASSUME NEW x \in D PROVE f[x] = IF x \in stop THEN x ELSE f[Less(x)]
  <2> HIDE DEF Body, Less, stop
  <2>1. f[x] = Body(x, f)
    BY <1>10, Zenon
  <2>2. QED
    BY <1>6, <2>1, Zenon
<1>12. \A x \in D : f[x] \in D
  <2> HIDE DEF Less
  <2>1. \A x \in D : down[x] = Less(x)
    OBVIOUS
  <2> HIDE DEF D, stop, down, rank
  <2>2. \A x \in D : x \in stop \/ f[down[x]] \in D => f[x] \in D
    BY <1>11, <2>1
  <2>3. KeepsType(f, D, D, stop, down)
    BY <2>2, Zenon DEF KeepsType
  <2>4. QED
    BY <1>4, <2>3, OneCallType, Zenon
<1>13. f \in [D -> D]
  <2> HIDE DEF Body, D
  <2> QED BY <1>10, <1>12
<1>14. ASSUME NEW a \in Nat, NEW b \in Nat
       PROVE  f[<<a, b>>] = IF a % 2 = 0 /\ a # 0 THEN f[<<a \div 2, b \div 2>>] ELSE <<a, b>>
  <2> DEFINE x == <<a, b>>
  <2>1. x \in D /\ x[1] = a /\ x[2] = b
    OBVIOUS
  <2> HIDE DEF x
  <2>2. f[x] = IF x \in stop THEN x ELSE f[Less(x)]
    BY <1>11, <2>1
  <2>3. x \in stop <=> ~(a % 2 = 0 /\ a # 0)
    BY <2>1
  <2>4. Less(x) = <<a \div 2, b \div 2>>
    BY <2>1
  <2> HIDE DEF stop, Less
  <2>5. QED
    BY <2>2, <2>3, <2>4, Zenon DEF x
<1>15. QED
  BY <1>13, <1>14 DEF f

(* The loop down to the boundary level ends, for any index. *)
LEMMA BoundarySteps ==
  /\ Boundary \in [Nat \X Nat -> Nat \X Nat]
  /\ \A a, b \in Nat :
       Boundary[<<a, b>>] = IF a % 2 = 1 THEN Boundary[<<a \div 2, b \div 2>>] ELSE <<a, b>>
<1> DEFINE D    == Nat \X Nat
           f    == Boundary
           More(x) == x[1] % 2 = 1
           stop == {x \in D : ~More(x)}
           Less(x) == <<x[1] \div 2, x[2] \div 2>>
           down == [x \in D |-> Less(x)]
           rank == [x \in D |-> x[1]]
           base == [x \in D |-> x]
           up   == [y \in D \X D |-> y[2]]
<1>1. ASSUME NEW x \in D PROVE Less(x) \in D /\ (x \notin stop => rank[Less(x)] < rank[x])
  <2> DEFINE a == x[1]
             b == x[2]
  <2>1. a \in Nat /\ b \in Nat
    OBVIOUS
  <2> HIDE DEF a, b
  <2>2. a \div 2 \in Nat /\ b \div 2 \in Nat /\ (a # 0 => a \div 2 < a)
    BY <2>1
  <2>3. <<a \div 2, b \div 2>> \in D /\ <<a \div 2, b \div 2>>[1] = a \div 2
    BY <2>2
  <2>4. Less(x) = <<a \div 2, b \div 2>>
    BY DEF a, b
  <2>5. x \notin stop => a # 0
    BY <2>1 DEF a
  <2> HIDE DEF Less
  <2>6. rank[Less(x)] = a \div 2 /\ rank[x] = a
    BY <2>3, <2>4 DEF a
  <2> HIDE DEF rank, stop, D
  <2>7. QED
    BY <2>2, <2>3, <2>4, <2>5, <2>6
<1>2. base \in [D -> D] /\ up \in [D \X D -> D]
  OBVIOUS
<1>3. D # {}
  <2>1. <<0, 0>> \in D
    OBVIOUS
  <2>2. QED
    BY <2>1
<1>4. CallsDown(D, rank, stop, down)
  <2>1. rank \in [D -> Nat]
    OBVIOUS
  <2> HIDE DEF Less
  <2>2. down \in [D -> D]
    BY <1>1
  <2>3. \A x \in D : x \in stop \/ rank[down[x]] < rank[x]
    <3> HIDE DEF stop, rank, D
    <3> QED BY <1>1
  <2> HIDE DEF rank, down, stop, D
  <2>4. QED
    BY <2>1, <2>2, <2>3 DEF CallsDown
<1>5. PICK g : Calls(g, D, D, stop, base, down, up)
  <2> HIDE DEF rank, down, stop, D, base, up
  <2> QED BY <1>2, <1>3, <1>4, OneCall
<1> DEFINE Body(x, h) == IF x[1] % 2 = 1 THEN h[<<x[1] \div 2, x[2] \div 2>>] ELSE x
<1>6. ASSUME NEW x \in D, NEW h PROVE Body(x, h) = IF x \in stop THEN x ELSE h[Less(x)]
  OBVIOUS
<1>7. g \in [D -> D] /\ \A x \in D : g[x] = IF x \in stop THEN base[x] ELSE up[<<x, g[down[x]]>>]
  BY <1>5, Zenon DEF Calls
<1>8. ASSUME NEW x \in D PROVE g[x] = IF x \in stop THEN x ELSE g[Less(x)]
  <2> HIDE DEF Less, D, stop
  <2>1. down[x] = Less(x) /\ Less(x) \in D /\ base[x] = x
    BY <1>1
  <2> HIDE DEF down
  <2>2. up[<<x, g[Less(x)]>>] = g[Less(x)]
    BY <1>7, <2>1
  <2> HIDE DEF up, base
  <2>3. QED
    BY <1>7, <2>1, <2>2
<1>9. g = [x \in D |-> Body(x, g)]
  <2>1. g = [x \in D |-> g[x]]
    BY <1>7, Zenon
  <2>2. \A x \in D : g[x] = Body(x, g)
    <3> HIDE DEF Body, Less, stop, D
    <3> QED BY <1>6, <1>8
  <2> HIDE DEF Body, D
  <2>3. QED
    BY <2>1, <2>2, Zenon
<1>10. f = [x \in D |-> Body(x, f)]
  BY <1>9, Zenon DEF Boundary
<1> HIDE DEF f
<1>11. ASSUME NEW x \in D PROVE f[x] = IF x \in stop THEN x ELSE f[Less(x)]
  <2> HIDE DEF Body, Less, stop
  <2>1. f[x] = Body(x, f)
    BY <1>10, Zenon
  <2>2. QED
    BY <1>6, <2>1, Zenon
<1>12. \A x \in D : f[x] \in D
  <2> HIDE DEF Less
  <2>1. \A x \in D : down[x] = Less(x)
    OBVIOUS
  <2> HIDE DEF D, stop, down, rank
  <2>2. \A x \in D : x \in stop \/ f[down[x]] \in D => f[x] \in D
    BY <1>11, <2>1
  <2>3. KeepsType(f, D, D, stop, down)
    BY <2>2, Zenon DEF KeepsType
  <2>4. QED
    BY <1>4, <2>3, OneCallType, Zenon
<1>13. f \in [D -> D]
  <2> HIDE DEF Body, D
  <2> QED BY <1>10, <1>12
<1>14. ASSUME NEW a \in Nat, NEW b \in Nat
       PROVE  f[<<a, b>>] = IF a % 2 = 1 THEN f[<<a \div 2, b \div 2>>] ELSE <<a, b>>
  <2> DEFINE x == <<a, b>>
  <2>1. x \in D /\ x[1] = a /\ x[2] = b
    OBVIOUS
  <2> HIDE DEF x
  <2>2. f[x] = IF x \in stop THEN x ELSE f[Less(x)]
    BY <1>11, <2>1
  <2>3. x \in stop <=> ~(a % 2 = 1)
    BY <2>1
  <2>4. Less(x) = <<a \div 2, b \div 2>>
    BY <2>1
  <2> HIDE DEF stop, Less
  <2>5. QED
    BY <2>2, <2>3, <2>4, Zenon DEF x
<1>15. QED
  BY <1>13, <1>14 DEF f

(* inclusionPath is a sequence of hashes, and recurs as written. *)
LEMMA InclusionPathSteps ==
  /\ InclusionPath \in [Nat \X Seq(Word) -> Seq(Word)]
  /\ \A m \in Nat, d \in Seq(Word) :
       LET k == Split(Len(d)) IN
         /\ Len(d) <= 1 => InclusionPath[<<m, d>>] = <<>>
         /\ Len(d) >= 2 =>
              InclusionPath[<<m, d>>] =
                IF m < k THEN Append(InclusionPath[<<m, Prefix(d, k)>>], TreeHash[Rest(d, k)])
                ELSE Append(InclusionPath[<<m - k, Rest(d, k)>>], TreeHash[Prefix(d, k)])
<1> DEFINE D    == Nat \X Seq(Word)
           R    == Seq(Word)
           f    == InclusionPath
           k(x) == Split(Len(x[2]))
           Left(x) == x[1] < k(x)
           stop == {x \in D : Len(x[2]) <= 1}
           None(x) == <<>>
           Less(x) == IF Left(x) THEN <<x[1], Prefix(x[2], k(x))>>
                      ELSE <<x[1] - k(x), Rest(x[2], k(x))>>
           Node(x) == IF Left(x) THEN TreeHash[Rest(x[2], k(x))] ELSE TreeHash[Prefix(x[2], k(x))]
           down == [x \in D |-> IF x \in stop THEN x ELSE Less(x)]
           rank == [x \in D |-> Len(x[2])]
           base == [x \in D |-> None(x)]
           up   == [y \in D \X R |-> IF y[1] \in stop THEN None(y[1])
                     ELSE Append(y[2], Node(y[1]))]
<1>1. ASSUME NEW x \in D, x \notin stop
      PROVE  Less(x) \in D /\ rank[Less(x)] < rank[x] /\ Node(x) \in Word
  <2> DEFINE d == x[2]
             m == x[1]
             s == Split(Len(d))
             l == Prefix(d, s)
             r == Rest(d, s)
  <2>1. m \in Nat /\ d \in Seq(Word) /\ Len(d) >= 2
    BY <1>1
  <2>2. /\ l \in Seq(Word) /\ r \in Seq(Word) /\ s \in Nat /\ Len(l) = s /\ Len(r) = Len(d) - s
        /\ s \in 1..(Len(d) - 1) /\ Len(d) \in Nat
    BY <2>1, Halves, SMTT(30)
  <2> HIDE DEF d, m, s, l, r
  <2>3. TreeHash[l] \in Word /\ TreeHash[r] \in Word
    BY <2>2, TreeHashSteps
  <2>4. rank[x] = Len(d)
    BY DEF d
  <2>5. CASE m < s
    <3>1. <<m, l>> \in D /\ <<m, l>>[2] = l
      BY <2>1, <2>2
    <3>2. rank[<<m, l>>] = Len(l)
      BY <3>1
    <3>3. Less(x) = <<m, l>> /\ Node(x) = TreeHash[r]
      BY <2>5, Zenon DEF m, d, s, l, r
    <3> HIDE DEF Less, Node, rank, D
    <3>4. QED
      BY <2>2, <2>3, <2>4, <3>1, <3>2, <3>3
  <2>6. CASE ~(m < s)
    <3>1. <<m - s, r>> \in D /\ <<m - s, r>>[2] = r
      BY <2>1, <2>2, <2>6
    <3>2. rank[<<m - s, r>>] = Len(r)
      BY <3>1
    <3>3. Less(x) = <<m - s, r>> /\ Node(x) = TreeHash[l]
      BY <2>6, Zenon DEF m, d, s, l, r
    <3> HIDE DEF Less, Node, rank, D
    <3>4. QED
      BY <2>2, <2>3, <2>4, <3>1, <3>2, <3>3
  <2>7. QED
    BY <2>5, <2>6
<1>2. base \in [D -> R] /\ R # {}
  <2>1. <<>> \in R
    OBVIOUS
  <2> HIDE DEF R, D
  <2>2. QED
    BY <2>1
<1>3. up \in [D \X R -> R]
  <2>1. ASSUME NEW x \in D, NEW q \in R
        PROVE  (IF x \in stop THEN None(x) ELSE Append(q, Node(x))) \in R
    <3>1. x \notin stop => Node(x) \in Word
      BY <1>1
    <3>2. None(x) \in R
      <4>1. base[x] = None(x)
        OBVIOUS
      <4> HIDE DEF base, None, D, R
      <4>2. QED
        BY <1>2, <4>1
    <3> HIDE DEF Node, None, stop
    <3>3. QED
      BY <3>1, <3>2
  <2> HIDE DEF Node, None, stop, D, R
  <2>2. QED
    BY <2>1
<1>4. CallsDown(D, rank, stop, down)
  <2>1. rank \in [D -> Nat]
    OBVIOUS
  <2> HIDE DEF Less
  <2>2. down \in [D -> D]
    <3> HIDE DEF stop, rank, D
    <3> QED BY <1>1
  <2>3. \A x \in D : x \in stop \/ rank[down[x]] < rank[x]
    <3> HIDE DEF stop, rank, D
    <3> QED BY <1>1
  <2> HIDE DEF rank, down, stop, D
  <2>4. QED
    BY <2>1, <2>2, <2>3 DEF CallsDown
<1>5. PICK g : Calls(g, D, R, stop, base, down, up)
  <2> HIDE DEF rank, down, stop, D, base, up, R
  <2> QED BY <1>2, <1>3, <1>4, OneCall
<1> DEFINE Body(x, h) ==
             LET m == x[1] d == x[2]  s == Split(Len(d)) IN
               IF Len(d) <= 1 THEN <<>>
               ELSE IF m < s THEN Append(h[<<m, Prefix(d, s)>>], TreeHash[Rest(d, s)])
               ELSE Append(h[<<m - s, Rest(d, s)>>], TreeHash[Prefix(d, s)])
<1>6. ASSUME NEW x \in D, NEW h
      PROVE  Body(x, h) = IF x \in stop THEN None(x) ELSE Append(h[Less(x)], Node(x))
  <2>1. x \in stop <=> Len(x[2]) <= 1
    OBVIOUS
  <2> HIDE DEF stop
  <2>2. CASE x \in stop
    BY <2>1, <2>2, Zenon
  <2>3. CASE x \notin stop /\ Left(x)
    BY <2>1, <2>3, Zenon
  <2>4. CASE x \notin stop /\ ~Left(x)
    BY <2>1, <2>4, Zenon
  <2> HIDE DEF Left, Body, None, Less, Node
  <2>5. QED
    BY <2>2, <2>3, <2>4
<1>7. g \in [D -> R] /\ \A x \in D : g[x] = IF x \in stop THEN base[x] ELSE up[<<x, g[down[x]]>>]
  BY <1>5, Zenon DEF Calls
<1>8. ASSUME NEW x \in D PROVE g[x] = IF x \in stop THEN None(x) ELSE Append(g[Less(x)], Node(x))
  <2> HIDE DEF Less, D, R, stop, None, Node
  <2>1. x \notin stop => down[x] = Less(x) /\ Less(x) \in D
    BY <1>1
  <2>2. base[x] = None(x)
    OBVIOUS
  <2> HIDE DEF down
  <2>3. x \notin stop => up[<<x, g[Less(x)]>>] = Append(g[Less(x)], Node(x))
    <3> SUFFICES ASSUME x \notin stop PROVE up[<<x, g[Less(x)]>>] = Append(g[Less(x)], Node(x))
      OBVIOUS
    <3>1. g[Less(x)] \in R
      BY <1>7, <2>1
    <3>2. QED
      BY <3>1, Zenon
  <2> HIDE DEF up, base
  <2>4. QED
    BY <1>7, <2>1, <2>2, <2>3
<1>9. g = [x \in D |-> Body(x, g)]
  <2>1. g = [x \in D |-> g[x]]
    BY <1>7, Zenon
  <2>2. \A x \in D : g[x] = Body(x, g)
    <3> HIDE DEF Body, Less, stop, D, None, Node
    <3> QED BY <1>6, <1>8
  <2> HIDE DEF Body, D
  <2>3. QED
    BY <2>1, <2>2, Zenon
<1>10. f = [x \in D |-> Body(x, f)]
  BY <1>9, Zenon DEF InclusionPath
<1> HIDE DEF f
<1>11. ASSUME NEW x \in D PROVE f[x] = IF x \in stop THEN None(x) ELSE Append(f[Less(x)], Node(x))
  <2> HIDE DEF Body, Less, stop, None, Node
  <2>1. f[x] = Body(x, f)
    BY <1>10, Zenon
  <2>2. QED
    BY <1>6, <2>1, Zenon
<1>12. \A x \in D : f[x] \in R
  <2> HIDE DEF Less
  <2>1. \A x \in D : x \notin stop => down[x] = Less(x)
    OBVIOUS
  <2>2. ASSUME NEW x \in D, x \in stop PROVE f[x] \in R
    <3>1. base[x] = None(x)
      OBVIOUS
    <3> HIDE DEF base, None, D, R, stop, Node
    <3>2. QED
      BY <1>2, <1>11, <2>2, <3>1
  <2>3. ASSUME NEW x \in D, x \notin stop, f[Less(x)] \in R PROVE f[x] \in R
    <3>1. Node(x) \in Word
      BY <1>1, <2>3
    <3> HIDE DEF Node, D, stop, None
    <3>2. f[x] = Append(f[Less(x)], Node(x))
      BY <1>11, <2>3
    <3>3. QED
      BY <2>3, <3>1, <3>2
  <2> HIDE DEF D, stop, down, rank, R
  <2>4. \A x \in D : x \in stop \/ f[down[x]] \in R => f[x] \in R
    BY <2>1, <2>2, <2>3
  <2>5. KeepsType(f, D, R, stop, down)
    BY <2>4, Zenon DEF KeepsType
  <2>6. QED
    BY <1>4, <2>5, OneCallType, Zenon
<1>13. f \in [D -> R]
  <2> HIDE DEF Body, D, R
  <2> QED BY <1>10, <1>12
<1>14. ASSUME NEW m \in Nat, NEW d \in Seq(Word)
       PROVE  LET s == Split(Len(d)) IN
         /\ Len(d) <= 1 => f[<<m, d>>] = <<>>
         /\ Len(d) >= 2 =>
              f[<<m, d>>] =
                IF m < s THEN Append(f[<<m, Prefix(d, s)>>], TreeHash[Rest(d, s)])
                ELSE Append(f[<<m - s, Rest(d, s)>>], TreeHash[Prefix(d, s)])
  <2> DEFINE x == <<m, d>>
             s == Split(Len(d))
  <2>1. x \in D /\ x[1] = m /\ x[2] = d
    OBVIOUS
  <2> HIDE DEF x
  <2>2. f[x] = IF x \in stop THEN None(x) ELSE Append(f[Less(x)], Node(x))
    <3> HIDE DEF stop, None, Less, Node, D
    <3> QED BY <1>11, <2>1
  <2>3. (Len(d) <= 1 => x \in stop) /\ (Len(d) >= 2 => x \notin stop)
    <3>1. Len(d) \in Nat
      OBVIOUS
    <3>2. x \in stop <=> Len(d) <= 1
      BY <2>1
    <3> HIDE DEF stop
    <3>3. QED
      BY <3>1, <3>2
  <2>4. None(x) = <<>> /\ (Left(x) <=> m < s)
    BY <2>1, Zenon
  <2>5. Less(x) = IF m < s THEN <<m, Prefix(d, s)>> ELSE <<m - s, Rest(d, s)>>
    BY <2>1, Zenon
  <2>6. Node(x) = IF m < s THEN TreeHash[Rest(d, s)] ELSE TreeHash[Prefix(d, s)]
    BY <2>1, Zenon
  <2> HIDE DEF stop, Less, Node, None, s
  <2>7. Len(d) <= 1 => f[x] = <<>>
    BY <2>2, <2>3, <2>4, Zenon
  <2>8. Len(d) >= 2 => f[x] = IF m < s THEN Append(f[<<m, Prefix(d, s)>>], TreeHash[Rest(d, s)])
                              ELSE Append(f[<<m - s, Rest(d, s)>>], TreeHash[Prefix(d, s)])
    BY <2>2, <2>3, <2>5, <2>6, Zenon
  <2>9. QED
    BY <2>7, <2>8, Zenon DEF x, s
<1>15. QED
  BY <1>13, <1>14, Zenon DEF f

(* subProof is a sequence of hashes, and recurs as written. *)
LEMMA SubProofSteps ==
  /\ SubProof \in [(Nat \ {0}) \X Seq(Word) \X BOOLEAN -> Seq(Word)]
  /\ \A m \in Nat \ {0}, d \in Seq(Word), whole \in BOOLEAN :
       LET k == Split(Len(d)) IN
         /\ m >= Len(d) => SubProof[<<m, d, whole>>] = IF whole THEN <<>> ELSE <<TreeHash[d]>>
         /\ m < Len(d) =>
              SubProof[<<m, d, whole>>] =
                IF m <= k THEN Append(SubProof[<<m, Prefix(d, k), whole>>], TreeHash[Rest(d, k)])
                ELSE Append(SubProof[<<m - k, Rest(d, k), FALSE>>], TreeHash[Prefix(d, k)])
<1> DEFINE D    == (Nat \ {0}) \X Seq(Word) \X BOOLEAN
           R    == Seq(Word)
           f    == SubProof
           k(x) == Split(Len(x[2]))
           Left(x) == x[1] <= k(x)
           stop == {x \in D : x[1] >= Len(x[2])}
           None(x) == IF x[3] THEN <<>> ELSE <<TreeHash[x[2]]>>
           Less(x) == IF Left(x) THEN <<x[1], Prefix(x[2], k(x)), x[3]>>
                      ELSE <<x[1] - k(x), Rest(x[2], k(x)), FALSE>>
           Node(x) == IF Left(x) THEN TreeHash[Rest(x[2], k(x))] ELSE TreeHash[Prefix(x[2], k(x))]
           down == [x \in D |-> IF x \in stop THEN x ELSE Less(x)]
           rank == [x \in D |-> Len(x[2])]
           base == [x \in D |-> None(x)]
           up   == [y \in D \X R |-> IF y[1] \in stop THEN None(y[1])
                     ELSE Append(y[2], Node(y[1]))]
<1>1. ASSUME NEW x \in D, x \notin stop
      PROVE  Less(x) \in D /\ rank[Less(x)] < rank[x] /\ Node(x) \in Word
  <2> DEFINE d == x[2]
             m == x[1]
             w == x[3]
             s == Split(Len(d))
             l == Prefix(d, s)
             r == Rest(d, s)
  <2>1. m \in Nat \ {0} /\ d \in Seq(Word) /\ w \in BOOLEAN
    OBVIOUS
  <2>2. Len(d) \in Nat /\ Len(d) >= 2
    <3>1. Len(d) \in Nat /\ m < Len(d)
      BY <1>1, <2>1
    <3>2. QED
      BY <2>1, <3>1
  <2>3. /\ l \in Seq(Word) /\ r \in Seq(Word) /\ s \in Nat /\ Len(l) = s /\ Len(r) = Len(d) - s
        /\ s \in 1..(Len(d) - 1)
    BY <2>1, <2>2, Halves
  <2> HIDE DEF d, m, w, s, l, r
  <2>4. TreeHash[l] \in Word /\ TreeHash[r] \in Word
    BY <2>3, TreeHashSteps
  <2>5. rank[x] = Len(d)
    BY DEF d
  <2>6. CASE m <= s
    <3>1. <<m, l, w>> \in D /\ <<m, l, w>>[2] = l
      BY <2>1, <2>3
    <3>2. rank[<<m, l, w>>] = Len(l)
      BY <3>1
    <3>3. Less(x) = <<m, l, w>> /\ Node(x) = TreeHash[r]
      BY <2>6, Zenon DEF m, d, s, l, r, w
    <3> HIDE DEF Less, Node, rank, D
    <3>4. QED
      BY <2>2, <2>3, <2>4, <2>5, <3>1, <3>2, <3>3
  <2>7. CASE ~(m <= s)
    <3>0. m - s \in Nat \ {0}
      BY <2>1, <2>3, <2>7
    <3>1. <<m - s, r, FALSE>> \in D /\ <<m - s, r, FALSE>>[2] = r
      BY <2>3, <3>0
    <3>2. rank[<<m - s, r, FALSE>>] = Len(r)
      BY <3>1
    <3>3. Less(x) = <<m - s, r, FALSE>> /\ Node(x) = TreeHash[l]
      BY <2>7, Zenon DEF m, d, s, l, r
    <3> HIDE DEF Less, Node, rank, D
    <3>4. QED
      BY <2>2, <2>3, <2>4, <2>5, <3>1, <3>2, <3>3
  <2>8. QED
    BY <2>6, <2>7
<1>2. base \in [D -> R] /\ R # {}
  <2>1. ASSUME NEW x \in D PROVE None(x) \in R
    <3>1. x[2] \in Seq(Word)
      OBVIOUS
    <3>2. TreeHash[x[2]] \in Word
      BY <3>1, TreeHashSteps
    <3>3. QED
      BY <3>2
  <2> HIDE DEF None, D, R
  <2>2. base \in [D -> R]
    BY <2>1
  <2>3. R # {}
    <3>1. <<>> \in R
      BY DEF R
    <3>2. QED
      BY <3>1
  <2>4. QED
    BY <2>2, <2>3
<1>3. up \in [D \X R -> R]
  <2>1. ASSUME NEW x \in D, NEW q \in R
        PROVE  (IF x \in stop THEN None(x) ELSE Append(q, Node(x))) \in R
    <3>1. x \notin stop => Node(x) \in Word
      BY <1>1
    <3>2. None(x) \in R
      <4>1. base[x] = None(x)
        OBVIOUS
      <4> HIDE DEF base, None, D, R
      <4>2. QED
        BY <1>2, <4>1
    <3> HIDE DEF Node, None, stop
    <3>3. QED
      BY <3>1, <3>2
  <2> HIDE DEF Node, None, stop, D, R
  <2>2. QED
    BY <2>1
<1>4. CallsDown(D, rank, stop, down)
  <2>1. rank \in [D -> Nat]
    OBVIOUS
  <2> HIDE DEF Less
  <2>2. down \in [D -> D]
    <3> HIDE DEF stop, rank, D
    <3> QED BY <1>1
  <2>3. \A x \in D : x \in stop \/ rank[down[x]] < rank[x]
    <3> HIDE DEF stop, rank, D
    <3> QED BY <1>1
  <2> HIDE DEF rank, down, stop, D
  <2>4. QED
    BY <2>1, <2>2, <2>3 DEF CallsDown
<1>5. PICK g : Calls(g, D, R, stop, base, down, up)
  <2> HIDE DEF rank, down, stop, D, base, up, R
  <2> QED BY <1>2, <1>3, <1>4, OneCall
<1> DEFINE Body(x, h) ==
             LET m == x[1] d == x[2] whole == x[3] s == Split(Len(d)) IN
               IF m >= Len(d) THEN IF whole THEN <<>> ELSE <<TreeHash[d]>>
               ELSE IF m <= s THEN Append(h[<<m, Prefix(d, s), whole>>], TreeHash[Rest(d, s)])
               ELSE Append(h[<<m - s, Rest(d, s), FALSE>>], TreeHash[Prefix(d, s)])
<1>6. ASSUME NEW x \in D, NEW h
      PROVE  Body(x, h) = IF x \in stop THEN None(x) ELSE Append(h[Less(x)], Node(x))
  <2>1. x \in stop <=> x[1] >= Len(x[2])
    OBVIOUS
  <2> HIDE DEF stop
  <2>2. CASE x \in stop
    BY <2>1, <2>2, Zenon
  <2>3. CASE x \notin stop /\ Left(x)
    BY <2>1, <2>3, Zenon
  <2>4. CASE x \notin stop /\ ~Left(x)
    BY <2>1, <2>4, Zenon
  <2> HIDE DEF Left, Body, None, Less, Node
  <2>5. QED
    BY <2>2, <2>3, <2>4
<1>7. g \in [D -> R] /\ \A x \in D : g[x] = IF x \in stop THEN base[x] ELSE up[<<x, g[down[x]]>>]
  BY <1>5, Zenon DEF Calls
<1>8. ASSUME NEW x \in D PROVE g[x] = IF x \in stop THEN None(x) ELSE Append(g[Less(x)], Node(x))
  <2> HIDE DEF Less, D, R, stop, None, Node
  <2>1. x \notin stop => down[x] = Less(x) /\ Less(x) \in D
    BY <1>1
  <2>2. base[x] = None(x)
    OBVIOUS
  <2> HIDE DEF down
  <2>3. x \notin stop => up[<<x, g[Less(x)]>>] = Append(g[Less(x)], Node(x))
    <3> SUFFICES ASSUME x \notin stop PROVE up[<<x, g[Less(x)]>>] = Append(g[Less(x)], Node(x))
      OBVIOUS
    <3>1. g[Less(x)] \in R
      BY <1>7, <2>1
    <3>2. QED
      BY <3>1, Zenon
  <2> HIDE DEF up, base
  <2>4. QED
    BY <1>7, <2>1, <2>2, <2>3
<1>9. g = [x \in D |-> Body(x, g)]
  <2>1. g = [x \in D |-> g[x]]
    BY <1>7, Zenon
  <2>2. \A x \in D : g[x] = Body(x, g)
    <3> HIDE DEF Body, Less, stop, D, None, Node
    <3> QED BY <1>6, <1>8
  <2> HIDE DEF Body, D
  <2>3. QED
    BY <2>1, <2>2, Zenon
<1>10. f = [x \in D |-> Body(x, f)]
  BY <1>9, Zenon DEF SubProof
<1> HIDE DEF f
<1>11. ASSUME NEW x \in D PROVE f[x] = IF x \in stop THEN None(x) ELSE Append(f[Less(x)], Node(x))
  <2> HIDE DEF Body, Less, stop, None, Node
  <2>1. f[x] = Body(x, f)
    BY <1>10, Zenon
  <2>2. QED
    BY <1>6, <2>1, Zenon
<1>12. \A x \in D : f[x] \in R
  <2> HIDE DEF Less
  <2>1. \A x \in D : x \notin stop => down[x] = Less(x)
    OBVIOUS
  <2>2. ASSUME NEW x \in D, x \in stop PROVE f[x] \in R
    <3>1. base[x] = None(x)
      OBVIOUS
    <3> HIDE DEF base, None, D, R, stop, Node
    <3>2. QED
      BY <1>2, <1>11, <2>2, <3>1
  <2>3. ASSUME NEW x \in D, x \notin stop, f[Less(x)] \in R PROVE f[x] \in R
    <3>1. Node(x) \in Word
      BY <1>1, <2>3
    <3> HIDE DEF Node, D, stop, None
    <3>2. f[x] = Append(f[Less(x)], Node(x))
      BY <1>11, <2>3
    <3>3. QED
      BY <2>3, <3>1, <3>2
  <2> HIDE DEF D, stop, down, rank, R
  <2>4. \A x \in D : x \in stop \/ f[down[x]] \in R => f[x] \in R
    BY <2>1, <2>2, <2>3
  <2>5. KeepsType(f, D, R, stop, down)
    BY <2>4, Zenon DEF KeepsType
  <2>6. QED
    BY <1>4, <2>5, OneCallType, Zenon
<1>13. f \in [D -> R]
  <2> HIDE DEF Body, D, R
  <2> QED BY <1>10, <1>12
<1>14. ASSUME NEW m \in Nat \ {0}, NEW d \in Seq(Word), NEW whole \in BOOLEAN
       PROVE  LET s == Split(Len(d)) IN
         /\ m >= Len(d) => f[<<m, d, whole>>] = IF whole THEN <<>> ELSE <<TreeHash[d]>>
         /\ m < Len(d) =>
              f[<<m, d, whole>>] =
                IF m <= s THEN Append(f[<<m, Prefix(d, s), whole>>], TreeHash[Rest(d, s)])
                ELSE Append(f[<<m - s, Rest(d, s), FALSE>>], TreeHash[Prefix(d, s)])
  <2> DEFINE x == <<m, d, whole>>
             s == Split(Len(d))
  <2>1. x \in D /\ x[1] = m /\ x[2] = d /\ x[3] = whole
    OBVIOUS
  <2> HIDE DEF x
  <2>2. f[x] = IF x \in stop THEN None(x) ELSE Append(f[Less(x)], Node(x))
    <3> HIDE DEF stop, None, Less, Node, D
    <3> QED BY <1>11, <2>1
  <2>3. (m >= Len(d) => x \in stop) /\ (m < Len(d) => x \notin stop)
    <3>1. Len(d) \in Nat
      OBVIOUS
    <3>2. x \in stop <=> m >= Len(d)
      BY <2>1, Zenon
    <3> HIDE DEF stop
    <3>3. m < Len(d) => ~(m >= Len(d))
      BY <3>1
    <3>4. QED
      BY <3>2, <3>3
  <2>4. None(x) = (IF whole THEN <<>> ELSE <<TreeHash[d]>>) /\ (Left(x) <=> m <= s)
    BY <2>1, Zenon
  <2>5. Less(x) = IF m <= s THEN <<m, Prefix(d, s), whole>> ELSE <<m - s, Rest(d, s), FALSE>>
    BY <2>1, Zenon
  <2>6. Node(x) = IF m <= s THEN TreeHash[Rest(d, s)] ELSE TreeHash[Prefix(d, s)]
    BY <2>1, Zenon
  <2> HIDE DEF stop, Less, Node, None, s
  <2>7. m >= Len(d) => f[x] = IF whole THEN <<>> ELSE <<TreeHash[d]>>
    BY <2>2, <2>3, <2>4, Zenon
  <2>8. m < Len(d) => f[x] = IF m <= s
          THEN Append(f[<<m, Prefix(d, s), whole>>], TreeHash[Rest(d, s)])
                              ELSE Append(f[<<m - s, Rest(d, s), FALSE>>], TreeHash[Prefix(d, s)])
    BY <2>2, <2>3, <2>5, <2>6, Zenon
  <2>9. QED
    BY <2>7, <2>8, Zenon DEF x, s
<1>15. QED
  BY <1>13, <1>14, Zenon DEF f
-----------------------------------------------------------------------------
(* Tree hashes spell trees. The leaf's and the node's first letter tell them *)
(* apart, no tree is the beginning of another one, and so a hash determines  *)
(* the tree: what the two prefixes of RFC 6962 are for.                      *)

(* The hashes of leaves, *)
LeafWord == {<<0, h>> : h \in Nat}
(* a set that holds those and what nodes are made of them, *)
Closed(S) == LeafWord \subseteq S /\ \A l, r \in S : NodeHash(l, r) \in S
(* and the least such set: the words that spell a tree. *)
Tree == {w \in Word : \A S \in SUBSET Word : Closed(S) => w \in S}

(* What holds of leaves and of nodes made of trees with it holds of all      *)
(* trees.                                                                    *)
LEMMA TreeInduction == ASSUME NEW S \in SUBSET Word, Closed(S) PROVE Tree \subseteq S
BY DEF Tree

(* Leaves are trees, and a node of two trees is one. *)
LEMMA TreeClosed == Closed(Tree) /\ Tree \subseteq Word
<1>1. LeafWord \subseteq Tree
  <2>1. LeafWord \subseteq Word
    <3>1. ASSUME NEW h \in Nat PROVE <<0, h>> \in Seq(Nat)
      OBVIOUS
    <3>2. QED
      BY <3>1 DEF LeafWord, Word
  <2>2. QED
    BY <2>1 DEF Tree, Closed
<1>2. ASSUME NEW l \in Tree, NEW r \in Tree PROVE NodeHash(l, r) \in Tree
  <2>1. NodeHash(l, r) \in Word
    BY WordTypes DEF Tree
  <2>2. ASSUME NEW S \in SUBSET Word, Closed(S) PROVE NodeHash(l, r) \in S
    <3>1. l \in S /\ r \in S
      BY <2>2 DEF Tree
    <3>2. QED
      BY <2>2, <3>1 DEF Closed
  <2>3. QED
    BY <2>1, <2>2 DEF Tree
<1>3. QED
  BY <1>1, <1>2 DEF Closed, Tree

(* Nothing else is a tree. *)
LEMMA TreeCases ==
  ASSUME NEW w \in Tree
  PROVE  w \in LeafWord \/ \E l, r \in Tree : w = NodeHash(l, r)
<1> DEFINE S == {x \in Tree : x \in LeafWord \/ \E l, r \in Tree : x = NodeHash(l, r)}
<1>1. S \in SUBSET Word
  BY TreeClosed
<1>2. Closed(S)
  <2>1. LeafWord \subseteq S
    BY TreeClosed DEF Closed
  <2>2. ASSUME NEW l \in S, NEW r \in S PROVE NodeHash(l, r) \in S
    <3>1. l \in Tree /\ r \in Tree
      OBVIOUS
    <3>2. NodeHash(l, r) \in Tree
      BY <3>1, TreeClosed DEF Closed
    <3>3. QED
      BY <3>1, <3>2
  <2> HIDE DEF S
  <2>3. QED
    BY <2>1, <2>2 DEF Closed
<1>3. Tree \subseteq S
  <2> HIDE DEF S
  <2> QED BY <1>1, <1>2, TreeInduction
<1>4. QED
  BY <1>3

(* Words may be put together in any order. *)
LEMMA Associates ==
  ASSUME NEW a \in Word, NEW b \in Word, NEW c \in Word
  PROVE  (a \o b) \o c = a \o (b \o c) /\ a \o b \in Word
<1>1. (a \o b) \o c = a \o (b \o c)
  BY ConcatAssociative, SMTT(30) DEF Word
<1>2. a \o b \in Word
  BY ConcatProperties DEF Word
<1>3. QED
  BY <1>1, <1>2

(* A node spells its letter, its left tree and its right tree. *)
LEMMA NodeSpells ==
  ASSUME NEW l \in Word, NEW r \in Word
  PROVE  NodeHash(l, r) = <<1>> \o (l \o r) /\ l \o r \in Word /\ NodeHash(l, r) \in Word
<1>1. <<1>> \in Word
  BY DEF Word
<1>2. NodeHash(l, r) = <<1>> \o (l \o r)
  BY <1>1, ConcatAssociative DEF NodeHash, Word
<1>3. QED
  BY <1>2, Associates, WordTypes

(* A node, followed by a word, *)
Joins(l, r, x) ==
  /\ r \o x \in Word /\ l \o (r \o x) \in Word
  /\ NodeHash(l, r) \o x = <<1>> \o (l \o (r \o x))

(* is its letter, followed by its left tree, its right tree and that word. *)
LEMMA NodeJoins ==
  ASSUME NEW l \in Word, NEW r \in Word, NEW x \in Word
  PROVE  Joins(l, r, x)
<1> DEFINE one == <<1>>
           u   == l \o r
           v   == r \o x
<1>1. one \in Word
  BY DEF Word
<1>2. u \in Word /\ v \in Word
  BY Associates
<1>3. NodeHash(l, r) = one \o u
  BY NodeSpells
<1>4. u \o x = l \o v
  BY Associates, ZenonT(30)
<1> HIDE DEF one, u, v
<1>5. (one \o u) \o x = one \o (u \o x) /\ l \o v \in Word
  BY <1>1, <1>2, Associates
<1>6. QED
  BY <1>2, <1>3, <1>4, <1>5, Zenon DEF Joins, one, v

(* The first letters of a node and of a leaf. *)
LEMMA Heads ==
  ASSUME NEW w \in Word
  PROVE  /\ (<<1>> \o w)[1] = 1
         /\ \A h \in Nat : (<<0, h>> \o w)[1] = 0 /\ (<<0, h>> \o w)[2] = h
<1>1. <<1>> \in Seq(Nat) /\ Len(<<1>>) = 1 /\ <<1>>[1] = 1
  OBVIOUS
<1>2. Len(w) \in Nat /\ w \in Seq(Nat)
  BY DEF Word
<1>3. (<<1>> \o w)[1] = 1
  <2>1. 1 \in 1..(Len(<<1>>) + Len(w))
    BY <1>1, <1>2
  <2>2. (<<1>> \o w)[1] = <<1>>[1]
    BY <1>1, <1>2, <2>1, ConcatProperties
  <2>3. QED
    BY <1>1, <2>2
<1>4. ASSUME NEW h \in Nat PROVE (<<0, h>> \o w)[1] = 0 /\ (<<0, h>> \o w)[2] = h
  <2> DEFINE q == <<0, h>>
  <2>1. q \in Seq(Nat) /\ Len(q) = 2 /\ q[1] = 0 /\ q[2] = h
    OBVIOUS
  <2> HIDE DEF q
  <2>2. 1 \in 1..(Len(q) + Len(w)) /\ 2 \in 1..(Len(q) + Len(w))
    BY <1>2, <2>1
  <2>3. (q \o w)[1] = q[1] /\ (q \o w)[2] = q[2]
    <3>1. \A i \in 1..(Len(q) + Len(w)) : (q \o w)[i] = IF i <= Len(q) THEN q[i]
            ELSE w[i - Len(q)]
      BY <1>2, <2>1, ConcatProperties, Zenon
    <3>2. 1 <= Len(q) /\ 2 <= Len(q)
      BY <2>1
    <3>3. QED
      BY <2>2, <3>1, <3>2, Zenon
  <2>4. QED
    BY <2>1, <2>3 DEF q
<1>5. QED
  BY <1>3, <1>4

(* A word may be cancelled on either side of an equation. *)
LEMMA Cancels ==
  ASSUME NEW a \in Word, NEW b \in Word, NEW x \in Word
  PROVE  (x \o a = x \o b => a = b) /\ (a \o x = b \o x => a = b)
BY ConcatSimplifications, Zenon DEF Word

(* Two trees, each followed by a word, spell the same. *)
SameWord(a, x, b, y) == a \o x = b \o y

(* No tree is the beginning of another: if two trees and what follows them   *)
(* spell the same, the trees are the same. It is what makes the two prefixes *)
(* of RFC 6962, which merkleLeafHash and merkleNodeHash write first, enough. *)
LEMMA PrefixFree ==
  ASSUME NEW a \in Tree, NEW b \in Tree, NEW x \in Word, NEW y \in Word, SameWord(a, x, b, y)
  PROVE  a = b /\ x = y
<1> DEFINE S == {w \in Tree : \A v \in Tree : \A p, q \in Word : w \o p = v \o q => w = v}
<1>0. Tree \subseteq Word
  BY TreeClosed
<1> HIDE DEF S
<1>1. ASSUME NEW w \in LeafWord, NEW v \in Tree, NEW p \in Word, NEW q \in Word, w \o p = v \o q
      PROVE  w = v
  <2>1. PICK h \in Nat : w = <<0, h>>
    BY DEF LeafWord
  <2>2. (w \o p)[1] = 0 /\ (w \o p)[2] = h
    BY <2>1, Heads
  <2>3. CASE v \in LeafWord
    <3>1. PICK g \in Nat : v = <<0, g>>
      BY <2>3 DEF LeafWord
    <3>2. (v \o q)[2] = g
      BY <3>1, Heads
    <3>3. QED
      BY <1>1, <2>1, <2>2, <3>1, <3>2
  <2>4. CASE \E l, r \in Tree : v = NodeHash(l, r)
    <3>1. PICK l \in Word, r \in Word : v = NodeHash(l, r)
      BY <1>0, <2>4
    <3>2. Joins(l, r, q)
      BY NodeJoins, Zenon
    <3>3. NodeHash(l, r) \o q = <<1>> \o (l \o (r \o q)) /\ l \o (r \o q) \in Word
      BY <3>2, Zenon DEF Joins
    <3>4. (<<1>> \o (l \o (r \o q)))[1] = 1
      BY <3>3, Heads, Zenon
    <3>5. (v \o q)[1] = 1 /\ (v \o q)[1] = 0
      BY <1>1, <2>2, <3>1, <3>3, <3>4, Zenon
    <3>6. 1 # 0
      OBVIOUS
    <3>7. QED
      BY <3>5, <3>6, Zenon
  <2>5. QED
    BY <2>3, <2>4, TreeCases
<1>2. ASSUME NEW l \in S, NEW r \in S, NEW v \in Tree, NEW p \in Word, NEW q \in Word,
             NodeHash(l, r) \o p = v \o q
      PROVE  NodeHash(l, r) = v
  <2>0. l \in Word /\ r \in Word /\ l \in Tree /\ r \in Tree
    BY <1>0 DEF S
  <2> DEFINE Only(w) == \A z \in Tree : \A i, j \in Word : w \o i = z \o j => w = z
  <2>00. Only(l) /\ Only(r)
    BY Zenon DEF S
  <2> HIDE DEF Only
  <2>1. NodeHash(l, r) \o p = <<1>> \o (l \o (r \o p)) /\ r \o p \in Word
          /\ l \o (r \o p) \in Word
    <3>1. Joins(l, r, p)
      BY <2>0, NodeJoins, Zenon
    <3>2. QED
      BY <3>1, Zenon DEF Joins
  <2>2. CASE v \in LeafWord
    <3>1. PICK h \in Nat : v = <<0, h>>
      BY <2>2 DEF LeafWord
    <3>2. (v \o q)[1] = 0
      BY <3>1, Heads
    <3>3. (<<1>> \o (l \o (r \o p)))[1] = 1
      BY <2>1, Heads, Zenon
    <3>4. (v \o q)[1] = 1
      BY <1>2, <2>1, <3>3, Zenon
    <3>5. 1 # 0
      OBVIOUS
    <3>6. QED
      BY <3>2, <3>4, <3>5, Zenon
  <2>3. CASE \E s, t \in Tree : v = NodeHash(s, t)
    <3>1. PICK s \in Tree, t \in Tree : v = NodeHash(s, t)
      BY <2>3
    <3>2. s \in Word /\ t \in Word
      BY <1>0
    <3>3. v \o q = <<1>> \o (s \o (t \o q)) /\ t \o q \in Word /\ s \o (t \o q) \in Word
      <4>1. Joins(s, t, q)
        BY <3>2, NodeJoins, Zenon
      <4>2. QED
        BY <3>1, <4>1, Zenon DEF Joins
    <3>4. l \o (r \o p) = s \o (t \o q)
      <4>1. <<1>> \in Word
        BY DEF Word
      <4>2. <<1>> \o (l \o (r \o p)) = <<1>> \o (s \o (t \o q))
        BY <1>2, <2>1, <3>3
      <4>3. QED
        BY <2>1, <3>3, <4>1, <4>2, Cancels
    <3>5. l = s
      BY <2>00, <2>1, <3>3, <3>4, Zenon DEF Only
    <3>6. r \o p = t \o q
      <4>1. l \o (r \o p) = l \o (t \o q)
        BY <3>4, <3>5, Zenon
      <4>2. QED
        BY <2>0, <2>1, <3>3, <4>1, Cancels, Zenon
    <3>7. r = t
      BY <2>00, <3>6, Zenon DEF Only
    <3>8. QED
      BY <3>1, <3>5, <3>7
  <2>4. QED
    BY <2>2, <2>3, TreeCases
<1>3. Closed(S)
  <2>1. LeafWord \subseteq S
    <3>1. LeafWord \subseteq Tree
      BY TreeClosed DEF Closed, S
    <3>2. QED
      BY <1>1, <3>1, Zenon DEF S
  <2>2. ASSUME NEW l \in S, NEW r \in S PROVE NodeHash(l, r) \in S
    <3>1. NodeHash(l, r) \in Tree
      BY TreeClosed DEF Closed, S
    <3>2. QED
      BY <1>2, <3>1, Zenon DEF S
  <2>3. QED
    BY <2>1, <2>2 DEF Closed
<1>4. Tree \subseteq S
  <2>1. S \in SUBSET Word
    BY <1>0 DEF S
  <2>2. QED
    BY <1>3, <2>1, TreeInduction
<1>5. a = b
  BY <1>4, Zenon DEF SameWord, S
<1>6. x = y
  BY <1>0, <1>5, Cancels DEF SameWord
<1>7. QED
  BY <1>5, <1>6

(* A node determines both of its trees. *)
LEMMA NodeInjective ==
  ASSUME NEW a \in Tree, NEW b \in Tree, NEW c \in Tree, NEW d \in Tree,
         NodeHash(a, b) = NodeHash(c, d)
  PROVE  a = c /\ b = d
<1>1. a \in Word /\ b \in Word /\ c \in Word /\ d \in Word /\ <<1>> \in Word
  BY TreeClosed DEF Word
<1>2. NodeHash(a, b) = <<1>> \o (a \o b) /\ NodeHash(c, d) = <<1>> \o (c \o d)
      /\ a \o b \in Word /\ c \o d \in Word
  BY <1>1, NodeSpells
<1>3. a \o b = c \o d
  BY <1>1, <1>2, Cancels
<1>4. SameWord(a, b, c, d)
  BY <1>3 DEF SameWord
<1>5. QED
  BY <1>1, <1>4, PrefixFree, Zenon

(* Leaves, or hashes in their place; at least one. *)
Trees == {d \in Seq(Tree) : d # <<>>}

(* Both halves of such a sequence are such sequences. *)
LEMMA TreesCut ==
  /\ \A d \in Trees : d \in Seq(Word) /\ Len(d) \in Nat /\ Len(d) >= 1
       /\ (Len(d) # 1 => Len(d) >= 2)
  /\ \A d \in Trees, k \in Nat : k >= 1 /\ k < Len(d) =>
       /\ Prefix(d, k) \in Trees /\ Len(Prefix(d, k)) = k
       /\ Rest(d, k) \in Trees /\ Len(Rest(d, k)) = Len(d) - k
<1>1. ASSUME NEW d \in Trees
      PROVE  d \in Seq(Word) /\ Len(d) \in Nat /\ Len(d) >= 1 /\ (Len(d) # 1 => Len(d) >= 2)
  <2>1. d \in Seq(Tree) /\ d # <<>>
    BY DEF Trees
  <2>2. Len(d) \in Nat /\ Len(d) # 0
    BY <2>1, Lengths, Zenon
  <2>3. \A i \in 1..Len(d) : d[i] \in Word
    BY <2>1, TreeClosed
  <2>4. d \in Seq(Word)
    BY <2>1, <2>3
  <2>5. QED
    <3> DEFINE n == Len(d)
    <3>1. n \in Nat /\ n # 0
      BY <2>2
    <3> HIDE DEF n
    <3>2. n >= 1 /\ (n # 1 => n >= 2)
      BY <3>1
    <3>3. QED
      BY <2>4, <3>1, <3>2, Zenon DEF n
<1>2. ASSUME NEW d \in Trees, NEW k \in Nat, k >= 1, k < Len(d)
      PROVE  /\ Prefix(d, k) \in Trees /\ Len(Prefix(d, k)) = k
             /\ Rest(d, k) \in Trees /\ Len(Rest(d, k)) = Len(d) - k
  <2>1. d \in Seq(Tree) /\ Len(d) \in Nat
    BY <1>1 DEF Trees
  <2>2. k \in 0..Len(d)
    BY <1>2, <2>1
  <2> DEFINE l == Prefix(d, k)
             r == Rest(d, k)
  <2>3. l \in Seq(Tree) /\ Len(l) = k /\ r \in Seq(Tree) /\ Len(r) = Len(d) - k
    BY <2>1, <2>2, Cuts
  <2> HIDE DEF l, r
  <2>4. Len(l) # 0 /\ Len(r) # 0
    BY <1>2, <2>1, <2>3
  <2>5. Len(<<>>) = 0
    OBVIOUS
  <2>6. l # <<>> /\ r # <<>>
    BY <2>4, <2>5, Zenon
  <2>7. QED
    BY <2>3, <2>6, Zenon DEF Trees, l, r
<1>3. QED
  BY <1>1, <1>2, Zenon

(* The split leaves something on both sides. *)
LEMMA SplitBounds ==
  ASSUME NEW n \in Nat, n >= 2
  PROVE  Split(n) \in Nat /\ Split(n) >= 1 /\ Split(n) < n
<1>1. PICK p \in Nat : Split(n) = Power[p] /\ Power[p] < n
  BY SplitIs
<1>2. QED
  BY <1>1, PowerSteps

(* The hash of a tree's leaves spells a tree. *)
LEMMA HashIsTree == ASSUME NEW d \in Trees PROVE TreeHash[d] \in Tree
<1> DEFINE S == {e \in Trees : TreeHash[e] \in Tree}
           rank == [e \in Trees |-> Len(e)]
<1>1. rank \in [Trees -> Nat]
  BY TreesCut
<1>2. ASSUME NEW e \in Trees, \A c \in Trees : rank[c] < rank[e] => c \in S PROVE e \in S
  <2>1. e \in Seq(Word) /\ Len(e) \in Nat /\ (Len(e) # 1 => Len(e) >= 2) /\ Len(e) >= 1
    BY TreesCut
  <2>2. CASE Len(e) = 1
    <3>1. e[1] \in Tree
      <4>1. e \in Seq(Tree)
        BY DEF Trees
      <4>2. QED
        BY <2>2, <4>1
    <3>2. TreeHash[e] = e[1]
      BY <2>1, <2>2, TreeHashSteps
    <3>3. QED
      BY <3>1, <3>2
  <2>3. CASE Len(e) # 1
    <3> DEFINE k == Split(Len(e))
               l == Prefix(e, k)
               r == Rest(e, k)
    <3>1. k \in Nat /\ k >= 1 /\ k < Len(e)
      BY <2>1, <2>3, SplitBounds
    <3>2. l \in Trees /\ r \in Trees /\ Len(l) = k /\ Len(r) = Len(e) - k
      BY <3>1, TreesCut
    <3>3. TreeHash[e] = NodeHash(TreeHash[l], TreeHash[r])
      BY <2>1, <2>3, TreeHashSteps
    <3> HIDE DEF k, l, r
    <3>4. rank[l] < rank[e] /\ rank[r] < rank[e]
      BY <2>1, <3>1, <3>2
    <3>5. TreeHash[l] \in Tree /\ TreeHash[r] \in Tree
      BY <1>2, <3>2, <3>4
    <3>6. QED
      BY <3>3, <3>5, TreeClosed DEF Closed
  <2>4. QED
    BY <2>2, <2>3
<1>3. Trees \subseteq S
  <2> HIDE DEF S, rank
  <2> QED BY <1>1, <1>2, RankInduction
<1>4. QED
  BY <1>3

(* merkleTreeHash is injective on sequences of one length: no two ledgers of *)
(* the same size with different entry hashes have the same root.             *)
LEMMA HashInjective ==
  ASSUME NEW d \in Trees, NEW e \in Trees, Len(d) = Len(e), TreeHash[d] = TreeHash[e]
  PROVE  d = e
<1> DEFINE S == {a \in Trees : \A b \in Trees : Len(a) = Len(b) /\ TreeHash[a] = TreeHash[b]
                  => a = b}
           rank == [a \in Trees |-> Len(a)]
<1>1. rank \in [Trees -> Nat]
  BY TreesCut
<1>2. ASSUME NEW a \in Trees, \A c \in Trees : rank[c] < rank[a] => c \in S PROVE a \in S
  <2> SUFFICES ASSUME NEW b \in Trees, Len(a) = Len(b), TreeHash[a] = TreeHash[b] PROVE a = b
    OBVIOUS
  <2>1. /\ a \in Seq(Word) /\ Len(a) \in Nat /\ (Len(a) # 1 => Len(a) >= 2) /\ Len(a) >= 1
        /\ b \in Seq(Word)
    BY TreesCut
  <2>2. CASE Len(a) = 1
    <3>1. a[1] = b[1]
      BY <2>1, <2>2, TreeHashSteps
    <3>2. \A i \in 1..Len(a) : i = 1
      BY <2>2
    <3>3. a = [i \in 1..Len(a) |-> a[i]] /\ b = [i \in 1..Len(a) |-> b[i]]
      BY <2>1
    <3>4. \A i \in 1..Len(a) : a[i] = b[i]
      BY <3>1, <3>2, Zenon
    <3>5. QED
      BY <3>3, <3>4, Zenon
  <2>3. CASE Len(a) # 1
    <3> DEFINE k == Split(Len(a))
               l == Prefix(a, k)
               r == Rest(a, k)
               m == Prefix(b, k)
               s == Rest(b, k)
    <3>1. k \in Nat /\ k >= 1 /\ k < Len(a)
      BY <2>1, <2>3, SplitBounds
    <3>2. /\ l \in Trees /\ r \in Trees /\ Len(l) = k /\ Len(r) = Len(a) - k
          /\ m \in Trees /\ s \in Trees /\ Len(m) = k /\ Len(s) = Len(a) - k
      BY <3>1, TreesCut
    <3>3. TreeHash[a] = NodeHash(TreeHash[l], TreeHash[r])
            /\ TreeHash[b] = NodeHash(TreeHash[m], TreeHash[s])
      BY <2>1, <2>3, TreeHashSteps
    <3>4. /\ \A i \in 1..k : l[i] = a[i] /\ m[i] = b[i]
          /\ \A i \in 1..(Len(a) - k) : r[i] = a[k + i] /\ s[i] = b[k + i]
      <4>1. k \in 0..Len(a) /\ k \in 0..Len(b)
        BY <2>1, <3>1
      <4>2. (\A i \in 1..k : l[i] = a[i]) /\ \A i \in 1..(Len(a) - k) : r[i] = a[k + i]
        BY <2>1, <4>1, Cuts
      <4>3. (\A i \in 1..k : m[i] = b[i]) /\ \A i \in 1..(Len(a) - k) : s[i] = b[k + i]
        BY <2>1, <4>1, Cuts
      <4>4. QED
        BY <4>2, <4>3
    <3> HIDE DEF k, l, r, m, s
    <3>5. rank[l] < rank[a] /\ rank[r] < rank[a]
      BY <2>1, <3>1, <3>2
    <3>6. TreeHash[l] = TreeHash[m] /\ TreeHash[r] = TreeHash[s]
      <4>1. TreeHash[l] \in Tree /\ TreeHash[m] \in Tree /\ TreeHash[r] \in Tree
              /\ TreeHash[s] \in Tree
        BY <3>2, HashIsTree
      <4>2. NodeHash(TreeHash[l], TreeHash[r]) = NodeHash(TreeHash[m], TreeHash[s])
        BY <3>3
      <4>3. QED
        BY <4>1, <4>2, NodeInjective
    <3>7. l = m /\ r = s
      <4>1. l \in S /\ r \in S
        BY <1>2, <3>2, <3>5
      <4>2. QED
        BY <3>2, <3>6, <4>1
    <3>8. ASSUME NEW i \in 1..Len(a) PROVE a[i] = b[i]
      <4>1. CASE i <= k
        BY <3>1, <3>4, <3>7, <4>1
      <4>2. CASE ~(i <= k)
        <5>1. i - k \in 1..(Len(a) - k) /\ k + (i - k) = i
          BY <2>1, <3>1, <4>2
        <5>2. QED
          BY <3>4, <3>7, <5>1
      <4>3. QED
        BY <4>1, <4>2
    <3>9. QED
      BY <2>1, <3>8
  <2>4. QED
    BY <2>2, <2>3
<1>3. Trees \subseteq S
  <2> HIDE DEF S, rank
  <2> QED BY <1>1, <1>2, RankInduction, SMTT(30)
<1>4. QED
  BY <1>3
-----------------------------------------------------------------------------
(* The verifiers' loops over a proof's nodes, as relations between where     *)
(* they start and where they end.                                            *)

(* One turn of VerifyConsistency's loop, or of VerifyInclusion's. *)
StepOf(both, x, node) == IF both THEN BothNode(x, node) ELSE FoldNode(x, node)
(* What such a loop holds after each turn, started with x, *)
Folded(f, both, x, path) ==
  f[0] = x /\ \A i \in 1..Len(path) : f[i] = StepOf(both, f[i-1], path[i])
(* and what it ends with. *)
Folds(both, x, path, y) == \E f : Folded(f, both, x, path) /\ f[Len(path)] = y

(* No nodes: it ends with what it starts with. *)
LEMMA FoldsNone == ASSUME NEW both, NEW x PROVE Folds(both, x, <<>>, x)
<1> DEFINE f == [i \in 0..0 |-> x]
<1>1. f[0] = x /\ Len(<<>>) = 0
  OBVIOUS
<1>2. \A i \in 1..Len(<<>>) : FALSE
  OBVIOUS
<1> HIDE DEF f
<1>3. Folded(f, both, x, <<>>)
  BY <1>1, <1>2 DEF Folded
<1>4. f[Len(<<>>)] = x
  BY <1>1
<1>5. QED
  BY <1>3, <1>4, Zenon DEF Folds

(* One more node: one more turn. *)
LEMMA FoldsOn ==
  ASSUME NEW both, NEW x, NEW path \in Seq(Word), NEW y, NEW node \in Word,
         Folds(both, x, path, y)
  PROVE  Folds(both, x, Append(path, node), StepOf(both, y, node))
<1> DEFINE n == Len(path)
           q == Append(path, node)
           z == StepOf(both, y, node)
<1>1. n \in Nat /\ Len(q) = n + 1 /\ q[n+1] = node /\ \A i \in 1..n : q[i] = path[i]
  OBVIOUS
<1>2. PICK f : Folded(f, both, x, path) /\ f[n] = y
  BY Zenon DEF Folds
<1> DEFINE g == [i \in 0..(n+1) |-> IF i = n + 1 THEN z ELSE f[i]]
<1> HIDE DEF n, q, z
<1>3. g[n+1] = z /\ \A i \in 0..n : g[i] = f[i]
  BY <1>1
<1> HIDE DEF g
<1>4. g[0] = x
  BY <1>1, <1>2, <1>3 DEF Folded
<1>5. ASSUME NEW i \in 1..(n+1) PROVE g[i] = StepOf(both, g[i-1], q[i])
  <2>1. CASE i = n + 1
    <3>1. i - 1 = n /\ n \in 0..n
      BY <1>1, <2>1
    <3>2. g[i-1] = y /\ q[i] = node /\ g[i] = z
      BY <1>1, <1>2, <1>3, <2>1, <3>1
    <3>3. QED
      BY <3>2, Zenon DEF z
  <2>2. CASE i # n + 1
    <3>1. i \in 1..n /\ i \in 0..n /\ i - 1 \in 0..n
      BY <1>1, <2>2
    <3>2. f[i] = StepOf(both, f[i-1], path[i])
      BY <1>2, <3>1 DEF Folded, n
    <3>3. g[i] = f[i] /\ g[i-1] = f[i-1] /\ q[i] = path[i]
      BY <1>1, <1>3, <3>1
    <3>4. QED
      BY <3>2, <3>3, Zenon
  <2>3. QED
    BY <2>1, <2>2
<1>6. Folded(g, both, x, q) /\ g[Len(q)] = z
  BY <1>1, <1>3, <1>4, <1>5, Zenon DEF Folded
<1>7. QED
  BY <1>6, Zenon DEF Folds, q, z

(* The loop ends with something, whatever the nodes. *)
LEMMA FoldsExist ==
  ASSUME NEW both, NEW x, NEW path \in Seq(Word)
  PROVE  \E y : Folds(both, x, path, y)
<1> DEFINE N == Len(path)
           T == {i \in 0..N : \E y : Folds(both, x, Prefix(path, i), y)}
<1>1. N \in Nat
  OBVIOUS
<1>2. 0 \in T
  <2>1. Prefix(path, 0) = <<>>
    BY DEF Prefix
  <2>2. Folds(both, x, <<>>, x)
    BY FoldsNone, Zenon
  <2>3. QED
    BY <1>1, <2>1, <2>2
<1>3. ASSUME NEW i \in 1..N, i - 1 \in T PROVE i \in T
  <2> DEFINE q == Prefix(path, i - 1)
  <2>1. PICK y : Folds(both, x, q, y)
    BY <1>3
  <2>2. q \in Seq(Word) /\ path[i] \in Word
    BY DEF Prefix
  <2>3. Prefix(path, i) = Append(q, path[i])
    <3>1. Len(q) = i - 1 /\ \A j \in 1..(i-1) : q[j] = path[j]
      BY DEF Prefix
    <3>2. Prefix(path, i) \in Seq(Word) /\ Len(Prefix(path, i)) = i
            /\ \A j \in 1..i : Prefix(path, i)[j] = path[j]
      BY DEF Prefix
    <3> HIDE DEF q
    <3>3. Append(q, path[i]) \in Seq(Word) /\ Len(Append(q, path[i])) = i
          /\ \A j \in 1..i : Append(q, path[i])[j] = path[j]
      BY <2>2, <3>1
    <3>4. QED
      BY <3>2, <3>3
  <2> HIDE DEF q
  <2>4. Folds(both, x, Append(q, path[i]), StepOf(both, y, path[i]))
    BY <2>1, <2>2, FoldsOn, Zenon
  <2>5. \E z : Folds(both, x, Prefix(path, i), z)
    BY <2>3, <2>4, Zenon
  <2>6. i \in 0..N
    BY <1>1
  <2>7. QED
    BY <2>5, <2>6, Zenon
<1>4. 0..N \subseteq T
  <2> HIDE DEF T
  <2> QED BY <1>1, <1>2, <1>3, CountUp
<1>5. Prefix(path, N) = path
  BY DEF Prefix
<1>6. QED
  BY <1>1, <1>4, <1>5

(* Two runs of a loop end with the same. *)
SameEnd(f, g, path) == f[Len(path)] = g[Len(path)]

(* The loop is deterministic. *)
LEMMA FoldedOnce ==
  ASSUME NEW both, NEW x, NEW path, Len(path) \in Nat, NEW f, NEW g,
         Folded(f, both, x, path), Folded(g, both, x, path)
  PROVE  SameEnd(f, g, path)
<1> DEFINE N == Len(path)
           T == {i \in 0..N : f[i] = g[i]}
<1>1. 0 \in T
  BY DEF Folded
<1>2. ASSUME NEW i \in 1..N, i - 1 \in T PROVE i \in T
  <2>1. f[i] = StepOf(both, f[i-1], path[i]) /\ g[i] = StepOf(both, g[i-1], path[i])
    BY DEF Folded
  <2>2. f[i-1] = g[i-1]
    BY <1>2
  <2>3. QED
    BY <2>1, <2>2
<1>3. 0..N \subseteq T
  <2> HIDE DEF T
  <2> QED BY <1>1, <1>2, CountUp
<1>4. N \in T
  BY <1>3
<1>5. QED
  BY <1>4 DEF SameEnd

(* FoldPath is VerifyInclusion's loop, *)
LEMMA FoldPathIs ==
  ASSUME NEW leaf, NEW m, NEW n, NEW path, Len(path) \in Nat, NEW y,
         Folds(FALSE, [acc |-> leaf, fn |-> m, sn |-> n - 1], path, y)
  PROVE  FoldPath(leaf, m, n, path) = y.acc
<1> DEFINE N == Len(path)
           x == [acc |-> leaf, fn |-> m, sn |-> n - 1]
           fold == CHOOSE fold : fold = [i \in 0..N |->
                     IF i = 0 THEN [acc |-> leaf, fn |-> m, sn |-> n - 1]
                       ELSE FoldNode(fold[i-1], path[i])]
<1>1. PICK f : Folded(f, FALSE, x, path) /\ f[N] = y
  BY Zenon DEF Folds
<1>2. FoldPath(leaf, m, n, path) = fold[N].acc
  BY Zenon DEF FoldPath
<1> DEFINE g == [i \in 0..N |-> f[i]]
<1>3. g = [i \in 0..N |-> IF i = 0 THEN x ELSE FoldNode(g[i-1], path[i])]
  <2> HIDE DEF x
  <2>1. ASSUME NEW i \in 0..N PROVE f[i] = IF i = 0 THEN x ELSE FoldNode(g[i-1], path[i])
    <3>1. CASE i = 0
      BY <1>1, <3>1 DEF Folded
    <3>2. CASE i # 0
      <4>1. i \in 1..N /\ g[i-1] = f[i-1]
        BY <3>2
      <4>2. f[i] = StepOf(FALSE, f[i-1], path[i])
        BY <1>1, <4>1 DEF Folded
      <4>3. QED
        BY <3>2, <4>1, <4>2, Zenon DEF StepOf
    <3>3. QED
      BY <3>1, <3>2
  <2>2. QED
    BY <2>1
<1> HIDE DEF g
<1>4. fold = [i \in 0..N |-> IF i = 0 THEN x ELSE FoldNode(fold[i-1], path[i])]
  BY <1>3, Zenon
<1> HIDE DEF fold
<1>5. Folded(fold, FALSE, x, path)
  <2> HIDE DEF x
  <2>1. \A i \in 0..N : fold[i] = IF i = 0 THEN x ELSE FoldNode(fold[i-1], path[i])
    BY <1>4, Zenon
  <2>2. fold[0] = x /\ \A i \in 1..N : fold[i] = FoldNode(fold[i-1], path[i])
    BY <2>1
  <2>3. QED
    BY <2>2, Zenon DEF Folded, StepOf
<1>7. SameEnd(fold, f, path)
  BY <1>1, <1>5, FoldedOnce, Zenon
<1>8. QED
  BY <1>1, <1>2, <1>7 DEF SameEnd

(* and FoldBoth is VerifyConsistency's. *)
LEMMA FoldBothIs ==
  ASSUME NEW seed, NEW fn, NEW sn, NEW path, Len(path) \in Nat, NEW y,
         Folds(TRUE, [fr |-> seed, sr |-> seed, fn |-> fn, sn |-> sn, beyond |-> FALSE], path, y)
  PROVE  FoldBoth(seed, fn, sn, path) = y
<1> DEFINE N == Len(path)
           x == [fr |-> seed, sr |-> seed, fn |-> fn, sn |-> sn, beyond |-> FALSE]
           fold == CHOOSE fold : fold = [i \in 0..N |->
                     IF i = 0 THEN [fr |-> seed, sr |-> seed, fn |-> fn, sn |-> sn,
                     beyond |-> FALSE]
                     ELSE BothNode(fold[i-1], path[i])]
<1>1. PICK f : Folded(f, TRUE, x, path) /\ f[N] = y
  BY Zenon DEF Folds
<1>2. FoldBoth(seed, fn, sn, path) = fold[N]
  BY Zenon DEF FoldBoth
<1> DEFINE g == [i \in 0..N |-> f[i]]
<1>3. g = [i \in 0..N |-> IF i = 0 THEN x ELSE BothNode(g[i-1], path[i])]
  <2> HIDE DEF x
  <2>1. ASSUME NEW i \in 0..N PROVE f[i] = IF i = 0 THEN x ELSE BothNode(g[i-1], path[i])
    <3>1. CASE i = 0
      BY <1>1, <3>1 DEF Folded
    <3>2. CASE i # 0
      <4>1. i \in 1..N /\ g[i-1] = f[i-1]
        BY <3>2
      <4>2. f[i] = StepOf(TRUE, f[i-1], path[i])
        BY <1>1, <4>1 DEF Folded
      <4>3. QED
        BY <3>2, <4>1, <4>2, Zenon DEF StepOf
    <3>3. QED
      BY <3>1, <3>2
  <2>2. QED
    BY <2>1
<1> HIDE DEF g
<1>4. fold = [i \in 0..N |-> IF i = 0 THEN x ELSE BothNode(fold[i-1], path[i])]
  BY <1>3, Zenon
<1> HIDE DEF fold
<1>5. Folded(fold, TRUE, x, path)
  <2> HIDE DEF x
  <2>1. \A i \in 0..N : fold[i] = IF i = 0 THEN x ELSE BothNode(fold[i-1], path[i])
    BY <1>4, Zenon
  <2>2. fold[0] = x /\ \A i \in 1..N : fold[i] = BothNode(fold[i-1], path[i])
    BY <2>1
  <2>3. QED
    BY <2>2, Zenon DEF Folded, StepOf
<1>7. SameEnd(fold, f, path)
  BY <1>1, <1>5, FoldedOnce, Zenon
<1>8. QED
  BY <1>1, <1>2, <1>7 DEF SameEnd
-----------------------------------------------------------------------------
(* Places in a tree: the node a at level p, and the m-th leaf below it. The  *)
(* verifiers hold an index and the last leaf's index, and halve both.        *)

(* The index of the m-th leaf below node a of level p. *)
Place(a, p, m) == a * Power[p] + m

(* A node's place in terms of its children's, and of a node r levels above.  *)
LEMMA PlaceSteps ==
  ASSUME NEW a \in Nat, NEW p \in Nat
  PROVE  /\ \A m \in Nat : Place(a, p, m) \in Nat /\ (p = 0 => Place(a, p, m) = a + m)
         /\ \A m \in Nat : Place(2 * a, p, m) = Place(a, p + 1, m)
         /\ \A m \in Nat : m >= Power[p] => Place(2 * a + 1, p, m - Power[p]) = Place(a, p + 1, m)
         /\ \A r, m \in Nat : Place(a * Power[r], p, m) = Place(a, r + p, m)
<1> DEFINE P == Power[p]
           x == a * P
<1>1. P \in Nat /\ P >= 1 /\ Power[p + 1] = 2 * P /\ (p = 0 => P = 1)
  BY PowerSteps
<1> HIDE DEF P
<1>2. x \in Nat /\ (P = 1 => x = a)
  BY <1>1
<1>3. (2 * a) * P = 2 * x /\ (2 * a + 1) * P = 2 * x + P /\ a * (2 * P) = 2 * x
  BY <1>1
<1> HIDE DEF x
<1>4. ASSUME NEW m \in Nat
      PROVE  Place(a, p, m) \in Nat /\ (p = 0 => Place(a, p, m) = a + m)
               /\ Place(2 * a, p, m) = Place(a, p + 1, m)
             /\ (m >= P => Place(2 * a + 1, p, m - P) = Place(a, p + 1, m))
  <2>1. Place(a, p, m) = x + m /\ Place(2 * a, p, m) = 2 * x + m /\ Place(a, p + 1, m) = 2 * x + m
        /\ Place(2 * a + 1, p, m - P) = 2 * x + P + (m - P)
    BY <1>1, <1>3 DEF Place, x, P
  <2>2. QED
    BY <1>1, <1>2, <2>1
<1>5. ASSUME NEW r \in Nat, NEW m \in Nat PROVE Place(a * Power[r], p, m) = Place(a, r + p, m)
  <2> DEFINE R == Power[r]
  <2>1. R \in Nat /\ Power[r + p] = R * P
    BY PowerSteps, PowerSum DEF P
  <2> HIDE DEF R
  <2>2. (a * R) * P = a * (R * P)
    BY <1>1, <2>1
  <2>3. QED
    BY <2>1, <2>2 DEF Place, R, P
<1>6. QED
  BY <1>4, <1>5 DEF P

(* Powers of two are positive numbers. *)
LEMMA PowerType == \A p \in Nat : Power[p] \in Nat /\ Power[p] >= 1
BY PowerSteps

(* At level 0 the place is the node's own index, moved by m. *)
LEMMA PlaceZero == \A a, m \in Nat : Place(a, 0, m) = a + m
BY PlaceSteps

(* A place in the left child is the same place in the node, *)
LEMMA PlaceLeft == \A a, p, m \in Nat : Place(2 * a, p, m) = Place(a, p + 1, m)
BY PlaceSteps, Zenon

(* one in the right child too, less the left child's leaves. *)
LEMMA PlaceRight ==
  \A a, p, m \in Nat : m >= Power[p] => Place(2 * a + 1, p, m - Power[p]) = Place(a, p + 1, m)
BY PlaceSteps, Zenon

(* A leftmost node r levels below has the same places. *)
LEMMA PlaceAbove == \A a, p, r, m \in Nat : Place(a * Power[r], p, m) = Place(a, r + p, m)
BY PlaceSteps, Zenon

(* The root's places are the leaves' indices. *)
LEMMA PlaceStart == \A p, m \in Nat : Place(0, p, m) = m
<1> SUFFICES ASSUME NEW p \in Nat, NEW m \in Nat PROVE Place(0, p, m) = m
  OBVIOUS
<1>1. Power[p] \in Nat
  BY PowerType
<1>2. QED
  BY <1>1 DEF Place

(* The levels that the loop skips at the right edge: down to the first odd   *)
(* index.                                                                    *)
LEMMA EdgeOf ==
  /\ \A a, b \in Nat : Edge[<<2 * a + 1, b>>] = <<2 * a + 1, b>>
  /\ \A a, j \in Nat : LET z == (2 * a + 1) * Power[j] IN
       z \in Nat /\ z # 0 /\ Edge[<<z, z>>] = <<2 * a + 1, 2 * a + 1>>
<1>1. ASSUME NEW a \in Nat, NEW b \in Nat PROVE Edge[<<2 * a + 1, b>>] = <<2 * a + 1, b>>
  <2>1. 2 * a + 1 \in Nat /\ (2 * a + 1) % 2 # 0
    OBVIOUS
  <2>2. QED
    BY <2>1, EdgeSteps
<1>2. ASSUME NEW a \in Nat, NEW j \in Nat
      PROVE  LET z == (2 * a + 1) * Power[j] IN
               z \in Nat /\ z # 0 /\ Edge[<<z, z>>] = <<2 * a + 1, 2 * a + 1>>
  <2> DEFINE o    == 2 * a + 1
             Z(i) == o * Power[i]
             T    == {i \in 0..j : Z(i) \in Nat /\ Z(i) # 0 /\ Edge[<<Z(i), Z(i)>>] = <<o, o>>}
  <2>1. o \in Nat /\ o # 0 /\ Edge[<<o, o>>] = <<o, o>>
    BY <1>1
  <2> HIDE DEF o
  <2>2. 0 \in T
    <3>1. Z(0) = o
      BY <2>1, PowerSteps
    <3>2. QED
      BY <2>1, <3>1
  <2>3. ASSUME NEW i \in 1..j, i - 1 \in T PROVE i \in T
    <3> DEFINE y == Z(i - 1)
               z == Z(i)
               P == Power[i - 1]
    <3>1. P \in Nat /\ Power[i] = 2 * P
      <4>1. i - 1 \in Nat /\ (i - 1) + 1 = i
        OBVIOUS
      <4>2. QED
        BY <4>1, PowerSteps
    <3>2. y \in Nat /\ y # 0 /\ Edge[<<y, y>>] = <<o, o>>
      BY <2>3
    <3>3. z = 2 * y
      <4>1. y = o * P /\ z = o * (2 * P)
        BY <3>1
      <4> HIDE DEF y, z, P
      <4>2. QED
        BY <2>1, <3>1, <4>1
    <3> HIDE DEF y, z
    <3>4. z \in Nat /\ z # 0 /\ z % 2 = 0 /\ z \div 2 = y
      BY <3>2, <3>3
    <3>5. Edge[<<z, z>>] = <<o, o>>
      BY <3>2, <3>4, EdgeSteps
    <3>6. QED
      BY <3>4, <3>5 DEF z
  <2>4. 0..j \subseteq T
    <3> HIDE DEF T
    <3> QED BY <2>2, <2>3, CountUp
  <2>5. QED
    BY <2>4 DEF o
<1>3. QED
  BY <1>1, <1>2

(* The boundary of the first m leaves: the loop goes up while the last of    *)
(* them is the last leaf of a right child.                                   *)
LEMMA BoundaryOf ==
  ASSUME NEW a \in Nat, NEW b \in Nat, NEW p \in Nat, NEW s \in Nat, s < Power[p]
  PROVE  Boundary[<<Place(2 * a, p, Power[p] - 1), Place(b, p, s)>>] = <<2 * a, b>>
<1> DEFINE e    == 2 * a
           X(i) == Place(e, i, Power[i] - 1)
           Good(i) == \A t \in Nat : t < Power[i] => Boundary[<<X(i), Place(b, i, t)>>] = <<e, b>>
           T    == {i \in 0..p : Good(i)}
<1>1. e \in Nat /\ e % 2 # 1
  OBVIOUS
<1> HIDE DEF e
<1>2. 0 \in T
  <2> SUFFICES ASSUME NEW t \in Nat, t < Power[0]
                      PROVE Boundary[<<X(0), Place(b, 0, t)>>] = <<e, b>>
    OBVIOUS
  <2>1. Power[0] = 1 /\ t = 0
    BY PowerSteps
  <2>2. X(0) = e /\ Place(b, 0, t) = b
    BY <1>1, <2>1 DEF Place
  <2>3. QED
    BY <1>1, <2>2, BoundarySteps
<1>3. ASSUME NEW i \in 1..p, i - 1 \in T PROVE i \in T
  <2> SUFFICES ASSUME NEW t \in Nat, t < Power[i]
                      PROVE Boundary[<<X(i), Place(b, i, t)>>] = <<e, b>>
    OBVIOUS
  <2> DEFINE j == i - 1
             P == Power[j]
             x == X(j)
             h == t \div 2
             y == Place(b, j, h)
  <2>1. j \in Nat /\ i = j + 1 /\ P \in Nat /\ P >= 1 /\ Power[i] = 2 * P
    <3>1. j \in Nat /\ i = j + 1
      OBVIOUS
    <3>2. QED
      BY <3>1, PowerSteps
  <2>2. h \in Nat /\ h < P /\ t - 2 * h \in 0..1
    BY <2>1
  <2>3. Boundary[<<x, y>>] = <<e, b>>
    BY <1>3, <2>2
  <2>4. x \in Nat /\ y \in Nat /\ X(i) = 2 * x + 1 /\ Place(b, i, t) = 2 * y + (t - 2 * h)
    <3> DEFINE u == e * P
               v == b * P
    <3>1. x = u + (P - 1) /\ y = v + h
      BY DEF Place
    <3>2. X(i) = e * (2 * P) + (2 * P - 1) /\ Place(b, i, t) = b * (2 * P) + t
      BY <2>1 DEF Place
    <3> HIDE DEF P, j, x, y, h
    <3>3. u \in Nat /\ v \in Nat /\ e * (2 * P) = 2 * u /\ b * (2 * P) = 2 * v
      BY <1>1, <2>1
    <3> HIDE DEF u, v, X
    <3>4. QED
      BY <2>1, <2>2, <3>1, <3>2, <3>3
  <2> HIDE DEF x, y, h, X
  <2>5. (2 * x + 1) % 2 = 1 /\ (2 * x + 1) \div 2 = x /\ (2 * y + (t - 2 * h)) \div 2 = y
        /\ 2 * x + 1 \in Nat /\ 2 * y + (t - 2 * h) \in Nat
    BY <2>2, <2>4
  <2>6. QED
    <3> DEFINE a0 == 2 * x + 1
               b0 == 2 * y + (t - 2 * h)
    <3>1. a0 \in Nat /\ b0 \in Nat /\ a0 % 2 = 1 /\ a0 \div 2 = x /\ b0 \div 2 = y
      BY <2>5
    <3>2. X(i) = a0 /\ Place(b, i, t) = b0
      BY <2>4
    <3> HIDE DEF a0, b0
    <3>3. Boundary[<<a0, b0>>] = Boundary[<<x, y>>]
      BY <3>1, BoundarySteps, Zenon
    <3>4. QED
      BY <2>3, <3>2, <3>3, Zenon
<1>4. 0..p \subseteq T
  <2> HIDE DEF T
  <2> QED BY <1>2, <1>3, CountUp
<1>5. Good(p)
  BY <1>4
<1>6. QED
  BY <1>5 DEF e
-----------------------------------------------------------------------------
(* VerifyInclusion: along a path of the right length the loop goes from a    *)
(* leaf up to the root, to the left and to the right as the tree does.       *)

(* The paths that VerifyInclusion does not turn down for their length. *)
Paths(m, n) == {path \in Seq(Tree) : Len(path) = PathLen[<<m, n>>]}
(* Where VerifyInclusion's loop is. *)
Spot(x, fn, sn) == [acc |-> x, fn |-> fn, sn |-> sn]

(* A path leads from the leaf x at place m to a hash w at <<a, b>>, which is *)
(* the subtree's exactly if x is the leaf there and the path its own.        *)
Climbs(d, m, x, path, fn, sn, a, b, w) ==
  /\ Folds(FALSE, Spot(x, fn, sn), path, Spot(w, a, b))
  /\ w = TreeHash[d] <=> path = InclusionPath[<<m, d>>] /\ x = d[m + 1]
(* It leads to some tree. *)
Climb(d, m, x, path, fn, sn, a, b) == \E w \in Tree : Climbs(d, m, x, path, fn, sn, a, b, w)

(* A path is the path before its last node, *)
Front(path) == Prefix(path, Len(path) - 1)
(* and that node. *)
Final(path) == path[Len(path)]

(* Every path that is not empty is put together of those two. *)
LEMMA FrontFinal ==
  ASSUME NEW S, NEW path \in Seq(S), Len(path) # 0
  PROVE  /\ Front(path) \in Seq(S) /\ Len(Front(path)) = Len(path) - 1 /\ Final(path) \in S
         /\ path = Append(Front(path), Final(path))
<1> DEFINE n == Len(path)
           q == Front(path)
<1>1. n \in Nat /\ n >= 1 /\ n - 1 \in 0..Len(path)
  OBVIOUS
<1>2. q \in Seq(S) /\ Len(q) = n - 1 /\ \A i \in 1..(n - 1) : q[i] = path[i]
  BY <1>1, Cuts, ZenonT(30) DEF Front
<1>3. Final(path) \in S
  BY <1>1 DEF Final
<1> HIDE DEF q
<1>4. Append(q, Final(path)) \in Seq(S) /\ Len(Append(q, Final(path))) = n
      /\ \A i \in 1..n : Append(q, Final(path))[i] = path[i]
  BY <1>1, <1>2, <1>3 DEF Final
<1>5. path = Append(q, Final(path))
  BY <1>4
<1>6. QED
  BY <1>2, <1>3, <1>5 DEF q

(* Two paths, each with one more node, are the same. *)
SameEnding(p, x, q, y) == Append(p, x) = Append(q, y)

(* Then the nodes are the same and so are the paths before them. *)
LEMMA AppendCancels ==
  ASSUME NEW p \in Seq(Word), NEW q \in Seq(Word), NEW x \in Word, NEW y \in Word,
         SameEnding(p, x, q, y)
  PROVE  p = q /\ x = y
<1>0. Append(p, x) = Append(q, y)
  BY DEF SameEnding
<1>1. Len(Append(p, x)) = Len(p) + 1 /\ Len(Append(q, y)) = Len(q) + 1
  OBVIOUS
<1>2. Len(p) \in Nat /\ Len(q) \in Nat /\ Len(p) = Len(q)
  <2>1. Len(p) \in Nat /\ Len(q) \in Nat
    OBVIOUS
  <2>2. Len(p) + 1 = Len(q) + 1
    BY <1>0, <1>1, Zenon
  <2>3. QED
    BY <2>1, <2>2
<1>3. \A i \in 1..Len(p) : Append(p, x)[i] = p[i] /\ Append(q, y)[i] = q[i]
  BY <1>2
<1>4. \A i \in 1..Len(p) : p[i] = q[i]
  BY <1>0, <1>3, Zenon
<1>5. Append(p, x)[Len(p) + 1] = x /\ Append(q, y)[Len(q) + 1] = y
  BY <1>2
<1>6. x = y
  BY <1>0, <1>2, <1>5, Zenon
<1>7. QED
  BY <1>2, <1>4, <1>6

(* Trees are words. *)
LEMMA WordsOfTrees == Seq(Tree) \subseteq Seq(Word)
<1>1. ASSUME NEW s \in Seq(Tree) PROVE s \in Seq(Word)
  <2>1. \A i \in 1..Len(s) : s[i] \in Word
    BY TreeClosed
  <2>2. QED
    BY <2>1
<1>2. QED
  BY <1>1

(* A path in a tree is a path in the half that the leaf is in, and a node. *)
PathsCutOf(m, n, k, path) ==
  /\ path \in Seq(Tree) /\ Front(path) \in Seq(Word) /\ Final(path) \in Tree
  /\ path = Append(Front(path), Final(path))
  /\ m < k => Front(path) \in Paths(m, k)
  /\ m >= k => Front(path) \in Paths(m - k, n - k)

(* Every path of the right length is cut like that. *)
LEMMA PathsCut ==
  ASSUME NEW m \in Nat, NEW n \in Nat, n >= 2, NEW path \in Paths(m, n)
  PROVE  PathsCutOf(m, n, Split(n), path)
<1> DEFINE k == Split(n)
<1>1. k \in Nat /\ k < n
  BY SplitBounds
<1> HIDE DEF k
<1>2. PathLen[<<m, n>>] = 1 + IF m < k THEN PathLen[<<m, k>>] ELSE PathLen[<<m - k, n - k>>]
  BY PathLenSteps DEF k
<1>3. (m < k => PathLen[<<m, k>>] \in Nat) /\ (m >= k => PathLen[<<m - k, n - k>>] \in Nat)
  <2>1. <<m, k>> \in Nat \X Nat /\ (m >= k => <<m - k, n - k>> \in Nat \X Nat)
    BY <1>1
  <2>2. QED
    BY <2>1, PathLenSteps
<1>4. path \in Seq(Tree) /\ Len(path) = PathLen[<<m, n>>]
  BY DEF Paths
<1>5. Len(path) # 0
  BY <1>1, <1>2, <1>3, <1>4
<1> DEFINE q == Front(path)
<1>6. q \in Seq(Tree) /\ Len(q) = Len(path) - 1 /\ Final(path) \in Tree
        /\ path = Append(q, Final(path))
  BY <1>4, <1>5, FrontFinal
<1> HIDE DEF q
<1>7. m < k => Len(q) = PathLen[<<m, k>>]
  BY <1>2, <1>3, <1>4, <1>6
<1>8. m >= k => Len(q) = PathLen[<<m - k, n - k>>]
  BY <1>1, <1>2, <1>3, <1>4, <1>6
<1>9. q \in Seq(Word)
  BY <1>6, WordsOfTrees
<1>10. QED
  BY <1>4, <1>6, <1>7, <1>8, <1>9, Zenon DEF PathsCutOf, Paths, q, k

(* The two halves of a tree, their hashes and their leaves. *)
InHalves(d, k, l, r) ==
  /\ k \in Nat /\ k >= 1 /\ k < Len(d)
  /\ l \in Trees /\ Len(l) = k /\ r \in Trees /\ Len(r) = Len(d) - k
  /\ TreeHash[d] = NodeHash(TreeHash[l], TreeHash[r])
  /\ \A m \in Nat : m < k => l[m + 1] = d[m + 1]
  /\ \A m \in Nat : m >= k /\ m < Len(d) => r[m - k + 1] = d[m + 1]

(* A tree of two leaves or more has them. *)
LEMMA InTwo ==
  ASSUME NEW d \in Trees, Len(d) >= 2
  PROVE  LET k == Split(Len(d)) IN InHalves(d, k, Prefix(d, k), Rest(d, k))
<1> DEFINE n == Len(d)
           k == Split(n)
           l == Prefix(d, k)
           r == Rest(d, k)
<1>1. d \in Seq(Word) /\ n \in Nat
  BY TreesCut
<1>2. k \in Nat /\ k >= 1 /\ k < n
  BY <1>1, SplitBounds
<1>3. l \in Trees /\ Len(l) = k /\ r \in Trees /\ Len(r) = n - k
  BY <1>2, TreesCut
<1>4. TreeHash[d] = NodeHash(TreeHash[l], TreeHash[r])
  BY <1>1, TreeHashSteps
<1>5. (\A i \in 1..k : l[i] = d[i]) /\ \A i \in 1..(n - k) : r[i] = d[k + i]
  <2>1. k \in 0..Len(d)
    BY <1>1, <1>2
  <2>2. QED
    BY <1>1, <2>1, Cuts
<1> HIDE DEF k, l, r, n
<1>6. ASSUME NEW m \in Nat, m < k PROVE l[m + 1] = d[m + 1]
  BY <1>2, <1>5, <1>6
<1>7. ASSUME NEW m \in Nat, m >= k, m < n PROVE r[m - k + 1] = d[m + 1]
  <2>1. m - k + 1 \in 1..(n - k) /\ k + (m - k + 1) = m + 1
    BY <1>1, <1>2, <1>7
  <2>2. QED
    BY <1>5, <2>1
<1>8. InHalves(d, k, l, r)
  BY <1>2, <1>3, <1>4, <1>6, <1>7 DEF InHalves, n
<1>9. QED
  BY <1>8 DEF k, l, r, n

(* From the left half to the tree: the last node is the right half's hash,   *)
(* and the loop takes it for a right sibling.                                *)
LEMMA ClimbLeft ==
  ASSUME NEW d \in Trees, Len(d) >= 2, NEW m \in Nat, m < Split(Len(d)), NEW x \in Tree,
         NEW path \in Paths(m, Len(d)), NEW fn, NEW sn, NEW a \in Nat, NEW b \in Nat,
         ~OnRight(a, b),
         Climb(Prefix(d, Split(Len(d))), m, x, Front(path), fn, sn, a, b)
  PROVE  Climb(d, m, x, path, fn, sn, a \div 2, b \div 2)
<1> DEFINE k == Split(Len(d))
           l == Prefix(d, k)
           r == Rest(d, k)
           q == Front(path)
           e == Final(path)
           L == TreeHash[l]
           R == TreeHash[r]
<1>1. InHalves(d, k, l, r)
  BY InTwo, Zenon
<1>2. d \in Seq(Word) /\ Len(d) \in Nat
  BY TreesCut
<1>3. q \in Seq(Word) /\ e \in Tree /\ e \in Word /\ path = Append(q, e)
  BY <1>2, PathsCut, TreeClosed DEF PathsCutOf
<1>4. PICK w \in Tree : Climbs(l, m, x, q, fn, sn, a, b, w)
  BY Zenon DEF Climb
<1>5. InclusionPath[<<m, d>>] = Append(InclusionPath[<<m, l>>], R)
  BY <1>2, InclusionPathSteps
<1>6. L \in Tree /\ R \in Tree /\ R \in Word /\ TreeHash[d] = NodeHash(L, R)
        /\ l[m + 1] = d[m + 1]
      /\ InclusionPath[<<m, l>>] \in Seq(Word)
  <2>1. l \in Trees /\ r \in Trees /\ TreeHash[d] = NodeHash(L, R) /\ l[m + 1] = d[m + 1]
    BY <1>1 DEF InHalves
  <2>2. L \in Tree /\ R \in Tree
    BY <2>1, HashIsTree
  <2>3. l \in Seq(Word)
    BY <2>1, TreesCut
  <2>4. <<m, l>> \in Nat \X Seq(Word)
    BY <2>3
  <2>5. QED
    BY <2>1, <2>2, <2>4, InclusionPathSteps, TreeClosed
<1> DEFINE z == NodeHash(w, e)
<1>7. z \in Tree
  BY <1>3, TreeClosed DEF Closed
<1>8. StepOf(FALSE, Spot(w, a, b), e) = Spot(z, a \div 2, b \div 2)
  <2>1. Spot(w, a, b).acc = w /\ Spot(w, a, b).fn = a /\ Spot(w, a, b).sn = b
    BY DEF Spot
  <2>2. FoldNode(Spot(w, a, b), e) = [acc |-> z, fn |-> a \div 2, sn |-> b \div 2]
    BY <2>1 DEF FoldNode
  <2>3. QED
    BY <2>2, Zenon DEF StepOf, Spot
<1> HIDE DEF k, l, r, q, e, L, R
<1>9. Folds(FALSE, Spot(x, fn, sn), path, Spot(z, a \div 2, b \div 2))
  BY <1>3, <1>4, <1>8, FoldsOn, Zenon DEF Climbs
<1>10. ASSUME z = TreeHash[d] PROVE path = InclusionPath[<<m, d>>] /\ x = d[m + 1]
  <2>1. w = L /\ e = R
    BY <1>3, <1>6, <1>10, NodeInjective
  <2>2. q = InclusionPath[<<m, l>>] /\ x = l[m + 1]
    BY <1>4, <2>1, Zenon DEF Climbs, L
  <2>3. QED
    BY <1>3, <1>5, <1>6, <2>1, <2>2, Zenon
<1>11. ASSUME path = InclusionPath[<<m, d>>], x = d[m + 1] PROVE z = TreeHash[d]
  <2>1. SameEnding(q, e, InclusionPath[<<m, l>>], R)
    BY <1>3, <1>5, <1>11, Zenon DEF SameEnding
  <2>2. q = InclusionPath[<<m, l>>] /\ e = R
    BY <1>3, <1>6, <2>1, AppendCancels, Zenon
  <2>3. w = L
    BY <1>4, <1>6, <1>11, <2>2 DEF Climbs, L
  <2>4. QED
    BY <1>6, <2>2, <2>3
<1> HIDE DEF z
<1>12. Climbs(d, m, x, path, fn, sn, a \div 2, b \div 2, z)
  BY <1>9, <1>10, <1>11, Zenon DEF Climbs
<1>13. QED
  BY <1>7, <1>12, Zenon DEF Climb

(* From the right half to the tree: the last node is the left half's hash,   *)
(* and the loop takes it for a left sibling and skips the edge.              *)
LEMMA ClimbRight ==
  ASSUME NEW d \in Trees, Len(d) >= 2, NEW m \in Nat, m >= Split(Len(d)), m < Len(d),
         NEW x \in Tree,
         NEW path \in Paths(m, Len(d)), NEW fn, NEW sn, NEW a \in Nat, NEW b \in Nat,
         OnRight(a, b),
         Climb(Rest(d, Split(Len(d))), m - Split(Len(d)), x, Front(path), fn, sn, a, b),
         NEW f \in Nat, NEW s \in Nat, Edge[<<a, b>>] = <<f, s>>
  PROVE  Climb(d, m, x, path, fn, sn, f \div 2, s \div 2)
<1> DEFINE k == Split(Len(d))
           l == Prefix(d, k)
           r == Rest(d, k)
           i == m - k
           q == Front(path)
           e == Final(path)
           L == TreeHash[l]
           R == TreeHash[r]
<1>1. InHalves(d, k, l, r)
  BY InTwo, Zenon
<1>2. d \in Seq(Word) /\ Len(d) \in Nat /\ k \in Nat
  BY <1>1, TreesCut DEF InHalves
<1>3. q \in Seq(Word) /\ e \in Tree /\ e \in Word /\ path = Append(q, e)
  BY <1>2, PathsCut, TreeClosed DEF PathsCutOf
<1>4. PICK w \in Tree : Climbs(r, i, x, q, fn, sn, a, b, w)
  BY Zenon DEF Climb
<1>5. InclusionPath[<<m, d>>] = Append(InclusionPath[<<i, r>>], L)
  <2>1. ~(m < k)
    BY <1>2
  <2>2. QED
    BY <1>2, <2>1, InclusionPathSteps
<1>6. L \in Tree /\ R \in Tree /\ L \in Word /\ TreeHash[d] = NodeHash(L, R)
        /\ r[i + 1] = d[m + 1]
      /\ InclusionPath[<<i, r>>] \in Seq(Word)
  <2>1. l \in Trees /\ r \in Trees /\ TreeHash[d] = NodeHash(L, R) /\ r[i + 1] = d[m + 1]
    BY <1>1 DEF InHalves
  <2>2. L \in Tree /\ R \in Tree
    BY <2>1, HashIsTree
  <2>3. r \in Seq(Word)
    BY <2>1, TreesCut
  <2>4. <<i, r>> \in Nat \X Seq(Word)
    BY <1>2, <2>3
  <2>5. QED
    BY <2>1, <2>2, <2>4, InclusionPathSteps, TreeClosed
<1> DEFINE z == NodeHash(e, w)
<1>7. z \in Tree
  BY <1>3, TreeClosed DEF Closed
<1>8. StepOf(FALSE, Spot(w, a, b), e) = Spot(z, f \div 2, s \div 2)
  <2>1. Spot(w, a, b).acc = w /\ Spot(w, a, b).fn = a /\ Spot(w, a, b).sn = b
    BY DEF Spot
  <2>2. Edge[<<a, b>>][1] = f /\ Edge[<<a, b>>][2] = s
    OBVIOUS
  <2>3. FoldNode(Spot(w, a, b), e) = [acc |-> z, fn |-> f \div 2, sn |-> s \div 2]
    BY <2>1, <2>2 DEF FoldNode
  <2>4. QED
    BY <2>3, Zenon DEF StepOf, Spot
<1> HIDE DEF k, l, r, q, e, L, R, i
<1>9. Folds(FALSE, Spot(x, fn, sn), path, Spot(z, f \div 2, s \div 2))
  BY <1>3, <1>4, <1>8, FoldsOn, Zenon DEF Climbs
<1>10. ASSUME z = TreeHash[d] PROVE path = InclusionPath[<<m, d>>] /\ x = d[m + 1]
  <2>1. w = R /\ e = L
    BY <1>3, <1>6, <1>10, NodeInjective
  <2>2. q = InclusionPath[<<i, r>>] /\ x = r[i + 1]
    BY <1>4, <2>1, Zenon DEF Climbs, R
  <2>3. QED
    BY <1>3, <1>5, <1>6, <2>1, <2>2, Zenon
<1>11. ASSUME path = InclusionPath[<<m, d>>], x = d[m + 1] PROVE z = TreeHash[d]
  <2>1. SameEnding(q, e, InclusionPath[<<i, r>>], L)
    BY <1>3, <1>5, <1>11, Zenon DEF SameEnding
  <2>2. q = InclusionPath[<<i, r>>] /\ e = L
    BY <1>3, <1>6, <2>1, AppendCancels, Zenon
  <2>3. w = R
    BY <1>4, <1>6, <1>11, <2>2 DEF Climbs, R
  <2>4. QED
    BY <1>6, <2>2, <2>3
<1> HIDE DEF z
<1>12. Climbs(d, m, x, path, fn, sn, f \div 2, s \div 2, z)
  BY <1>9, <1>10, <1>11, Zenon DEF Climbs
<1>13. QED
  BY <1>7, <1>12, Zenon DEF Climb

(* A leaf is its tree. *)
LEMMA ClimbLeaf ==
  ASSUME NEW d \in Trees, Len(d) = 1, NEW x \in Tree, NEW path \in Paths(0, Len(d)), NEW fn,
         NEW sn
  PROVE  Climb(d, 0, x, path, fn, sn, fn, sn)
<1>1. d \in Seq(Word)
  BY TreesCut
<1>2. TreeHash[d] = d[1]
  BY <1>1, TreeHashSteps
<1>3. PathLen[<<0, 1>>] = 0
  <2>1. 0 \in Nat /\ 1 \in Nat /\ 1 <= 1
    OBVIOUS
  <2>2. QED
    BY <2>1, PathLenSteps, Zenon
<1>4. path = <<>>
  <2>1. path \in Seq(Tree) /\ Len(path) = 0
    BY <1>3 DEF Paths
  <2>2. QED
    BY <2>1, Lengths, Zenon
<1>5. Folds(FALSE, Spot(x, fn, sn), path, Spot(x, fn, sn))
  BY <1>4, FoldsNone, Zenon
<1>6. 0 + 1 = 1
  OBVIOUS
<1>7. InclusionPath[<<0, d>>] = <<>>
  <2>1. 0 \in Nat /\ Len(d) <= 1
    OBVIOUS
  <2>2. QED
    BY <1>1, <2>1, InclusionPathSteps, Zenon
<1>8. Climbs(d, 0, x, path, fn, sn, fn, sn, x)
  BY <1>2, <1>4, <1>5, <1>6, <1>7, Zenon DEF Climbs
<1>9. QED
  BY <1>8, Zenon DEF Climb

(* Inside of a tree, where the subtree at <<a, b>> is complete and does not  *)
(* end the tree, a path leads up to that place.                              *)
Inside(d) ==
  \A p, m, a, b, s \in Nat, x \in Tree : \A path \in Paths(m, Len(d)) :
    Len(d) = Power[p] /\ m < Power[p] /\ a < b /\ s < Power[p]
    => Climb(d, m, x, path, Place(a, p, m), Place(b, p, s), a, b)

(* It does for every tree: by induction on the number of leaves. *)
LEMMA ClimbInside == ASSUME NEW d \in Trees PROVE Inside(d)
<1> DEFINE S == {e \in Trees : Inside(e)}
           rank == [e \in Trees |-> Len(e)]
<1>1. rank \in [Trees -> Nat]
  BY TreesCut
<1>2. ASSUME NEW e \in Trees, \A c \in Trees : rank[c] < rank[e] => c \in S PROVE e \in S
  <2> SUFFICES ASSUME NEW p \in Nat, NEW m \in Nat, NEW a \in Nat, NEW b \in Nat, NEW s \in Nat,
                      NEW x \in Tree, NEW path \in Paths(m, Len(e)),
                      Len(e) = Power[p], m < Power[p], a < b, s < Power[p]
               PROVE  Climb(e, m, x, path, Place(a, p, m), Place(b, p, s), a, b)
    BY DEF Inside
  <2>1. CASE p = 0
    <3>1. Len(e) = 1 /\ m = 0 /\ s = 0
      BY <2>1, PowerSteps
    <3>2. Place(a, p, m) = a /\ Place(b, p, s) = b
      <4>1. Place(a, 0, 0) = a + 0 /\ Place(b, 0, 0) = b + 0
        BY PlaceZero
      <4>2. QED
        BY <2>1, <3>1, <4>1
    <3>3. QED
      BY <3>1, <3>2, ClimbLeaf, Zenon
  <2>2. CASE p # 0
    <3> DEFINE t == p - 1
               k == Power[t]
               l == Prefix(e, k)
               r == Rest(e, k)
    <3>1. t \in Nat /\ p = t + 1 /\ k \in Nat /\ k >= 1 /\ Power[p] = 2 * k
      <4>1. t \in Nat /\ p = t + 1
        BY <2>2
      <4>2. Power[t] \in Nat \ {0} /\ Power[t + 1] = 2 * Power[t]
        BY <4>1, PowerSteps, Zenon
      <4>3. QED
        BY <4>1, <4>2
    <3>2. Len(e) \in Nat /\ Len(e) >= 2 /\ Split(Len(e)) = k
      <4>1. Len(e) \in Nat /\ Power[t] < Len(e) /\ Len(e) <= 2 * Power[t] /\ Len(e) >= 2
        BY <3>1
      <4>2. QED
        BY <3>1, <4>1, SplitOnly
    <3>3. InHalves(e, k, l, r)
      BY <3>2, InTwo, Zenon
    <3>4. l \in Trees /\ r \in Trees /\ Len(l) = Power[t] /\ Len(r) = Power[t]
      BY <3>1, <3>2, <3>3 DEF InHalves
    <3>5. Inside(l) /\ Inside(r)
      <4> HIDE DEF k, l, r, t
      <4>1. rank[l] < rank[e] /\ rank[r] < rank[e]
        BY <3>1, <3>2, <3>4 DEF k
      <4>2. QED
        BY <1>2, <3>4, <4>1
    <3>6. PICK h \in Nat, v \in Nat : (h = 2 * b \/ h = 2 * b + 1) /\ v < k
                 /\ Place(h, t, v) = Place(b, p, s)
      <4>1. CASE s < k
        <5>1. 2 * b \in Nat /\ Place(2 * b, t, s) = Place(b, p, s)
          BY <3>1, PlaceLeft
        <5>2. QED
          BY <4>1, <5>1
      <4>2. CASE ~(s < k)
        <5>1. s >= Power[t] /\ 2 * b + 1 \in Nat /\ s - k \in Nat /\ s - k < k
          BY <3>1, <4>2
        <5>2. Place(2 * b + 1, t, s - Power[t]) = Place(b, t + 1, s)
          BY <3>1, <5>1, PlaceRight
        <5>3. QED
          BY <3>1, <5>1, <5>2
      <4>3. QED
        BY <4>1, <4>2
    <3>7. PathsCutOf(m, Len(e), k, path)
      BY <3>2, PathsCut, Zenon DEF PathsCutOf
    <3>8. h \div 2 = b
      BY <3>6
    <3> HIDE DEF k, l, r, t
    <3>9. CASE m < k
      <4>1. Place(2 * a, t, m) = Place(a, p, m) /\ 2 * a \in Nat /\ (2 * a) \div 2 = a
              /\ 2 * a < h
        <5>1. 2 * a \in Nat /\ (2 * a) \div 2 = a /\ 2 * a < h
          BY <3>6
        <5>2. Place(2 * a, t, m) = Place(a, p, m)
          BY <3>1, PlaceLeft
        <5>3. QED
          BY <5>1, <5>2
      <4>2. ~OnRight(2 * a, h)
        BY <4>1 DEF OnRight
      <4>3. Front(path) \in Paths(m, Len(l))
        BY <3>4, <3>7, <3>9, Zenon DEF PathsCutOf, k
      <4>4. Climb(l, m, x, Front(path), Place(2 * a, t, m), Place(h, t, v), 2 * a, h)
        BY <3>1, <3>4, <3>5, <3>6, <3>9, <4>1, <4>3 DEF Inside, k
      <4>5. Climb(e, m, x, path, Place(a, p, m), Place(b, p, s), (2 * a) \div 2, h \div 2)
        <5> DEFINE y == 2 * a
        <5> HIDE DEF y
        <5>1. Climb(l, m, x, Front(path), Place(a, p, m), Place(b, p, s), y, h) /\ y \in Nat
                /\ ~OnRight(y, h)
          BY <3>6, <4>1, <4>2, <4>4 DEF y
        <5>2. Climb(e, m, x, path, Place(a, p, m), Place(b, p, s), y \div 2, h \div 2)
          BY <3>2, <3>9, <5>1, ClimbLeft, Zenon DEF l
        <5>3. QED
          BY <5>2 DEF y
      <4>6. QED
        BY <3>8, <4>1, <4>5
    <3>10. CASE ~(m < k)
      <4> DEFINE y == 2 * a + 1
                 i == m - k
      <4>1. m >= Power[t] /\ m >= k /\ i \in Nat /\ i < k /\ m < Len(e)
        BY <3>1, <3>10 DEF k
      <4>2. Place(y, t, i) = Place(a, p, m) /\ y \in Nat /\ y \div 2 = a /\ y < h
        <5>1. y \in Nat /\ y \div 2 = a /\ y < h
          BY <3>6
        <5>2. Place(2 * a + 1, t, m - Power[t]) = Place(a, t + 1, m)
          BY <3>1, <4>1, PlaceRight
        <5>3. QED
          BY <3>1, <5>1, <5>2 DEF k
      <4>3. OnRight(y, h) /\ Edge[<<y, h>>] = <<y, h>>
        <5>1. y % 2 = 1
          OBVIOUS
        <5>2. QED
          BY <3>6, <5>1, EdgeOf DEF OnRight
      <4> HIDE DEF y, i
      <4>4. Front(path) \in Paths(i, Len(r))
        BY <3>1, <3>2, <3>4, <3>7, <4>1 DEF PathsCutOf, k, i
      <4>5. Climb(r, i, x, Front(path), Place(y, t, i), Place(h, t, v), y, h)
        BY <3>1, <3>4, <3>5, <3>6, <4>1, <4>2, <4>4 DEF Inside, k
      <4>6. Climb(r, i, x, Front(path), Place(a, p, m), Place(b, p, s), y, h)
        BY <3>6, <4>2, <4>5
      <4>7. Climb(e, m, x, path, Place(a, p, m), Place(b, p, s), y \div 2, h \div 2)
        BY <3>2, <4>1, <4>2, <4>3, <4>6, ClimbRight, Zenon DEF r, i
      <4>8. QED
        BY <3>8, <4>2, <4>7
    <3>11. QED
      BY <3>9, <3>10
  <2>3. QED
    BY <2>1, <2>2
<1>3. Trees \subseteq S
  <2> HIDE DEF S, rank
  <2> QED BY <1>1, <1>2, RankInduction
<1>4. QED
  BY <1>3

(* At the right edge a path leads up to the edge of the whole tree. *)
OnEdge(d) ==
  \A q, m, a \in Nat, x \in Tree : \A path \in Paths(m, Len(d)) :
    Len(d) <= Power[q] /\ m < Len(d)
    => \E j \in Nat : Climb(d, m, x, path, Place(a, q, m), Place(a, q, Len(d) - 1),
                            a * Power[j], a * Power[j])

(* The levels of an edge below the one that ends at its lowest node. *)
Joined(q, p, a, e) ==
  /\ e \in Nat /\ \E j \in Nat : e = a * Power[j]
  /\ a = 0 <=> e = 0
  /\ \A m \in Nat : Place(a, q, m) = Place(e, p + 1, m)

(* Where a smaller right half meets the edge of its tree. *)
LEMMA EdgeJoins ==
  ASSUME NEW q \in Nat, NEW p \in Nat, p < q, NEW a \in Nat
  PROVE  \E e \in Nat : Joined(q, p, a, e)
<1> DEFINE j == q - p - 1
           e == a * Power[j]
<1>1. j \in Nat /\ j + (p + 1) = q /\ p + 1 \in Nat
  OBVIOUS
<1>2. Power[j] \in Nat /\ Power[j] >= 1
  BY <1>1, PowerType
<1>3. e \in Nat /\ (a = 0 <=> e = 0)
  <2> DEFINE P == Power[j]
  <2> HIDE DEF P
  <2>1. \A x \in Nat : x # 0 => x * P \in Nat /\ x * P # 0
    BY <1>2 DEF P
  <2>2. 0 * P = 0
    BY <1>2 DEF P
  <2>3. QED
    BY <2>1, <2>2 DEF P
<1>4. \A m \in Nat : Place(a * Power[j], p + 1, m) = Place(a, j + (p + 1), m)
  BY <1>1, PlaceAbove, Zenon
<1>5. \E i \in Nat : e = a * Power[i]
  BY <1>1, Zenon
<1>6. \A m \in Nat : Place(a, q, m) = Place(e, p + 1, m)
  BY <1>1, <1>4
<1> HIDE DEF e
<1>7. Joined(q, p, a, e)
  BY <1>3, <1>5, <1>6, Zenon DEF Joined
<1>8. QED
  BY <1>3, <1>7, Zenon

(* At the right edge it does too: by induction on the number of leaves. *)
LEMMA ClimbEdge == ASSUME NEW d \in Trees PROVE OnEdge(d)
<1> DEFINE S == {c \in Trees : OnEdge(c)}
           rank == [c \in Trees |-> Len(c)]
<1>1. rank \in [Trees -> Nat]
  BY TreesCut
<1>2. ASSUME NEW c \in Trees, \A y \in Trees : rank[y] < rank[c] => y \in S PROVE c \in S
  <2> DEFINE n == Len(c)
             Ends(m, x, path, a, q) ==
               \E j \in Nat : Climb(c, m, x, path, Place(a, q, m), Place(a, q, n - 1),
               a * Power[j], a * Power[j])
  <2> SUFFICES ASSUME NEW q \in Nat, NEW m \in Nat, NEW a \in Nat, NEW x \in Tree,
                      NEW path \in Paths(m, Len(c)), Len(c) <= Power[q], m < Len(c)
               PROVE  Ends(m, x, path, a, q)
    BY DEF OnEdge
  <2>1. CASE n = 1
    <3>1. m = 0 /\ n - 1 = 0
      BY <2>1
    <3>2. Place(a, q, 0) = a * Power[q]
      <4> DEFINE P == Power[q]
      <4>1. P \in Nat
        BY PowerType
      <4> HIDE DEF P
      <4>2. a * P + 0 = a * P
        BY <4>1
      <4>3. QED
        BY <4>2 DEF Place, P
    <3>3. Climb(c, 0, x, path, Place(a, q, 0), Place(a, q, 0), Place(a, q, 0), Place(a, q, 0))
      BY <2>1, <3>1, ClimbLeaf, Zenon
    <3>4. Climb(c, m, x, path, Place(a, q, m), Place(a, q, n - 1), a * Power[q], a * Power[q])
      BY <3>1, <3>2, <3>3
    <3>5. QED
      BY <3>4, Zenon
  <2>2. CASE n # 1
    <3>1. n \in Nat /\ n >= 2
      BY <2>2, TreesCut
    <3>2. PICK p \in Nat : Split(n) = Power[p] /\ Power[p] < n /\ n <= 2 * Power[p]
      BY <3>1, SplitIs
    <3> DEFINE k == Power[p]
               l == Prefix(c, k)
               r == Rest(c, k)
               h == n - 1 - k
    <3>3. k \in Nat /\ k >= 1 /\ p < q /\ h \in Nat /\ h < k /\ Power[q] \in Nat
      <4>1. k \in Nat /\ k >= 1 /\ Power[q] \in Nat
        BY PowerType
      <4>2. Power[p] < Power[q]
        BY <3>1, <3>2, <4>1
      <4>3. p < q
        BY <4>2, PowerGrows, Zenon
      <4>4. QED
        BY <3>1, <3>2, <4>1, <4>3
    <3>4. PICK e \in Nat : Joined(q, p, a, e)
      BY <3>3, EdgeJoins
    <3>5. PICK j \in Nat : e = a * Power[j]
      BY <3>4 DEF Joined
    <3>6. InHalves(c, k, l, r)
      BY <3>1, <3>2, InTwo, Zenon
    <3>7. l \in Trees /\ r \in Trees /\ Len(l) = k /\ Len(r) = n - k
      BY <3>6 DEF InHalves
    <3>8. PathsCutOf(m, Len(c), k, path)
      BY <3>1, <3>2, PathsCut, Zenon
    <3>9. Place(a, q, m) = Place(e, p + 1, m) /\ Place(a, q, n - 1) = Place(e, p + 1, n - 1)
      <4>1. n - 1 \in Nat
        BY <3>1
      <4>2. QED
        BY <3>4, <4>1 DEF Joined
    <3>10. Place(2 * e + 1, p, h) = Place(a, q, n - 1)
      <4>1. n - 1 \in Nat /\ n - 1 >= Power[p]
        BY <3>1, <3>3
      <4>2. Place(2 * e + 1, p, (n - 1) - Power[p]) = Place(e, p + 1, n - 1)
        BY <4>1, PlaceRight
      <4>3. QED
        BY <3>9, <4>2
    <3> HIDE DEF k, l, r, h, n
    <3>11. SUFFICES Climb(c, m, x, path, Place(a, q, m), Place(a, q, n - 1), e, e)
      BY <3>5, Zenon DEF n
    <3>12. CASE m < k
      <4> DEFINE y == 2 * e
                 z == 2 * e + 1
      <4>1. y \in Nat /\ z \in Nat /\ y < z /\ y \div 2 = e /\ z \div 2 = e /\ ~OnRight(y, z)
        BY DEF OnRight
      <4>2. Place(y, p, m) = Place(a, q, m)
        BY <3>9, PlaceLeft
      <4>3. Place(z, p, h) = Place(a, q, n - 1)
        BY <3>10
      <4> HIDE DEF y, z
      <4>4. Front(path) \in Paths(m, Len(l))
        BY <3>7, <3>8, <3>12 DEF PathsCutOf
      <4>5. Inside(l)
        BY <3>7, ClimbInside, Zenon
      <4>6. Climb(l, m, x, Front(path), Place(y, p, m), Place(z, p, h), y, z)
        BY <3>3, <3>7, <3>12, <4>1, <4>4, <4>5 DEF Inside, k
      <4>7. Climb(l, m, x, Front(path), Place(a, q, m), Place(a, q, n - 1), y, z)
        BY <4>2, <4>3, <4>6, Zenon
      <4>8. Climb(c, m, x, path, Place(a, q, m), Place(a, q, n - 1), y \div 2, z \div 2)
        BY <3>1, <3>2, <3>12, <4>1, <4>7, ClimbLeft, Zenon DEF l, k, n
      <4>9. QED
        BY <4>1, <4>8
    <3>13. CASE ~(m < k)
      <4> DEFINE o == 2 * e + 1
                 i == m - k
      <4>1. o \in Nat /\ o \div 2 = e /\ i \in Nat /\ m >= Power[p] /\ m >= k /\ i < Len(r)
        BY <3>1, <3>3, <3>7, <3>13 DEF k, n
      <4>2. Place(o, p, i) = Place(a, q, m)
        <5>1. Place(2 * e + 1, p, m - Power[p]) = Place(e, p + 1, m)
          BY <4>1, PlaceRight
        <5>2. QED
          BY <3>9, <5>1 DEF k
      <4>3. Place(o, p, Len(r) - 1) = Place(a, q, n - 1)
        <5>1. Len(r) - 1 = h
          BY <3>1, <3>3, <3>7 DEF h
        <5>2. QED
          BY <3>10, <5>1
      <4>4. Front(path) \in Paths(i, Len(r))
        BY <3>7, <3>8, <4>1 DEF PathsCutOf, n
      <4>5. OnEdge(r)
        <5>1. rank[r] < rank[c]
          BY <3>1, <3>3, <3>7 DEF n
        <5>2. QED
          BY <1>2, <3>7, <5>1
      <4>6. \A t \in Nat : LET z == o * Power[t] IN
               z \in Nat /\ Edge[<<z, z>>] = <<o, o>> /\ OnRight(z, z)
        BY EdgeOf DEF OnRight
      <4> HIDE DEF o, i
      <4>7. Len(r) <= Power[p]
        BY <3>1, <3>2, <3>3, <3>7 DEF k
      <4>8. PICK t \in Nat : Climb(r, i, x, Front(path), Place(o, p, i), Place(o, p, Len(r) - 1),
                                   o * Power[t], o * Power[t])
        BY <4>1, <4>4, <4>5, <4>7 DEF OnEdge
      <4> DEFINE z == o * Power[t]
      <4>9. z \in Nat /\ Edge[<<z, z>>] = <<o, o>> /\ OnRight(z, z)
        BY <4>6
      <4> HIDE DEF z
      <4>10. Climb(r, i, x, Front(path), Place(a, q, m), Place(a, q, n - 1), z, z)
        BY <4>2, <4>3, <4>8, Zenon DEF z
      <4>11. Climb(c, m, x, path, Place(a, q, m), Place(a, q, n - 1), o \div 2, o \div 2)
        BY <3>1, <3>2, <4>1, <4>9, <4>10, ClimbRight, Zenon DEF r, k, n, i
      <4>12. QED
        BY <4>1, <4>11
    <3>14. QED
      BY <3>12, <3>13
  <2>3. QED
    BY <2>1, <2>2
<1>3. Trees \subseteq S
  <2> HIDE DEF S, rank
  <2> QED BY <1>1, <1>2, RankInduction
<1>4. QED
  BY <1>3

(* What FoldPath computes along a path of the right length. *)
PathSays(d, m, x, path) ==
  FoldPath(x, m, Len(d), path) = TreeHash[d]
  <=> path = InclusionPath[<<m, d>>] /\ x = d[m + 1]

(* Whatever path of the right length VerifyInclusion is given, the root      *)
(* comes out exactly for the leaf at that index along that leaf's own path.  *)
LEMMA PathLeads ==
  ASSUME NEW d \in Trees, NEW m \in Nat, m < Len(d), NEW x \in Tree, NEW path \in Paths(m, Len(d))
  PROVE  PathSays(d, m, x, path)
<1> DEFINE n == Len(d)
<1>1. n \in Nat /\ n <= Power[n] /\ n - 1 \in Nat /\ path \in Seq(Tree)
  <2>1. n \in Nat /\ n - 1 \in Nat
    BY TreesCut
  <2>2. Power[n] \in Nat /\ n < Power[n]
    BY <2>1, PowerAbove, PowerSteps
  <2>3. QED
    BY <2>1, <2>2 DEF Paths
<1>2. Place(0, n, m) = m /\ Place(0, n, n - 1) = n - 1
  BY <1>1, PlaceStart
<1>3. PICK j \in Nat : Climb(d, m, x, path, Place(0, n, m), Place(0, n, n - 1), 0 * Power[j],
           0 * Power[j])
  <2>1. OnEdge(d)
    BY ClimbEdge, Zenon
  <2>2. 0 \in Nat
    OBVIOUS
  <2>3. QED
    BY <1>1, <2>1, <2>2 DEF OnEdge
<1> DEFINE z == 0 * Power[j]
<1>4. PICK w \in Tree : Climbs(d, m, x, path, m, n - 1, z, z, w)
  BY <1>2, <1>3, Zenon DEF Climb
<1> HIDE DEF z
<1>5. Len(path) \in Nat
  BY <1>1
<1>6. FoldPath(x, m, n, path) = Spot(w, z, z).acc
  BY <1>4, <1>5, FoldPathIs, Zenon DEF Climbs, Spot
<1>7. Spot(w, z, z).acc = w
  BY DEF Spot
<1>8. QED
  BY <1>4, <1>6, <1>7, Zenon DEF PathSays, Climbs

(* inclusionPath returns a path of the length that inclusionPathLen expects. *)
LEMMA OwnPath ==
  ASSUME NEW d \in Trees, NEW m \in Nat, m < Len(d)
  PROVE  InclusionPath[<<m, d>>] \in Paths(m, Len(d))
<1> DEFINE Own(c) == \A i \in Nat : i < Len(c) => InclusionPath[<<i, c>>] \in Paths(i, Len(c))
           S    == {c \in Trees : Own(c)}
           rank == [c \in Trees |-> Len(c)]
<1>1. rank \in [Trees -> Nat]
  BY TreesCut
<1>2. ASSUME NEW c \in Trees, \A y \in Trees : rank[y] < rank[c] => y \in S PROVE c \in S
  <2> SUFFICES ASSUME NEW i \in Nat, i < Len(c) PROVE InclusionPath[<<i, c>>] \in Paths(i, Len(c))
    OBVIOUS
  <2>1. c \in Seq(Word) /\ Len(c) \in Nat /\ Len(c) >= 1 /\ (Len(c) # 1 => Len(c) >= 2)
    BY TreesCut
  <2>2. CASE Len(c) = 1
    <3>1. InclusionPath[<<i, c>>] = <<>> /\ PathLen[<<i, 1>>] = 0
      <4>1. 1 \in Nat /\ 1 <= 1
        OBVIOUS
      <4>2. PathLen[<<i, 1>>] = 0
        BY <4>1, PathLenSteps, Zenon
      <4>3. QED
        BY <2>1, <2>2, <4>2, InclusionPathSteps
    <3>2. <<>> \in Seq(Tree) /\ Len(<<>>) = 0
      OBVIOUS
    <3>3. QED
      BY <2>2, <3>1, <3>2 DEF Paths
  <2>3. CASE Len(c) # 1
    <3> DEFINE n == Len(c)
               k == Split(n)
               l == Prefix(c, k)
               r == Rest(c, k)
               L == TreeHash[l]
               R == TreeHash[r]
    <3>1. InHalves(c, k, l, r)
      BY <2>1, <2>3, InTwo, Zenon
    <3>2. l \in Trees /\ r \in Trees /\ Len(l) = k /\ Len(r) = n - k /\ k \in Nat /\ k >= 1
            /\ k < n
      BY <3>1 DEF InHalves
    <3>3. L \in Tree /\ R \in Tree
      BY <3>2, HashIsTree
    <3>4. PathLen[<<i, n>>] = 1 + IF i < k THEN PathLen[<<i, k>>] ELSE PathLen[<<i - k, n - k>>]
      BY <2>1, <2>3, PathLenSteps
    <3>5. InclusionPath[<<i, c>>] = IF i < k THEN Append(InclusionPath[<<i, l>>], R)
                                    ELSE Append(InclusionPath[<<i - k, r>>], L)
      BY <2>1, <2>3, InclusionPathSteps
    <3> HIDE DEF k, l, r, L, R
    <3>6. Own(l) /\ Own(r)
      <4>1. rank[l] < rank[c] /\ rank[r] < rank[c]
        BY <2>1, <3>2
      <4>2. QED
        BY <1>2, <3>2, <4>1
    <3>7. CASE i < k
      <4> DEFINE q == InclusionPath[<<i, l>>]
      <4>1. q \in Seq(Tree) /\ Len(q) = PathLen[<<i, k>>]
        BY <3>2, <3>6, <3>7 DEF Paths
      <4>2. InclusionPath[<<i, c>>] = Append(q, R) /\ PathLen[<<i, n>>] = 1 + PathLen[<<i, k>>]
        BY <3>4, <3>5, <3>7
      <4> HIDE DEF q
      <4>3. Append(q, R) \in Seq(Tree) /\ Len(Append(q, R)) = 1 + Len(q)
        BY <3>3, <4>1
      <4>4. QED
        BY <4>1, <4>2, <4>3 DEF Paths
    <3>8. CASE ~(i < k)
      <4> DEFINE q == InclusionPath[<<i - k, r>>]
      <4>1. i - k \in Nat /\ i - k < Len(r)
        BY <2>1, <3>2, <3>8
      <4>2. q \in Seq(Tree) /\ Len(q) = PathLen[<<i - k, n - k>>]
        BY <3>2, <3>6, <4>1 DEF Paths
      <4>3. InclusionPath[<<i, c>>] = Append(q, L)
              /\ PathLen[<<i, n>>] = 1 + PathLen[<<i - k, n - k>>]
        BY <3>4, <3>5, <3>8
      <4> HIDE DEF q
      <4>4. Append(q, L) \in Seq(Tree) /\ Len(Append(q, L)) = 1 + Len(q)
        BY <3>3, <4>2
      <4>5. QED
        BY <4>2, <4>3, <4>4 DEF Paths
    <3>9. QED
      BY <3>7, <3>8
  <2>4. QED
    BY <2>2, <2>3
<1>3. Trees \subseteq S
  <2> HIDE DEF S, rank
  <2> QED BY <1>1, <1>2, RankInduction
<1>4. Own(d)
  BY <1>3
<1>5. QED
  BY <1>4
-----------------------------------------------------------------------------
(* VerifyConsistency: the proof of the first m leaves leads to the hash of   *)
(* those and to the hash of all.                                             *)

(* subProof of a tree that is not known to be whole on the left spine, *)
Full(m, d) == SubProof[<<m, d, FALSE>>]
(* and of one that is: the hash that the verifier seeds itself is left out.  *)
Lean(m, d) == SubProof[<<m, d, TRUE>>]

(* Both in terms of the halves' proofs. *)
LEMMA SubProofCut ==
  ASSUME NEW d \in Trees, Len(d) >= 2, NEW m \in Nat \ {0}, m < Len(d)
  PROVE  LET k == Split(Len(d)) l == Prefix(d, k) r == Rest(d, k) IN
           /\ m <= k => /\ Full(m, d) = Append(Full(m, l), TreeHash[r])
                        /\ Lean(m, d) = Append(Lean(m, l), TreeHash[r])
           /\ m > k => /\ Full(m, d) = Append(Full(m - k, r), TreeHash[l])
                       /\ Lean(m, d) = Append(Full(m - k, r), TreeHash[l])
<1> DEFINE k == Split(Len(d))
           l == Prefix(d, k)
           r == Rest(d, k)
<1>1. d \in Seq(Word) /\ Len(d) \in Nat /\ k \in Nat
  BY TreesCut, SplitBounds
<1>2. \A w \in BOOLEAN : SubProof[<<m, d, w>>] =
        IF m <= k THEN Append(SubProof[<<m, l, w>>], TreeHash[r])
        ELSE Append(SubProof[<<m - k, r, FALSE>>], TreeHash[l])
  BY <1>1, SubProofSteps
<1> HIDE DEF k, l, r
<1>3. ~(m <= k) <=> m > k
  BY <1>1
<1>4. TRUE \in BOOLEAN /\ FALSE \in BOOLEAN
  OBVIOUS
<1>5. m <= k => /\ Full(m, d) = Append(Full(m, l), TreeHash[r])
                /\ Lean(m, d) = Append(Lean(m, l), TreeHash[r])
  BY <1>2, <1>4, Zenon DEF Full, Lean
<1>6. m > k => /\ Full(m, d) = Append(Full(m - k, r), TreeHash[l])
               /\ Lean(m, d) = Append(Full(m - k, r), TreeHash[l])
  BY <1>2, <1>3, <1>4, Zenon DEF Full, Lean
<1>7. QED
  BY <1>5, <1>6 DEF k, l, r

(* A proof that names its seed has at least the seed. *)
LEMMA FullIsTrees ==
  ASSUME NEW d \in Trees, NEW m \in Nat \ {0}, m <= Len(d)
  PROVE  Full(m, d) \in Trees
<1> DEFINE Fulls(c) == \A i \in Nat \ {0} : i <= Len(c) => Full(i, c) \in Trees
           S    == {c \in Trees : Fulls(c)}
           rank == [c \in Trees |-> Len(c)]
<1>1. rank \in [Trees -> Nat]
  BY TreesCut
<1>2. ASSUME NEW c \in Trees, \A y \in Trees : rank[y] < rank[c] => y \in S PROVE c \in S
  <2> SUFFICES ASSUME NEW i \in Nat \ {0}, i <= Len(c) PROVE Full(i, c) \in Trees
    OBVIOUS
  <2>1. c \in Seq(Word) /\ Len(c) \in Nat
    BY TreesCut
  <2>2. CASE i = Len(c)
    <3>1. i >= Len(c)
      BY <2>1, <2>2
    <3>2. Full(i, c) = <<TreeHash[c]>>
      BY <2>1, <3>1, SubProofSteps DEF Full
    <3>3. TreeHash[c] \in Tree
      BY HashIsTree
    <3>4. QED
      BY <3>2, <3>3 DEF Trees
  <2>3. CASE i # Len(c)
    <3> DEFINE k == Split(Len(c))
               l == Prefix(c, k)
               r == Rest(c, k)
    <3>1. i < Len(c) /\ Len(c) >= 2
      BY <2>1, <2>3
    <3>2. InHalves(c, k, l, r)
      BY <3>1, InTwo, Zenon
    <3>3. /\ l \in Trees /\ r \in Trees /\ Len(l) = k /\ Len(r) = Len(c) - k
          /\ k \in Nat /\ k >= 1 /\ k < Len(c) /\ TreeHash[l] \in Tree /\ TreeHash[r] \in Tree
      BY <3>2, HashIsTree DEF InHalves
    <3>4. /\ i <= k => Full(i, c) = Append(Full(i, l), TreeHash[r])
          /\ i > k => Full(i, c) = Append(Full(i - k, r), TreeHash[l])
      BY <3>1, SubProofCut
    <3> HIDE DEF k, l, r
    <3>5. Fulls(l) /\ Fulls(r)
      <4>1. rank[l] < rank[c] /\ rank[r] < rank[c]
        BY <2>1, <3>3
      <4>2. QED
        BY <1>2, <3>3, <4>1
    <3>6. ASSUME NEW s \in Trees, NEW x \in Tree PROVE Append(s, x) \in Trees
      <4>1. s \in Seq(Tree)
        BY DEF Trees
      <4>2. Append(s, x) \in Seq(Tree) /\ Len(Append(s, x)) # 0 /\ Len(<<>>) = 0
        BY <4>1
      <4>3. Append(s, x) # <<>>
        BY <4>2, Zenon
      <4>4. QED
        BY <4>2, <4>3 DEF Trees
    <3>7. CASE i <= k
      <4>1. Full(i, l) \in Trees
        BY <3>3, <3>5, <3>7
      <4>2. QED
        BY <3>3, <3>4, <3>6, <3>7, <4>1
    <3>8. CASE i > k
      <4>1. i - k \in Nat \ {0} /\ i - k <= Len(r)
        BY <3>1, <3>3, <3>8
      <4>2. Full(i - k, r) \in Trees
        BY <3>5, <4>1
      <4>3. QED
        BY <3>3, <3>4, <3>6, <3>8, <4>2
    <3>9. QED
      BY <3>3, <3>7, <3>8
  <2>4. QED
    BY <2>2, <2>3
<1>3. Trees \subseteq S
  <2> HIDE DEF S, rank
  <2> QED BY <1>1, <1>2, RankInduction
<1>4. Fulls(d)
  BY <1>3
<1>5. QED
  BY <1>4

(* A node added at the end changes neither the seed nor what follows it. *)
LEMMA HeadTail ==
  ASSUME NEW s \in Trees, NEW x \in Tree
  PROVE  /\ Head(Append(s, x)) = Head(s) /\ Tail(Append(s, x)) = Append(Tail(s), x)
         /\ Head(s) \in Tree /\ Tail(s) \in Seq(Tree)
<1> DEFINE n == Len(s)
           t == Tail(s)
           q == Append(s, x)
<1>1. s \in Seq(Tree) /\ n \in Nat /\ n >= 1 /\ s # <<>>
  BY TreesCut DEF Trees
<1>2. t \in Seq(Tree) /\ Len(t) = n - 1 /\ \A i \in 1..(n - 1) : t[i] = s[i + 1]
  BY <1>1
<1>3. q \in Seq(Tree) /\ Len(q) = n + 1 /\ q[n + 1] = x /\ \A i \in 1..n : q[i] = s[i]
  BY <1>1
<1>4. Len(<<>>) = 0
  OBVIOUS
<1> HIDE DEF q, t
<1>5. q # <<>>
  BY <1>1, <1>3, <1>4
<1>6. Tail(q) \in Seq(Tree) /\ Len(Tail(q)) = n /\ \A i \in 1..n : Tail(q)[i] = q[i + 1]
  BY <1>1, <1>3, <1>5
<1>7. Append(t, x) \in Seq(Tree) /\ Len(Append(t, x)) = n /\ Append(t, x)[n] = x
      /\ \A i \in 1..(n - 1) : Append(t, x)[i] = t[i]
  BY <1>1, <1>2
<1>8. \A i \in 1..n : Tail(q)[i] = Append(t, x)[i]
  <2> SUFFICES ASSUME NEW i \in 1..n PROVE Tail(q)[i] = Append(t, x)[i]
    OBVIOUS
  <2>1. CASE i = n
    BY <1>1, <1>3, <1>6, <1>7, <2>1
  <2>2. CASE i # n
    <3>1. i \in 1..(n - 1) /\ i + 1 \in 1..n
      BY <1>1, <2>2
    <3>2. Tail(q)[i] = s[i + 1] /\ Append(t, x)[i] = s[i + 1]
      BY <1>2, <1>3, <1>6, <1>7, <3>1
    <3>3. QED
      BY <3>2
  <2>3. QED
    BY <2>1, <2>2
<1>9. Tail(q) = Append(t, x)
  BY <1>6, <1>7, <1>8
<1>10. Head(q) = q[1] /\ Head(s) = s[1] /\ s[1] \in Tree /\ q[1] = s[1]
  BY <1>1, <1>3, <1>5
<1>11. QED
  BY <1>2, <1>9, <1>10 DEF q, t

(* All of a sequence. *)
LEMMA WholePrefix == ASSUME NEW S, NEW d \in Seq(S) PROVE Prefix(d, Len(d)) = d
BY DEF Prefix

(* The first leaves of the left half are the first leaves of the tree, *)
LEMMA PrefixLeft ==
  ASSUME NEW d \in Seq(Word), NEW k \in 0..Len(d), NEW m \in 0..k
  PROVE  Prefix(Prefix(d, k), m) = Prefix(d, m)
<1> DEFINE l == Prefix(d, k)
<1>1. l \in Seq(Word) /\ Len(l) = k /\ \A i \in 1..k : l[i] = d[i]
  BY Cuts
<1>2. m \in 0..Len(l) /\ m \in 0..Len(d)
  BY <1>1
<1> HIDE DEF l
<1>3. Prefix(l, m) \in Seq(Word) /\ Len(Prefix(l, m)) = m
        /\ \A i \in 1..m : Prefix(l, m)[i] = l[i]
  BY <1>1, <1>2, Cuts
<1>4. Prefix(d, m) \in Seq(Word) /\ Len(Prefix(d, m)) = m
        /\ \A i \in 1..m : Prefix(d, m)[i] = d[i]
  BY <1>2, Cuts
<1>5. \A i \in 1..m : Prefix(l, m)[i] = Prefix(d, m)[i]
  BY <1>1, <1>3, <1>4
<1>6. Prefix(l, m) = Prefix(d, m)
  BY <1>3, <1>4, <1>5
<1>7. QED
  BY <1>6 DEF l

(* and beyond the left half they are it and the first leaves of the right    *)
(* half.                                                                     *)
LEMMA PrefixRight ==
  ASSUME NEW d \in Seq(Word), NEW k \in 0..Len(d), NEW m \in k..Len(d)
  PROVE  Rest(Prefix(d, m), k) = Prefix(Rest(d, k), m - k)
<1> DEFINE c == Prefix(d, m)
           r == Rest(d, k)
           i == m - k
<1>1. m \in 0..Len(d) /\ i \in Nat /\ i \in 0..(Len(d) - k)
  OBVIOUS
<1>2. c \in Seq(Word) /\ Len(c) = m /\ \A j \in 1..m : c[j] = d[j]
  BY <1>1, Cuts
<1>3. r \in Seq(Word) /\ Len(r) = Len(d) - k /\ \A j \in 1..(Len(d) - k) : r[j] = d[k + j]
  BY Cuts
<1> HIDE DEF c, r
<1>4. k \in 0..Len(c) /\ i \in 0..Len(r)
  BY <1>1, <1>2, <1>3
<1>5. Rest(c, k) \in Seq(Word) /\ Len(Rest(c, k)) = m - k
        /\ \A j \in 1..(m - k) : Rest(c, k)[j] = c[k + j]
  BY <1>2, <1>4, Cuts
<1>6. Prefix(r, i) \in Seq(Word) /\ Len(Prefix(r, i)) = i
        /\ \A j \in 1..i : Prefix(r, i)[j] = r[j]
  BY <1>3, <1>4, Cuts
<1>7. ASSUME NEW j \in 1..i PROVE Rest(c, k)[j] = Prefix(r, i)[j]
  <2>1. k + j \in 1..m /\ j \in 1..(Len(d) - k)
    BY <1>1
  <2>2. QED
    BY <1>2, <1>3, <1>5, <1>6, <2>1
<1>8. Rest(c, k) = Prefix(r, i)
  BY <1>5, <1>6, <1>7
<1>9. QED
  BY <1>8 DEF c, r

(* So the hash of the first m leaves is a node, with the tree's own left     *)
(* half.                                                                     *)
LEMMA PrefixHash ==
  ASSUME NEW d \in Trees, Len(d) >= 2, NEW m \in Nat \ {0}, m < Len(d)
  PROVE  LET k == Split(Len(d)) l == Prefix(d, k) r == Rest(d, k) IN
           /\ m <= k => Prefix(l, m) = Prefix(d, m)
           /\ m > k => TreeHash[Prefix(d, m)] = NodeHash(TreeHash[l], TreeHash[Prefix(r, m - k)])
<1> DEFINE n == Len(d)
           k == Split(n)
           l == Prefix(d, k)
           r == Rest(d, k)
           c == Prefix(d, m)
<1>1. d \in Seq(Word) /\ n \in Nat
  BY TreesCut
<1>2. PICK p \in Nat : k = Power[p] /\ Power[p] < n /\ n <= 2 * Power[p]
  BY <1>1, SplitIs
<1>3. Power[p] \in Nat /\ Power[p] >= 1
  BY PowerType
<1> HIDE DEF n, k
<1>4. ASSUME m <= k PROVE Prefix(l, m) = Prefix(d, m)
  <2>1. k \in 0..Len(d) /\ m \in 0..k
    BY <1>1, <1>2, <1>3, <1>4 DEF n
  <2>2. QED
    BY <1>1, <2>1, PrefixLeft, Zenon
<1>5. ASSUME m > k PROVE TreeHash[c] = NodeHash(TreeHash[l], TreeHash[Prefix(r, m - k)])
  <2>1. k \in 0..Len(d) /\ m \in k..Len(d) /\ m \in 0..Len(d) /\ k \in 0..m
    BY <1>1, <1>2, <1>3, <1>5 DEF n
  <2>2. c \in Seq(Word) /\ Len(c) = m
    BY <1>1, <2>1, Cuts
  <2>3. Split(m) = k
    <3>1. m \in Nat /\ Power[p] < m /\ m <= 2 * Power[p]
      BY <1>1, <1>2, <1>3, <1>5 DEF n
    <3>2. QED
      BY <1>2, <3>1, SplitOnly, Zenon
  <2>4. m >= 2
    BY <1>2, <1>3, <1>5
  <2>5. TreeHash[c] = NodeHash(TreeHash[Prefix(c, k)], TreeHash[Rest(c, k)])
    BY <2>2, <2>3, <2>4, TreeHashSteps
  <2>6. Prefix(c, k) = l
    BY <1>1, <2>1, PrefixLeft, Zenon
  <2>7. Rest(c, k) = Prefix(r, m - k)
    BY <1>1, <2>1, PrefixRight, Zenon
  <2>8. QED
    BY <2>5, <2>6, <2>7, Zenon
<1>6. QED
  BY <1>4, <1>5 DEF k, n

(* Where VerifyConsistency's loop is: towards the old root and the new one.  *)
Both(u, v, fn, sn) == [fr |-> u, sr |-> v, fn |-> fn, sn |-> sn, beyond |-> FALSE]

(* One of its turns. *)
Moves(u, v, a, b, e, y, z, f, g) == StepOf(TRUE, Both(u, v, a, b), e) = Both(y, z, f, g)

(* A right sibling goes to the new root only, *)
LEMMA BothLeft ==
  ASSUME NEW u, NEW v, NEW a \in Nat, NEW b \in Nat, b # 0, NEW e, ~OnRight(a, b)
  PROVE  Moves(u, v, a, b, e, u, NodeHash(v, e), a \div 2, b \div 2)
<1> DEFINE x == Both(u, v, a, b)
<1>1. x.fr = u /\ x.sr = v /\ x.fn = a /\ x.sn = b /\ x.beyond = FALSE
  BY DEF Both
<1>2. StepOf(TRUE, x, e) = BothNode(x, e)
  BY Zenon DEF StepOf
<1>3. BothNode(x, e) = [x EXCEPT !.sr = NodeHash(x.sr, e), !.fn = x.fn \div 2, !.sn = x.sn \div 2]
  BY <1>1 DEF BothNode
<1>4. BothNode(x, e) = Both(u, NodeHash(v, e), a \div 2, b \div 2)
  BY <1>1, <1>3 DEF Both
<1>5. QED
  BY <1>2, <1>4 DEF Moves

(* a left sibling to both, and the edge is skipped. *)
LEMMA BothRight ==
  ASSUME NEW u, NEW v, NEW a \in Nat, NEW b \in Nat, b # 0, NEW e, OnRight(a, b),
         NEW f \in Nat, NEW g \in Nat, Edge[<<a, b>>] = <<f, g>>
  PROVE  Moves(u, v, a, b, e, NodeHash(e, u), NodeHash(e, v), f \div 2, g \div 2)
<1> DEFINE x == Both(u, v, a, b)
<1>1. x.fr = u /\ x.sr = v /\ x.fn = a /\ x.sn = b /\ x.beyond = FALSE
  BY DEF Both
<1>2. StepOf(TRUE, x, e) = BothNode(x, e)
  BY Zenon DEF StepOf
<1>3. Edge[<<x.fn, x.sn>>] = <<f, g>> /\ OnRight(x.fn, x.sn) /\ x.sn # 0
  BY <1>1
<1>4. Edge[<<x.fn, x.sn>>][1] = f /\ Edge[<<x.fn, x.sn>>][2] = g
  BY <1>3
<1>5. BothNode(x, e) = [x EXCEPT !.fr = NodeHash(e, x.fr), !.sr = NodeHash(e, x.sr),
                                 !.fn = f \div 2, !.sn = g \div 2]
  BY <1>3, <1>4 DEF BothNode
<1>6. BothNode(x, e) = Both(NodeHash(e, u), NodeHash(e, v), f \div 2, g \div 2)
  BY <1>1, <1>5 DEF Both
<1>7. QED
  BY <1>2, <1>6 DEF Moves

(* What may be given in place of the consistency proof of the first m leaves, *)
(* after its seed.                                                           *)
Rows(m, d) == {q \in Seq(Tree) : Len(q) = Len(Tail(Full(m, d)))}

(* Such a q, folded from a seed s, leads to two hashes u and v at <<a, b>>:  *)
(* the new root comes out with the proof's own seed and nodes only, and then *)
(* so does the old one.                                                      *)
Meets(d, m, s, q, fn, sn, a, b, u, v) ==
  /\ Folds(TRUE, Both(s, s, fn, sn), q, Both(u, v, a, b))
  /\ v = TreeHash[d] <=> s = Head(Full(m, d)) /\ q = Tail(Full(m, d))
  /\ v = TreeHash[d] => u = TreeHash[Prefix(d, m)]
  /\ fn = 0 => u = s
(* Each of them leads to some trees. *)
Meet(d, m, s, fn, sn, a, b) ==
  \A q \in Rows(m, d) : \E u, v \in Tree : Meets(d, m, s, q, fn, sn, a, b, u, v)

(* On the left spine the proof leaves out its seed, which is the old root. *)
Spine(d, m, fn) ==
  /\ fn = 0 => Lean(m, d) = Tail(Full(m, d)) /\ Head(Full(m, d)) = TreeHash[Prefix(d, m)]
  /\ fn # 0 => Lean(m, d) = Full(m, d)

(* The whole tree is its own first part. *)
LEMMA MeetWhole ==
  ASSUME NEW d \in Trees, NEW s \in Tree, NEW fn, NEW sn
  PROVE  Meet(d, Len(d), s, fn, sn, fn, sn) /\ (fn = 0 => Spine(d, Len(d), fn))
<1> DEFINE m == Len(d)
<1>1. d \in Seq(Word) /\ m \in Nat \ {0} /\ m >= Len(d)
  BY TreesCut
<1>2. Full(m, d) = <<TreeHash[d]>> /\ Lean(m, d) = <<>>
  <2>1. \A w \in BOOLEAN : SubProof[<<m, d, w>>] = IF w THEN <<>> ELSE <<TreeHash[d]>>
    BY <1>1, SubProofSteps
  <2>2. QED
    BY <2>1 DEF Full, Lean
<1>3. Head(Full(m, d)) = TreeHash[d] /\ Tail(Full(m, d)) = <<>>
  BY <1>2
<1>4. Prefix(d, m) = d
  BY <1>1, WholePrefix
<1>5. ASSUME NEW q \in Rows(m, d) PROVE q = <<>>
  <2>1. q \in Seq(Tree) /\ Len(q) = 0
    BY <1>3 DEF Rows
  <2>2. QED
    BY <2>1, Lengths, Zenon
<1>6. ASSUME NEW q \in Rows(m, d) PROVE Meets(d, m, s, q, fn, sn, fn, sn, s, s)
  <2>1. Folds(TRUE, Both(s, s, fn, sn), q, Both(s, s, fn, sn))
    BY <1>5, FoldsNone, Zenon
  <2>2. QED
    BY <1>3, <1>4, <1>5, <2>1, Zenon DEF Meets
<1>7. fn = 0 => Spine(d, m, fn)
  BY <1>2, <1>3, <1>4, Zenon DEF Spine
<1>8. QED
  BY <1>6, <1>7, Zenon DEF Meet

(* From the left half to the tree: the old tree is in it. *)
LEMMA MeetLeft ==
  ASSUME NEW d \in Trees, Len(d) >= 2, NEW m \in Nat \ {0}, m < Len(d), m <= Split(Len(d)),
         NEW s \in Tree, NEW fn, NEW sn, NEW a \in Nat, NEW b \in Nat, b # 0, ~OnRight(a, b),
         Meet(Prefix(d, Split(Len(d))), m, s, fn, sn, a, b)
  PROVE  /\ Meet(d, m, s, fn, sn, a \div 2, b \div 2)
         /\ Spine(Prefix(d, Split(Len(d))), m, fn) => Spine(d, m, fn)
<1> DEFINE k == Split(Len(d))
           l == Prefix(d, k)
           r == Rest(d, k)
           L == TreeHash[l]
           R == TreeHash[r]
           F == Full(m, l)
<1>1. InHalves(d, k, l, r)
  BY InTwo, Zenon
<1>2. l \in Trees /\ r \in Trees /\ Len(l) = k /\ TreeHash[d] = NodeHash(L, R) /\ k \in Nat
  BY <1>1 DEF InHalves
<1>3. L \in Tree /\ R \in Tree /\ R \in Word
  BY <1>2, HashIsTree, TreeClosed
<1>4. Full(m, d) = Append(F, R) /\ Lean(m, d) = Append(Lean(m, l), R)
  BY SubProofCut
<1>5. F \in Trees
  BY <1>2, FullIsTrees
<1>6. Head(Append(F, R)) = Head(F) /\ Tail(Append(F, R)) = Append(Tail(F), R)
        /\ Tail(F) \in Seq(Tree)
  BY <1>3, <1>5, HeadTail
<1>7. Prefix(l, m) = Prefix(d, m)
  BY PrefixHash
<1> HIDE DEF k, l, r, L, R, F
<1>8. Tail(F) \in Seq(Word) /\ Len(Tail(F)) \in Nat /\ Len(Tail(Full(m, d))) = Len(Tail(F)) + 1
  <2> DEFINE t == Tail(F)
  <2>1. t \in Seq(Tree) /\ Tail(Full(m, d)) = Append(t, R)
    BY <1>4, <1>6
  <2> HIDE DEF t
  <2>2. Len(Append(t, R)) = Len(t) + 1 /\ Len(t) \in Nat
    BY <1>3, <2>1
  <2>3. t \in Seq(Word)
    BY <2>1, WordsOfTrees
  <2>4. QED
    BY <2>1, <2>2, <2>3, Zenon DEF t
<1>9. ASSUME NEW q \in Rows(m, d)
       PROVE  \E u, v \in Tree : Meets(d, m, s, q, fn, sn, a \div 2, b \div 2, u, v)
  <2> DEFINE t == Front(q)
             e == Final(q)
  <2>1. q \in Seq(Tree) /\ Len(q) = Len(Tail(F)) + 1
    BY <1>8, Zenon DEF Rows
  <2>2. t \in Seq(Tree) /\ Len(t) = Len(Tail(F)) /\ e \in Tree /\ q = Append(t, e)
    <3> DEFINE N == Len(Tail(F))
    <3>1. N \in Nat /\ Len(q) = N + 1
      BY <1>8, <2>1
    <3> HIDE DEF N
    <3>2. Len(q) # 0 /\ Len(q) - 1 = N
      BY <3>1
    <3>3. QED
      BY <2>1, <3>2, FrontFinal DEF N
  <2>3. t \in Seq(Word) /\ e \in Word
    BY <2>2, WordsOfTrees, TreeClosed
  <2> HIDE DEF t, e
  <2>4. t \in Rows(m, l)
    BY <2>2 DEF Rows, F
  <2>5. PICK u \in Tree, v \in Tree : Meets(l, m, s, t, fn, sn, a, b, u, v)
    BY <2>4, Zenon DEF Meet, l, k
  <2> DEFINE z == NodeHash(v, e)
  <2>6. z \in Tree
    BY <2>2, TreeClosed DEF Closed
  <2>7. StepOf(TRUE, Both(u, v, a, b), e) = Both(u, z, a \div 2, b \div 2)
    <3>1. Moves(u, v, a, b, e, u, NodeHash(v, e), a \div 2, b \div 2)
      BY BothLeft, Zenon
    <3>2. QED
      BY <3>1 DEF Moves
  <2>8. Folds(TRUE, Both(s, s, fn, sn), q, Both(u, z, a \div 2, b \div 2))
    <3>1. Folds(TRUE, Both(s, s, fn, sn), t, Both(u, v, a, b))
      BY <2>5, Zenon DEF Meets
    <3>2. QED
      BY <2>2, <2>3, <2>7, <3>1, FoldsOn, Zenon
  <2>9. ASSUME z = TreeHash[d]
        PROVE  s = Head(Full(m, d)) /\ q = Tail(Full(m, d)) /\ u = TreeHash[Prefix(d, m)]
    <3>1. v = L /\ e = R
      BY <1>2, <1>3, <2>2, <2>9, NodeInjective
    <3>2. s = Head(F) /\ t = Tail(F) /\ u = TreeHash[Prefix(l, m)]
      BY <2>5, <3>1, Zenon DEF Meets, F, L
    <3>3. QED
      BY <1>4, <1>6, <1>7, <2>2, <3>1, <3>2, Zenon
  <2>10. ASSUME s = Head(Full(m, d)), q = Tail(Full(m, d)) PROVE z = TreeHash[d]
    <3>1. SameEnding(t, e, Tail(F), R)
      BY <1>4, <1>6, <2>2, <2>10, Zenon DEF SameEnding
    <3>2. t = Tail(F) /\ e = R /\ s = Head(F)
      BY <1>3, <1>4, <1>6, <1>8, <2>3, <2>10, <3>1, AppendCancels, Zenon
    <3>3. v = L
      BY <2>5, <3>2, Zenon DEF Meets, F, L
    <3>4. QED
      BY <1>2, <3>2, <3>3, Zenon
  <2>11. fn = 0 => u = s
    BY <2>5, Zenon DEF Meets
  <2> HIDE DEF z
  <2>12. Meets(d, m, s, q, fn, sn, a \div 2, b \div 2, u, z)
    BY <2>8, <2>9, <2>10, <2>11, Zenon DEF Meets
  <2>13. QED
    BY <2>6, <2>12, Zenon
<1>10. ASSUME Spine(l, m, fn) PROVE Spine(d, m, fn)
  <2>1. fn = 0 => Lean(m, l) = Tail(F) /\ Head(F) = TreeHash[Prefix(l, m)]
    BY <1>10, Zenon DEF Spine, F
  <2>2. fn # 0 => Lean(m, l) = F
    BY <1>10, Zenon DEF Spine, F
  <2>3. fn = 0 => Lean(m, d) = Tail(Full(m, d)) /\ Head(Full(m, d)) = TreeHash[Prefix(d, m)]
    BY <1>4, <1>6, <1>7, <2>1
  <2>4. fn # 0 => Lean(m, d) = Full(m, d)
    BY <1>4, <2>2
  <2>5. QED
    BY <2>3, <2>4, Zenon DEF Spine
<1>11. Meet(d, m, s, fn, sn, a \div 2, b \div 2)
  BY <1>9, Zenon DEF Meet
<1>12. QED
  BY <1>10, <1>11, Zenon DEF l, k

(* From the right half to the tree: the old tree has all of the left half. *)
LEMMA MeetRight ==
  ASSUME NEW d \in Trees, Len(d) >= 2, NEW m \in Nat \ {0}, m < Len(d), m > Split(Len(d)),
         NEW s \in Tree, NEW fn, NEW sn, NEW a \in Nat, NEW b \in Nat, b # 0, OnRight(a, b),
         NEW f \in Nat, NEW g \in Nat, Edge[<<a, b>>] = <<f, g>>, fn # 0,
         Meet(Rest(d, Split(Len(d))), m - Split(Len(d)), s, fn, sn, a, b)
  PROVE  Meet(d, m, s, fn, sn, f \div 2, g \div 2) /\ Spine(d, m, fn)
<1> DEFINE k == Split(Len(d))
           l == Prefix(d, k)
           r == Rest(d, k)
           i == m - k
           L == TreeHash[l]
           R == TreeHash[r]
           F == Full(i, r)
<1>1. InHalves(d, k, l, r)
  BY InTwo, Zenon
<1>2. /\ l \in Trees /\ r \in Trees /\ Len(r) = Len(d) - k /\ TreeHash[d] = NodeHash(L, R)
      /\ k \in Nat /\ Len(d) \in Nat
  BY <1>1, TreesCut DEF InHalves
<1>3. L \in Tree /\ R \in Tree /\ L \in Word
  BY <1>2, HashIsTree, TreeClosed
<1>4. Full(m, d) = Append(F, L) /\ Lean(m, d) = Append(F, L)
  BY SubProofCut
<1>5. i \in Nat \ {0} /\ i < Len(r)
  BY <1>2
<1>6. F \in Trees
  BY <1>2, <1>5, FullIsTrees
<1>7. Head(Append(F, L)) = Head(F) /\ Tail(Append(F, L)) = Append(Tail(F), L)
        /\ Tail(F) \in Seq(Tree)
  BY <1>3, <1>6, HeadTail
<1>8. TreeHash[Prefix(d, m)] = NodeHash(L, TreeHash[Prefix(r, i)])
  BY PrefixHash
<1> HIDE DEF k, l, r, L, R, F, i
<1>9. Tail(F) \in Seq(Word) /\ Len(Tail(F)) \in Nat /\ Len(Tail(Full(m, d))) = Len(Tail(F)) + 1
  <2> DEFINE t == Tail(F)
  <2>1. t \in Seq(Tree) /\ Tail(Full(m, d)) = Append(t, L)
    BY <1>4, <1>7
  <2> HIDE DEF t
  <2>2. Len(Append(t, L)) = Len(t) + 1 /\ Len(t) \in Nat
    BY <1>3, <2>1
  <2>3. t \in Seq(Word)
    BY <2>1, WordsOfTrees
  <2>4. QED
    BY <2>1, <2>2, <2>3, Zenon DEF t
<1>10. ASSUME NEW q \in Rows(m, d)
       PROVE  \E u, v \in Tree : Meets(d, m, s, q, fn, sn, f \div 2, g \div 2, u, v)
  <2> DEFINE t == Front(q)
             e == Final(q)
  <2>1. q \in Seq(Tree) /\ Len(q) = Len(Tail(F)) + 1
    BY <1>9, Zenon DEF Rows
  <2>2. t \in Seq(Tree) /\ Len(t) = Len(Tail(F)) /\ e \in Tree /\ q = Append(t, e)
    <3> DEFINE N == Len(Tail(F))
    <3>1. N \in Nat /\ Len(q) = N + 1
      BY <1>9, <2>1
    <3> HIDE DEF N
    <3>2. Len(q) # 0 /\ Len(q) - 1 = N
      BY <3>1
    <3>3. QED
      BY <2>1, <3>2, FrontFinal DEF N
  <2>3. t \in Seq(Word) /\ e \in Word
    BY <2>2, WordsOfTrees, TreeClosed
  <2> HIDE DEF t, e
  <2>4. t \in Rows(i, r)
    BY <2>2 DEF Rows, F
  <2>5. PICK u \in Tree, v \in Tree : Meets(r, i, s, t, fn, sn, a, b, u, v)
    BY <2>4, Zenon DEF Meet, r, i, k
  <2> DEFINE y == NodeHash(e, u)
             z == NodeHash(e, v)
  <2>6. y \in Tree /\ z \in Tree
    BY <2>2, TreeClosed DEF Closed
  <2>7. StepOf(TRUE, Both(u, v, a, b), e) = Both(y, z, f \div 2, g \div 2)
    <3>1. Moves(u, v, a, b, e, NodeHash(e, u), NodeHash(e, v), f \div 2, g \div 2)
      BY BothRight, Zenon
    <3>2. QED
      BY <3>1 DEF Moves
  <2>8. Folds(TRUE, Both(s, s, fn, sn), q, Both(y, z, f \div 2, g \div 2))
    <3>1. Folds(TRUE, Both(s, s, fn, sn), t, Both(u, v, a, b))
      BY <2>5, Zenon DEF Meets
    <3>2. QED
      BY <2>2, <2>3, <2>7, <3>1, FoldsOn, Zenon
  <2>9. ASSUME z = TreeHash[d]
        PROVE  s = Head(Full(m, d)) /\ q = Tail(Full(m, d)) /\ y = TreeHash[Prefix(d, m)]
    <3>1. v = R /\ e = L
      BY <1>2, <1>3, <2>2, <2>9, NodeInjective
    <3>2. s = Head(F) /\ t = Tail(F) /\ u = TreeHash[Prefix(r, i)]
      BY <2>5, <3>1, Zenon DEF Meets, F, R
    <3>3. QED
      BY <1>4, <1>7, <1>8, <2>2, <3>1, <3>2, Zenon
  <2>10. ASSUME s = Head(Full(m, d)), q = Tail(Full(m, d)) PROVE z = TreeHash[d]
    <3>1. SameEnding(t, e, Tail(F), L)
      BY <1>4, <1>7, <2>2, <2>10, Zenon DEF SameEnding
    <3>2. t = Tail(F) /\ e = L /\ s = Head(F)
      BY <1>3, <1>4, <1>7, <1>9, <2>3, <2>10, <3>1, AppendCancels, Zenon
    <3>3. v = R
      BY <2>5, <3>2, Zenon DEF Meets, F, R
    <3>4. QED
      BY <1>2, <3>2, <3>3, Zenon
  <2> HIDE DEF y, z
  <2>11. Meets(d, m, s, q, fn, sn, f \div 2, g \div 2, y, z)
    BY <2>8, <2>9, <2>10, Zenon DEF Meets
  <2>12. QED
    BY <2>6, <2>11, Zenon
<1>11. Spine(d, m, fn)
  BY <1>4, Zenon DEF Spine
<1>12. QED
  BY <1>10, <1>11, Zenon DEF Meet

(* From the boundary of <<x, y>> on: the fold, and what its start says about *)
(* the proof at the left spine.                                              *)
Met(d, m, s, x, y, c, a, b) ==
  LET B == Boundary[<<x, y>>] IN
    /\ Meet(d, m, s, B[1], B[2], a, b)
    /\ c # 0 => B[1] # 0
    /\ c = 0 => Spine(d, m, B[1])

(* The same from the left half to the tree, *)
LEMMA MetLeft ==
  ASSUME NEW d \in Trees, Len(d) >= 2, NEW m \in Nat \ {0}, m < Len(d), m <= Split(Len(d)),
         NEW s \in Tree, NEW x, NEW y, NEW c \in Nat, NEW h \in Nat, c = 0 <=> h = 0,
         NEW a \in Nat, NEW b \in Nat, b # 0, ~OnRight(a, b),
         Met(Prefix(d, Split(Len(d))), m, s, x, y, h, a, b)
  PROVE  Met(d, m, s, x, y, c, a \div 2, b \div 2)
<1> DEFINE B == Boundary[<<x, y>>]
           l == Prefix(d, Split(Len(d)))
<1>1. Meet(l, m, s, B[1], B[2], a, b) /\ (h # 0 => B[1] # 0) /\ (h = 0 => Spine(l, m, B[1]))
  BY Zenon DEF Met
<1> HIDE DEF B
<1>2. Meet(d, m, s, B[1], B[2], a \div 2, b \div 2) /\ (Spine(l, m, B[1]) => Spine(d, m, B[1]))
  BY <1>1, MeetLeft, Zenon
<1> HIDE DEF l
<1>3. (c # 0 => B[1] # 0) /\ (c = 0 => Spine(d, m, B[1]))
  BY <1>1, <1>2
<1>4. QED
  BY <1>2, <1>3, Zenon DEF Met, B

(* and from the right half. *)
LEMMA MetRight ==
  ASSUME NEW d \in Trees, Len(d) >= 2, NEW m \in Nat \ {0}, m < Len(d), m > Split(Len(d)),
         NEW s \in Tree, NEW x, NEW y, NEW c \in Nat, NEW h \in Nat, h # 0,
         NEW a \in Nat, NEW b \in Nat, b # 0, OnRight(a, b),
         NEW f \in Nat, NEW g \in Nat, Edge[<<a, b>>] = <<f, g>>,
         Met(Rest(d, Split(Len(d))), m - Split(Len(d)), s, x, y, h, a, b)
  PROVE  Met(d, m, s, x, y, c, f \div 2, g \div 2)
<1> DEFINE B == Boundary[<<x, y>>]
           r == Rest(d, Split(Len(d)))
           i == m - Split(Len(d))
<1>1. Meet(r, i, s, B[1], B[2], a, b) /\ B[1] # 0
  BY Zenon DEF Met
<1> HIDE DEF B
<1>2. Meet(d, m, s, B[1], B[2], f \div 2, g \div 2) /\ Spine(d, m, B[1])
  BY <1>1, MeetRight, Zenon
<1>3. QED
  BY <1>1, <1>2, Zenon DEF Met, B

(* Inside of a tree the proof leads up to the place of its subtree, *)
Within(d) ==
  \A p, m, a, b, t \in Nat, s \in Tree :
    /\ Len(d) = Power[p] /\ m >= 1 /\ m <= Power[p] /\ a < b /\ t < Power[p]
    /\ m = Power[p] => \E c \in Nat : a = 2 * c
    => Met(d, m, s, Place(a, p, m - 1), Place(b, p, t), a, a, b)

(* for every tree: by induction on the number of leaves; *)
LEMMA MetWithin == ASSUME NEW d \in Trees PROVE Within(d)
<1> DEFINE S == {e \in Trees : Within(e)}
           rank == [e \in Trees |-> Len(e)]
<1>1. rank \in [Trees -> Nat]
  BY TreesCut
<1>2. ASSUME NEW e \in Trees, \A c \in Trees : rank[c] < rank[e] => c \in S PROVE e \in S
  <2> SUFFICES ASSUME NEW p \in Nat, NEW m \in Nat, NEW a \in Nat, NEW b \in Nat, NEW t \in Nat,
                      NEW s \in Tree, Len(e) = Power[p], m >= 1, m <= Power[p], a < b,
                      t < Power[p],
                      m = Power[p] => \E c \in Nat : a = 2 * c
               PROVE  Met(e, m, s, Place(a, p, m - 1), Place(b, p, t), a, a, b)
    BY DEF Within
  <2>1. CASE m = Power[p]
    <3>1. PICK c \in Nat : a = 2 * c
      BY <2>1
    <3> DEFINE x == Place(a, p, m - 1)
               y == Place(b, p, t)
    <3>2. Boundary[<<x, y>>] = <<a, b>>
      <4>1. Boundary[<<Place(2 * c, p, Power[p] - 1), Place(b, p, t)>>] = <<2 * c, b>>
        BY BoundaryOf
      <4>2. QED
        BY <2>1, <3>1, <4>1
    <3> HIDE DEF x, y
    <3>3. Boundary[<<x, y>>][1] = a /\ Boundary[<<x, y>>][2] = b
      BY <3>2
    <3>4. Meet(e, m, s, a, b, a, b) /\ (a = 0 => Spine(e, m, a))
      BY <2>1, MeetWhole, Zenon
    <3>5. Met(e, m, s, x, y, a, a, b)
      BY <3>3, <3>4, Zenon DEF Met
    <3>6. QED
      BY <3>5 DEF x, y
  <2>2. CASE m # Power[p]
    <3>1. p # 0 /\ m < Power[p]
      <4>1. Power[p] \in Nat /\ Power[0] = 1
        BY PowerSteps, PowerType
      <4>2. QED
        BY <2>2, <4>1
    <3> DEFINE q == p - 1
               k == Power[q]
               l == Prefix(e, k)
               r == Rest(e, k)
    <3>2. q \in Nat /\ p = q + 1 /\ k \in Nat /\ k >= 1 /\ Power[p] = 2 * k
      <4>1. q \in Nat /\ p = q + 1
        BY <3>1
      <4>2. Power[q] \in Nat \ {0} /\ Power[q + 1] = 2 * Power[q]
        BY <4>1, PowerSteps, Zenon
      <4>3. QED
        BY <4>1, <4>2
    <3>3. Len(e) \in Nat /\ Len(e) >= 2 /\ Split(Len(e)) = k /\ m < Len(e)
      <4>1. Len(e) \in Nat /\ Power[q] < Len(e) /\ Len(e) <= 2 * Power[q] /\ Len(e) >= 2
              /\ m < Len(e)
        BY <3>1, <3>2
      <4>2. QED
        BY <3>2, <4>1, SplitOnly
    <3>4. InHalves(e, k, l, r)
      BY <3>3, InTwo, Zenon
    <3>5. l \in Trees /\ r \in Trees /\ Len(l) = Power[q] /\ Len(r) = Power[q]
      BY <3>2, <3>3, <3>4 DEF InHalves
    <3>6. Within(l) /\ Within(r)
      <4> HIDE DEF k, l, r, q
      <4>1. rank[l] < rank[e] /\ rank[r] < rank[e]
        BY <3>2, <3>3, <3>5 DEF k
      <4>2. QED
        BY <1>2, <3>5, <4>1
    <3>7. PICK h \in Nat, v \in Nat : (h = 2 * b \/ h = 2 * b + 1) /\ v < k
                 /\ Place(h, q, v) = Place(b, p, t)
      <4>1. CASE t < k
        <5>1. 2 * b \in Nat /\ Place(2 * b, q, t) = Place(b, p, t)
          BY <3>2, PlaceLeft
        <5>2. QED
          BY <4>1, <5>1
      <4>2. CASE ~(t < k)
        <5>1. t >= Power[q] /\ 2 * b + 1 \in Nat /\ t - k \in Nat /\ t - k < k
          BY <3>2, <4>2
        <5>2. Place(2 * b + 1, q, t - Power[q]) = Place(b, q + 1, t)
          BY <3>2, <5>1, PlaceRight
        <5>3. QED
          BY <3>2, <5>1, <5>2
      <4>3. QED
        BY <4>1, <4>2
    <3>8. h \div 2 = b /\ h # 0 /\ m - 1 \in Nat /\ m \in Nat \ {0}
      BY <3>7
    <3> HIDE DEF k, l, r, q
    <3>9. CASE m <= k
      <4> DEFINE g == 2 * a
      <4>1. g \in Nat /\ g \div 2 = a /\ g < h /\ ~OnRight(g, h) /\ (a = 0 <=> g = 0)
        BY <3>7 DEF OnRight
      <4>2. Place(g, q, m - 1) = Place(a, p, m - 1)
        BY <3>2, <3>8, PlaceLeft
      <4>3. \E c \in Nat : g = 2 * c
        OBVIOUS
      <4> HIDE DEF g
      <4>4. Met(l, m, s, Place(g, q, m - 1), Place(h, q, v), g, g, h)
        BY <3>2, <3>5, <3>6, <3>7, <3>9, <4>1, <4>3 DEF Within, k
      <4>5. Met(l, m, s, Place(a, p, m - 1), Place(b, p, t), g, g, h)
        BY <3>7, <4>2, <4>4
      <4>6. Met(e, m, s, Place(a, p, m - 1), Place(b, p, t), a, g \div 2, h \div 2)
        BY <3>3, <3>8, <3>9, <4>1, <4>5, MetLeft, Zenon DEF l
      <4>7. QED
        BY <3>8, <4>1, <4>6
    <3>10. CASE ~(m <= k)
      <4> DEFINE g == 2 * a + 1
                 i == m - k
      <4>1. m > k /\ i \in Nat /\ i >= 1 /\ i < k /\ m - 1 >= Power[q]
        BY <3>1, <3>2, <3>10 DEF k
      <4>2. g \in Nat /\ g \div 2 = a /\ g < h /\ g # 0
        BY <3>7
      <4>3. OnRight(g, h) /\ Edge[<<g, h>>] = <<g, h>>
        <5>1. g % 2 = 1
          OBVIOUS
        <5>2. QED
          BY <3>7, <5>1, EdgeOf DEF OnRight
      <4>4. Place(g, q, i - 1) = Place(a, p, m - 1)
        <5>1. Place(2 * a + 1, q, (m - 1) - Power[q]) = Place(a, q + 1, m - 1)
          BY <3>2, <3>8, <4>1, PlaceRight
        <5>2. (m - 1) - Power[q] = i - 1
          BY <3>2, <3>8 DEF k
        <5>3. QED
          BY <3>2, <5>1, <5>2
      <4> HIDE DEF g, i
      <4>5. i # Power[q]
        BY <3>2, <4>1 DEF k
      <4>6. Met(r, i, s, Place(g, q, i - 1), Place(h, q, v), g, g, h)
        <5>1. /\ Len(r) = Power[q] /\ i >= 1 /\ i <= Power[q] /\ g < h /\ v < Power[q]
              /\ i = Power[q] => \E c \in Nat : g = 2 * c
          BY <3>2, <3>5, <3>7, <4>1, <4>2, <4>5 DEF k
        <5>2. QED
          BY <3>2, <3>6, <4>1, <4>2, <5>1, Zenon DEF Within
      <4>7. Met(r, i, s, Place(a, p, m - 1), Place(b, p, t), g, g, h)
        BY <3>7, <4>4, <4>6
      <4>8. Met(e, m, s, Place(a, p, m - 1), Place(b, p, t), a, g \div 2, h \div 2)
        BY <3>3, <3>8, <4>1, <4>2, <4>3, <4>7, MetRight, Zenon DEF r, i
      <4>9. QED
        BY <3>8, <4>2, <4>8
    <3>11. QED
      BY <3>9, <3>10
  <2>3. QED
    BY <2>1, <2>2
<1>3. Trees \subseteq S
  <2> HIDE DEF S, rank
  <2> QED BY <1>1, <1>2, RankInduction
<1>4. QED
  BY <1>3

(* and at its right edge up to the edge of the whole tree, *)
OnRim(d) ==
  \A q, m, a \in Nat, s \in Tree :
    Len(d) <= Power[q] /\ m >= 1 /\ m < Len(d)
    => \E j \in Nat : Met(d, m, s, Place(a, q, m - 1), Place(a, q, Len(d) - 1), a,
                          a * Power[j], a * Power[j])

(* for every tree too. *)
LEMMA MetEdge == ASSUME NEW d \in Trees PROVE OnRim(d)
<1> DEFINE S == {c \in Trees : OnRim(c)}
           rank == [c \in Trees |-> Len(c)]
<1>1. rank \in [Trees -> Nat]
  BY TreesCut
<1>2. ASSUME NEW c \in Trees, \A y \in Trees : rank[y] < rank[c] => y \in S PROVE c \in S
  <2> DEFINE n == Len(c)
             Ends(m, s, a, q) ==
               \E j \in Nat : Met(c, m, s, Place(a, q, m - 1), Place(a, q, n - 1), a,
               a * Power[j], a * Power[j])
  <2> SUFFICES ASSUME NEW q \in Nat, NEW m \in Nat, NEW a \in Nat, NEW s \in Tree,
                      Len(c) <= Power[q], m >= 1, m < Len(c)
               PROVE  Ends(m, s, a, q)
    BY DEF OnRim
  <2>1. n \in Nat /\ n >= 2 /\ m \in Nat \ {0} /\ m - 1 \in Nat
    <3>1. n \in Nat
      BY TreesCut
    <3>2. QED
      BY <3>1
  <2>2. PICK p \in Nat : Split(n) = Power[p] /\ Power[p] < n /\ n <= 2 * Power[p]
    BY <2>1, SplitIs
  <2> DEFINE k == Power[p]
             l == Prefix(c, k)
             r == Rest(c, k)
             h == n - 1 - k
  <2>3. k \in Nat /\ k >= 1 /\ p < q /\ h \in Nat /\ h < k /\ Power[q] \in Nat
    <3>1. k \in Nat /\ k >= 1 /\ Power[q] \in Nat
      BY PowerType
    <3>2. Power[p] < Power[q]
      BY <2>1, <2>2, <3>1
    <3>3. p < q
      BY <3>2, PowerGrows, Zenon
    <3>4. QED
      BY <2>1, <2>2, <3>1, <3>3
  <2>4. PICK e \in Nat : Joined(q, p, a, e)
    BY <2>3, EdgeJoins
  <2>5. PICK j \in Nat : e = a * Power[j]
    BY <2>4 DEF Joined
  <2>6. InHalves(c, k, l, r)
    BY <2>1, <2>2, InTwo, Zenon
  <2>7. l \in Trees /\ r \in Trees /\ Len(l) = k /\ Len(r) = n - k
    BY <2>6 DEF InHalves
  <2>8. Place(a, q, m - 1) = Place(e, p + 1, m - 1) /\ Place(a, q, n - 1) = Place(e, p + 1, n - 1)
          /\ (a = 0 <=> e = 0)
    <3>1. n - 1 \in Nat
      BY <2>1
    <3>2. QED
      BY <2>1, <2>4, <3>1 DEF Joined
  <2>9. Place(2 * e + 1, p, h) = Place(a, q, n - 1)
    <3>1. n - 1 \in Nat /\ n - 1 >= Power[p]
      BY <2>1, <2>3
    <3>2. Place(2 * e + 1, p, (n - 1) - Power[p]) = Place(e, p + 1, n - 1)
      BY <3>1, PlaceRight
    <3>3. QED
      BY <2>8, <3>2
  <2> HIDE DEF k, l, r, h, n
  <2>10. SUFFICES Met(c, m, s, Place(a, q, m - 1), Place(a, q, n - 1), a, e, e)
    BY <2>5, Zenon DEF n
  <2>11. CASE m <= k
    <3> DEFINE y == 2 * e
               z == 2 * e + 1
    <3>1. /\ y \in Nat /\ z \in Nat /\ y < z /\ y \div 2 = e /\ z \div 2 = e /\ ~OnRight(y, z)
          /\ z # 0 /\ (e = 0 <=> y = 0)
      BY DEF OnRight
    <3>2. Place(y, p, m - 1) = Place(a, q, m - 1)
      BY <2>1, <2>8, PlaceLeft
    <3>3. Place(z, p, h) = Place(a, q, n - 1)
      BY <2>9
    <3>4. \E i \in Nat : y = 2 * i
      OBVIOUS
    <3> HIDE DEF y, z
    <3>5. Within(l)
      BY <2>7, MetWithin, Zenon
    <3>6. Met(l, m, s, Place(y, p, m - 1), Place(z, p, h), y, y, z)
      <4>1. /\ Len(l) = Power[p] /\ m >= 1 /\ m <= Power[p] /\ y < z /\ h < Power[p]
            /\ m = Power[p] => \E i \in Nat : y = 2 * i
        BY <2>3, <2>7, <2>11, <3>1, <3>4 DEF k
      <4>2. QED
        BY <2>3, <3>1, <3>5, <4>1, Zenon DEF Within
    <3>7. Met(l, m, s, Place(a, q, m - 1), Place(a, q, n - 1), y, y, z)
      BY <3>2, <3>3, <3>6, Zenon
    <3>8. a = 0 <=> y = 0
      BY <2>8, <3>1
    <3>9. Met(c, m, s, Place(a, q, m - 1), Place(a, q, n - 1), a, y \div 2, z \div 2)
      BY <2>1, <2>2, <2>11, <3>1, <3>7, <3>8, MetLeft, Zenon DEF l, k, n
    <3>10. QED
      BY <3>1, <3>9
  <2>12. CASE ~(m <= k)
    <3> DEFINE o == 2 * e + 1
               i == m - k
    <3>1. /\ o \in Nat /\ o # 0 /\ o \div 2 = e /\ m > k
          /\ i \in Nat /\ i >= 1 /\ i < Len(r) /\ m - 1 >= Power[p]
      BY <2>1, <2>3, <2>7, <2>12, SMTT(30) DEF k, n
    <3>2. Place(o, p, i - 1) = Place(a, q, m - 1)
      <4>1. Place(2 * e + 1, p, (m - 1) - Power[p]) = Place(e, p + 1, m - 1)
        BY <2>1, <3>1, PlaceRight
      <4>2. (m - 1) - Power[p] = i - 1
        BY <2>1, <2>3 DEF k
      <4>3. QED
        BY <2>8, <4>1, <4>2
    <3>3. Place(o, p, Len(r) - 1) = Place(a, q, n - 1)
      <4>1. Len(r) - 1 = h
        BY <2>1, <2>3, <2>7 DEF h
      <4>2. QED
        BY <2>9, <4>1
    <3>4. OnRim(r)
      <4>1. rank[r] < rank[c]
        BY <2>1, <2>3, <2>7 DEF n
      <4>2. QED
        BY <1>2, <2>7, <4>1
    <3>5. \A t \in Nat : LET z == o * Power[t] IN
             z \in Nat /\ z # 0 /\ Edge[<<z, z>>] = <<o, o>> /\ OnRight(z, z)
      BY EdgeOf DEF OnRight
    <3> HIDE DEF o, i
    <3>6. Len(r) <= Power[p]
      BY <2>1, <2>2, <2>3, <2>7 DEF k
    <3>7. PICK t \in Nat : Met(r, i, s, Place(o, p, i - 1), Place(o, p, Len(r) - 1), o,
                               o * Power[t], o * Power[t])
      BY <3>1, <3>4, <3>6 DEF OnRim
    <3> DEFINE z == o * Power[t]
    <3>8. z \in Nat /\ z # 0 /\ Edge[<<z, z>>] = <<o, o>> /\ OnRight(z, z)
      BY <3>5
    <3> HIDE DEF z
    <3>9. Met(r, i, s, Place(a, q, m - 1), Place(a, q, n - 1), o, z, z)
      BY <3>2, <3>3, <3>7, Zenon DEF z
    <3>10. Met(c, m, s, Place(a, q, m - 1), Place(a, q, n - 1), a, o \div 2, o \div 2)
      BY <2>1, <2>2, <3>1, <3>8, <3>9, MetRight, Zenon DEF r, k, n, i
    <3>11. QED
      BY <3>1, <3>10
  <2>13. QED
    BY <2>11, <2>12
<1>3. Trees \subseteq S
  <2> HIDE DEF S, rank
  <2> QED BY <1>1, <1>2, RankInduction
<1>4. QED
  BY <1>3

(* From the boundary that VerifyConsistency computes, the loop reaches both  *)
(* roots, with no level of the new tree left.                                *)
LEMMA MetRoots ==
  ASSUME NEW d \in Trees, NEW m \in Nat \ {0}, m < Len(d), NEW s \in Tree
  PROVE  LET B == Boundary[<<m - 1, Len(d) - 1>>] IN
           Meet(d, m, s, B[1], B[2], 0, 0) /\ Spine(d, m, B[1])
<1> DEFINE n == Len(d)
           x == m - 1
           y == n - 1
           B == Boundary[<<x, y>>]
<1>1. n \in Nat /\ x \in Nat /\ y \in Nat /\ n <= Power[n] /\ m >= 1
  <2>1. n \in Nat /\ x \in Nat /\ y \in Nat /\ m >= 1
    BY TreesCut
  <2>2. Power[n] \in Nat /\ n < Power[n]
    BY <2>1, PowerAbove, PowerType
  <2>3. QED
    BY <2>1, <2>2
<1>2. Place(0, n, x) = x /\ Place(0, n, y) = y
  BY <1>1, PlaceStart
<1>3. PICK j \in Nat : Met(d, m, s, Place(0, n, x), Place(0, n, y), 0, 0 * Power[j], 0 * Power[j])
  <2>1. OnRim(d) /\ 0 \in Nat
    BY MetEdge
  <2>2. QED
    BY <1>1, <2>1 DEF OnRim
<1>4. 0 * Power[j] = 0
  BY PowerType
<1> HIDE DEF x, y
<1>5. Met(d, m, s, x, y, 0, 0, 0)
  BY <1>2, <1>3, <1>4
<1>6. Meet(d, m, s, B[1], B[2], 0, 0) /\ Spine(d, m, B[1])
  BY <1>5, Zenon DEF Met
<1>7. QED
  BY <1>6 DEF B, n, x, y

(* What VerifyConsistency's loop holds is a record of five fields, *)
Held(x) == x = [fr |-> x.fr, sr |-> x.sr, fn |-> x.fn, sn |-> x.sn, beyond |-> x.beyond]
(* three of which no node of the proof has a say in. *)
SameLevel(x, y) == x.fn = y.fn /\ x.sn = y.sn /\ x.beyond = y.beyond

(* After a turn from x to u and from y to v: at the same level still, and    *)
(* beyond the new tree, for good, once there is no level left.               *)
Level(x, u, v) ==
  /\ Held(u) /\ Held(v) /\ SameLevel(u, v)
  /\ x.sn = 0 => u.sn = 0 /\ u.beyond = TRUE

(* So it is after every turn, whatever the nodes. *)
LEMMA BothLevels ==
  ASSUME NEW x, NEW y, NEW d, NEW e, Held(x), Held(y), SameLevel(x, y)
  PROVE  Level(x, BothNode(x, d), BothNode(y, e))
<1> DEFINE turn(z, c, g) ==
             IF z.sn = 0
             THEN [fr |-> z.fr, sr |-> z.sr, fn |-> z.fn, sn |-> z.sn, beyond |-> TRUE]
             ELSE IF OnRight(z.fn, z.sn)
             THEN [fr |-> NodeHash(c, z.fr), sr |-> NodeHash(c, z.sr),
                   fn |-> g[1] \div 2, sn |-> g[2] \div 2, beyond |-> z.beyond]
             ELSE [fr |-> z.fr, sr |-> NodeHash(z.sr, c),
                   fn |-> z.fn \div 2, sn |-> z.sn \div 2, beyond |-> z.beyond]
<1>1. ASSUME NEW z, NEW c, Held(z) PROVE BothNode(z, c) = turn(z, c, Edge[<<z.fn, z.sn>>])
  <2> DEFINE l == z.fr
             r == z.sr
             a == z.fn
             b == z.sn
             t == z.beyond
             w == [fr |-> l, sr |-> r, fn |-> a, sn |-> b, beyond |-> t]
             h == Edge[<<a, b>>]
             i == h[1] \div 2
             j == h[2] \div 2
             none  == [fr |-> l, sr |-> r, fn |-> a, sn |-> b, beyond |-> TRUE]
             right == [fr |-> NodeHash(c, l), sr |-> NodeHash(c, r), fn |-> i, sn |-> j,
                       beyond |-> t]
             left  == [fr |-> l, sr |-> NodeHash(r, c), fn |-> a \div 2, sn |-> b \div 2,
                       beyond |-> t]
  <2>1. z = w
    BY <1>1, Zenon DEF Held
  <2> HIDE DEF l, r, a, b, t, i, j
  <2>2. w.fr = l /\ w.sr = r /\ w.fn = a /\ w.sn = b /\ w.beyond = t
    OBVIOUS
  <2>3. b = 0 => BothNode(w, c) = none
    <3>1. b = 0 => BothNode(w, c) = [w EXCEPT !.beyond = TRUE]
      BY <2>2 DEF BothNode
    <3>2. QED
      BY <3>1
  <2>4. b # 0 /\ OnRight(a, b) => BothNode(w, c) = right
    <3> DEFINE R == [w EXCEPT !.fr = NodeHash(c, l), !.sr = NodeHash(c, r), !.fn = i, !.sn = j]
    <3>1. b # 0 /\ OnRight(a, b) => BothNode(w, c) = R
      BY <2>2 DEF BothNode, i, j
    <3>2. QED
      BY <3>1
  <2>5. b # 0 /\ ~OnRight(a, b) => BothNode(w, c) = left
    <3> DEFINE L == [w EXCEPT !.sr = NodeHash(r, c), !.fn = a \div 2, !.sn = b \div 2]
    <3>1. b # 0 /\ ~OnRight(a, b) => BothNode(w, c) = L
      BY <2>2 DEF BothNode
    <3>2. QED
      BY <3>1
  <2> HIDE DEF none, left, right, w
  <2>6. BothNode(w, c) = IF b = 0 THEN none ELSE IF OnRight(a, b) THEN right ELSE left
    BY <2>3, <2>4, <2>5, Zenon
  <2>7. QED
    BY <2>1, <2>6, Zenon DEF l, r, a, b, t, i, j, none, left, right
<1> DEFINE g == Edge[<<x.fn, x.sn>>]
<1>2. BothNode(x, d) = turn(x, d, g) /\ BothNode(y, e) = turn(y, e, g)
  <2>1. g = Edge[<<y.fn, y.sn>>]
    BY DEF SameLevel
  <2> HIDE DEF turn, g
  <2>2. QED
    BY <1>1, <2>1, Zenon DEF g
<1> HIDE DEF g
<1>3. Held(turn(x, d, g)) /\ Held(turn(y, e, g))
  BY DEF Held
<1>4. SameLevel(turn(x, d, g), turn(y, e, g))
  BY DEF SameLevel
<1>5. x.sn = 0 => turn(x, d, g).sn = 0 /\ turn(x, d, g).beyond = TRUE
  OBVIOUS
<1> HIDE DEF turn
<1>6. QED
  BY <1>2, <1>3, <1>4, <1>5, Zenon DEF Level

(* Where the loop runs out of levels after p, it is beyond the new tree      *)
(* after any longer q.                                                       *)
LEMMA LongerIsBeyond ==
  ASSUME NEW x, NEW y, Held(x), Held(y), SameLevel(x, y), NEW p, NEW q,
         Len(p) \in Nat, Len(q) \in Nat, Len(p) < Len(q), NEW f, NEW g,
         Folded(f, TRUE, x, p), Folded(g, TRUE, y, q), f[Len(p)].sn = 0
  PROVE  g[Len(q)].beyond = TRUE
<1> DEFINE k == Len(p)
           n == Len(q)
           A == {i \in 0..k : Held(f[i]) /\ Held(g[i]) /\ SameLevel(f[i], g[i])}
           Past(i) == Held(g[i]) /\ g[i].sn = 0 /\ (i > k => g[i].beyond = TRUE)
           B == {i \in 0..n : i >= k => Past(i)}
<1>1. f[0] = x /\ g[0] = y
  BY DEF Folded
<1>2. /\ \A i \in 1..k : f[i] = BothNode(f[i-1], p[i])
      /\ \A i \in 1..n : g[i] = BothNode(g[i-1], q[i])
  BY DEF Folded, StepOf
<1>3. 0 \in A
  BY <1>1
<1>4. ASSUME NEW i \in 1..k, i - 1 \in A PROVE i \in A
  <2>1. i \in 1..n /\ i \in 0..k
    OBVIOUS
  <2>2. Held(f[i-1]) /\ Held(g[i-1]) /\ SameLevel(f[i-1], g[i-1])
    BY <1>4
  <2>3. f[i] = BothNode(f[i-1], p[i]) /\ g[i] = BothNode(g[i-1], q[i])
    BY <1>2, <2>1
  <2>4. Level(f[i-1], BothNode(f[i-1], p[i]), BothNode(g[i-1], q[i]))
    BY <2>2, BothLevels, Zenon
  <2>5. Held(f[i]) /\ Held(g[i]) /\ SameLevel(f[i], g[i])
    BY <2>3, <2>4, Zenon DEF Level
  <2>6. QED
    BY <2>1, <2>5
<1>5. k \in A
  <2>1. 0..k \subseteq A
    <3> HIDE DEF A
    <3> QED BY <1>3, <1>4, CountUp
  <2>2. QED
    BY <2>1
<1>6. Held(g[k]) /\ g[k].sn = 0
  BY <1>5 DEF SameLevel
<1>7. 0 \in B
  <2>1. 0 >= k => 0 = k
    OBVIOUS
  <2>2. QED
    BY <1>6, <2>1
<1>8. ASSUME NEW i \in 1..n, i - 1 \in B PROVE i \in B
  <2>1. SUFFICES ASSUME i >= k PROVE Past(i)
    <3>1. i \in 0..n
      OBVIOUS
    <3> HIDE DEF Past
    <3>2. QED
      BY <3>1
  <2>2. CASE i = k
    BY <1>6, <2>2
  <2>3. CASE i # k
    <3>1. i - 1 >= k
      BY <2>1, <2>3
    <3>2. Held(g[i-1]) /\ g[i-1].sn = 0
      BY <1>8, <3>1
    <3>3. SameLevel(g[i-1], g[i-1])
      BY DEF SameLevel
    <3>4. g[i] = BothNode(g[i-1], q[i])
      BY <1>2
    <3>5. Level(g[i-1], BothNode(g[i-1], q[i]), BothNode(g[i-1], q[i]))
      BY <3>2, <3>3, BothLevels, Zenon
    <3>6. Held(g[i]) /\ g[i].sn = 0 /\ g[i].beyond = TRUE
      BY <3>2, <3>4, <3>5, Zenon DEF Level
    <3>7. QED
      BY <3>6
  <2>4. QED
    BY <2>2, <2>3
<1>9. n \in B
  <2>1. 0..n \subseteq B
    <3> HIDE DEF B
    <3> QED BY <1>7, <1>8, CountUp
  <2>2. QED
    BY <2>1
<1>10. n >= k /\ n > k
  OBVIOUS
<1>11. Past(n)
  <2> HIDE DEF Past
  <2> QED BY <1>9, <1>10
<1>12. QED
  BY <1>10, <1>11

(* The loop uses up the levels of the new tree. *)
UsesUp(x, a, b, p) == LET end == FoldBoth(x, a, b, p) IN ~end.beyond /\ end.sn = 0

(* What uses them up is of one length. *)
LEMMA OneLength ==
  ASSUME NEW p \in Seq(Word), NEW q \in Seq(Word), NEW x, NEW y, NEW a, NEW b,
         UsesUp(x, a, b, p), UsesUp(y, a, b, q)
  PROVE  Len(p) = Len(q)
<1> DEFINE X == Both(x, x, a, b)
           Y == Both(y, y, a, b)
<1>1. Held(X) /\ Held(Y) /\ SameLevel(X, Y) /\ SameLevel(Y, X)
  BY DEF Held, SameLevel, Both
<1>2. Len(p) \in Nat /\ Len(q) \in Nat
  OBVIOUS
<1> HIDE DEF X, Y
<1>3. PICK u, v : Folds(TRUE, X, p, u) /\ Folds(TRUE, Y, q, v)
  BY FoldsExist, Zenon
<1>4. FoldBoth(x, a, b, p) = u /\ FoldBoth(y, a, b, q) = v
  BY <1>2, <1>3, FoldBothIs, Zenon DEF X, Y, Both
<1>5. u.beyond # TRUE /\ u.sn = 0 /\ v.beyond # TRUE /\ v.sn = 0
  BY <1>4 DEF UsesUp
<1>6. PICK f : Folded(f, TRUE, X, p) /\ f[Len(p)] = u
  BY <1>3, Zenon DEF Folds
<1>7. PICK g : Folded(g, TRUE, Y, q) /\ g[Len(q)] = v
  BY <1>3, Zenon DEF Folds
<1>8. ~(Len(p) < Len(q))
  BY <1>1, <1>2, <1>5, <1>6, <1>7, LongerIsBeyond, Zenon
<1>9. ~(Len(q) < Len(p))
  BY <1>1, <1>2, <1>5, <1>6, <1>7, LongerIsBeyond, Zenon
<1>10. QED
  BY <1>2, <1>8, <1>9

(* What VerifyConsistency says of a proof's path, for 0 < m < n. *)
Checks(m, n, path, old, new) ==
  LET b    == Boundary[<<m - 1, n - 1>>]
      seed == IF b[1] = 0 THEN old ELSE Head(path)
      q    == IF b[1] = 0 THEN path ELSE Tail(path)
      end  == FoldBoth(seed, b[1], b[2], q)
  IN  path # <<>> /\ ~end.beyond /\ end.sn = 0 /\ end.fr = old /\ end.sr = new

(* consistencyPath returns some node. *)
LEMMA LeanNotEmpty ==
  ASSUME NEW d \in Trees, NEW m \in Nat \ {0}, m < Len(d)
  PROVE  Lean(m, d) # <<>>
<1> DEFINE q == Lean(m, d)
<1>1. \E x \in Seq(Word), y \in Word : q = Append(x, y)
  <2> DEFINE k == Split(Len(d))
             l == Prefix(d, k)
             r == Rest(d, k)
  <2>1. Len(d) \in Nat /\ Len(d) >= 2
    BY TreesCut
  <2>2. InHalves(d, k, l, r)
    BY <2>1, InTwo, Zenon
  <2>3. l \in Trees /\ r \in Trees /\ TreeHash[l] \in Word /\ TreeHash[r] \in Word /\ k \in Nat
        /\ l \in Seq(Word) /\ r \in Seq(Word)
    BY <2>2, HashIsTree, TreeClosed, TreesCut DEF InHalves
  <2>4. CASE m <= k
    <3>1. q = Append(Lean(m, l), TreeHash[r])
      BY <2>1, <2>4, SubProofCut
    <3>2. Lean(m, l) \in Seq(Word)
      <4>1. <<m, l, TRUE>> \in (Nat \ {0}) \X Seq(Word) \X BOOLEAN
        BY <2>3
      <4>2. QED
        BY <4>1, SubProofSteps, Zenon DEF Lean
    <3>3. QED
      BY <2>3, <3>1, <3>2, Zenon
  <2>5. CASE m > k
    <3>1. q = Append(Full(m - k, r), TreeHash[l])
      BY <2>1, <2>5, SubProofCut
    <3>2. Full(m - k, r) \in Seq(Word)
      <4> DEFINE i == m - k
      <4>1. i \in Nat \ {0} /\ FALSE \in BOOLEAN
        BY <2>3, <2>5
      <4> HIDE DEF i
      <4>2. <<i, r, FALSE>> \in (Nat \ {0}) \X Seq(Word) \X BOOLEAN
        BY <2>3, <4>1
      <4>3. Full(i, r) \in Seq(Word)
        BY <4>2, SubProofSteps, Zenon DEF Full
      <4>4. QED
        BY <4>3 DEF i
    <3>3. QED
      BY <2>3, <3>1, <3>2, Zenon
  <2> HIDE DEF k
  <2>6. QED
    BY <2>3, <2>4, <2>5
<1>2. PICK x \in Seq(Word), y \in Word : q = Append(x, y)
  BY <1>1
<1>3. Len(q) = Len(x) + 1 /\ Len(x) \in Nat
  BY <1>2
<1>4. Len(q) # 0 /\ Len(<<>>) = 0
  BY <1>3
<1>5. QED
  BY <1>4, Zenon

(* Two sequences start and go on in the same way. *)
SameParts(p, q) == Head(p) = Head(q) /\ Tail(p) = Tail(q)

(* Then they are the same, if neither is empty. *)
LEMMA HeadAndTail ==
  ASSUME NEW S, NEW p \in Seq(S), NEW q \in Seq(S), p # <<>>, q # <<>>, SameParts(p, q)
  PROVE  p = q
<1> DEFINE k == Len(p)
           n == Len(q)
           t == Tail(p)
           u == Tail(q)
<1>1. k \in Nat /\ n \in Nat /\ k >= 1 /\ n >= 1
  <2>1. k \in Nat /\ n \in Nat /\ k # 0 /\ n # 0
    BY Lengths
  <2>2. QED
    BY <2>1
<1>2. p[1] = q[1] /\ t = u
  <2>1. p[1] = Head(p) /\ q[1] = Head(q)
    OBVIOUS
  <2>2. QED
    BY <2>1, Zenon DEF SameParts
<1>3. Len(t) = k - 1 /\ \A i \in 1..(k - 1) : t[i] = p[i + 1]
  OBVIOUS
<1>4. Len(u) = n - 1 /\ \A i \in 1..(n - 1) : u[i] = q[i + 1]
  OBVIOUS
<1> HIDE DEF t, u
<1>5. k = n
  BY <1>1, <1>2, <1>3, <1>4
<1>6. ASSUME NEW i \in 1..k PROVE p[i] = q[i]
  <2>1. CASE i = 1
    BY <1>2, <2>1
  <2>2. CASE i # 1
    <3>1. i - 1 \in 1..(k - 1) /\ (i - 1) + 1 = i
      BY <2>2
    <3>2. t[i - 1] = p[i] /\ u[i - 1] = q[i]
      BY <1>3, <1>4, <1>5, <3>1
    <3>3. QED
      BY <1>2, <3>2
  <2>3. QED
    BY <2>1, <2>2
<1>7. QED
  BY <1>5, <1>6

(* It accepts a path with the new root exactly if that is the proof's own    *)
(* path, and exactly with the root of the first m leaves as the old one.     *)
LEMMA ChecksMean ==
  ASSUME NEW d \in Trees, NEW m \in Nat \ {0}, m < Len(d), NEW old \in Tree,
         NEW path \in Seq(Tree)
  PROVE  Checks(m, Len(d), path, old, TreeHash[d])
         <=> path = Lean(m, d) /\ old = TreeHash[Prefix(d, m)]
<1> DEFINE n    == Len(d)
           b    == Boundary[<<m - 1, n - 1>>]
           F    == Full(m, d)
           P    == Lean(m, d)
           seed == IF b[1] = 0 THEN old ELSE Head(path)
           q    == IF b[1] = 0 THEN path ELSE Tail(path)
           end  == FoldBoth(seed, b[1], b[2], q)
           H    == TreeHash[Prefix(d, m)]
           T    == TreeHash[d]
<1>1. /\ b[1] = 0 => P = Tail(F) /\ Head(F) = H
      /\ b[1] # 0 => P = F
  BY MetRoots, Zenon DEF Spine
<1>2. F \in Trees
  <2>1. Len(d) \in Nat /\ m <= Len(d)
    BY TreesCut
  <2>2. QED
    BY <2>1, FullIsTrees
<1>3. Head(F) \in Tree /\ Tail(F) \in Seq(Tree) /\ F \in Seq(Tree) /\ F # <<>>
  <2>1. \E x : x \in Tree
    <3>1. TreeHash[d] \in Tree
      BY HashIsTree
    <3>2. QED
      BY <3>1
  <2>2. Head(F) \in Tree /\ Tail(F) \in Seq(Tree)
    BY <1>2, <2>1, HeadTail, Zenon
  <2>3. QED
    BY <1>2, <2>2 DEF Trees
<1>4. P # <<>>
  BY LeanNotEmpty, Zenon
<1>5. \A s \in Tree : Meet(d, m, s, b[1], b[2], 0, 0)
  BY MetRoots, Zenon
<1>6. Checks(m, Len(d), path, old, T)
      <=> path # <<>> /\ ~end.beyond /\ end.sn = 0 /\ end.fr = old /\ end.sr = T
  BY Zenon DEF Checks
<1> HIDE DEF b, F, P, H, T, n
<1>7. SUFFICES ASSUME path # <<>>
               PROVE  ~end.beyond /\ end.sn = 0 /\ end.fr = old /\ end.sr = T
                      <=> path = P /\ old = H
  <2> HIDE DEF end
  <2> QED BY <1>4, <1>6, Zenon DEF P, H, T
<1>8. seed \in Tree /\ q \in Seq(Tree)
  <2>1. Head(path) \in Tree /\ Tail(path) \in Seq(Tree)
    BY <1>7
  <2>2. QED
    BY <2>1
<1>9. path = P /\ old = H <=> seed = Head(F) /\ q = Tail(F) /\ old = H
  <2>1. CASE b[1] = 0
    <3>1. seed = old /\ q = path
      BY <2>1
    <3> HIDE DEF seed, q
    <3>2. QED
      BY <1>1, <2>1, <3>1
  <2>2. CASE b[1] # 0
    <3>1. seed = Head(path) /\ q = Tail(path)
      BY <2>2
    <3>2. Head(path) = Head(F) /\ Tail(path) = Tail(F) => path = F
      BY <1>3, <1>7, HeadAndTail, Zenon DEF SameParts
    <3> HIDE DEF seed, q
    <3>3. QED
      BY <1>1, <2>2, <3>1, <3>2, Zenon
  <2>3. QED
    BY <2>1, <2>2
<1> HIDE DEF seed, q, end
<1>10. ASSUME NEW s \in Tree, NEW r \in Rows(m, d)
       PROVE  \E u, v \in Tree : Meets(d, m, s, r, b[1], b[2], 0, 0, u, v)
                                /\ FoldBoth(s, b[1], b[2], r) = Both(u, v, 0, 0)
  <2>1. PICK u \in Tree, v \in Tree : Meets(d, m, s, r, b[1], b[2], 0, 0, u, v)
    BY <1>5, Zenon DEF Meet
  <2>2. Folds(TRUE, Both(s, s, b[1], b[2]), r, Both(u, v, 0, 0))
    BY <2>1, Zenon DEF Meets
  <2>3. Len(r) \in Nat
    BY DEF Rows
  <2>4. FoldBoth(s, b[1], b[2], r) = Both(u, v, 0, 0)
    BY <2>2, <2>3, FoldBothIs, Zenon DEF Both
  <2>5. QED
    BY <2>1, <2>4, Zenon
<1>11. \A u, v : LET x == Both(u, v, 0, 0) IN ~x.beyond /\ x.sn = 0 /\ x.fr = u /\ x.sr = v
  BY DEF Both
<1>12. CASE q \in Rows(m, d)
  <2>1. PICK u \in Tree, v \in Tree : Meets(d, m, seed, q, b[1], b[2], 0, 0, u, v)
                                      /\ end = Both(u, v, 0, 0)
    BY <1>8, <1>10, <1>12, Zenon DEF end
  <2>2. ~end.beyond /\ end.sn = 0 /\ end.fr = u /\ end.sr = v
    BY <1>11, <2>1
  <2>3. /\ v = T <=> seed = Head(F) /\ q = Tail(F)
        /\ v = T => u = H
    BY <2>1, Zenon DEF Meets, F, H, T
  <2>4. QED
    BY <1>9, <2>2, <2>3
<1>13. CASE q \notin Rows(m, d)
  <2>1. Tail(F) \in Rows(m, d) /\ Len(q) # Len(Tail(F))
    BY <1>3, <1>8, <1>13, Zenon DEF Rows, F
  <2>2. UsesUp(Head(F), b[1], b[2], Tail(F))
    <3>1. PICK u \in Tree, v \in Tree :
                 Meets(d, m, Head(F), Tail(F), b[1], b[2], 0, 0, u, v)
                 /\ FoldBoth(Head(F), b[1], b[2], Tail(F)) = Both(u, v, 0, 0)
      BY <1>3, <1>10, <2>1, Zenon
    <3>2. QED
      BY <1>11, <3>1 DEF UsesUp
  <2>3. ~UsesUp(seed, b[1], b[2], q)
    BY <1>3, <1>8, <2>1, <2>2, OneLength, WordsOfTrees, Zenon
  <2>4. ~(~end.beyond /\ end.sn = 0)
    BY <2>3, Zenon DEF UsesUp, end
  <2>5. q # Tail(F)
    BY <2>1
  <2>6. QED
    BY <1>9, <2>4, <2>5, Zenon
<1>14. QED
  BY <1>12, <1>13
-----------------------------------------------------------------------------
(* Ledgers and their trees. *)

(* A line of a ledger, whatever it says. *)
Line == [c : Contents, at : Nat, prev : Nat, h : Nat]

(* Contents are numbers below Base. *)
LEMMA BaseType == Base \in Nat /\ Base >= 1 /\ \A c \in Contents : c \in Nat /\ c >= 1 /\ c < Base
<1>1. Cardinality(Contents) \in Nat
  BY MerkleAssumption, FS_CardinalityType
<1>2. QED
  BY <1>1, MerkleAssumption DEF Base

(* An entry that is chained to a hash is a line. *)
LEMMA EntryType ==
  ASSUME NEW c \in Contents, NEW at \in Nat, NEW prev \in Nat
  PROVE  ChainHash(c, prev) \in Nat /\ Entry(c, at, prev) \in Line
<1>1. Base \in Nat /\ c \in Nat
  BY BaseType
<1>2. prev * Base \in Nat
  BY <1>1
<1>3. ChainHash(c, prev) \in Nat
  BY <1>1, <1>2 DEF ChainHash
<1>4. QED
  BY <1>3 DEF Entry, Line

(* The parts of a line. *)
LEMMA LineAt ==
  ASSUME NEW es \in Seq(Line), NEW i \in 1..Len(es)
  PROVE  /\ es[i] \in Line /\ es[i].c \in Contents /\ es[i].at \in Nat
         /\ es[i].prev \in Nat /\ es[i].h \in Nat
<1>1. es[i] \in Line
  OBVIOUS
<1>2. QED
  BY <1>1 DEF Line

(* The hash to chain the next entry to is a number. *)
LEMMA LastHashType ==
  ASSUME NEW es \in Seq(Line)
  PROVE  LastHash(es) \in Nat
<1>1. CASE es = <<>>
  BY <1>1 DEF LastHash, GenesisHash
<1>2. CASE es # <<>>
  <2>1. Len(es) \in 1..Len(es)
    BY <1>2
  <2>2. QED
    BY <1>2, <2>1, LineAt DEF LastHash
<1>3. QED
  BY <1>1, <1>2

(* VerifyChain finds no broken link exactly if every line fits. *)
LEMMA VerifyChainMeans ==
  ASSUME NEW es, Len(es) \in Nat
  PROVE  VerifyChain(es) = NoBrokenLink <=> \A i \in 1..Len(es) : Fits(es, i)
<1>1. CASE \A i \in 1..Len(es) : Fits(es, i)
  BY <1>1, Zenon DEF VerifyChain
<1>2. CASE ~\A i \in 1..Len(es) : Fits(es, i)
  <2> DEFINE bad == {i \in 1..Len(es) : ~Fits(es, i)}
  <2>1. bad \in SUBSET Nat /\ bad # {}
    BY <1>2
  <2>2. PICK x \in bad : \A y \in bad : x <= y
    BY <2>1, LeastNat
  <2>3. x \in 1..Len(es) /\ ~Fits(es, x) /\ \A j \in 1..(x-1) : Fits(es, j)
    BY <2>2
  <2>4. VerifyChain(es) \in 1..Len(es)
    BY <1>2, <2>3, Zenon DEF VerifyChain
  <2>5. QED
    BY <1>2, <2>4 DEF NoBrokenLink
<1>3. QED
  BY <1>1, <1>2

(* A line's leaf hash spells a leaf, and determines the line's hash:         *)
(* merkleLeafHash commits to the entry's hash and to nothing else of it.     *)
LEMMA LeafHashes ==
  /\ \A e \in Line : LeafHash(e) \in Tree
  /\ \A e, f \in Line : LeafHash(e) = LeafHash(f) <=> e.h = f.h
<1>1. ASSUME NEW e \in Line PROVE LeafHash(e) \in Tree
  <2>1. e.h \in Nat
    BY DEF Line
  <2>2. LeafHash(e) \in LeafWord
    BY <2>1 DEF LeafHash, LeafWord
  <2>3. QED
    BY <2>2, TreeClosed DEF Closed
<1>2. ASSUME NEW e \in Line, NEW f \in Line PROVE LeafHash(e) = LeafHash(f) <=> e.h = f.h
  BY DEF LeafHash
<1>3. QED
  BY <1>1, <1>2

(* The leaves of a ledger's tree. *)
LEMMA LeavesAre ==
  ASSUME NEW es \in Seq(Line)
  PROVE  /\ Len(Leaves(es)) = Len(es) /\ Leaves(es) \in Seq(Tree)
         /\ \A i \in 1..Len(es) : Leaves(es)[i] = LeafHash(es[i])
         /\ es # <<>> => Leaves(es) \in Trees
<1> DEFINE N == Len(es)
           d == Leaves(es)
<1>1. N \in Nat /\ \A i \in 1..N : es[i] \in Line
  OBVIOUS
<1>2. d = [i \in 1..N |-> LeafHash(es[i])]
  BY DEF Leaves
<1>3. \A i \in 1..N : d[i] = LeafHash(es[i]) /\ LeafHash(es[i]) \in Tree
  BY <1>1, <1>2, LeafHashes
<1> HIDE DEF d
<1>4. d \in Seq(Tree) /\ Len(d) = N
  BY <1>1, <1>2, <1>3
<1>5. es # <<>> => d # <<>>
  <2>1. es # <<>> => N # 0
    BY Lengths
  <2>2. Len(<<>>) = 0
    OBVIOUS
  <2>3. QED
    BY <1>4, <2>1, <2>2
<1>6. QED
  BY <1>3, <1>4, <1>5 DEF Trees, d

(* VerifyInclusion accepts no forged path: for any ledger of any size, any   *)
(* entry and any proof for that size, with whatever hashes as its path and   *)
(* whatever index, it accepts exactly the entry with the hash of the one at  *)
(* that index together with the path that InclusionProof returns for it.     *)
THEOREM NoForgedInclusion ==
  ASSUME NEW es \in Seq(Line), NEW e \in Line, NEW proof,
         proof.size = Len(es), proof.path \in Seq(Tree)
  PROVE  VerifyInclusion(e, proof, MerkleRoot(es))
         <=> /\ proof.index \in 0..(Len(es) - 1)
             /\ proof.path = InclusionProof(es, proof.index).path
             /\ e.h = es[proof.index + 1].h
<1> DEFINE n    == Len(es)
           d    == Leaves(es)
           i    == proof.index
           x    == LeafHash(e)
           own  == InclusionPath[<<i, d>>]
           path == proof.path
<1>1. VerifyInclusion(e, proof, MerkleRoot(es))
      <=> /\ i \in 0..(n - 1) /\ Len(path) = PathLen[<<i, n>>]
          /\ FoldPath(x, i, n, path) = TreeHash[d]
  BY Zenon DEF VerifyInclusion, MerkleRoot
<1>2. InclusionProof(es, proof.index).path = own
  BY DEF InclusionProof
<1>3. SUFFICES ASSUME i \in 0..(n - 1)
               PROVE  Len(path) = PathLen[<<i, n>>] /\ FoldPath(x, i, n, path) = TreeHash[d]
                      <=> path = own /\ e.h = es[i + 1].h
  BY <1>1, <1>2, Zenon
<1>4. n \in Nat /\ i \in Nat /\ i < n /\ n # 0 /\ i + 1 \in 1..n /\ es[i + 1] \in Line
  BY <1>3
<1>5. d \in Trees /\ Len(d) = n /\ d[i + 1] = LeafHash(es[i + 1])
  <2>1. es # <<>>
    BY <1>4, Lengths
  <2>2. QED
    BY <1>4, <2>1, LeavesAre
<1>6. x \in Tree /\ (x = d[i + 1] <=> e.h = es[i + 1].h)
  BY <1>4, <1>5, LeafHashes
<1>7. path = own => Len(path) = PathLen[<<i, n>>]
  <2>1. own \in Paths(i, n)
    BY <1>4, <1>5, OwnPath
  <2>2. QED
    BY <2>1, Zenon DEF Paths
<1>8. ASSUME Len(path) = PathLen[<<i, n>>]
      PROVE  FoldPath(x, i, n, path) = TreeHash[d] <=> path = own /\ x = d[i + 1]
  <2> HIDE DEF d, x, n, i
  <2>1. path \in Paths(i, n)
    BY <1>8 DEF Paths
  <2>2. PathSays(d, i, x, path)
    BY <1>4, <1>5, <1>6, <2>1, PathLeads, Zenon
  <2>3. QED
    BY <1>5, <2>2, Zenon DEF PathSays
<1>9. QED
  BY <1>6, <1>7, <1>8, Zenon

(* The proof that InclusionProof returns verifies for an entry exactly if    *)
(* that entry has the hash of the one at the index; with another index in    *)
(* it, only for an entry with the hash of the one there. For every ledger,   *)
(* of every size.                                                            *)
THEOREM InclusionIsExact ==
  ASSUME NEW es \in Seq(Line), NEW i \in 0..(Len(es) - 1), NEW j \in 0..(Len(es) - 1),
         NEW e \in Line
  PROVE  LET proof == InclusionProof(es, i) root == MerkleRoot(es) IN
           /\ VerifyInclusion(e, proof, root) <=> e.h = es[i + 1].h
           /\ VerifyInclusion(e, [proof EXCEPT !.index = j], root) => e.h = es[j + 1].h
<1> DEFINE n     == Len(es)
           d     == Leaves(es)
           path  == InclusionPath[<<i, d>>]
           proof == InclusionProof(es, i)
           root  == MerkleRoot(es)
           moved == [proof EXCEPT !.index = j]
<1>1. proof = [index |-> i, size |-> n, path |-> path]
  BY Zenon DEF InclusionProof
<1>2. proof.index = i /\ proof.size = n /\ proof.path = path
  BY <1>1
<1>3. moved.index = j /\ moved.size = n /\ moved.path = path
  BY <1>1
<1>4. path \in Seq(Tree)
  <2>1. n \in Nat /\ n # 0 /\ i \in Nat /\ i < n
    OBVIOUS
  <2>2. d \in Trees /\ Len(d) = n
    BY <2>1, Lengths, LeavesAre
  <2>3. path \in Paths(i, n)
    BY <2>1, <2>2, OwnPath
  <2>4. QED
    BY <2>3 DEF Paths
<1> HIDE DEF d, path, proof, root, moved, n
<1>5. VerifyInclusion(e, proof, root) <=> e.h = es[i + 1].h
  BY <1>2, <1>4, NoForgedInclusion DEF proof, root, n
<1>6. VerifyInclusion(e, moved, root) => e.h = es[j + 1].h
  BY <1>3, <1>4, NoForgedInclusion DEF root, n
<1>7. QED
  BY <1>5, <1>6 DEF proof, root, moved

(* A ledger has the hashes that a shorter one, kept, has. *)
SameHashes(es, ws) == \A i \in 1..Len(ws) : ws[i].h = es[i].h

(* The root of a kept ledger is the root of this one's first leaves exactly  *)
(* if the hashes are the same.                                               *)
LEMMA RootsAgree ==
  ASSUME NEW es \in Seq(Line), NEW ws \in Seq(Line), ws # <<>>, Len(ws) <= Len(es)
  PROVE  MerkleRoot(ws) = TreeHash[Prefix(Leaves(es), Len(ws))] <=> SameHashes(es, ws)
<1> DEFINE m == Len(ws)
           n == Len(es)
           d == Leaves(es)
           c == Leaves(ws)
           p == Prefix(d, m)
<1>1. m \in Nat /\ n \in Nat /\ m >= 1 /\ m \in 0..n
  BY Lengths
<1>2. c \in Trees /\ Len(c) = m /\ \A i \in 1..m : c[i] = LeafHash(ws[i])
  BY LeavesAre
<1>3. d \in Seq(Tree) /\ Len(d) = n /\ \A i \in 1..n : d[i] = LeafHash(es[i])
  BY LeavesAre
<1> HIDE DEF c, d
<1>4. p \in Seq(Tree) /\ Len(p) = m /\ \A i \in 1..m : p[i] = d[i]
  <2>1. m \in 0..Len(d)
    BY <1>1, <1>3
  <2>2. QED
    BY <1>3, <2>1, Cuts
<1> HIDE DEF p
<1>5. p \in Trees
  <2>1. p # <<>>
    BY <1>1, <1>4, Lengths
  <2>2. QED
    BY <1>4, <2>1 DEF Trees
<1>6. TreeHash[c] = TreeHash[p] <=> c = p
  BY <1>2, <1>4, <1>5, HashInjective
<1>7. c = p <=> \A i \in 1..m : c[i] = p[i]
  <2>1. c \in Seq(Tree)
    BY <1>2 DEF Trees
  <2>2. QED
    BY <1>2, <1>4, <2>1
<1>8. \A i \in 1..m : c[i] = p[i] <=> ws[i].h = es[i].h
  <2> SUFFICES ASSUME NEW i \in 1..m PROVE c[i] = p[i] <=> ws[i].h = es[i].h
    OBVIOUS
  <2>1. i \in 1..n
    BY <1>1
  <2>2. ws[i] \in Line /\ es[i] \in Line
    BY <2>1
  <2>3. c[i] = LeafHash(ws[i]) /\ p[i] = LeafHash(es[i])
    BY <1>2, <1>3, <1>4, <2>1
  <2>4. QED
    BY <2>2, <2>3, LeafHashes
<1>9. QED
  BY <1>6, <1>7, <1>8, Zenon DEF MerkleRoot, SameHashes, c, p, d, m

(* VerifyConsistency accepts no forged path: for ledgers of any sizes, the   *)
(* empty one and the same size included, and any proof for those sizes, with *)
(* whatever hashes as its path, it accepts exactly the path that             *)
(* ConsistencyProof returns, and exactly if the new ledger has the hashes of *)
(* the old one at every place of it.                                         *)
THEOREM NoForgedConsistency ==
  ASSUME NEW es \in Seq(Line), NEW ws \in Seq(Line), NEW proof,
         proof.old = Len(ws), proof.new = Len(es), proof.path \in Seq(Tree)
  PROVE  VerifyConsistency(proof, MerkleRoot(ws), MerkleRoot(es))
         <=> /\ Len(ws) <= Len(es)
             /\ proof.path = ConsistencyProof(Len(ws), es).path
             /\ SameHashes(es, ws)
<1> DEFINE m    == Len(ws)
           n    == Len(es)
           d    == Leaves(es)
           old  == MerkleRoot(ws)
           new  == MerkleRoot(es)
           path == proof.path
           own  == ConsistencyProof(m, es).path
<1>1. m \in Nat /\ n \in Nat /\ (ws = <<>> <=> m = 0) /\ (es = <<>> <=> n = 0)
  BY Lengths
<1>2. d \in Seq(Tree) /\ Len(d) = n /\ (es # <<>> => d \in Trees)
  BY LeavesAre
<1>3. new = TreeHash[d]
  BY DEF MerkleRoot
<1>4. own = IF m \in {0, n} THEN <<>> ELSE Lean(m, d)
  BY DEF ConsistencyProof, Lean
<1>5. CASE ~(m <= n)
  BY <1>5, Zenon DEF VerifyConsistency
<1>6. CASE m = 0
  <2>1. old = EmptyRoot
    <3>1. Leaves(ws) \in Seq(Tree) /\ Len(Leaves(ws)) = 0
      BY <1>6, LeavesAre
    <3>2. Leaves(ws) = <<>>
      BY <3>1, Lengths
    <3>3. QED
      BY <3>2, TreeHashSteps DEF MerkleRoot
  <2>2. SameHashes(es, ws)
    BY <1>6 DEF SameHashes
  <2>3. own = <<>> /\ m <= n
    BY <1>1, <1>4, <1>6
  <2> HIDE DEF old, new, m, n, own
  <2>4. VerifyConsistency(proof, old, new) <=> path = <<>>
    BY <1>6, <2>1, <2>3, Zenon DEF VerifyConsistency, m, n
  <2>5. QED
    BY <2>2, <2>3, <2>4, Zenon DEF old, new, m, n, own
<1>7. CASE m # 0 /\ m = n
  <2>1. old = new <=> SameHashes(es, ws)
    <3>1. Prefix(d, m) = d
      BY <1>2, <1>7, WholePrefix
    <3>2. QED
      BY <1>1, <1>3, <1>7, <3>1, RootsAgree
  <2>2. own = <<>> /\ m <= n
    BY <1>1, <1>4, <1>7
  <2> HIDE DEF old, new, m, n, own
  <2>3. VerifyConsistency(proof, old, new) <=> path = <<>> /\ old = new
    BY <1>7, <2>2, Zenon DEF VerifyConsistency, m, n
  <2>4. QED
    BY <2>1, <2>2, <2>3, Zenon DEF old, new, m, n, own
<1>8. CASE m <= n /\ m # 0 /\ m # n
  <2>1. own = Lean(m, d)
    BY <1>4, <1>8
  <2>2. old \in Tree
    <3>1. Leaves(ws) \in Trees
      BY <1>1, <1>8, LeavesAre
    <3>2. QED
      BY <3>1, HashIsTree DEF MerkleRoot
  <2>3. d \in Trees /\ m \in Nat \ {0} /\ m < n
    BY <1>1, <1>2, <1>8
  <2>4. Checks(m, n, path, old, new) <=> path = Lean(m, d) /\ old = TreeHash[Prefix(d, m)]
    <3> HIDE DEF old, new, d, m, n
    <3>1. Checks(m, Len(d), path, old, TreeHash[d])
          <=> path = Lean(m, d) /\ old = TreeHash[Prefix(d, m)]
      BY <1>2, <2>2, <2>3, ChecksMean, Zenon
    <3>2. QED
      BY <1>2, <1>3, <3>1, Zenon
  <2>5. old = TreeHash[Prefix(d, m)] <=> SameHashes(es, ws)
    BY <1>1, <1>8, RootsAgree
  <2> HIDE DEF old, new, m, n, own, d
  <2>6. VerifyConsistency(proof, old, new) <=> Checks(m, n, path, old, new)
    BY <1>8, Zenon DEF VerifyConsistency, Checks, m, n
  <2>7. QED
    BY <1>8, <2>1, <2>4, <2>5, <2>6, Zenon DEF old, new, m, n, own
<1>9. QED
  BY <1>5, <1>6, <1>7, <1>8

(* VerifyConsistency accepts the proof that ConsistencyProof returns, with   *)
(* the root of a ledger as the old root, exactly if the new ledger has the   *)
(* hashes of the old one at every place of it: of every size, the empty one  *)
(* and the same size included.                                               *)
THEOREM ConsistencyIsExact ==
  ASSUME NEW es \in Seq(Line), NEW ws \in Seq(Line), Len(ws) <= Len(es)
  PROVE  VerifyConsistency(ConsistencyProof(Len(ws), es), MerkleRoot(ws), MerkleRoot(es))
         <=> SameHashes(es, ws)
<1> DEFINE m     == Len(ws)
           n     == Len(es)
           d     == Leaves(es)
           proof == ConsistencyProof(m, es)
           path  == IF m \in {0, n} THEN <<>> ELSE Lean(m, d)
<1>1. proof = [old |-> m, new |-> n, path |-> path]
  BY Zenon DEF ConsistencyProof, Lean
<1>2. proof.old = m /\ proof.new = n /\ proof.path = path
  BY <1>1
<1>3. path \in Seq(Tree)
  <2>1. CASE m \in {0, n}
    BY <2>1
  <2>2. CASE m \notin {0, n}
    <3>1. m \in Nat \ {0} /\ m < n /\ n # 0 /\ m <= n
      BY <2>2
    <3>2. d \in Trees /\ Len(d) = n
      BY <3>1, Lengths, LeavesAre
    <3>3. Lean(m, d) \in Seq(Tree)
      <4> DEFINE F == Full(m, d)
                 b == Boundary[<<m - 1, Len(d) - 1>>]
      <4>1. F \in Trees
        BY <3>1, <3>2, FullIsTrees
      <4>2. TreeHash[d] \in Tree
        BY <3>2, HashIsTree
      <4>3. F \in Seq(Tree) /\ Tail(F) \in Seq(Tree)
        BY <4>1, <4>2, HeadTail, Zenon DEF Trees
      <4>4. Spine(d, m, b[1])
        BY <3>1, <3>2, <4>2, MetRoots
      <4> HIDE DEF F, b
      <4>5. Lean(m, d) \in {F, Tail(F)}
        BY <4>4, Zenon DEF Spine, F
      <4>6. QED
        BY <4>3, <4>5
    <3>4. QED
      BY <2>2, <3>3
  <2>3. QED
    BY <2>1, <2>2
<1> HIDE DEF path, proof
<1>4. VerifyConsistency(proof, MerkleRoot(ws), MerkleRoot(es))
      <=> Len(ws) <= Len(es) /\ proof.path = proof.path /\ SameHashes(es, ws)
  BY <1>2, <1>3, NoForgedConsistency DEF proof
<1>5. QED
  BY <1>4, Zenon DEF proof
=============================================================================
