---------------------------- MODULE AuditProofs -----------------------------
(***************************************************************************)
(* Proofs about what is computed from a ledger, for any contents, any      *)
(* thresholds of the stuck detectors and ledgers of any length, which      *)
(* somebody edits at any time.                                             *)
(*                                                                         *)
(* Each loop is replaced by a function of the turn, which module           *)
(* MerkleProofs shows to exist, and what it holds after i turns is proved  *)
(* by counting up.  The stuck detectors, the graph of Replay and what      *)
(* VerifyChain accepts are then theorems about all ledgers; the machine    *)
(* adds that its ledgers are such ledgers (LedgerOK), and where the kept   *)
(* root comes from (RootOK).                                               *)
(***************************************************************************)
EXTENDS Audit, MerkleProofs

(* The turns' fingerprints that cycle.Stuck collects, as a loop over the     *)
(* ledger, and where an entry's fingerprint is among them.                   *)

(* The loop in Prints, *)
PrintsLoop(es, type) ==
  CHOOSE prints : prints = [i \in 0..Len(es) |->
    IF i = 0 THEN <<>>
    ELSE IF EntryOf(es[i].c).type = type THEN Append(prints[i-1], PrintOf(es[i]))
    ELSE prints[i-1]]
(* the fingerprints it takes from, *)
PrintsIn(es) == {PrintOf(es[i]) : i \in 1..Len(es)}

(* and what it holds after each entry. *)
IsPrints(f, es, type) ==
  /\ f \in [0..Len(es) -> Seq(PrintsIn(es))]
  /\ f[0] = <<>>
  /\ \A i \in 1..Len(es) :
       f[i] = IF EntryOf(es[i].c).type = type THEN Append(f[i-1], PrintOf(es[i])) ELSE f[i-1]

(* Prints is what that loop ends with. *)
LEMMA PrintsSteps ==
  ASSUME NEW es, Len(es) \in Nat, NEW type
  PROVE  /\ Prints(es, type) = PrintsLoop(es, type)[Len(es)]
         /\ IsPrints(PrintsLoop(es, type), es, type)
<1> DEFINE N == Len(es)
           f == PrintsLoop(es, type)
           S == Seq(PrintsIn(es))
           Is(i) == EntryOf(es[i].c).type = type
           Turn(i, s) == IF Is(i) THEN Append(s, PrintOf(es[i])) ELSE s
           step == [p \in (1..N) \X S |-> Turn(p[1], p[2])]
<1>1. Prints(es, type) = f[N]
  BY Zenon DEF Prints, PrintsLoop
<1>2. \A i \in 1..N : PrintOf(es[i]) \in PrintsIn(es)
  BY DEF PrintsIn
<1>3. <<>> \in S /\ \A i \in 1..N : \A s \in S : Turn(i, s) \in S
  BY <1>2
<1>4. step \in [(1..N) \X S -> S]
  BY <1>3
<1>5. \A i \in 1..N : \A s \in S : step[<<i, s>>] = Turn(i, s)
  OBVIOUS
<1> HIDE DEF S, step, N, Turn
<1>6. PICK g : Iterates(g, N, S, <<>>, step)
  BY <1>3, <1>4, Loop, Zenon DEF N
<1>7. g \in [0..N -> S] /\ g[0] = <<>> /\ \A i \in 1..N : g[i] = step[<<i, g[i-1]>>]
  BY <1>6 DEF Iterates
<1>8. ASSUME NEW i \in 1..N PROVE g[i] = Turn(i, g[i-1])
  <2>1. g[i-1] \in S
    BY <1>7 DEF N
  <2>2. QED
    BY <1>5, <1>7, <2>1
<1>9. g = [i \in 0..N |-> IF i = 0 THEN <<>> ELSE Turn(i, g[i-1])]
  BY <1>7, <1>8 DEF N
<1>10. f = [i \in 0..N |-> IF i = 0 THEN <<>> ELSE Turn(i, f[i-1])]
  BY <1>9, Zenon DEF PrintsLoop, N, Turn
<1>11. \A i \in 0..N : f[i] = IF i = 0 THEN <<>> ELSE Turn(i, f[i-1])
  BY <1>10, Zenon
<1>12. CountsTo(f, N) /\ CountsTo(g, N)
  BY <1>7, <1>10 DEF CountsTo
<1> HIDE DEF f
<1>13. f = g
  <2>1. f[0] = g[0] /\ \A i \in 1..N : f[i-1] = g[i-1] => f[i] = g[i]
    BY <1>7, <1>8, <1>11 DEF N
  <2>2. QED
    BY <2>1, <1>12, LoopUnique, Zenon DEF N
<1>14. QED
  BY <1>1, <1>7, <1>8, <1>13 DEF N, S, Turn, f, IsPrints

(* The fingerprints of a ledger's beginning are what the loop over all of it *)
(* holds there.                                                              *)
LEMMA PrintsOfPrefix ==
  ASSUME NEW E, NEW es \in Seq(E), NEW type, NEW k \in 0..Len(es)
  PROVE  Prints(Prefix(es, k), type) = PrintsLoop(es, type)[k]
<1> DEFINE p == Prefix(es, k)
           f == PrintsLoop(es, type)
           g == PrintsLoop(p, type)
           T == {i \in 0..k : f[i] = g[i]}
<1>1. Len(p) = k /\ \A i \in 1..k : p[i] = es[i]
  BY DEF Prefix
<1>2. IsPrints(f, es, type)
  BY PrintsSteps
<1>3. Prints(p, type) = g[k] /\ IsPrints(g, p, type)
  BY <1>1, PrintsSteps
<1> HIDE DEF f, g, p
<1>4. 0 \in T
  BY <1>2, <1>3 DEF IsPrints
<1>5. ASSUME NEW i \in 1..k, i - 1 \in T PROVE i \in T
  <2>1. p[i] = es[i] /\ f[i-1] = g[i-1] /\ i \in 1..Len(es) /\ i \in 1..Len(p)
    BY <1>1, <1>5
  <2>2. f[i] = g[i]
    BY <1>2, <1>3, <2>1, Zenon DEF IsPrints
  <2>3. QED
    BY <2>2
<1>6. 0..k \subseteq T
  <2> HIDE DEF T
  <2> QED BY <1>4, <1>5, CountUp
<1>7. f[k] = g[k]
  BY <1>6
<1>8. QED
  BY <1>3, <1>7 DEF p, f

(* The entries of a type up to n, *)
OfType(es, type, n) == {j \in 1..n : EntryOf(es[j].c).type = type}
(* and how many they are. *)
Rank(es, type, n) == Cardinality(OfType(es, type, n))

(* The count grows by one at each entry of the type and at no other. *)
LEMMA RankCounts ==
  ASSUME NEW es, NEW type
  PROVE  /\ Rank(es, type, 0) = 0
         /\ \A n \in Nat : IsFiniteSet(OfType(es, type, n)) /\ Rank(es, type, n) \in 0..n
         /\ \A n \in Nat \ {0} :
              /\ EntryOf(es[n].c).type = type => Rank(es, type, n) = Rank(es, type, n-1) + 1
              /\ EntryOf(es[n].c).type # type => Rank(es, type, n) = Rank(es, type, n-1)
<1> DEFINE X(n) == OfType(es, type, n)
<1>1. ASSUME NEW n \in Nat
      PROVE  /\ IsFiniteSet(X(n))
             /\ Cardinality(X(n)) \in 0..n
  <2>1. IsFiniteSet(1..n) /\ Cardinality(1..n) = n
    BY FS_Interval
  <2>2. X(n) \subseteq 1..n
    BY DEF OfType
  <2>3. IsFiniteSet(X(n)) /\ Cardinality(X(n)) <= Cardinality(1..n)
    BY <2>1, <2>2, FS_Subset, Zenon
  <2>4. Cardinality(X(n)) \in Nat
    BY <2>3, FS_CardinalityType
  <2>5. QED
    BY <2>1, <2>3, <2>4
<1>2. Cardinality(X(0)) = 0
  BY <1>1
<1>3. ASSUME NEW n \in Nat \ {0}
      PROVE  /\ EntryOf(es[n].c).type = type => Cardinality(X(n)) = Cardinality(X(n-1)) + 1
             /\ EntryOf(es[n].c).type # type => Cardinality(X(n)) = Cardinality(X(n-1))
  <2>1. IsFiniteSet(X(n-1)) /\ Cardinality(X(n-1)) \in Nat
    BY <1>1
  <2>2. n \notin X(n-1)
    BY DEF OfType
  <2>3. CASE EntryOf(es[n].c).type = type
    <3>1. X(n) = X(n-1) \cup {n}
      BY <2>3 DEF OfType
    <3>2. Cardinality(X(n)) = Cardinality(X(n-1)) + 1
      BY <2>1, <2>2, <3>1, FS_AddElement
    <3>3. QED
      BY <2>3, <3>2
  <2>4. CASE EntryOf(es[n].c).type # type
    <3>1. X(n) = X(n-1)
      BY <2>4 DEF OfType
    <3>2. QED
      BY <2>1, <2>4, <3>1
  <2>5. QED
    BY <2>3, <2>4
<1>4. QED
  BY <1>1, <1>2, <1>3 DEF Rank

(* So it never falls. *)
LEMMA RankGrows ==
  ASSUME NEW es, NEW type, NEW n \in Nat, NEW i \in 0..n
  PROVE  Rank(es, type, i) <= Rank(es, type, n)
<1>1. OfType(es, type, i) \subseteq OfType(es, type, n)
  BY DEF OfType
<1>2. IsFiniteSet(OfType(es, type, n))
  BY RankCounts
<1>3. QED
  BY <1>1, <1>2, FS_Subset DEF Rank

(* The fingerprints are those of the entries of the type, in order: an       *)
(* entry's is at its count.                                                  *)
LEMMA PrintsInOrder ==
  ASSUME NEW es, Len(es) \in Nat, NEW type, NEW f, IsPrints(f, es, type), NEW i \in 0..Len(es)
  PROVE  /\ Len(f[i]) = Rank(es, type, i)
         /\ \A j \in OfType(es, type, i) : f[i][Rank(es, type, j)] = PrintOf(es[j])
<1> DEFINE N == Len(es)
           C(n) == Rank(es, type, n)
           T == {n \in 0..N : /\ Len(f[n]) = C(n)
                              /\ \A j \in OfType(es, type, n) : f[n][C(j)] = PrintOf(es[j])}
<1>1. /\ C(0) = 0 /\ \A n \in Nat : C(n) \in 0..n
      /\ \A n \in Nat \ {0} : /\ EntryOf(es[n].c).type = type => C(n) = C(n-1) + 1
                              /\ EntryOf(es[n].c).type # type => C(n) = C(n-1)
  BY RankCounts
<1>2. 0 \in T
  BY <1>1 DEF IsPrints, OfType
<1>3. ASSUME NEW n \in 1..N, n - 1 \in T PROVE n \in T
  <2>0. n \in Nat \ {0}
    OBVIOUS
  <2>1. f[n-1] \in Seq(PrintsIn(es)) /\ PrintOf(es[n]) \in PrintsIn(es)
    BY DEF IsPrints, PrintsIn
  <2>2. ASSUME NEW j \in OfType(es, type, n - 1) PROVE C(j) \in 1..C(n-1)
    <3>1. j \in 1..(n-1) /\ EntryOf(es[j].c).type = type
      BY DEF OfType
    <3>2. C(j) >= 1
      <4>1. j \in Nat \ {0} /\ j - 1 \in Nat
        BY <3>1
      <4>2. C(j) = C(j-1) + 1
        BY <1>1, <3>1, <4>1, Zenon
      <4>3. C(j-1) \in 0..(j-1)
        BY <1>1, <4>1, Zenon
      <4>4. QED
        BY <4>1, <4>2, <4>3
    <3>3. C(j) <= C(n-1)
      BY <3>1, RankGrows
    <3>4. QED
      BY <1>1, <3>1, <3>2, <3>3
  <2>3. Len(f[n-1]) = C(n-1) /\ \A j \in OfType(es, type, n-1) : f[n-1][C(j)] = PrintOf(es[j])
    BY <1>3
  <2>4. CASE EntryOf(es[n].c).type = type
    <3>1. f[n] = Append(f[n-1], PrintOf(es[n])) /\ C(n) = C(n-1) + 1
      BY <2>4, <1>1, <2>0, Zenon DEF IsPrints
    <3>2. OfType(es, type, n) = OfType(es, type, n-1) \cup {n}
      BY <2>4 DEF OfType
    <3>3. Len(f[n]) = C(n) /\ f[n][C(n)] = PrintOf(es[n])
      BY <2>1, <2>3, <3>1
    <3>4. \A j \in OfType(es, type, n-1) : f[n][C(j)] = PrintOf(es[j])
      BY <2>1, <2>2, <2>3, <3>1
    <3>5. QED
      BY <3>2, <3>3, <3>4
  <2>5. CASE EntryOf(es[n].c).type # type
    <3>1. f[n] = f[n-1] /\ C(n) = C(n-1)
      BY <2>5, <1>1, <2>0, Zenon DEF IsPrints
    <3>2. OfType(es, type, n) = OfType(es, type, n-1)
      BY <2>5 DEF OfType
    <3>3. QED
      BY <2>3, <3>1, <3>2
  <2>6. QED
    BY <2>4, <2>5
<1>4. 0..N \subseteq T
  <2> HIDE DEF T
  <2> QED BY <1>2, <1>3, CountUp
<1>5. QED
  BY <1>4

(* What has been collected stays where it is. *)
LEMMA PrintsGrow ==
  ASSUME NEW es, Len(es) \in Nat, NEW type, NEW f, IsPrints(f, es, type), NEW k \in 0..Len(es)
  PROVE  Len(f[k]) <= Len(f[Len(es)]) /\ \A m \in 1..Len(f[k]) : f[Len(es)][m] = f[k][m]
<1> DEFINE N == Len(es)
           M == N - k
           Ext(i) == Len(f[k]) <= Len(f[i]) /\ \A m \in 1..Len(f[k]) : f[i][m] = f[k][m]
           T == {d \in 0..M : Ext(k + d)}
<1>1. \A i \in 0..N : f[i] \in Seq(PrintsIn(es)) /\ Len(f[i]) \in Nat
  BY DEF IsPrints
<1>2. 0 \in T
  BY <1>1
<1>3. ASSUME NEW d \in 1..M, d - 1 \in T PROVE d \in T
  <2> DEFINE i == k + d
  <2>1. i \in 1..N /\ i - 1 \in 0..N /\ i - 1 = k + (d - 1)
    OBVIOUS
  <2>2. Ext(i - 1)
    BY <1>3, <2>1
  <2>3. f[i-1] \in Seq(PrintsIn(es)) /\ PrintOf(es[i]) \in PrintsIn(es)
    BY <1>1, <2>1 DEF PrintsIn
  <2>4. f[i] = Append(f[i-1], PrintOf(es[i])) \/ f[i] = f[i-1]
    BY <2>1, Zenon DEF IsPrints
  <2> HIDE DEF i
  <2>5. Ext(i)
    <3>1. CASE f[i] = f[i-1]
      BY <2>2, <3>1
    <3>2. CASE f[i] = Append(f[i-1], PrintOf(es[i]))
      <4>1. Len(f[i]) = Len(f[i-1]) + 1 /\ \A m \in 1..Len(f[i-1]) : f[i][m] = f[i-1][m]
        BY <2>3, <3>2
      <4>2. Len(f[k]) \in Nat /\ Len(f[i-1]) \in Nat
        BY <1>1, <2>1
      <4>3. QED
        BY <2>2, <4>1, <4>2
    <3>3. QED
      BY <2>4, <3>1, <3>2
  <2>6. QED
    BY <2>5 DEF i
<1>4. 0..M \subseteq T
  <2>1. M \in Nat
    OBVIOUS
  <2> HIDE DEF T, M
  <2> QED BY <1>2, <1>3, <2>1, CountUp
<1>5. M \in 0..M /\ k + M = N
  OBVIOUS
<1>6. M \in T
  BY <1>4, <1>5, Zenon
<1>7. QED
  BY <1>5, <1>6

(* Entries are stamped when they are appended; two may have the same stamp.  *)
InTime(es) ==
  /\ \A i \in 1..Len(es) : es[i].at \in Int
  /\ \A i, j \in 1..Len(es) : i <= j => es[i].at <= es[j].at

(* Then the fingerprints' stamps are in order too. *)
LEMMA PrintsInTime ==
  ASSUME NEW es, Len(es) \in Nat, InTime(es), NEW type, NEW f, IsPrints(f, es, type),
         NEW k \in 0..Len(es)
  PROVE  /\ \A m \in 1..Len(f[k]) : f[k][m].at \in Int
         /\ \A m, n \in 1..Len(f[k]) : m <= n => f[k][m].at <= f[k][n].at
<1> DEFINE N == Len(es)
           From(i) == \A m \in 1..Len(f[i]) : \E j \in 1..i : f[i][m].at = es[j].at
           Sorted(i) == \A m, n \in 1..Len(f[i]) : m <= n => f[i][m].at <= f[i][n].at
           T == {i \in 0..N : From(i) /\ Sorted(i)}
<1>1. \A i \in 0..N : f[i] \in Seq(PrintsIn(es)) /\ Len(f[i]) \in Nat
  BY DEF IsPrints
<1>2. 0 \in T
  BY <1>1 DEF IsPrints
<1>3. ASSUME NEW i \in 1..N, i - 1 \in T PROVE i \in T
  <2>1. f[i-1] \in Seq(PrintsIn(es)) /\ PrintOf(es[i]) \in PrintsIn(es)
          /\ PrintOf(es[i]).at = es[i].at
    BY <1>1 DEF PrintsIn, PrintOf
  <2>2. f[i] = Append(f[i-1], PrintOf(es[i])) \/ f[i] = f[i-1]
    BY Zenon DEF IsPrints
  <2>3. CASE f[i] = f[i-1]
    <3>1. From(i)
      BY <1>3, <2>3
    <3>2. Sorted(i)
      BY <1>3, <2>3
    <3>3. QED
      BY <3>1, <3>2
  <2>4. CASE f[i] = Append(f[i-1], PrintOf(es[i]))
    <3>1. /\ Len(f[i]) = Len(f[i-1]) + 1 /\ Len(f[i-1]) \in Nat
          /\ \A m \in 1..Len(f[i-1]) : f[i][m] = f[i-1][m]
          /\ f[i][Len(f[i])].at = es[i].at
      BY <2>1, <2>4
    <3>2. \A m \in 1..Len(f[i-1]) : \E j \in 1..(i-1) : f[i][m].at = es[j].at
      BY <1>3, <3>1
    <3>3. \A m \in 1..Len(f[i]) : m \in 1..Len(f[i-1]) \/ m = Len(f[i])
      BY <3>1
    <3>4. From(i)
      <4> SUFFICES ASSUME NEW m \in 1..Len(f[i]) PROVE \E j \in 1..i : f[i][m].at = es[j].at
        OBVIOUS
      <4>1. i \in 1..i /\ \A j \in 1..(i-1) : j \in 1..i
        OBVIOUS
      <4>2. CASE m \in 1..Len(f[i-1])
        BY <3>2, <4>1, <4>2, Zenon
      <4>3. CASE m = Len(f[i])
        BY <3>1, <4>1, <4>3, Zenon
      <4>4. QED
        BY <3>3, <4>2, <4>3
    <3>5. ASSUME NEW m \in 1..Len(f[i]) PROVE f[i][m].at <= f[i][Len(f[i])].at
      <4>1. PICK j \in 1..i : f[i][m].at = es[j].at
        BY <3>4
      <4>2. es[j].at <= es[i].at
        BY DEF InTime
      <4>3. QED
        BY <3>1, <4>1, <4>2
    <3>6. Sorted(i)
      <4> SUFFICES ASSUME NEW m \in 1..Len(f[i]), NEW n \in 1..Len(f[i]), m <= n
                   PROVE  f[i][m].at <= f[i][n].at
        OBVIOUS
      <4>1. CASE n = Len(f[i])
        BY <3>5, <4>1
      <4>2. CASE n # Len(f[i])
        <5>1. m \in 1..Len(f[i-1]) /\ n \in 1..Len(f[i-1])
          BY <3>1, <4>2, SMTT(30)
        <5>2. f[i-1][m].at <= f[i-1][n].at
          BY <1>3, <5>1
        <5>3. QED
          BY <3>1, <5>1, <5>2
      <4>3. QED
        BY <4>1, <4>2
    <3>7. QED
      BY <3>4, <3>6
  <2>5. QED
    BY <2>2, <2>3, <2>4
<1>4. 0..N \subseteq T
  <2> HIDE DEF T
  <2> QED BY <1>2, <1>3, CountUp
<1>5. From(k) /\ Sorted(k)
  BY <1>4
<1>6. \A m \in 1..Len(f[k]) : f[k][m].at \in Int
  BY <1>5 DEF InTime
<1>7. QED
  BY <1>5, <1>6
-----------------------------------------------------------------------------
(* pingPongStuck: the run that its loop counts. *)

(* What pingPongStuck's loop holds after each turn. *)
IsRuns(f, s) ==
  /\ f \in [0..Len(s) -> Nat] /\ f[0] = 1
  /\ \A i \in 1..Len(s) : f[i] = IF i = 1 THEN 1 ELSE RunLength(s, i, f[i-1])

(* Runs is what that loop computes. *)
LEMMA RunsSteps ==
  ASSUME NEW s, Len(s) \in Nat
  PROVE  IsRuns(Runs(s), s)
<1> DEFINE N == Len(s)
           f == Runs(s)
           Then(i, r) == IF i = 1 THEN 1 ELSE RunLength(s, i, r)
           step == [p \in (1..N) \X Nat |-> Then(p[1], p[2])]
<1>1. \A i \in 1..N : \A r \in Nat : Then(i, r) \in Nat
  BY DEF RunLength
<1>2. step \in [(1..N) \X Nat -> Nat]
  BY <1>1
<1>3. \A i \in 1..N : \A r \in Nat : step[<<i, r>>] = Then(i, r)
  OBVIOUS
<1> HIDE DEF step, N, Then
<1>4. PICK g : Iterates(g, N, Nat, 1, step)
  BY <1>2, Loop DEF N
<1>5. g \in [0..N -> Nat] /\ g[0] = 1 /\ \A i \in 1..N : g[i] = step[<<i, g[i-1]>>]
  BY <1>4 DEF Iterates
<1>6. ASSUME NEW i \in 1..N PROVE g[i] = Then(i, g[i-1])
  <2>1. g[i-1] \in Nat
    BY <1>5 DEF N
  <2>2. QED
    BY <1>3, <1>5, <2>1
<1>7. g = [i \in 0..N |-> IF i <= 1 THEN 1 ELSE RunLength(s, i, g[i-1])]
  <2>1. \A i \in 0..N : g[i] = IF i <= 1 THEN 1 ELSE RunLength(s, i, g[i-1])
    BY <1>5, <1>6 DEF N, Then
  <2>2. QED
    BY <1>5, <2>1
<1>8. f = [i \in 0..N |-> IF i <= 1 THEN 1 ELSE RunLength(s, i, f[i-1])]
  BY <1>7, Zenon DEF Runs, N
<1>9. \A i \in 0..N : f[i] = IF i <= 1 THEN 1 ELSE RunLength(s, i, f[i-1])
  BY <1>8, Zenon
<1>10. CountsTo(f, N) /\ CountsTo(g, N)
  BY <1>5, <1>8 DEF CountsTo
<1> HIDE DEF f
<1>11. f[0] = g[0] /\ \A i \in 1..N : f[i-1] = g[i-1] => f[i] = g[i]
  BY <1>5, <1>6, <1>9 DEF N, Then
<1>12. f = g
  BY <1>10, <1>11, LoopUnique, Zenon DEF N
<1>13. QED
  BY <1>5, <1>6, <1>12 DEF N, Then, IsRuns, f

(* The run that ends at k is an alternation of two fingerprints, *)
LEMMA RunsAlternate ==
  ASSUME NEW s, Len(s) \in Nat, NEW f, IsRuns(f, s), NEW k \in 1..Len(s)
  PROVE  /\ f[k] \in 1..k
         /\ \A j \in (k - f[k] + 1)..(k-1) : s[j].print # s[j+1].print
         /\ \A j \in (k - f[k] + 1)..(k-2) : s[j].print = s[j+2].print
<1> DEFINE N == Len(s)
           Alt(i) == /\ f[i] \in 1..i
                     /\ \A j \in (i - f[i] + 1)..(i-1) : s[j].print # s[j+1].print
                     /\ \A j \in (i - f[i] + 1)..(i-2) : s[j].print = s[j+2].print
           T == {i \in 0..N : i = 0 \/ Alt(i)}
<1>1. 0 \in T
  OBVIOUS
<1>2. ASSUME NEW i \in 1..N, i - 1 \in T PROVE i \in T
  <2>1. CASE i = 1
    <3>1. f[1] = 1
      BY <2>1 DEF IsRuns
    <3>2. QED
      BY <2>1, <3>1
  <2>2. CASE i > 1
    <3>1. f[i] = RunLength(s, i, f[i-1]) /\ Alt(i-1) /\ f[i-1] \in 1..(i-1)
      BY <1>2, <2>2 DEF IsRuns
    <3>2. CASE s[i].print = s[i-1].print
      <4>1. f[i] = 1
        BY <3>1, <3>2 DEF RunLength
      <4>2. QED
        BY <4>1
    <3>3. CASE s[i].print # s[i-1].print /\ i > 2 /\ s[i].print = s[i-2].print
      <4>1. f[i] = f[i-1] + 1 /\ f[i] \in 1..i /\ i - f[i] + 1 = (i-1) - f[i-1] + 1
        BY <3>1, <3>3, SMTT(30) DEF RunLength
      <4> DEFINE b == i - f[i] + 1
      <4>2. b \in Int /\ \A j \in b..(i-2) : s[j].print # s[j+1].print
        BY <3>1, <4>1
      <4>3. \A j \in b..(i-3) : s[j].print = s[j+2].print
        BY <3>1, <4>1
      <4> HIDE DEF b
      <4>4. \A j \in b..(i-1) : j \in b..(i-2) \/ j = i - 1
        BY <4>2
      <4>5. \A j \in b..(i-2) : j \in b..(i-3) \/ j = i - 2
        BY <4>2
      <4>6. \A j \in b..(i-1) : s[j].print # s[j+1].print
        BY <3>3, <4>2, <4>4
      <4>7. \A j \in b..(i-2) : s[j].print = s[j+2].print
        BY <3>3, <4>3, <4>5
      <4>8. Alt(i)
        BY <4>1, <4>6, <4>7 DEF b
      <4>9. QED
        BY <4>8
    <3>4. CASE s[i].print # s[i-1].print /\ ~(i > 2 /\ s[i].print = s[i-2].print)
      <4>1. f[i] = 2
        BY <3>1, <3>4, Zenon DEF RunLength
      <4>2. QED
        BY <2>2, <3>4, <4>1
    <3>5. QED
      BY <3>2, <3>3, <3>4
  <2>3. QED
    BY <2>1, <2>2
<1>3. 0..N \subseteq T
  <2> HIDE DEF T
  <2> QED BY <1>1, <1>2, CountUp
<1>4. k \in T /\ k # 0
  BY <1>3
<1>5. QED
  BY <1>4

(* and no alternation that ends there is longer. *)
LEMMA RunsReach ==
  ASSUME NEW s, Len(s) \in Nat, NEW f, IsRuns(f, s), NEW W \in Nat, W >= 2,
         NEW i \in 1..(Len(s) - W + 1), s[i].print # s[i+1].print,
         \A j \in i..(i + W - 3) : s[j].print = s[j+2].print
  PROVE  f[i + W - 1] >= W
<1> DEFINE M == W - 1
           Up(t) == s[i+t-1].print # s[i+t].print /\ f[i+t] >= t + 1
           T == {t \in 0..M : t = 0 \/ Up(t)}
<1>1. 0 \in T /\ M \in Nat
  OBVIOUS
<1>2. ASSUME NEW t \in 1..M, t - 1 \in T PROVE t \in T
  <2> DEFINE k == i + t
  <2>1. k \in 2..Len(s) /\ k - 1 \in 1..Len(s)
    OBVIOUS
  <2>2. f[k] = RunLength(s, k, f[k-1]) /\ f[k] \in Nat /\ f[k-1] \in Nat /\ f[k-1] >= 1
    <3>1. f[k] = RunLength(s, k, f[k-1])
      BY <2>1 DEF IsRuns
    <3>2. f[k-1] \in 1..(k-1) /\ f[k] \in 1..k
      <4>1. k \in 1..Len(s)
        BY <2>1
      <4> HIDE DEF k
      <4>2. QED
        BY <2>1, <4>1, RunsAlternate, Zenon
    <3>3. QED
      BY <2>1, <3>1, <3>2
  <2>3. CASE t = 1
    <3>1. s[k].print # s[k-1].print
      BY <2>3
    <3>2. f[k] = f[k-1] + 1 \/ f[k] = 2
      BY <2>2, <3>1, Zenon DEF RunLength
    <3>3. f[k] >= 2
      BY <2>2, <3>2
    <3>4. QED
      BY <2>3, <3>1, <3>3
  <2>4. CASE t > 1
    <3>1. s[k-2].print = s[k].print
      <4>1. k - 2 \in i..(i + W - 3) /\ (k - 2) + 2 = k
        BY <2>4
      <4>2. QED
        BY <4>1
    <3>2. s[k-2].print # s[k-1].print /\ f[k-1] >= t
      BY <1>2, <2>4
    <3>3. k > 2
      BY <2>4
    <3>4. f[k] = f[k-1] + 1
      BY <2>2, <3>1, <3>2, <3>3, Zenon DEF RunLength
    <3>5. s[k-1].print # s[k].print /\ f[k] >= t + 1
      BY <2>2, <3>1, <3>2, <3>4
    <3>6. QED
      BY <3>5
  <2>5. QED
    BY <2>3, <2>4
<1>3. 0..M \subseteq T
  <2> HIDE DEF T, M
  <2> QED BY <1>1, <1>2, CountUp
<1>4. M \in 0..M /\ M # 0 /\ i + M = i + W - 1
  OBVIOUS
<1>5. Up(M)
  BY <1>3, <1>4
<1>6. QED
  BY <1>4, <1>5

(* An alternation of two fingerprints, W long. *)
Alternation(s, W) ==
  \E i \in 1..(Len(s) - W + 1) :
    s[i].print # s[i+1].print /\ \A j \in i..(i + W - 3) : s[j].print = s[j+2].print

(* pingPongStuck finds an alternation of the threshold's length exactly if   *)
(* there is one, anywhere in the turns.                                      *)
LEMMA PingPongMeans ==
  ASSUME NEW s, Len(s) \in Nat
  PROVE  pingPongStuck(s) <=> Alternation(s, PingPong)
<1> DEFINE f == Runs(s)
           W == PingPong
<1>1. IsRuns(f, s)
  BY RunsSteps
<1>2. W \in Nat /\ W >= 2
  BY AuditAssumption
<1> HIDE DEF f, W
<1>3. ASSUME pingPongStuck(s) PROVE Alternation(s, W)
  <2>1. PICK k \in 2..Len(s) : f[k] >= W
    BY <1>3 DEF pingPongStuck, f, W
  <2>2. /\ f[k] \in 1..k
        /\ \A j \in (k - f[k] + 1)..(k-1) : s[j].print # s[j+1].print
        /\ \A j \in (k - f[k] + 1)..(k-2) : s[j].print = s[j+2].print
    <3>1. k \in 1..Len(s)
      OBVIOUS
    <3>2. QED
      BY <1>1, <3>1, RunsAlternate, Zenon
  <2> DEFINE i == k - W + 1
  <2>3. i \in 1..(Len(s) - W + 1) /\ i \in (k - f[k] + 1)..(k-1)
    BY <1>2, <2>1, <2>2
  <2>4. s[i].print # s[i+1].print
    BY <2>2, <2>3
  <2>5. ASSUME NEW j \in i..(i + W - 3) PROVE s[j].print = s[j+2].print
    <3>1. j \in (k - f[k] + 1)..(k-2)
      BY <1>2, <2>1, <2>2
    <3>2. QED
      BY <2>2, <3>1
  <2> HIDE DEF i
  <2>6. QED
    BY <2>3, <2>4, <2>5 DEF Alternation
<1>4. ASSUME Alternation(s, W) PROVE pingPongStuck(s)
  <2>1. PICK i \in 1..(Len(s) - W + 1) :
          s[i].print # s[i+1].print /\ \A j \in i..(i + W - 3) : s[j].print = s[j+2].print
    BY <1>4 DEF Alternation
  <2>2. f[i + W - 1] >= W
    BY <1>1, <1>2, <2>1, RunsReach
  <2>3. i + W - 1 \in 2..Len(s) /\ Len(s) >= W
    BY <1>2
  <2>4. QED
    BY <2>2, <2>3 DEF pingPongStuck, f, W
<1>5. QED
  BY <1>3, <1>4 DEF W
-----------------------------------------------------------------------------
(* detectNoProgress: the dry records that its loop counts. *)

(* The loop in DryTail, *)
DryLoop(rs) ==
  CHOOSE tail : tail = [i \in 0..Len(rs) |->
    IF i = 0 THEN [seen |-> {}, dry |-> 0] ELSE DryStep(tail[i-1], rs[i])]
(* the artifacts of the first i records, *)
SeenBy(rs, i) == UNION {rs[j].artifacts : j \in 1..i}
(* and a record that adds none and is no end. *)
NothingNew(rs, i) == ~rs[i].ends /\ rs[i].artifacts \subseteq SeenBy(rs, i-1)

(* DryTail is what that loop ends with. *)
LEMMA DrySteps ==
  ASSUME NEW rs, Len(rs) \in Nat
  PROVE  LET f == DryLoop(rs) IN
           /\ DryTail(rs) = f[Len(rs)].dry
           /\ f[0] = [seen |-> {}, dry |-> 0]
           /\ \A i \in 1..Len(rs) : f[i] = DryStep(f[i-1], rs[i])
<1> DEFINE N == Len(rs)
           f == DryLoop(rs)
           none == [seen |-> {}, dry |-> 0]
           S == [seen : SUBSET SeenBy(rs, N), dry : Nat]
           step == [p \in (1..N) \X S |-> DryStep(p[2], rs[p[1]])]
<1>1. DryTail(rs) = f[N].dry
  BY Zenon DEF DryTail, DryLoop
<1>2. none \in S /\ \A i \in 1..N : \A r \in S : DryStep(r, rs[i]) \in S
  <2>1. \A i \in 1..N : rs[i].artifacts \subseteq SeenBy(rs, N)
    BY DEF SeenBy
  <2>2. none \in S
    OBVIOUS
  <2>3. ASSUME NEW i \in 1..N, NEW r \in S PROVE DryStep(r, rs[i]) \in S
    <3>1. r.seen \cup rs[i].artifacts \in SUBSET SeenBy(rs, N) /\ r.dry \in Nat
      BY <2>1
    <3>2. (IF isDry(rs[i], r.seen) THEN r.dry + 1 ELSE 0) \in Nat
      BY <3>1
    <3>3. QED
      BY <3>1, <3>2 DEF DryStep
  <2>4. QED
    BY <2>2, <2>3
<1> HIDE DEF S, none
<1>3. step \in [(1..N) \X S -> S]
  BY <1>2
<1>4. \A i \in 1..N : \A r \in S : step[<<i, r>>] = DryStep(r, rs[i])
  OBVIOUS
<1> HIDE DEF step, N
<1>5. PICK g : Iterates(g, N, S, none, step)
  BY <1>2, <1>3, Loop, Zenon DEF N
<1>6. g \in [0..N -> S] /\ g[0] = none /\ \A i \in 1..N : g[i] = step[<<i, g[i-1]>>]
  BY <1>5 DEF Iterates
<1>7. ASSUME NEW i \in 1..N PROVE g[i] = DryStep(g[i-1], rs[i])
  <2>1. g[i-1] \in S
    BY <1>6 DEF N
  <2>2. QED
    BY <1>4, <1>6, <2>1
<1>8. g = [i \in 0..N |-> IF i = 0 THEN none ELSE DryStep(g[i-1], rs[i])]
  <2>1. \A i \in 0..N : g[i] = IF i = 0 THEN none ELSE DryStep(g[i-1], rs[i])
    BY <1>6, <1>7 DEF N
  <2>2. QED
    BY <1>6, <2>1
<1>9. f = [i \in 0..N |-> IF i = 0 THEN none ELSE DryStep(f[i-1], rs[i])]
  BY <1>8, Zenon DEF DryLoop, N, none
<1>10. \A i \in 0..N : f[i] = IF i = 0 THEN none ELSE DryStep(f[i-1], rs[i])
  BY <1>9, Zenon
<1> HIDE DEF f
<1>11. f[0] = none /\ \A i \in 1..N : f[i] = DryStep(f[i-1], rs[i])
  BY <1>10 DEF N
<1>12. QED
  BY <1>1, <1>11 DEF N, none, f

(* It counts W records at least exactly if each of the last W has no         *)
(* artifact that was not there before it and ends nothing.                   *)
LEMMA DryTailMeans ==
  ASSUME NEW rs, Len(rs) \in Nat, NEW W \in Nat
  PROVE  DryTail(rs) >= W <=>
           Len(rs) >= W /\ \A i \in (Len(rs) - W + 1)..Len(rs) : NothingNew(rs, i)
<1> DEFINE N == Len(rs)
           f == DryLoop(rs)
           B(i) == i - f[i].dry
           Right(i) == /\ f[i].seen = SeenBy(rs, i) /\ f[i].dry \in 0..i
                       /\ \A j \in (B(i) + 1)..i : NothingNew(rs, j)
                       /\ B(i) > 0 => ~NothingNew(rs, B(i))
           T == {i \in 0..N : Right(i)}
<1>1. /\ DryTail(rs) = f[N].dry /\ f[0] = [seen |-> {}, dry |-> 0]
      /\ \A i \in 1..N : f[i] = DryStep(f[i-1], rs[i])
  BY DrySteps
<1> HIDE DEF f
<1>2. 0 \in T
  <2>1. f[0].seen = SeenBy(rs, 0)
    BY <1>1 DEF SeenBy
  <2>2. f[0].dry = 0
    BY <1>1
  <2>3. QED
    BY <2>1, <2>2
<1>3. ASSUME NEW i \in 1..N, i - 1 \in T PROVE i \in T
  <2>1. f[i] = DryStep(f[i-1], rs[i])
    BY <1>1
  <2>2. Right(i-1)
    BY <1>3
  <2>3. f[i].seen = SeenBy(rs, i)
    <3>1. f[i].seen = f[i-1].seen \cup rs[i].artifacts
      BY <2>1 DEF DryStep
    <3>2. f[i-1].seen = SeenBy(rs, i-1)
      BY <2>2
    <3>3. SeenBy(rs, i) = SeenBy(rs, i-1) \cup rs[i].artifacts
      <4>1. 1..i = 1..(i-1) \cup {i}
        OBVIOUS
      <4>2. QED
        BY <4>1, Zenon DEF SeenBy
    <3>4. QED
      BY <3>1, <3>2, <3>3
  <2>4. f[i].dry = IF NothingNew(rs, i) THEN f[i-1].dry + 1 ELSE 0
    BY <2>1, <2>2 DEF DryStep, isDry, NothingNew
  <2>5. CASE NothingNew(rs, i)
    <3>1. f[i].dry = f[i-1].dry + 1 /\ f[i-1].dry \in 0..(i-1)
      BY <2>2, <2>4, <2>5
    <3>2. f[i].dry \in 0..i /\ B(i) = B(i-1) /\ B(i) \in 0..(i-1)
      BY <3>1
    <3>3. \A j \in (B(i) + 1)..i : j \in (B(i-1) + 1)..(i-1) \/ j = i
      BY <3>2
    <3>4. Right(i)
      BY <2>2, <2>3, <2>5, <3>2, <3>3
    <3>5. QED
      BY <3>4
  <2>6. CASE ~NothingNew(rs, i)
    <3>1. f[i].dry = 0 /\ B(i) = i
      BY <2>4, <2>6
    <3>2. QED
      BY <2>3, <2>6, <3>1
  <2>7. QED
    BY <2>5, <2>6
<1>4. 0..N \subseteq T
  <2> HIDE DEF T
  <2> QED BY <1>2, <1>3, CountUp
<1>5. Right(N)
  BY <1>4
<1> DEFINE d == f[N].dry
<1>6. /\ d \in 0..N /\ (\A j \in (N - d + 1)..N : NothingNew(rs, j))
      /\ N - d > 0 => ~NothingNew(rs, N - d)
  BY <1>5
<1> HIDE DEF d
<1>7. ASSUME d >= W PROVE N >= W /\ \A i \in (N - W + 1)..N : NothingNew(rs, i)
  BY <1>6, <1>7
<1>8. ASSUME N >= W, \A i \in (N - W + 1)..N : NothingNew(rs, i) PROVE d >= W
  <2> SUFFICES ASSUME d < W PROVE FALSE
    BY <1>6
  <2>1. N - d \in (N - W + 1)..N /\ N - d > 0
    BY <1>6, <1>8
  <2>2. QED
    BY <1>6, <1>8, <2>1
<1>9. QED
  BY <1>1, <1>7, <1>8 DEF d
-----------------------------------------------------------------------------
(* noProgressStuck, and that a repetition is never forgiven. *)

(* If noProgressStuck says so, every green entry comes after fewer turns     *)
(* than the window has: the stamps it compares, which need not differ, do    *)
(* not hide one.                                                             *)
LEMMA NoProgressMeans ==
  ASSUME NEW es, Len(es) \in Nat, DOMAIN es = 1..Len(es), InTime(es),
         noProgressStuck(es, Prints(es, "turn")),
         NEW i \in TurnsIn(es), NEW g \in DOMAIN es, EntryOf(es[g].c).type = "green", i < g
  PROVE  Cardinality({j \in TurnsIn(es) : j >= i}) > Window
<1> DEFINE N == Len(es)
           f == PrintsLoop(es, "turn")
           s == Prints(es, "turn")
           R(n) == Rank(es, "turn", n)
           X(n) == OfType(es, "turn", n)
           later == {j \in TurnsIn(es) : j >= i}
           start == Len(s) - Window
<1>1. s = f[N] /\ IsPrints(f, es, "turn")
  BY PrintsSteps
<1>2. Len(s) = R(N) /\ \A j \in X(N) : s[R(j)] = PrintOf(es[j])
  BY <1>1, PrintsInOrder
<1>3. /\ \A m \in 1..Len(s) : s[m].at \in Int
      /\ \A m, n \in 1..Len(s) : m <= n => s[m].at <= s[n].at
  <2>1. N \in 0..Len(es)
    OBVIOUS
  <2> HIDE DEF N, s, f
  <2>2. QED
    BY <1>1, <2>1, PrintsInTime
<1>4. Window \in Nat
  BY AuditAssumption
<1>5. start >= 0 /\ es[g].at < s[start + 1].at
  BY DEF noProgressStuck
<1>6. i \in 1..N /\ g \in 1..N /\ i \in X(N) /\ i - 1 \in 0..N /\ EntryOf(es[i].c).type = "turn"
  BY DEF TurnsIn, OfType
<1>7. R(i) = R(i-1) + 1 /\ R(i) <= R(N) /\ R(i) \in Nat /\ R(i-1) \in Nat /\ R(N) \in Nat
  <2>0. i \in Nat \ {0} /\ i \in Nat /\ i - 1 \in Nat
    BY <1>6
  <2>1. R(i) = R(i-1) + 1
    BY <1>6, <2>0, RankCounts, Zenon
  <2>2. R(i) <= R(N)
    BY <1>6, RankGrows
  <2>3. R(i) \in 0..i /\ R(i-1) \in 0..(i-1) /\ R(N) \in 0..N
    BY <2>0, RankCounts, Zenon
  <2>4. QED
    BY <1>6, <2>1, <2>2, <2>3
<1>8. Cardinality(later) = R(N) - R(i-1)
  <2>1. X(N) \cap X(i-1) = X(i-1) /\ X(N) \ X(i-1) = later
    BY <1>6 DEF OfType, TurnsIn
  <2>2. IsFiniteSet(X(N))
    BY RankCounts
  <2>3. Cardinality(X(N) \ X(i-1)) = Cardinality(X(N)) - Cardinality(X(N) \cap X(i-1))
    BY <2>2, FS_Difference
  <2>4. QED
    BY <2>1, <2>3 DEF Rank
<1> HIDE DEF s, R, later, f
<1>9. SUFFICES ASSUME ~(R(N) - R(i-1) > Window) PROVE FALSE
  BY <1>8 DEF later
<1>10. start + 1 \in 1..Len(s) /\ R(i) \in 1..Len(s) /\ start + 1 <= R(i)
  BY <1>2, <1>4, <1>5, <1>7, <1>9
<1>11. s[R(i)].at = es[i].at
  <2>1. s[R(i)] = PrintOf(es[i])
    BY <1>2, <1>6, Zenon
  <2>2. QED
    BY <2>1 DEF PrintOf
<1>12. es[i].at <= es[g].at /\ es[i].at \in Int /\ es[g].at \in Int
  BY <1>6 DEF InTime
<1>13. QED
  BY <1>3, <1>5, <1>10, <1>11, <1>12

(* More has been appended to s. *)
Extends(s, t) == Len(s) <= Len(t) /\ \A m \in 1..Len(s) : t[m] = s[m]

(* A repetition stays one, *)
LEMMA RepeatedGrows ==
  ASSUME NEW X, NEW s \in Seq(X), NEW t \in Seq(X), Extends(s, t), NEW n \in Nat, Repeated(s, n)
  PROVE  Repeated(t, n)
<1>1. PICK i \in DOMAIN s : Count(s, s[i].print) >= n
  BY DEF Repeated
<1> DEFINE print == s[i].print
           A == {m \in DOMAIN s : s[m].print = print}
           B == {m \in DOMAIN t : t[m].print = print}
<1>2. DOMAIN s = 1..Len(s) /\ DOMAIN t = 1..Len(t) /\ Len(s) \in Nat /\ Len(t) \in Nat
  OBVIOUS
<1>3. i \in DOMAIN t /\ t[i].print = print
  BY <1>2 DEF Extends
<1>4. A \in SUBSET B
  BY <1>2 DEF Extends
<1>5. IsFiniteSet(B)
  <2>1. IsFiniteSet(1..Len(t))
    BY <1>2, FS_Interval
  <2>2. QED
    BY <1>2, <2>1, FS_Subset
<1>6. Cardinality(A) <= Cardinality(B) /\ IsFiniteSet(A)
  BY <1>4, <1>5, FS_Subset, Zenon
<1>7. Cardinality(A) \in Nat /\ Cardinality(B) \in Nat
  BY <1>5, <1>6, FS_CardinalityType
<1>8. Count(s, print) = Cardinality(A) /\ Count(t, t[i].print) = Cardinality(B)
  BY <1>3, Zenon DEF Count
<1> HIDE DEF A, B
<1>9. Count(t, t[i].print) >= n
  BY <1>1, <1>6, <1>7, <1>8
<1>10. QED
  BY <1>3, <1>9 DEF Repeated

(* and so does an alternation, *)
LEMMA AlternationGrows ==
  ASSUME NEW X, NEW s \in Seq(X), NEW t \in Seq(X), Extends(s, t), NEW W \in Nat, W >= 2,
         Alternation(s, W)
  PROVE  Alternation(t, W)
<1>1. PICK i \in 1..(Len(s) - W + 1) :
        s[i].print # s[i+1].print /\ \A j \in i..(i + W - 3) : s[j].print = s[j+2].print
  BY DEF Alternation
<1>2. Len(s) \in Nat /\ Len(t) \in Nat /\ Len(s) <= Len(t)
  BY DEF Extends
<1>3. i \in 1..(Len(t) - W + 1) /\ i \in 1..Len(s) /\ i + 1 \in 1..Len(s)
  BY <1>2
<1>4. \A j \in i..(i + W - 3) : j \in 1..Len(s) /\ j + 2 \in 1..Len(s)
  BY <1>2
<1>5. t[i].print # t[i+1].print
  BY <1>1, <1>3 DEF Extends
<1>6. \A j \in i..(i + W - 3) : t[j].print = t[j+2].print
  BY <1>1, <1>4 DEF Extends
<1>7. QED
  BY <1>3, <1>5, <1>6 DEF Alternation

(* so that cycle.Stuck forgives neither: a ledger whose beginning repeats is *)
(* stuck.                                                                    *)
LEMMA RepeatsStay ==
  ASSUME NEW E, NEW es \in Seq(E), NEW k \in 1..Len(es), Repeats(Prefix(es, k))
  PROVE  Stuck(es)
<1> DEFINE N == Len(es)
           f(type) == PrintsLoop(es, type)
<1>1. N \in Nat /\ k \in 0..N
  OBVIOUS
<1>2. ASSUME NEW type
      PROVE  /\ Prints(es, type) \in Seq(PrintsIn(es))
                  /\ Prints(Prefix(es, k), type) \in Seq(PrintsIn(es))
             /\ Extends(Prints(Prefix(es, k), type), Prints(es, type))
  <2>1. Prints(es, type) = f(type)[N] /\ IsPrints(f(type), es, type)
    BY <1>1, PrintsSteps
  <2>2. Prints(Prefix(es, k), type) = f(type)[k]
    BY <1>1, PrintsOfPrefix
  <2> HIDE DEF f
  <2>3. f(type)[N] \in Seq(PrintsIn(es)) /\ f(type)[k] \in Seq(PrintsIn(es))
    BY <1>1, <2>1 DEF IsPrints
  <2>4. Len(f(type)[k]) <= Len(f(type)[N])
          /\ \A m \in 1..Len(f(type)[k]) : f(type)[N][m] = f(type)[k][m]
    BY <1>1, <2>1, PrintsGrow
  <2>5. QED
    BY <2>1, <2>2, <2>3, <2>4 DEF Extends
<1>3. RepeatTurn \in Nat /\ RepeatGate \in Nat /\ PingPong \in Nat /\ PingPong >= 2
  BY AuditAssumption
<1>4. CASE Repeated(Prints(Prefix(es, k), "turn"), RepeatTurn)
  <2>1. Repeated(Prints(es, "turn"), RepeatTurn)
    BY <1>2, <1>3, <1>4, RepeatedGrows
  <2>2. QED
    BY <2>1 DEF Stuck
<1>5. CASE Repeated(Prints(Prefix(es, k), "failed"), RepeatGate)
  <2>1. Repeated(Prints(es, "failed"), RepeatGate)
    BY <1>2, <1>3, <1>5, RepeatedGrows
  <2>2. QED
    BY <2>1 DEF Stuck
<1>6. CASE pingPongStuck(Prints(Prefix(es, k), "turn"))
  <2>1. Alternation(Prints(Prefix(es, k), "turn"), PingPong)
    BY <1>2, <1>6, PingPongMeans
  <2>2. Alternation(Prints(es, "turn"), PingPong)
    BY <1>2, <1>3, <2>1, AlternationGrows
  <2>3. pingPongStuck(Prints(es, "turn"))
    BY <1>2, <2>2, PingPongMeans
  <2>4. QED
    BY <2>3 DEF Stuck
<1>7. QED
  BY <1>4, <1>5, <1>6 DEF Repeats
-----------------------------------------------------------------------------
(* The ledger written anew, and what VerifyChain accepts: the same. *)

(* The loop in Rehashed, *)
RehashLoop(es) ==
  CHOOSE done : done = [i \in 0..Len(es) |->
    IF i = 0 THEN <<>> ELSE Append(done[i-1], Entry(es[i].c, es[i].at, LastHash(done[i-1])))]
(* and what it holds after each entry. *)
IsRehash(f, es) ==
  /\ f \in [0..Len(es) -> Seq(Line)] /\ f[0] = <<>>
  /\ \A i \in 1..Len(es) : f[i] = Append(f[i-1], Entry(es[i].c, es[i].at, LastHash(f[i-1])))

(* Rehashed is what that loop ends with. *)
LEMMA RehashSteps ==
  ASSUME NEW es \in Seq(Line)
  PROVE  Rehashed(es) = RehashLoop(es)[Len(es)] /\ IsRehash(RehashLoop(es), es)
<1> DEFINE N == Len(es)
           f == RehashLoop(es)
           S == Seq(Line)
           Then(i, r) == Append(r, Entry(es[i].c, es[i].at, LastHash(r)))
           step == [p \in (1..N) \X S |-> Then(p[1], p[2])]
<1>0. N \in Nat /\ <<>> \in S
  OBVIOUS
<1>1. ASSUME NEW i \in 1..N, NEW r \in S PROVE Then(i, r) \in S
  <2>1. es[i].c \in Contents /\ es[i].at \in Nat
    BY LineAt
  <2>2. LastHash(r) \in Nat
    BY LastHashType
  <2>3. Entry(es[i].c, es[i].at, LastHash(r)) \in Line
    BY <2>1, <2>2, EntryType
  <2>4. QED
    BY <2>3
<1>2. step \in [(1..N) \X S -> S]
  <2> HIDE DEF Then, S
  <2> QED BY <1>1
<1>3. \A i \in 1..N : \A r \in S : step[<<i, r>>] = Then(i, r)
  <2> HIDE DEF Then, S
  <2> QED OBVIOUS
<1> HIDE DEF step, N, Then, S
<1>4. PICK g : Iterates(g, N, S, <<>>, step)
  BY <1>0, <1>2, Loop, Zenon
<1>5. g \in [0..N -> S] /\ g[0] = <<>> /\ \A i \in 1..N : g[i] = step[<<i, g[i-1]>>]
  BY <1>4 DEF Iterates
<1>6. ASSUME NEW i \in 1..N PROVE g[i] = Then(i, g[i-1])
  <2>1. g[i-1] \in S
    BY <1>0, <1>5
  <2>2. QED
    BY <1>3, <1>5, <2>1
<1>7. g = [i \in 0..N |-> IF i = 0 THEN <<>> ELSE Then(i, g[i-1])]
  <2>1. \A i \in 0..N : g[i] = IF i = 0 THEN <<>> ELSE Then(i, g[i-1])
    BY <1>0, <1>5, <1>6
  <2>2. QED
    BY <1>5, <2>1
<1>8. f = [i \in 0..N |-> IF i = 0 THEN <<>> ELSE Then(i, f[i-1])]
  BY <1>7, Zenon DEF RehashLoop, N, Then
<1>9. \A i \in 0..N : f[i] = IF i = 0 THEN <<>> ELSE Then(i, f[i-1])
  BY <1>8, Zenon
<1>10. CountsTo(f, N) /\ CountsTo(g, N)
  BY <1>5, <1>8 DEF CountsTo
<1>11. Rehashed(es) = f[N]
  BY Zenon DEF Rehashed, RehashLoop, N
<1> HIDE DEF f
<1>12. f[0] = g[0] /\ \A i \in 1..N : f[i-1] = g[i-1] => f[i] = g[i]
  BY <1>0, <1>5, <1>6, <1>9
<1>13. f = g
  BY <1>0, <1>10, <1>12, LoopUnique, Zenon
<1>14. QED
  BY <1>5, <1>6, <1>11, <1>13 DEF N, Then, IsRehash, f, S

(* It has the same contents and stamps, and fits at every line. *)
LEMMA RehashedFits ==
  ASSUME NEW es \in Seq(Line)
  PROVE  LET r == Rehashed(es) IN
           /\ r \in Seq(Line) /\ Len(r) = Len(es)
           /\ \A i \in 1..Len(es) : r[i].c = es[i].c /\ r[i].at = es[i].at /\ Fits(r, i)
<1> DEFINE N == Len(es)
           f == RehashLoop(es)
           Right(i) == /\ Len(f[i]) = i
                       /\ \A j \in 1..i : f[i][j].c = es[j].c /\ f[i][j].at = es[j].at
                            /\ Fits(f[i], j)
           T == {i \in 0..N : Right(i)}
<1>0. N \in Nat
  OBVIOUS
<1>1. Rehashed(es) = f[N] /\ IsRehash(f, es)
  BY RehashSteps
<1> HIDE DEF f
<1>2. 0 \in T
  BY <1>1 DEF IsRehash
<1>3. ASSUME NEW i \in 1..N, i - 1 \in T PROVE i \in T
  <2> DEFINE p == f[i-1]
             e == Entry(es[i].c, es[i].at, LastHash(p))
  <2>1. p \in Seq(Line) /\ Len(p) = i - 1 /\ Right(i-1)
    BY <1>1, <1>3 DEF IsRehash
  <2>2. f[i] = Append(p, e)
    BY <1>1 DEF IsRehash
  <2>3. e \in Line
    <3>1. es[i].c \in Contents /\ es[i].at \in Nat
      BY LineAt
    <3>2. QED
      BY <2>1, <3>1, EntryType, LastHashType
  <2> HIDE DEF p
  <2>4. e.c = es[i].c /\ e.at = es[i].at /\ e.prev = LastHash(p) /\ e.h = ChainHash(e.c, e.prev)
    BY DEF Entry
  <2> HIDE DEF e
  <2>5. Len(f[i]) = i /\ f[i][i] = e /\ \A j \in 1..(i-1) : f[i][j] = p[j]
    BY <2>1, <2>2, <2>3
  <2>6. Fits(f[i], i)
    <3>1. i = 1 => LastHash(p) = GenesisHash
      BY <2>1 DEF LastHash
    <3>2. i # 1 => LastHash(p) = f[i][i-1].h
      BY <2>1, <2>5 DEF LastHash
    <3>3. QED
      BY <2>4, <2>5, <3>1, <3>2 DEF Fits
  <2>7. ASSUME NEW j \in 1..(i-1)
        PROVE  f[i][j].c = es[j].c /\ f[i][j].at = es[j].at /\ Fits(f[i], j)
    <3>1. p[j].c = es[j].c /\ p[j].at = es[j].at /\ Fits(p, j)
      BY <2>1 DEF p
    <3>2. f[i][j] = p[j] /\ (j # 1 => f[i][j-1] = p[j-1])
      BY <2>5
    <3>3. QED
      BY <3>1, <3>2, Zenon DEF Fits
  <2>8. Right(i)
    <3>1. \A j \in 1..i : j \in 1..(i-1) \/ j = i
      OBVIOUS
    <3>2. QED
      BY <2>4, <2>5, <2>6, <2>7, <3>1
  <2>9. QED
    BY <2>8
<1>4. 0..N \subseteq T
  <2> HIDE DEF T
  <2> QED BY <1>0, <1>2, <1>3, CountUp
<1>5. Right(N)
  BY <1>0, <1>4
<1>6. f[N] \in Seq(Line)
  <2>1. f \in [0..N -> Seq(Line)] /\ N \in 0..N
    BY <1>0, <1>1 DEF IsRehash
  <2>2. QED
    BY <2>1, Zenon
<1>7. QED
  BY <1>1, <1>5, <1>6

(* Two lines with the same parts are the same. *)
LEMMA SameLine ==
  ASSUME NEW a \in Line, NEW b \in Line, a.c = b.c, a.at = b.at, a.prev = b.prev, a.h = b.h
  PROVE  a = b
BY DEF Line

(* A ledger fits at every line exactly if writing it anew changes nothing:   *)
(* VerifyChain accepts what appending alone can write, and nothing else.     *)
LEMMA ChainIsRehash ==
  ASSUME NEW es \in Seq(Line)
  PROVE  (\A i \in 1..Len(es) : Fits(es, i)) <=> es = Rehashed(es)
<1> DEFINE r == Rehashed(es)
           N == Len(es)
<1>1. /\ r \in Seq(Line) /\ Len(r) = N
      /\ \A i \in 1..N : r[i].c = es[i].c /\ r[i].at = es[i].at /\ Fits(r, i)
  BY RehashedFits
<1> HIDE DEF r
<1>2. ASSUME \A i \in 1..N : Fits(es, i) PROVE es = r
  <2> DEFINE T == {i \in 0..N : \A j \in 1..i : es[j] = r[j]}
  <2>1. 0 \in T /\ N \in Nat
    OBVIOUS
  <2>2. ASSUME NEW i \in 1..N, i - 1 \in T PROVE i \in T
    <3>1. es[i].c = r[i].c /\ es[i].at = r[i].at /\ Fits(es, i) /\ Fits(r, i)
      BY <1>1, <1>2
    <3>2. i # 1 => es[i-1] = r[i-1]
      BY <2>2
    <3>3. es[i].prev = r[i].prev
      BY <3>1, <3>2, Zenon DEF Fits
    <3>4. es[i].h = r[i].h
      BY <3>1, <3>3, Zenon DEF Fits
    <3>5. es[i] \in Line /\ r[i] \in Line
      BY <1>1, LineAt
    <3>6. es[i] = r[i]
      BY <3>1, <3>3, <3>4, <3>5, SameLine
    <3>7. \A j \in 1..i : j \in 1..(i-1) \/ j = i
      OBVIOUS
    <3>8. QED
      BY <2>2, <3>6, <3>7
  <2>3. 0..N \subseteq T
    <3> HIDE DEF T
    <3> QED BY <2>1, <2>2, CountUp
  <2>4. \A j \in 1..N : es[j] = r[j]
    BY <2>1, <2>3
  <2>5. QED
    BY <1>1, <2>4
<1>3. ASSUME es = r PROVE \A i \in 1..N : Fits(es, i)
  BY <1>1, <1>3
<1>4. QED
  BY <1>2, <1>3 DEF r
-----------------------------------------------------------------------------
(* The machine's invariant, in two parts. LedgerOK types the ledger and      *)
(* keeps its stamps in order.                                                *)

(* The ledger is lines in the order of their stamps. *)
LedgerOK == entries \in Seq(Line) /\ InTime(entries)

(* Appending keeps that, and every edit that the model has. *)
LEMMA LedgerStep ==
  ASSUME LedgerOK, [AuditNext]_auditVars
  PROVE  LedgerOK'
<1> USE DEF LedgerOK
<1>1. Len(entries) \in Nat /\ DOMAIN entries = 1..Len(entries)
  OBVIOUS
<1>2. ASSUME NEW c \in Contents, NEW at \in {LastAt(entries), LastAt(entries) + 1},
             AppendEntry(c, at)
      PROVE  LedgerOK'
  <2> DEFINE N == Len(entries)
             e == Entry(c, at, LastHash(entries))
  <2>1. at \in Nat /\ \A i \in 1..N : entries[i].at \in Nat /\ entries[i].at <= at
    <3>1. CASE entries = <<>>
      BY <3>1 DEF LastAt
    <3>2. CASE entries # <<>>
      <4>1. LastAt(entries) = entries[N].at /\ N \in 1..N
        BY <3>2 DEF LastAt
      <4>2. \A i \in 1..N : entries[i].at \in Nat
        BY LineAt
      <4>3. \A i \in 1..N : entries[i].at <= entries[N].at
        BY <4>1 DEF InTime
      <4>4. QED
        BY <4>1, <4>2, <4>3
    <3>3. QED
      BY <3>1, <3>2
  <2>2. e \in Line /\ e.at = at
    BY <2>1, EntryType, LastHashType DEF Entry
  <2>3. entries' = Append(entries, e)
    BY <1>2 DEF AppendEntry
  <2> HIDE DEF e
  <2>4. entries' \in Seq(Line) /\ Len(entries') = N + 1 /\ entries'[N+1] = e
        /\ \A i \in 1..N : entries'[i] = entries[i]
    BY <2>2, <2>3
  <2>5. \A i \in 1..(N+1) : i \in 1..N \/ i = N + 1
    OBVIOUS
  <2>6. \A i \in 1..(N+1) : entries'[i].at \in Int /\ entries'[i].at <= at
    BY <2>1, <2>2, <2>4, <2>5
  <2>7. ASSUME NEW i \in 1..(N+1), NEW j \in 1..(N+1), i <= j
        PROVE entries'[i].at <= entries'[j].at
    <3>1. CASE j = N + 1
      BY <2>2, <2>4, <2>6, <3>1
    <3>2. CASE j # N + 1
      <4>1. i \in 1..N /\ j \in 1..N
        BY <2>7, <3>2
      <4>2. QED
        BY <2>4, <2>7, <4>1 DEF InTime
    <3>3. QED
      BY <3>1, <3>2
  <2>8. QED
    BY <2>4, <2>6, <2>7 DEF InTime
<1>3. CASE Keep
  BY <1>3 DEF Keep
<1>4. ASSUME NEW i \in DOMAIN entries, NEW c \in Few
      PROVE  LET es == [entries EXCEPT ![i].c = c]
             IN  es \in Seq(Line) /\ Len(es) = Len(entries)
                   /\ \A j \in 1..Len(entries) : es[j].at = entries[j].at
  <2> DEFINE e  == [entries[i] EXCEPT !.c = c]
             es == [entries EXCEPT ![i].c = c]
  <2>1. entries[i] \in Line /\ c \in Contents
    BY <1>1, LineAt, AuditAssumption
  <2>2. e \in Line /\ e.at = entries[i].at
    BY <2>1 DEF Line
  <2>3. es = [entries EXCEPT ![i] = e]
    OBVIOUS
  <2> HIDE DEF e, es
  <2>4. QED
    BY <2>2, <2>3 DEF es
<1>5. ASSUME NEW i \in DOMAIN entries, NEW c \in Few, Tamper(i, c)
      PROVE  LedgerOK'
  BY <1>4, <1>5 DEF Tamper, InTime
<1>6. ASSUME NEW i \in DOMAIN entries, NEW c \in Few, Rewrite(i, c)
      PROVE  LedgerOK'
  <2> DEFINE es == [entries EXCEPT ![i].c = c]
  <2>1. es \in Seq(Line) /\ Len(es) = Len(entries)
          /\ \A j \in 1..Len(entries) : es[j].at = entries[j].at
    BY <1>4
  <2>2. entries' = Rehashed(es)
    BY <1>6 DEF Rewrite
  <2> HIDE DEF es
  <2>3. /\ entries' \in Seq(Line) /\ Len(entries') = Len(entries)
        /\ \A j \in 1..Len(entries) : entries'[j].at = entries[j].at
    BY <2>1, <2>2, RehashedFits
  <2>4. QED
    BY <2>3 DEF InTime
<1>7. ASSUME NEW n \in 0..(Len(entries) - 1), Cut(n)
      PROVE  LedgerOK'
  <2>1. /\ entries' \in Seq(Line) /\ Len(entries') = n
        /\ \A j \in 1..n : entries'[j] = entries[j]
    BY <1>7 DEF Cut, Prefix
  <2>2. \A j \in 1..n : j \in 1..Len(entries)
    OBVIOUS
  <2>3. InTime(entries')
    BY <2>1, <2>2 DEF InTime
  <2>4. QED
    BY <2>1, <2>3 DEF InTime
<1>8. CASE UNCHANGED auditVars
  BY <1>8 DEF auditVars, InTime
<1>9. QED
  <2> HIDE DEF LedgerOK
  <2> QED BY <1>2, <1>3, <1>5, <1>6, <1>7, <1>8, Zenon DEF AuditNext

(* So it always is. *)
LEMMA LedgerAlways == AuditSpec => []LedgerOK
<1>1. AuditInit => LedgerOK
  BY DEF AuditInit, LedgerOK, InTime
<1>2. QED
  BY <1>1, LedgerStep, PTL DEF AuditSpec
-----------------------------------------------------------------------------
(* RootOK says what an edit leaves alone: the hashes in the file rise,       *)
(* whoever wrote them, and the kept root is the root of some ledger that was *)
(* right.                                                                    *)

(* VerifyChain has nothing to say against it. *)
AllFit(es) == \A i \in 1..Len(es) : Fits(es, i)
(* The hashes rise: no two entries have the same. *)
Rising(es) == \A i, j \in 1..Len(es) : i < j => es[i].h < es[j].h

(* An entry's hash is not its predecessor's. *)
LEMMA HashAbove ==
  ASSUME NEW c \in Contents, NEW prev \in Nat
  PROVE  ChainHash(c, prev) > prev
<1>1. Base \in Nat /\ Base >= 1 /\ c \in Nat /\ c >= 1
  BY BaseType
<1> DEFINE b == Base - 1
<1>2. b \in Nat /\ Base = b + 1
  BY <1>1
<1> HIDE DEF b
<1>3. prev * b \in Nat /\ prev * (b + 1) = prev * b + prev
  BY <1>2
<1>4. prev * Base = prev * b + prev
  BY <1>2, <1>3
<1>5. QED
  BY <1>1, <1>3, <1>4 DEF ChainHash

(* In a ledger that fits they rise. *)
LEMMA FitsRise ==
  ASSUME NEW es \in Seq(Line), AllFit(es)
  PROVE  Rising(es)
<1> DEFINE N == Len(es)
           T == {n \in 0..N : \A i, j \in 1..n : i < j => es[i].h < es[j].h}
<1>1. N \in Nat /\ \A i \in 1..N : es[i].h \in Nat
  BY LineAt
<1>2. 0 \in T
  BY <1>1
<1>3. ASSUME NEW n \in 1..N, n - 1 \in T PROVE n \in T
  <2>1. \A i, j \in 1..(n - 1) : i < j => es[i].h < es[j].h
    BY <1>3
  <2>2. ASSUME n # 1 PROVE es[n - 1].h < es[n].h
    <3>1. Fits(es, n) /\ n - 1 \in 1..N
      BY <2>2 DEF AllFit
    <3>2. es[n].prev = es[n - 1].h /\ es[n].h = ChainHash(es[n].c, es[n].prev)
      BY <2>2, <3>1 DEF Fits
    <3>3. es[n].c \in Contents /\ es[n].prev \in Nat
      BY LineAt
    <3>4. es[n].h > es[n - 1].h
      BY <3>2, <3>3, HashAbove
    <3>5. QED
      BY <1>1, <3>1, <3>4
  <2>3. ASSUME NEW i \in 1..n, NEW j \in 1..n, i < j PROVE es[i].h < es[j].h
    <3>1. CASE j # n
      <4>1. i \in 1..(n - 1) /\ j \in 1..(n - 1)
        BY <2>3, <3>1
      <4>2. QED
        BY <2>1, <2>3, <4>1
    <3>2. CASE j = n
      <4>1. n # 1 /\ i \in 1..(n - 1) /\ n - 1 \in 1..(n - 1) /\ i \in 1..N /\ n - 1 \in 1..N
        BY <2>3, <3>2
      <4>2. es[i].h \in Nat /\ es[n - 1].h \in Nat /\ es[n].h \in Nat /\ es[n - 1].h < es[n].h
        BY <1>1, <2>2, <4>1
      <4>3. CASE i = n - 1
        BY <3>2, <4>2, <4>3
      <4>4. CASE i # n - 1
        <5>1. i < n - 1
          BY <4>1, <4>4
        <5>2. es[i].h < es[n - 1].h
          BY <2>1, <4>1, <5>1
        <5>3. QED
          BY <3>2, <4>2, <5>2
      <4>5. QED
        BY <4>3, <4>4
    <3>3. QED
      BY <3>1, <3>2
  <2>4. QED
    BY <1>1, <2>3
<1>4. 0..N \subseteq T
  <2> HIDE DEF T
  <2> QED BY <1>1, <1>2, <1>3, CountUp
<1>5. \A i, j \in 1..N : i < j => es[i].h < es[j].h
  BY <1>1, <1>4
<1>6. QED
  BY <1>5 DEF Rising

(* What the auditor keeps is what it has seen of a ledger that fits, *)
KeptFrom(ws) ==
  /\ AllFit(ws) /\ Len(ws) = kept.size
  /\ kept.root = MerkleRoot(ws) /\ witness = Seen(ws)
(* which is some ledger; an edit that leaves the hashes leaves them rising;  *)
(* and a file that is not edited fits.                                       *)
RootOK ==
  /\ Rising(entries)
  /\ ~edited => AllFit(entries)
  /\ \E ws \in Seq(Line) : KeptFrom(ws)

(* The empty ledger, and nothing kept. *)
LEMMA RootStart == AuditInit => RootOK
<1> SUFFICES ASSUME AuditInit PROVE RootOK
  OBVIOUS
<1>1. entries = <<>> /\ Len(entries) = 0
  BY DEF AuditInit
<1>2. AllFit(entries) /\ Rising(entries) /\ entries \in Seq(Line)
  BY <1>1 DEF AllFit, Rising
<1>3. KeptFrom(entries)
  <2>1. Seen(entries) = <<>>
    BY <1>1 DEF Seen
  <2>2. MerkleRoot(entries) = EmptyRoot
    <3>1. Leaves(entries) = <<>>
      BY <1>1 DEF Leaves
    <3>2. QED
      BY <3>1, TreeHashSteps DEF MerkleRoot
  <2>3. kept.size = 0 /\ kept.root = EmptyRoot /\ witness = <<>>
    BY DEF AuditInit
  <2>4. QED
    BY <1>1, <1>2, <2>1, <2>2, <2>3 DEF KeptFrom
<1>4. QED
  BY <1>2, <1>3, Zenon DEF RootOK

(* LedgerFileSync.Append chains a fitting entry to a ledger that fits. *)
LEMMA AppendFits ==
  ASSUME NEW es \in Seq(Line), AllFit(es), NEW c \in Contents, NEW at \in Nat
  PROVE  AllFit(Append(es, Entry(c, at, LastHash(es))))
           /\ Append(es, Entry(c, at, LastHash(es))) \in Seq(Line)
<1> DEFINE N == Len(es)
           e == Entry(c, at, LastHash(es))
           r == Append(es, e)
<1>1. N \in Nat /\ e \in Line
  BY EntryType, LastHashType, SMTT(30)
<1>2. e.prev = LastHash(es) /\ e.h = ChainHash(e.c, e.prev)
  BY DEF Entry
<1> HIDE DEF e
<1>3. r \in Seq(Line) /\ Len(r) = N + 1 /\ r[N + 1] = e /\ \A i \in 1..N : r[i] = es[i]
  BY <1>1
<1>4. Fits(r, N + 1)
  <2>1. N = 0 => LastHash(es) = GenesisHash
    BY Lengths DEF LastHash
  <2>2. N # 0 => LastHash(es) = r[(N + 1) - 1].h
    <3>1. ASSUME N # 0 PROVE LastHash(es) = es[N].h /\ (N + 1) - 1 = N /\ N \in 1..N
      BY <1>1, <3>1 DEF LastHash
    <3>2. QED
      BY <1>3, <3>1
  <2>3. N + 1 = 1 <=> N = 0
    BY <1>1
  <2>4. QED
    BY <1>2, <1>3, <2>1, <2>2, <2>3 DEF Fits
<1>5. ASSUME NEW i \in 1..N PROVE Fits(r, i)
  <2>1. Fits(es, i)
    BY DEF AllFit
  <2>2. r[i] = es[i] /\ (i # 1 => r[i - 1] = es[i - 1])
    BY <1>1, <1>3
  <2>3. QED
    BY <2>1, <2>2, Zenon DEF Fits
<1>6. \A i \in 1..Len(r) : i \in 1..N \/ i = N + 1
  BY <1>1, <1>3
<1>7. AllFit(r)
  BY <1>4, <1>5, <1>6 DEF AllFit
<1>8. QED
  BY <1>3, <1>7 DEF e

(* Every step keeps that: what is kept is not touched by an edit. *)
LEMMA RootStep ==
  ASSUME LedgerOK, RootOK, [AuditNext]_auditVars
  PROVE  RootOK'
<1>1. /\ entries \in Seq(Line) /\ Len(entries) \in Nat /\ DOMAIN entries = 1..Len(entries)
      /\ \A i \in 1..Len(entries) : entries[i].at \in Nat
  <2>1. entries \in Seq(Line)
    BY DEF LedgerOK
  <2>2. QED
    BY <2>1, LineAt
<1>2. PICK ws \in Seq(Line) : KeptFrom(ws)
  BY Zenon DEF RootOK
<1>3. ASSUME UNCHANGED <<kept, witness>> PROVE KeptFrom(ws)'
  BY <1>2, <1>3 DEF KeptFrom
<1>4. ASSUME NEW c \in Contents, NEW at \in {LastAt(entries), LastAt(entries) + 1},
             AppendEntry(c, at)
      PROVE  RootOK'
  <2>1. at \in Nat
    <3>1. CASE entries = <<>>
      BY <3>1 DEF LastAt
    <3>2. CASE entries # <<>>
      <4>1. Len(entries) \in 1..Len(entries)
        BY <1>1, <3>2
      <4>2. QED
        BY <1>1, <3>2, <4>1 DEF LastAt
    <3>3. QED
      BY <3>1, <3>2
  <2>2. ~edited /\ entries' = Append(entries, Entry(c, at, LastHash(entries)))
          /\ UNCHANGED <<kept, witness, edited>>
    BY <1>4 DEF AppendEntry
  <2>3. AllFit(entries') /\ entries' \in Seq(Line)
    <3>1. AllFit(entries)
      BY <2>2 DEF RootOK
    <3>2. QED
      BY <1>1, <2>1, <2>2, <3>1, AppendFits
  <2>4. Rising(entries')
    BY <2>3, FitsRise
  <2>5. KeptFrom(ws)'
    BY <1>3, <2>2
  <2>6. QED
    BY <2>3, <2>4, <2>5 DEF RootOK, AllFit, Rising
<1>5. CASE Keep
  <2>1. /\ entries' = entries /\ edited' = edited /\ ~edited
        /\ kept' = [size |-> Len(entries), root |-> MerkleRoot(entries)]
             /\ witness' = Seen(entries)
    BY <1>5 DEF Keep
  <2>2. AllFit(entries) /\ Rising(entries)
    BY <2>1 DEF RootOK
  <2>3. PICK us \in Seq(Line) : us = entries
    BY <1>1
  <2>4. AllFit(us) /\ kept' = [size |-> Len(us), root |-> MerkleRoot(us)] /\ witness' = Seen(us)
    BY <2>1, <2>2, <2>3
  <2>5. KeptFrom(us)'
    BY <2>4 DEF KeptFrom
  <2>6. QED
    BY <2>1, <2>2, <2>5 DEF RootOK, AllFit, Rising
<1>6. ASSUME NEW i \in DOMAIN entries, NEW c \in Few
      PROVE  LET es == [entries EXCEPT ![i].c = c]
             IN  es \in Seq(Line) /\ Len(es) = Len(entries)
                   /\ \A j \in 1..Len(entries) : es[j].h = entries[j].h
  <2> DEFINE e  == [entries[i] EXCEPT !.c = c]
             es == [entries EXCEPT ![i].c = c]
  <2>1. entries[i] \in Line /\ c \in Contents
    BY <1>1, LineAt, AuditAssumption
  <2>2. e \in Line /\ e.h = entries[i].h
    BY <2>1 DEF Line
  <2>3. es = [entries EXCEPT ![i] = e]
    OBVIOUS
  <2> HIDE DEF e, es
  <2>4. QED
    BY <1>1, <2>2, <2>3 DEF es
<1>7. ASSUME NEW i \in DOMAIN entries, NEW c \in Few, Tamper(i, c)
      PROVE  RootOK'
  <2> DEFINE es == [entries EXCEPT ![i].c = c]
  <2>1. es \in Seq(Line) /\ Len(es) = Len(entries)
          /\ \A j \in 1..Len(entries) : es[j].h = entries[j].h
    BY <1>6
  <2>2. entries' = es /\ edited' /\ UNCHANGED <<kept, witness>>
    BY <1>7 DEF Tamper
  <2> HIDE DEF es
  <2>3. Rising(entries')
    BY <2>1, <2>2 DEF RootOK, Rising
  <2>4. KeptFrom(ws)'
    BY <1>3, <2>2
  <2>5. QED
    BY <2>2, <2>3, <2>4 DEF RootOK, Rising
<1>8. ASSUME NEW i \in DOMAIN entries, NEW c \in Few, Rewrite(i, c)
      PROVE  RootOK'
  <2> DEFINE es == [entries EXCEPT ![i].c = c]
  <2>1. es \in Seq(Line)
    BY <1>6
  <2>2. entries' = Rehashed(es) /\ edited' /\ UNCHANGED <<kept, witness>>
    BY <1>8 DEF Rewrite
  <2> HIDE DEF es
  <2>3. entries' \in Seq(Line) /\ AllFit(entries')
    BY <2>1, <2>2, RehashedFits DEF AllFit
  <2>4. Rising(entries')
    BY <2>3, FitsRise
  <2>5. KeptFrom(ws)'
    BY <1>3, <2>2
  <2>6. QED
    BY <2>2, <2>4, <2>5 DEF RootOK, Rising
<1>9. ASSUME NEW n \in 0..(Len(entries) - 1), Cut(n)
      PROVE  RootOK'
  <2>1. entries' = Prefix(entries, n) /\ edited' /\ UNCHANGED <<kept, witness>>
    BY <1>9 DEF Cut
  <2>2. n \in 0..Len(entries)
    BY <1>1
  <2>3. Len(entries') = n /\ \A j \in 1..n : entries'[j] = entries[j]
    BY <1>1, <2>1, <2>2, Cuts
  <2>4. \A j \in 1..n : j \in 1..Len(entries)
    BY <1>1
  <2>5. Rising(entries')
    BY <2>3, <2>4 DEF RootOK, Rising
  <2>6. KeptFrom(ws)'
    BY <1>3, <2>1
  <2>7. QED
    BY <2>1, <2>5, <2>6 DEF RootOK, Rising
<1>10. CASE UNCHANGED auditVars
  <2>1. UNCHANGED <<entries, kept, witness, edited>>
    BY <1>10 DEF auditVars
  <2>2. KeptFrom(ws)'
    BY <1>3, <2>1
  <2>3. QED
    BY <2>1, <2>2 DEF RootOK, Rising, AllFit
<1>11. QED
  <2> HIDE DEF LedgerOK, RootOK
  <2> QED BY <1>4, <1>5, <1>7, <1>8, <1>9, <1>10, Zenon DEF AuditNext

(* So it always holds. *)
LEMMA RootAlways == AuditSpec => [](LedgerOK /\ RootOK)
<1>1. AuditInit => RootOK
  BY RootStart
<1>2. LedgerOK /\ RootOK /\ [AuditNext]_auditVars => RootOK'
  BY RootStep
<1>3. QED
  BY <1>1, <1>2, LedgerAlways, PTL DEF AuditSpec
-----------------------------------------------------------------------------
(* The four properties that the run Disk checks. *)

(* In ledgers that fit, the same hashes mean the same contents: a hash       *)
(* covers its content and the hash before it.                                *)
LEMMA SameSeen ==
  ASSUME NEW es \in Seq(Line), NEW ws \in Seq(Line), AllFit(es), AllFit(ws), Len(ws) <= Len(es)
  PROVE  SameHashes(es, ws) <=> Prefix(Seen(es), Len(ws)) = Seen(ws)
<1> DEFINE m == Len(ws)
           n == Len(es)
           s == Seen(es)
           p == Prefix(s, m)
           t == Seen(ws)
           SameC == \A i \in 1..m : es[i].c = ws[i].c
<1>1. m \in Nat /\ n \in Nat /\ m \in 0..n /\ \A i \in 1..m : i \in 1..n
  OBVIOUS
<1>2. /\ \A i \in 1..n : es[i].c \in Contents /\ es[i].prev \in Nat /\ es[i].h \in Nat
      /\ \A i \in 1..m : ws[i].c \in Contents /\ ws[i].prev \in Nat /\ ws[i].h \in Nat
  BY LineAt
<1>3. p = t <=> SameC
  <2>1. s \in Seq(Contents) /\ Len(s) = n /\ \A i \in 1..n : s[i] = es[i].c
    BY <1>1, <1>2 DEF Seen
  <2>2. t \in Seq(Contents) /\ Len(t) = m /\ \A i \in 1..m : t[i] = ws[i].c
    BY <1>1, <1>2 DEF Seen
  <2> HIDE DEF s, t
  <2>3. m \in 0..Len(s)
    BY <1>1, <2>1
  <2>4. p \in Seq(Contents) /\ Len(p) = m /\ \A i \in 1..m : p[i] = s[i]
    BY <2>1, <2>3, Cuts
  <2> HIDE DEF p, m
  <2>5. p = t <=> \A i \in 1..m : p[i] = t[i]
    <3>1. p = t => \A i \in 1..m : p[i] = t[i]
      OBVIOUS
    <3>2. ASSUME \A i \in 1..m : p[i] = t[i] PROVE p = t
      <4>1. Len(p) = Len(t) /\ \A i \in 1..Len(p) : p[i] = t[i]
        BY <2>2, <2>4, <3>2
      <4>2. QED
        BY <2>2, <2>4, <4>1, SeqEqual
    <3>3. QED
      BY <3>1, <3>2
  <2>6. \A i \in 1..m : p[i] = t[i] <=> es[i].c = ws[i].c
    BY <1>1, <2>1, <2>2, <2>4
  <2>7. QED
    BY <2>5, <2>6, Zenon
<1>4. /\ \A i \in 1..m : Fits(es, i) /\ Fits(ws, i)
      /\ \A i \in 1..m : i # 1 => i - 1 \in 1..m
  BY <1>1 DEF AllFit
<1>5. ASSUME SameHashes(es, ws), NEW i \in 1..m PROVE es[i].c = ws[i].c
  <2>1. es[i].h = ws[i].h /\ (i # 1 => es[i - 1].h = ws[i - 1].h)
    BY <1>4, <1>5 DEF SameHashes
  <2>2. es[i].prev = ws[i].prev
    BY <1>4, <2>1, Zenon DEF Fits
  <2>3. es[i].h = ChainHash(es[i].c, es[i].prev) /\ ws[i].h = ChainHash(ws[i].c, ws[i].prev)
    BY <1>4, Zenon DEF Fits
  <2>4. es[i].c \in Nat /\ ws[i].c \in Nat
    BY <1>1, <1>2, BaseType
  <2>5. es[i].prev * Base \in Nat
    BY <1>1, <1>2, BaseType
  <2> DEFINE b == es[i].prev * Base
             x == es[i].c
             y == ws[i].c
  <2>6. b + x = b + y
    BY <2>1, <2>2, <2>3 DEF ChainHash
  <2> HIDE DEF b, x, y
  <2>7. x = y
    BY <2>4, <2>5, <2>6 DEF b, x, y
  <2>8. QED
    BY <2>7 DEF x, y
<1>6. ASSUME SameC PROVE SameHashes(es, ws)
  <2> DEFINE T == {i \in 0..m : \A k \in 1..i : ws[k].h = es[k].h}
  <2>1. 0 \in T
    BY <1>1
  <2>2. ASSUME NEW i \in 1..m, i - 1 \in T PROVE i \in T
    <3>1. i # 1 => es[i - 1].h = ws[i - 1].h
      BY <2>2
    <3>2. es[i].prev = ws[i].prev /\ es[i].c = ws[i].c
      BY <1>4, <1>6, <3>1, Zenon DEF Fits
    <3>3. es[i].h = ChainHash(es[i].c, es[i].prev) /\ ws[i].h = ChainHash(ws[i].c, ws[i].prev)
      BY <1>4, Zenon DEF Fits
    <3>4. es[i].h = ws[i].h
      BY <3>2, <3>3, Zenon
    <3>5. \A k \in 1..i : k \in 1..(i - 1) \/ k = i
      OBVIOUS
    <3>6. QED
      BY <2>2, <3>4, <3>5
  <2>3. 0..m \subseteq T
    <3> HIDE DEF T
    <3> QED BY <1>1, <2>1, <2>2, CountUp
  <2>4. \A k \in 1..m : ws[k].h = es[k].h
    BY <1>1, <2>3
  <2>5. QED
    BY <2>4 DEF SameHashes
<1>7. QED
  BY <1>3, <1>5, <1>6

(* AuditCatches, for any contents and ledgers of any length: an auditor who  *)
(* kept a root, runs VerifyChain and asks for a consistency proof accepts a  *)
(* ledger exactly if it goes on from what it saw and every hash is right.    *)
THEOREM AuditorCatches == AuditSpec => []AuditCatches
<1>1. ASSUME LedgerOK, RootOK PROVE AuditCatches
  <2> DEFINE N       == Len(entries)
             intact  == VerifyChain(entries) = NoBrokenLink
             accepts == VerifyConsistency(ConsistencyProof(kept.size, entries), kept.root,
                        MerkleRoot(entries))
             goesOn  == Prefix(Seen(entries), kept.size) = witness
  <2>1. entries \in Seq(Line) /\ N \in Nat
    BY <1>1 DEF LedgerOK
  <2>2. PICK ws \in Seq(Line) : KeptFrom(ws)
    BY <1>1, Zenon DEF RootOK
  <2>3. AllFit(ws) /\ Len(ws) = kept.size /\ kept.root = MerkleRoot(ws) /\ witness = Seen(ws)
    BY <2>2 DEF KeptFrom
  <2>4. intact <=> AllFit(entries)
    BY <2>1, VerifyChainMeans DEF AllFit
  <2>5. AllFit(entries) <=> entries = Rehashed(entries)
    BY <2>1, ChainIsRehash DEF AllFit
  <2>6. ASSUME kept.size <= N PROVE accepts <=> SameHashes(entries, ws)
    <3>1. Len(ws) <= Len(entries)
      BY <2>3, <2>6
    <3>2. VerifyConsistency(ConsistencyProof(Len(ws), entries), MerkleRoot(ws),
          MerkleRoot(entries))
          <=> SameHashes(entries, ws)
      BY <2>1, <3>1, ConsistencyIsExact, Zenon
    <3>3. QED
      BY <2>3, <3>2
  <2>7. ASSUME kept.size <= N, AllFit(entries) PROVE SameHashes(entries, ws) <=> goesOn
    <3>1. Len(ws) <= Len(entries)
      BY <2>3, <2>7
    <3>2. SameHashes(entries, ws) <=> Prefix(Seen(entries), Len(ws)) = Seen(ws)
      BY <2>1, <2>3, <2>7, <3>1, SameSeen, Zenon
    <3>3. QED
      BY <2>3, <3>2
  <2> HIDE DEF intact, accepts, goesOn, N
  <2>8. (intact /\ kept.size <= N /\ accepts)
          <=> (kept.size <= N /\ goesOn /\ entries = Rehashed(entries))
    BY <2>4, <2>5, <2>6, <2>7
  <2>9. QED
    BY <2>8, Zenon DEF AuditCatches, intact, accepts, goesOn, N
<1>2. QED
  BY <1>1, RootAlways, PTL

(* ProofsExact, for any contents and ledgers of any length: InclusionProof's *)
(* proofs verify for the entry at their place and no other, and `cycle       *)
(* verify` fails on nothing but a broken chain or an option out of range.    *)
THEOREM ProofsAreExact == AuditSpec => []ProofsExact
<1>1. ASSUME LedgerOK, RootOK PROVE ProofsExact
  <2> DEFINE n      == Len(entries)
             root   == MerkleRoot(entries)
             intact == VerifyChain(entries) = NoBrokenLink
             Own(i) == InclusionProof(entries, i)
             To(i, j) == [Own(i) EXCEPT !.index = j]
  <2>1. entries \in Seq(Line) /\ n \in Nat
    BY <1>1 DEF LedgerOK
  <2>2. \A i, j \in 0..(n-1) : entries[i + 1].h = entries[j + 1].h => i = j
    <3> SUFFICES ASSUME NEW i \in 0..(n-1), NEW j \in 0..(n-1), i # j
                 PROVE  entries[i + 1].h # entries[j + 1].h
      OBVIOUS
    <3>1. i + 1 \in 1..n /\ j + 1 \in 1..n /\ (i + 1 < j + 1 \/ j + 1 < i + 1)
      BY <2>1
    <3>2. entries[i + 1].h < entries[j + 1].h \/ entries[j + 1].h < entries[i + 1].h
      BY <1>1, <3>1 DEF RootOK, Rising
    <3>3. entries[i + 1].h \in Nat /\ entries[j + 1].h \in Nat
      BY <2>1, <3>1, LineAt
    <3>4. QED
      BY <3>2, <3>3
  <2>3. ASSUME NEW i \in 0..(n-1), NEW j \in 0..(n-1), NEW e \in Line
        PROVE  /\ VerifyInclusion(e, Own(i), root) <=> e.h = entries[i + 1].h
               /\ VerifyInclusion(e, To(i, j), root) => e.h = entries[j + 1].h
    BY <2>1, InclusionIsExact, Zenon
  <2>4. \A i \in 0..(n-1) : entries[i + 1] \in Line
    BY <2>1
  <2>5. \A i \in 0..(n-1) : To(i, i) = Own(i)
    BY DEF InclusionProof
  <2> HIDE DEF Own, To, root
  <2>6. ASSUME NEW i \in 0..(n-1), NEW j \in 0..(n-1)
        PROVE  /\ VerifyInclusion(entries[j + 1], Own(i), root) <=> i = j
               /\ VerifyInclusion(entries[i + 1], To(i, j), root) <=> i = j
    <3>1. VerifyInclusion(entries[j + 1], Own(i), root) <=> i = j
      BY <2>2, <2>3, <2>4
    <3>2. VerifyInclusion(entries[i + 1], To(i, j), root) => i = j
      BY <2>2, <2>3, <2>4
    <3>3. i = j => VerifyInclusion(entries[i + 1], To(i, j), root)
      BY <2>5, <3>1
    <3>4. QED
      BY <3>1, <3>2, <3>3
  <2>7. ASSUME NEW i \in NotGiven..n
        PROVE VerifyLedgerEntries(entries, i, NotGiven) <=> i < n /\ intact
    <3>1. VerifyLedgerEntries(entries, i, NotGiven) <=>
            /\ intact
            /\ i # NotGiven => i < n /\ VerifyInclusion(entries[i + 1], Own(i), root)
      BY Zenon DEF VerifyLedgerEntries, Own, root
    <3>2. CASE i = NotGiven
      BY <2>1, <3>1, <3>2 DEF NotGiven
    <3>3. CASE i # NotGiven
      <4>1. i < n => i \in 0..(n-1)
        BY <2>1, <3>3 DEF NotGiven
      <4>2. i < n => VerifyInclusion(entries[i + 1], Own(i), root)
        BY <2>6, <4>1
      <4>3. QED
        BY <3>1, <3>3, <4>2
    <3>4. QED
      BY <3>2, <3>3
  <2>8. ASSUME NEW m \in 0..(n+1)
        PROVE VerifyLedgerEntries(entries, NotGiven, m) <=> m <= n /\ intact
    <3> DEFINE agrees == VerifyConsistency(ConsistencyProof(m, entries),
                         MerkleRoot(Prefix(entries, m)), root)
    <3>1. m # NotGiven
      BY DEF NotGiven
    <3>2. VerifyLedgerEntries(entries, NotGiven, m) <=> intact /\ m <= n /\ agrees
      BY <3>1, Zenon DEF VerifyLedgerEntries, root
    <3>3. ASSUME m <= n PROVE agrees
      <4> DEFINE ws == Prefix(entries, m)
      <4>1. m \in 0..Len(entries)
        BY <2>1, <3>3
      <4>2. ws \in Seq(Line) /\ Len(ws) = m /\ \A i \in 1..m : ws[i] = entries[i]
        BY <2>1, <4>1, Cuts
      <4> HIDE DEF ws
      <4>3. SameHashes(entries, ws)
        BY <4>2 DEF SameHashes
      <4>4. Len(ws) <= Len(entries)
        BY <3>3, <4>2
      <4>5. VerifyConsistency(ConsistencyProof(Len(ws), entries), MerkleRoot(ws),
            MerkleRoot(entries))
        BY <2>1, <4>2, <4>3, <4>4, ConsistencyIsExact, Zenon
      <4>6. QED
        BY <4>2, <4>5 DEF ws, root
    <3> HIDE DEF agrees
    <3>4. QED
      BY <3>2, <3>3
  <2>9. QED
    BY <2>6, <2>7, <2>8, Zenon DEF ProofsExact, Own, To, root
<1>2. QED
  BY <1>1, RootAlways, PTL

(* StuckExact, for any thresholds from two on and ledgers of any length:     *)
(* what cycle.Stuck and session.Stuck report is what their comments say.     *)
THEOREM StuckIsExact == AuditSpec => []StuckExact
<1>1. ASSUME LedgerOK PROVE StuckExact
  <2> DEFINE s  == Prints(entries, "turn")
             rs == Records(entries)
             N  == Len(entries)
  <2>1. entries \in Seq(Line) /\ InTime(entries) /\ N \in Nat /\ DOMAIN entries = 1..N
    BY <1>1 DEF LedgerOK
  <2>2. \A k \in DOMAIN entries : Repeats(Prefix(entries, k)) => Stuck(entries)
    BY <2>1, RepeatsStay
  <2>3. noProgressStuck(entries, s) =>
         \A i \in TurnsIn(entries), g \in DOMAIN entries :
           EntryOf(entries[g].c).type = "green" /\ i < g =>
             Cardinality({j \in TurnsIn(entries) : j >= i}) > Window
    BY <2>1, NoProgressMeans
  <2>4. Len(s) \in Nat
    <3>1. s = PrintsLoop(entries, "turn")[N]
            /\ IsPrints(PrintsLoop(entries, "turn"), entries, "turn")
      BY <2>1, PrintsSteps
    <3>2. s \in Seq(PrintsIn(entries))
      BY <2>1, <3>1 DEF IsPrints
    <3>3. QED
      BY <3>2
  <2>5. pingPongStuck(s) <=> Alternation(s, PingPong)
    BY <2>4, PingPongMeans
  <2>6. Len(rs) = N /\ DryWindow \in Nat
    BY <2>1, AuditAssumption DEF Records
  <2>7. DryTail(rs) >= DryWindow <=>
          Len(rs) >= DryWindow /\ \A i \in (Len(rs) - DryWindow + 1)..Len(rs) : NothingNew(rs, i)
    BY <2>1, <2>6, DryTailMeans
  <2> HIDE DEF s, rs
  <2>8. QED
    BY <2>2, <2>3, <2>5, <2>7, Zenon DEF StuckExact, Alternation, NothingNew, SeenBy, s, rs
<1>2. QED
  BY <1>1, LedgerAlways, PTL
-----------------------------------------------------------------------------
(* Replay: the graph that reconstruct builds, step by step. *)

(* The loop in Rebuild, *)
GraphLoop(es) ==
  CHOOSE graph : graph = [i \in 0..Len(es) |->
    IF i = 0 THEN NoGraph ELSE Extend(graph[i-1], EntryOf(es[i].c))]
(* and what it holds after each entry. *)
IsGraph(f, es) ==
  f[0] = NoGraph /\ \A i \in 1..Len(es) : f[i] = Extend(f[i-1], EntryOf(es[i].c))

(* Rebuild is what that loop ends with. *)
LEMMA GraphSteps ==
  ASSUME NEW es, Len(es) \in Nat
  PROVE  Rebuild(es) = GraphLoop(es)[Len(es)] /\ IsGraph(GraphLoop(es), es)
<1> DEFINE N == Len(es)
           f == GraphLoop(es)
           Then(i, g) == Extend(g, EntryOf(es[i].c))
           Upto(g, n) == g = [i \in 0..n |-> IF i = 0 THEN NoGraph ELSE Then(i, g[i-1])]
           T == {n \in 0..N : \E g : Upto(g, n)}
<1> HIDE DEF Then
<1>1. 0 \in T
  <2>1. Upto([i \in 0..0 |-> NoGraph], 0)
    OBVIOUS
  <2> HIDE DEF Upto
  <2>2. QED
    BY <2>1
<1>2. ASSUME NEW n \in 1..N, n - 1 \in T PROVE n \in T
  <2>1. PICK g : Upto(g, n - 1)
    BY <1>2
  <2>2. \A i \in 0..(n-1) : g[i] = IF i = 0 THEN NoGraph ELSE Then(i, g[i-1])
    BY <2>1, Zenon
  <2> DEFINE h == [i \in 0..n |-> IF i = n THEN Then(n, g[n-1]) ELSE g[i]]
  <2>3. ASSUME NEW i \in 0..n PROVE h[i] = IF i = 0 THEN NoGraph ELSE Then(i, h[i-1])
    <3>1. CASE i = 0
      BY <2>2, <3>1
    <3>2. CASE i # 0
      <4>1. h[i-1] = g[i-1]
        BY <3>2
      <4>2. h[i] = Then(i, g[i-1])
        BY <2>2, <3>2
      <4>3. QED
        BY <3>2, <4>1, <4>2
    <3>3. QED
      BY <3>1, <3>2
  <2>4. h = [i \in 0..n |-> h[i]]
    OBVIOUS
  <2> HIDE DEF h
  <2>5. Upto(h, n)
    BY <2>3, <2>4, Zenon
  <2> HIDE DEF Upto
  <2>6. n \in 0..N
    OBVIOUS
  <2>7. QED
    BY <2>5, <2>6
<1>3. 0..N \subseteq T
  <2> HIDE DEF T
  <2> QED BY <1>1, <1>2, CountUp
<1>4. N \in T
  BY <1>3
<1>5. \E g : Upto(g, N)
  <2> HIDE DEF Upto
  <2> QED BY <1>4
<1>6. Upto(f, N)
  BY <1>5, Zenon DEF GraphLoop, Then
<1>7. \A i \in 0..N : f[i] = IF i = 0 THEN NoGraph ELSE Then(i, f[i-1])
  BY <1>6, Zenon
<1>8. Rebuild(es) = f[N]
  BY Zenon DEF Rebuild, GraphLoop
<1> HIDE DEF f, T, Upto
<1>9. f[0] = NoGraph /\ \A i \in 1..N : f[i] = Then(i, f[i-1])
  BY <1>7
<1>10. QED
  BY <1>8, <1>9 DEF f, Then, IsGraph

(* Appending to a sequence that is written as a function. *)
LEMMA AppendFcn ==
  ASSUME NEW n \in Nat, NEW S, NEW q \in [1..n -> S], NEW x \in S
  PROVE  /\ Append(q, x) \in Seq(S) /\ Len(Append(q, x)) = n + 1
         /\ Append(q, x)[n+1] = x /\ \A k \in 1..n : Append(q, x)[k] = q[k]
<1>1. q \in Seq(S) /\ Len(q) = n
  OBVIOUS
<1>2. QED
  BY <1>1

(* The cycle of an entry. *)
CycleAt(es, i) == EntryOf(es[i].c).cycle
(* A sequence edge. *)
SeqEdge == [to : Nat, kind : {"sequence"}]
(* Step k leads to the next step of its cycle, if there is one among the     *)
(* first n.                                                                  *)
Leads(es, q, k, n) ==
  \/ q = <<>> /\ \A m \in (k+1)..n : CycleAt(es, m) # CycleAt(es, k)
  \/ \E m \in (k+1)..n :
       /\ CycleAt(es, m) = CycleAt(es, k) /\ q = <<[to |-> m, kind |-> "sequence"]>>
       /\ \A l \in (k+1)..(m-1) : CycleAt(es, l) # CycleAt(es, k)
(* Every step does; *)
StepsRight(es, g, n) ==
  /\ g.steps \in Seq(Seq(SeqEdge)) /\ Len(g.steps) = n
  /\ \A k \in 1..n : Leads(es, g.steps[k], k, n)
(* and the last step of each cycle is known. *)
LastRight(es, g, n) ==
  /\ DOMAIN g.last = {CycleAt(es, k) : k \in 1..n}
  /\ \A id \in DOMAIN g.last :
       /\ g.last[id] \in 1..n /\ CycleAt(es, g.last[id]) = id
       /\ \A k \in (g.last[id] + 1)..n : CycleAt(es, k) # id

(* One more entry: it is the last of its cycle, *)
LEMMA LastKept ==
  ASSUME NEW es, NEW g, NEW n \in Nat \ {0}, g.steps \in Seq(Seq(SeqEdge)), Len(g.steps) = n - 1,
         LastRight(es, g, n - 1)
  PROVE  LastRight(es, Extend(g, EntryOf(es[n].c)), n)
<1> DEFINE h  == Extend(g, EntryOf(es[n].c))
           id == CycleAt(es, n)
<1>1. h.last = [c \in (DOMAIN g.last) \cup {id} |-> IF c = id THEN n ELSE g.last[c]]
  BY DEF Extend, CycleAt
<1> HIDE DEF h
<1>2. DOMAIN h.last = (DOMAIN g.last) \cup {id}
  BY <1>1
<1>3. 1..n = 1..(n-1) \cup {n}
  OBVIOUS
<1>4. DOMAIN h.last = {CycleAt(es, k) : k \in 1..n}
  BY <1>2, <1>3 DEF LastRight
<1> HIDE DEF id
<1>5. ASSUME NEW c \in DOMAIN h.last
      PROVE  /\ h.last[c] \in 1..n /\ CycleAt(es, h.last[c]) = c
             /\ \A k \in (h.last[c] + 1)..n : CycleAt(es, k) # c
  <2>1. CASE c = id
    <3>1. h.last[c] = n
      BY <1>1, <1>2, <2>1
    <3>2. QED
      BY <2>1, <3>1 DEF id
  <2>2. CASE c # id
    <3>1. c \in DOMAIN g.last /\ h.last[c] = g.last[c]
      BY <1>1, <1>2, <2>2
    <3>2. /\ g.last[c] \in 1..(n-1) /\ CycleAt(es, g.last[c]) = c
          /\ \A k \in (g.last[c] + 1)..(n-1) : CycleAt(es, k) # c
      BY <3>1 DEF LastRight
    <3>3. \A k \in (g.last[c] + 1)..n : k \in (g.last[c] + 1)..(n-1) \/ k = n
      BY <3>2
    <3>4. QED
      BY <2>2, <3>1, <3>2, <3>3 DEF id
  <2>3. QED
    BY <2>1, <2>2
<1>6. QED
  BY <1>4, <1>5 DEF LastRight, h

(* and the one before it leads to it. *)
LEMMA StepsKept ==
  ASSUME NEW es, NEW g, NEW n \in Nat \ {0}, StepsRight(es, g, n - 1), LastRight(es, g, n - 1)
  PROVE  StepsRight(es, Extend(g, EntryOf(es[n].c)), n)
<1> DEFINE h    == Extend(g, EntryOf(es[n].c))
           id   == CycleAt(es, n)
           from == Linked(g, id)
           new  == [to |-> n, kind |-> "sequence"]
           q    == [k \in 1..(n-1) |-> IF k \in from THEN Append(g.steps[k], new) ELSE g.steps[k]]
<1>1. g.steps \in Seq(Seq(SeqEdge)) /\ Len(g.steps) = n - 1 /\ DOMAIN g.steps = 1..(n-1)
        /\ n - 1 \in Nat
  BY DEF StepsRight
<1>2. h.steps = Append(q, <<>>)
  BY <1>1 DEF Extend, CycleAt
<1>3. new \in SeqEdge
  BY DEF SeqEdge
<1> HIDE DEF h, new, from
<1>4. q \in [1..(n-1) -> Seq(SeqEdge)]
  BY <1>1, <1>3
<1>5. \A k \in 1..(n-1) : q[k] = IF k \in from THEN Append(g.steps[k], new) ELSE g.steps[k]
  OBVIOUS
<1> HIDE DEF q
<1>6. /\ h.steps \in Seq(Seq(SeqEdge)) /\ Len(h.steps) = n
      /\ h.steps[n] = <<>> /\ \A k \in 1..(n-1) : h.steps[k] = q[k]
  <2>1. <<>> \in Seq(SeqEdge)
    OBVIOUS
  <2>2. /\ Append(q, <<>>) \in Seq(Seq(SeqEdge)) /\ Len(Append(q, <<>>)) = (n-1) + 1
        /\ Append(q, <<>>)[(n-1)+1] = <<>> /\ \A k \in 1..(n-1) : Append(q, <<>>)[k] = q[k]
    <3> DEFINE m == n - 1
               S == Seq(SeqEdge)
               x == <<>>
    <3>1. m \in Nat /\ q \in [1..m -> S] /\ x \in S
      BY <1>1, <1>4, <2>1
    <3> HIDE DEF m, S, x
    <3>2. /\ Append(q, x) \in Seq(S) /\ Len(Append(q, x)) = m + 1
          /\ Append(q, x)[m+1] = x /\ \A k \in 1..m : Append(q, x)[k] = q[k]
      BY <3>1, AppendFcn
    <3>3. QED
      BY <3>2, Zenon DEF m, S, x
  <2>3. (n-1) + 1 = n
    OBVIOUS
  <2>4. QED
    BY <1>2, <2>2, <2>3
<1>7. Leads(es, h.steps[n], n, n)
  BY <1>6 DEF Leads
<1>8. ASSUME NEW k \in 1..(n-1) PROVE Leads(es, h.steps[k], k, n)
  <2>1. Leads(es, g.steps[k], k, n-1) /\ h.steps[k] = q[k]
    BY <1>6 DEF StepsRight
  <2>2. \A m \in (k+1)..n : m \in (k+1)..(n-1) \/ m = n
    OBVIOUS
  <2>3. n \in (k+1)..n /\ \A m \in (k+1)..(n-1) : m \in (k+1)..n
    OBVIOUS
  <2>4. CASE k \in from
    <3>1. id \in DOMAIN g.last /\ k = g.last[id]
      BY <2>4 DEF from, Linked
    <3>2. CycleAt(es, k) = id /\ \A m \in (k+1)..(n-1) : CycleAt(es, m) # id
      BY <3>1 DEF LastRight
    <3>3. g.steps[k] = <<>>
      BY <2>1, <3>2 DEF Leads
    <3>4. h.steps[k] = <<new>>
      <4>1. h.steps[k] = Append(<<>>, new)
        BY <1>5, <2>1, <2>4, <3>3
      <4>2. Append(<<>>, new) = <<new>>
        OBVIOUS
      <4>3. QED
        BY <4>1, <4>2
    <3>5. QED
      BY <2>3, <3>2, <3>4, Zenon DEF Leads, new
  <2>5. CASE k \notin from
    <3>1. h.steps[k] = g.steps[k]
      BY <1>5, <2>1, <2>5
    <3>2. CASE g.steps[k] = <<>> /\ \A m \in (k+1)..(n-1) : CycleAt(es, m) # CycleAt(es, k)
      <4>1. CycleAt(es, k) # id
        <5> SUFFICES ASSUME CycleAt(es, k) = id PROVE FALSE
          OBVIOUS
        <5> DEFINE L == g.last[id]
        <5>1. id \in DOMAIN g.last
          BY DEF LastRight
        <5>2. L \in 1..(n-1) /\ CycleAt(es, L) = id /\ \A m \in (L+1)..(n-1) : CycleAt(es, m) # id
          BY <5>1 DEF LastRight
        <5>3. L # k
          BY <2>5, <5>1 DEF from, Linked
        <5> HIDE DEF L
        <5>4. L \in (k+1)..(n-1) \/ k \in (L+1)..(n-1)
          BY <5>2, <5>3
        <5>5. QED
          BY <3>2, <5>2, <5>4
      <4>2. \A m \in (k+1)..n : CycleAt(es, m) # CycleAt(es, k)
        BY <2>2, <3>2, <4>1
      <4>3. QED
        BY <3>1, <3>2, <4>2 DEF Leads
    <3>3. CASE \E m \in (k+1)..(n-1) :
                 /\ CycleAt(es, m) = CycleAt(es, k)
                      /\ g.steps[k] = <<[to |-> m, kind |-> "sequence"]>>
                 /\ \A l \in (k+1)..(m-1) : CycleAt(es, l) # CycleAt(es, k)
      BY <2>3, <3>1, <3>3, Zenon DEF Leads
    <3>4. QED
      BY <2>1, <3>2, <3>3, Zenon DEF Leads
  <2>6. QED
    BY <2>4, <2>5
<1>9. \A k \in 1..n : k \in 1..(n-1) \/ k = n
  OBVIOUS
<1>10. QED
  BY <1>6, <1>7, <1>8, <1>9 DEF StepsRight, h

(* The cycles of the first n entries, *)
CyclesOf(es, n) == {CycleAt(es, k) : k \in 1..n}
(* what is listed of each, *)
Segment(Ids) == [id : Ids, steps : Seq(Nat)]
(* the steps on such a list, *)
OnSteps(steps) == {steps[i] : i \in DOMAIN steps}
(* and that each cycle is listed once with all its steps, in the order in    *)
(* which cycles appear.                                                      *)
CyclesRight(es, g, n) ==
  /\ g.cycles \in Seq(Segment(CyclesOf(es, n)))
  /\ \A c \in CyclesOf(es, n) : \E k \in 1..Len(g.cycles) : g.cycles[k].id = c
  /\ \A k \in 1..Len(g.cycles) :
       /\ OnSteps(g.cycles[k].steps) = {i \in 1..n : CycleAt(es, i) = g.cycles[k].id}
       /\ g.cycles[k].steps # <<>> /\ g.cycles[k].steps[1] \in 1..n
       /\ \A l \in 1..Len(g.cycles) : k < l => /\ g.cycles[k].id # g.cycles[l].id
                                               /\ g.cycles[k].steps[1] < g.cycles[l].steps[1]

(* One more entry: it is put on the list of its cycle, or starts one. *)
LEMMA CyclesKept ==
  ASSUME NEW es, NEW g, NEW n \in Nat \ {0}, g.steps \in Seq(Seq(SeqEdge)), Len(g.steps) = n - 1,
         CyclesRight(es, g, n - 1)
  PROVE  CyclesRight(es, Extend(g, EntryOf(es[n].c)), n)
<1> DEFINE h    == Extend(g, EntryOf(es[n].c))
           id   == CycleAt(es, n)
           slot == SlotOf(g.cycles, id)
           C    == CyclesOf(es, n - 1)
           D    == CyclesOf(es, n)
           M    == Len(g.cycles)
           Plus(r) == [r EXCEPT !.steps = Append(@, n)]
           First == [id |-> id, steps |-> <<n>>]
<1>1. h.cycles = IF slot = {} THEN Append(g.cycles, First)
                 ELSE [k \in DOMAIN g.cycles |-> IF k \in slot THEN Plus(g.cycles[k])
                   ELSE g.cycles[k]]
  <2>1. Len(g.steps) + 1 = n
    OBVIOUS
  <2>2. h.cycles = IF slot = {} THEN Append(g.cycles, [id |-> id, steps |-> <<Len(g.steps) + 1>>])
                   ELSE [k \in DOMAIN g.cycles |->
                           IF k \in slot THEN [g.cycles[k] EXCEPT !.steps
                             = Append(@, Len(g.steps) + 1)]
                           ELSE g.cycles[k]]
    BY Zenon DEF Extend, CycleAt
  <2>3. QED
    BY <2>1, <2>2, Zenon
<1>2. D = C \cup {id} /\ n - 1 \in Nat
  <2>1. 1..n = 1..(n-1) \cup {n}
    OBVIOUS
  <2>2. QED
    BY <2>1 DEF CyclesOf
<1>3. g.cycles \in Seq(Segment(C)) /\ M \in Nat /\ DOMAIN g.cycles = 1..M
  BY DEF CyclesRight
<1>4. \A k \in 1..M : g.cycles[k] \in Segment(C) /\ g.cycles[k].id \in C
        /\ g.cycles[k].steps \in Seq(Nat)
  <2>1. \A k \in 1..M : g.cycles[k] \in Segment(C)
    BY <1>3
  <2>2. QED
    BY <2>1 DEF Segment
<1>5. \A k \in 1..n : k \in 1..(n-1) \/ k = n
  OBVIOUS
<1> DEFINE At(k) == g.cycles[k]
           Were(k) == {i \in 1..(n-1) : CycleAt(es, i) = At(k).id}
           Are(c) == {i \in 1..n : CycleAt(es, i) = c}
<1>6. ASSUME NEW k \in 1..M
      PROVE  /\ OnSteps(At(k).steps) = Were(k) /\ At(k).steps # <<>>
                  /\ At(k).steps[1] \in 1..(n-1)
             /\ \A l \in 1..M : k < l => At(k).id # At(l).id /\ At(k).steps[1] < At(l).steps[1]
  BY DEF CyclesRight
<1> HIDE DEF h, C, D, M, Plus, First, CyclesRight
<1>7. CASE slot = {}
  <2>1. h.cycles = Append(g.cycles, First)
    BY <1>1, <1>7
  <2>2. First \in Segment(D) /\ First.id = id /\ First.steps = <<n>> /\ OnSteps(First.steps) = {n}
    BY <1>2 DEF First, Segment, OnSteps
  <2>3. g.cycles \in Seq(Segment(D))
    <3>1. \A k \in 1..M : g.cycles[k] \in Segment(D)
      BY <1>2, <1>4 DEF Segment
    <3>2. g.cycles = [k \in 1..M |-> g.cycles[k]]
      BY <1>3
    <3> HIDE DEF Segment
    <3>3. QED
      BY <1>3, <3>1, <3>2
  <2>4. /\ h.cycles \in Seq(Segment(D)) /\ Len(h.cycles) = M + 1 /\ h.cycles[M+1] = First
        /\ \A k \in 1..M : h.cycles[k] = At(k)
    BY <2>1, <2>2, <2>3 DEF M
  <2>5. \A k \in 1..M : At(k).id # id
    BY <1>3, <1>7 DEF SlotOf
  <2>6. id \notin C
    BY <2>5 DEF CyclesRight, C, M
  <2>7. Are(id) = {n}
    BY <1>5, <2>6 DEF CyclesOf, C
  <2>8. ASSUME NEW k \in 1..M PROVE Are(At(k).id) = Were(k)
    BY <1>5, <2>5
  <2>9. \A k \in 1..(M+1) : k \in 1..M \/ k = M + 1
    BY <1>3
  <2>10. ASSUME NEW c \in D PROVE \E k \in 1..Len(h.cycles) : h.cycles[k].id = c
    <3>1. CASE c = id
      BY <1>3, <2>2, <2>4, <3>1
    <3>2. CASE c # id
      <4>1. PICK k \in 1..M : At(k).id = c
        BY <1>2, <3>2 DEF CyclesRight, C, M
      <4>2. k \in 1..Len(h.cycles) /\ h.cycles[k].id = c
        BY <1>3, <2>4, <4>1
      <4>3. QED
        BY <4>2
    <3>3. QED
      BY <3>1, <3>2
  <2>11. ASSUME NEW k \in 1..(M+1)
         PROVE  /\ OnSteps(h.cycles[k].steps) = Are(h.cycles[k].id)
                /\ h.cycles[k].steps # <<>> /\ h.cycles[k].steps[1] \in 1..n
                /\ \A l \in 1..(M+1) : k < l =>
                     /\ h.cycles[k].id # h.cycles[l].id
                     /\ h.cycles[k].steps[1] < h.cycles[l].steps[1]
    <3>1. CASE k = M + 1
      <4>1. /\ h.cycles[k].id = id /\ h.cycles[k].steps = <<n>>
            /\ OnSteps(h.cycles[k].steps) = {n}
        BY <2>2, <2>4, <3>1
      <4>2. <<n>> # <<>> /\ <<n>>[1] = n /\ n \in 1..n
        OBVIOUS
      <4>3. \A l \in 1..(M+1) : ~(k < l)
        BY <1>3, <3>1
      <4>4. OnSteps(h.cycles[k].steps) = Are(h.cycles[k].id)
        BY <2>7, <4>1, Zenon
      <4>5. h.cycles[k].steps # <<>> /\ h.cycles[k].steps[1] \in 1..n
        BY <4>1, <4>2, Zenon
      <4>6. QED
        BY <4>3, <4>4, <4>5, Zenon
    <3>2. CASE k \in 1..M
      <4>1. h.cycles[k] = At(k) /\ OnSteps(At(k).steps) = Are(At(k).id)
        BY <1>6, <2>4, <2>8, <3>2
      <4>2. At(k).steps # <<>> /\ At(k).steps[1] \in 1..(n-1)
        BY <1>6, <3>2
      <4>3. ASSUME NEW l \in 1..(M+1), k < l
            PROVE  h.cycles[k].id # h.cycles[l].id /\ h.cycles[k].steps[1] < h.cycles[l].steps[1]
        <5>1. CASE l = M + 1
          <6>1. h.cycles[l].id = id /\ h.cycles[l].steps[1] = n
            BY <2>2, <2>4, <5>1
          <6>2. QED
            BY <2>5, <3>2, <4>1, <4>2, <6>1
        <5>2. CASE l \in 1..M
          BY <1>6, <2>4, <3>2, <4>3, <5>2
        <5>3. QED
          BY <2>9, <5>1, <5>2
      <4>4. QED
        BY <4>1, <4>2, <4>3
    <3>3. QED
      BY <2>9, <3>1, <3>2
  <2>12. QED
    <3>1. 1..Len(h.cycles) = 1..(M+1)
      BY <2>4
    <3> HIDE DEF Are
    <3>2. CyclesRight(es, h, n)
      <4>1. h.cycles \in Seq(Segment(CyclesOf(es, n)))
        BY <2>4 DEF D
      <4>2. \A c \in CyclesOf(es, n) : \E k \in 1..Len(h.cycles) : h.cycles[k].id = c
        BY <2>10, Zenon DEF D
      <4>3. \A k \in 1..Len(h.cycles) :
              /\ OnSteps(h.cycles[k].steps) = {i \in 1..n : CycleAt(es, i) = h.cycles[k].id}
              /\ h.cycles[k].steps # <<>> /\ h.cycles[k].steps[1] \in 1..n
              /\ \A l \in 1..Len(h.cycles) : k < l => /\ h.cycles[k].id # h.cycles[l].id
                                                      /\ h.cycles[k].steps[1] < h.cycles[l].steps[1]
        BY <2>11, <3>1, ZenonT(30) DEF Are
      <4>4. QED
        BY <4>1, <4>2, <4>3, Zenon DEF CyclesRight
    <3>3. QED
      BY <3>2 DEF h
<1>8. CASE slot # {}
  <2>1. PICK s \in slot : TRUE
    BY <1>8
  <2>2. s \in 1..M /\ At(s).id = id
    BY <1>3, <2>1 DEF SlotOf
  <2>3. \A k \in 1..M : k \in slot <=> k = s
    <3>1. ASSUME NEW k \in 1..M, k \in slot PROVE k = s
      <4>1. At(k).id = id
        BY <3>1 DEF SlotOf
      <4>2. ~(k < s) /\ ~(s < k)
        BY <1>6, <2>2, <4>1
      <4>3. QED
        BY <1>3, <2>2, <4>2
    <3>2. QED
      BY <2>1, <3>1
  <2>4. h.cycles = [k \in 1..M |-> IF k = s THEN Plus(At(k)) ELSE At(k)]
    BY <1>1, <1>3, <1>8, <2>3
  <2>5. /\ Plus(At(s)) \in Segment(D) /\ Plus(At(s)).id = id
        /\ Plus(At(s)).steps = Append(At(s).steps, n)
    <3> DEFINE r == At(s)
               q == Append(r.steps, n)
    <3>1. r \in Segment(C) /\ r.id = id /\ r.steps \in Seq(Nat) /\ id \in D
      BY <1>2, <1>4, <2>2
    <3>2. q \in Seq(Nat)
      BY <3>1
    <3> HIDE DEF r, q
    <3>3. r = [id |-> r.id, steps |-> r.steps]
      BY <3>1 DEF Segment
    <3>4. [r EXCEPT !.steps = q] = [id |-> id, steps |-> q]
      BY <3>1, <3>3
    <3>5. [id |-> id, steps |-> q] \in Segment(D)
      BY <3>1, <3>2 DEF Segment
    <3>6. Plus(At(s)) = [id |-> id, steps |-> q]
      BY <3>4, Zenon DEF Plus, r, q
    <3>7. [id |-> id, steps |-> q].id = id /\ [id |-> id, steps |-> q].steps = q
      OBVIOUS
    <3>8. QED
      BY <3>5, <3>6, <3>7, Zenon DEF r, q
  <2>6. \A k \in 1..M : At(k) \in Segment(D)
    BY <1>2, <1>4 DEF Segment
  <2>7. /\ h.cycles \in Seq(Segment(D)) /\ Len(h.cycles) = M
        /\ h.cycles[s] = Plus(At(s)) /\ \A k \in 1..M : k # s => h.cycles[k] = At(k)
    BY <1>3, <2>2, <2>4, <2>5, <2>6
  <2>8. \A k \in 1..M : h.cycles[k].id = At(k).id
    BY <2>2, <2>5, <2>7
  <2>9. ASSUME NEW k \in 1..M
        PROVE  h.cycles[k].steps # <<>> /\ h.cycles[k].steps[1] = At(k).steps[1]
                 /\ At(k).steps[1] \in 1..(n-1)
    <3>1. At(k).steps # <<>> /\ At(k).steps[1] \in 1..(n-1) /\ At(k).steps \in Seq(Nat)
      BY <1>4, <1>6
    <3>2. CASE k = s
      <4> DEFINE q == At(k).steps
      <4>1. h.cycles[k].steps = Append(q, n)
        BY <2>5, <2>7, <3>2
      <4>2. q \in Seq(Nat) /\ q # <<>>
        BY <3>1
      <4> HIDE DEF q
      <4>3. Append(q, n) # <<>> /\ Append(q, n)[1] = q[1]
        <5>1. Len(q) \in Nat \ {0}
          BY <4>2
        <5>2. Len(Append(q, n)) = Len(q) + 1
          BY <4>2
        <5>3. 1 \in 1..Len(q)
          BY <5>1
        <5>4. QED
          BY <4>2, <5>1, <5>2, <5>3
      <4>4. QED
        BY <3>1, <4>1, <4>3, Zenon DEF q
    <3>3. CASE k # s
      BY <2>7, <3>1, <3>3
    <3>4. QED
      BY <3>2, <3>3
  <2>10. ASSUME NEW k \in 1..M PROVE OnSteps(h.cycles[k].steps) = Are(h.cycles[k].id)
    <3>1. OnSteps(At(k).steps) = Were(k) /\ At(k).steps \in Seq(Nat)
      BY <1>4, <1>6
    <3>2. CASE k = s
      <4>1. h.cycles[k].steps = Append(At(k).steps, n)
        BY <2>5, <2>7, <3>2
      <4>2. OnSteps(Append(At(k).steps, n)) = OnSteps(At(k).steps) \cup {n}
        <5> DEFINE q == At(k).steps
        <5>1. q \in Seq(Nat)
          BY <3>1
        <5> HIDE DEF q
        <5>2. DOMAIN Append(q, n) = 1..(Len(q) + 1) /\ DOMAIN q = 1..Len(q) /\ Len(q) \in Nat
          BY <5>1
        <5>3. Append(q, n)[Len(q) + 1] = n /\ \A i \in 1..Len(q) : Append(q, n)[i] = q[i]
          BY <5>1
        <5>4. 1..(Len(q) + 1) = 1..Len(q) \cup {Len(q) + 1}
          BY <5>2
        <5>5. OnSteps(Append(q, n)) = {Append(q, n)[i] : i \in 1..(Len(q) + 1)}
          BY <5>2, Zenon DEF OnSteps
        <5>6. OnSteps(q) = {q[i] : i \in 1..Len(q)}
          BY <5>2, Zenon DEF OnSteps
        <5> HIDE DEF OnSteps
        <5>7. ASSUME NEW v PROVE v \in OnSteps(Append(q, n)) <=> v \in OnSteps(q) \cup {n}
          <6>1. ASSUME v \in OnSteps(Append(q, n)) PROVE v \in OnSteps(q) \cup {n}
            <7>1. PICK i \in 1..(Len(q) + 1) : v = Append(q, n)[i]
              BY <5>5, <6>1
            <7>2. QED
              BY <5>3, <5>4, <5>6, <7>1
          <6>2. ASSUME v \in OnSteps(q) \cup {n} PROVE v \in OnSteps(Append(q, n))
            <7>1. CASE v = n
              BY <5>3, <5>4, <5>5, <7>1
            <7>2. CASE v \in OnSteps(q)
              <8>1. PICK i \in 1..Len(q) : v = q[i]
                BY <5>6, <7>2
              <8>2. QED
                BY <5>3, <5>4, <5>5, <8>1
            <7>3. QED
              BY <6>2, <7>1, <7>2
          <6>3. QED
            BY <6>1, <6>2
        <5>8. QED
          BY <5>7, Zenon DEF q
      <4>3. Are(id) = Were(k) \cup {n}
        BY <1>5, <2>2, <3>2
      <4>4. QED
        BY <2>2, <2>8, <3>1, <3>2, <4>1, <4>2, <4>3
    <3>3. CASE k # s
      <4>1. At(k).id # id
        BY <2>3, <3>3, <1>3 DEF SlotOf
      <4>2. Are(At(k).id) = Were(k)
        BY <1>5, <4>1
      <4>3. QED
        BY <2>7, <3>1, <3>3, <4>2
    <3>4. QED
      BY <3>2, <3>3
  <2>11. ASSUME NEW k \in 1..M, NEW l \in 1..M, k < l
         PROVE  h.cycles[k].id # h.cycles[l].id /\ h.cycles[k].steps[1] < h.cycles[l].steps[1]
    BY <1>6, <2>8, <2>9, <2>11
  <2>12. ASSUME NEW c \in D PROVE \E k \in 1..Len(h.cycles) : h.cycles[k].id = c
    <3>1. PICK k \in 1..M : At(k).id = c
      BY <1>2, <2>2 DEF CyclesRight, C, M
    <3>2. QED
      BY <2>7, <2>8, <3>1
  <2>13. \A k \in 1..M : h.cycles[k].steps[1] \in 1..n
    BY <2>9
  <2>14. QED
    BY <2>7, <2>9, <2>10, <2>11, <2>12, <2>13 DEF CyclesRight, D, h
<1>9. QED
  BY <1>7, <1>8

(* A graph has these parts. *)
IsReplay(g) == g = [steps |-> g.steps, cycles |-> g.cycles, last |-> g.last]
(* All of it together, *)
GraphRight(es, g, n) ==
  IsReplay(g) /\ StepsRight(es, g, n) /\ LastRight(es, g, n) /\ CyclesRight(es, g, n)

(* which holds of the graph that reconstruct ends with. *)
LEMMA RebuildIsRight ==
  ASSUME NEW es, Len(es) \in Nat
  PROVE  GraphRight(es, Rebuild(es), Len(es))
<1> DEFINE N == Len(es)
           f == GraphLoop(es)
           T == {i \in 0..N : GraphRight(es, f[i], i)}
<1>1. Rebuild(es) = f[N] /\ f[0] = NoGraph
        /\ \A i \in 1..N : f[i] = Extend(f[i-1], EntryOf(es[i].c))
  BY GraphSteps DEF IsGraph
<1> HIDE DEF f
<1>2. 0 \in T
  <2>1. IsReplay(f[0])
    BY <1>1 DEF IsReplay, NoGraph
  <2>2. StepsRight(es, f[0], 0)
    BY <1>1 DEF StepsRight, NoGraph
  <2>3. LastRight(es, f[0], 0)
    BY <1>1 DEF LastRight, NoGraph
  <2>4. CyclesRight(es, f[0], 0)
    <3>1. f[0].cycles = <<>>
      BY <1>1 DEF NoGraph
    <3>2. CyclesOf(es, 0) = {}
      BY DEF CyclesOf
    <3>3. QED
      BY <3>1, <3>2 DEF CyclesRight
  <2>5. QED
    BY <2>1, <2>2, <2>3, <2>4 DEF GraphRight
<1>3. ASSUME NEW i \in 1..N, i - 1 \in T PROVE i \in T
  <2> DEFINE g == f[i-1]
             h == Extend(g, EntryOf(es[i].c))
  <2>1. GraphRight(es, g, i - 1) /\ f[i] = h /\ i \in Nat \ {0} /\ i \in 0..N
    BY <1>1, <1>3
  <2> HIDE DEF g
  <2>2. IsReplay(h)
    BY DEF IsReplay, Extend
  <2>3. StepsRight(es, h, i)
    BY <2>1, StepsKept DEF GraphRight
  <2>4. LastRight(es, h, i)
    BY <2>1, LastKept DEF GraphRight, StepsRight
  <2>5. CyclesRight(es, h, i)
    BY <2>1, CyclesKept DEF GraphRight, StepsRight
  <2> HIDE DEF h
  <2>6. QED
    BY <2>1, <2>2, <2>3, <2>4, <2>5 DEF GraphRight
<1>4. 0..N \subseteq T
  <2> HIDE DEF T
  <2> QED BY <1>2, <1>3, CountUp
<1>5. QED
  BY <1>1, <1>4
-----------------------------------------------------------------------------
(* The handoffs, which are put in at the end. *)

(* The first step after i that the target takes. *)
PicksUp(es, i, target) ==
  \/ /\ PickUp(es, i, target) = <<>>
     /\ \A j \in (i+1)..Len(es) : EntryOf(es[j].c).agent # target
  \/ \E j \in (i+1)..Len(es) :
       /\ PickUp(es, i, target) = <<[to |-> j, kind |-> "handoff"]>>
       /\ EntryOf(es[j].c).agent = target
       /\ \A k \in (i+1)..(j-1) : EntryOf(es[k].c).agent # target

(* addHandoffEdges finds it, if there is one. *)
LEMMA PickUpIsFirst ==
  ASSUME NEW es, Len(es) \in Nat, NEW i \in 1..Len(es), NEW target
  PROVE  PicksUp(es, i, target)
<1> DEFINE later == {j \in (i+1)..Len(es) : EntryOf(es[j].c).agent = target}
           j == CHOOSE x \in later : \A k \in later : x <= k
<1>1. PickUp(es, i, target) = IF later = {} THEN <<>> ELSE <<[to |-> j, kind |-> "handoff"]>>
  BY Zenon DEF PickUp
<1>2. CASE later = {}
  BY <1>1, <1>2 DEF PicksUp
<1>3. CASE later # {}
  <2>1. later \in SUBSET Nat
    OBVIOUS
  <2>2. \E x \in later : \A k \in later : x <= k
    <3> HIDE DEF later
    <3> QED BY <1>3, <2>1, LeastNat
  <2>3. j \in later /\ \A k \in later : j <= k
    BY <2>2, Zenon
  <2> HIDE DEF j
  <2>4. j \in (i+1)..Len(es) /\ EntryOf(es[j].c).agent = target
    BY <2>3
  <2>5. \A k \in (i+1)..(j-1) : EntryOf(es[k].c).agent # target
    BY <2>3, <2>4
  <2>6. PickUp(es, i, target) = <<[to |-> j, kind |-> "handoff"]>>
    BY <1>1, <1>3
  <2>7. QED
    BY <2>4, <2>5, <2>6, Zenon DEF PicksUp
<1>4. QED
  BY <1>2, <1>3

(* An edge is among a step's edges. *)
Holds(q, edge) == \E k \in DOMAIN q : q[k] = edge
(* The edges of the two kinds. *)
SeqTo(j) == [to |-> j, kind |-> "sequence"]
HandTo(j) == [to |-> j, kind |-> "handoff"]

(* A step has one edge of a kind at most. *)
NoneOrOne(q, edge) == q = <<>> \/ q = <<edge>>
(* A step's edges of one kind are not those of the other. *)
KindsApart(q, t, m, h, j) ==
  /\ Holds(q \o t, SeqTo(j)) <=> q = <<SeqTo(m)>> /\ m = j
  /\ Holds(q \o t, HandTo(j)) <=> t = <<HandTo(h)>> /\ h = j

(* The edges of both kinds, put together, stay apart. *)
LEMMA TwoKinds ==
  ASSUME NEW q, NEW t, NEW m, NEW h, NEW j, NoneOrOne(q, SeqTo(m)), NoneOrOne(t, HandTo(h))
  PROVE  KindsApart(q, t, m, h, j)
<1> DEFINE a == SeqTo(m)
           b == HandTo(h)
           c == SeqTo(j)
           d == HandTo(j)
<1>1. a # d /\ b # c /\ (a = c <=> m = j) /\ (b = d <=> h = j)
  BY DEF SeqTo, HandTo
<1> HIDE DEF a, b, c, d
<1>2. <<a>> # <<>> /\ <<b>> # <<>>
  OBVIOUS
<1>3. CASE q = <<>> /\ t = <<>>
  <2>1. q \o t = <<>> /\ DOMAIN (q \o t) = {}
    BY <1>3
  <2>2. QED
    BY <1>2, <1>3, <2>1 DEF KindsApart, Holds, a, b
<1>4. CASE q = <<a>> /\ t = <<>>
  <2>1. q \o t = <<a>> /\ DOMAIN <<a>> = {1} /\ <<a>>[1] = a
    BY <1>4
  <2>2. \A x : Holds(q \o t, x) <=> a = x
    BY <2>1 DEF Holds
  <2>3. QED
    BY <1>1, <1>2, <1>4, <2>2, Zenon DEF KindsApart, a, b, c, d
<1>5. CASE q = <<>> /\ t = <<b>>
  <2>1. q \o t = <<b>> /\ DOMAIN <<b>> = {1} /\ <<b>>[1] = b
    BY <1>5
  <2>2. \A x : Holds(q \o t, x) <=> b = x
    BY <2>1 DEF Holds
  <2>3. QED
    BY <1>1, <1>2, <1>5, <2>2, Zenon DEF KindsApart, a, b, c, d
<1>6. CASE q = <<a>> /\ t = <<b>>
  <2>1. q \in Seq({a, b}) /\ t \in Seq({a, b}) /\ Len(q) = 1 /\ Len(t) = 1 /\ q[1] = a /\ t[1] = b
    BY <1>6
  <2>2. DOMAIN (q \o t) = 1..2
    <3>1. q \o t \in Seq({a, b}) /\ Len(q \o t) = Len(q) + Len(t)
      BY <2>1, ConcatProperties
    <3>2. Len(q) + Len(t) = 2
      BY <2>1
    <3>3. DOMAIN (q \o t) = 1..Len(q \o t)
      BY <3>1
    <3>4. QED
      BY <3>1, <3>2, <3>3
  <2>3. (q \o t)[1] = a /\ (q \o t)[2] = b
    <3>1. \A i \in 1..(Len(q) + Len(t)) :
            (q \o t)[i] = IF i <= Len(q) THEN q[i] ELSE t[i - Len(q)]
      BY <2>1, ConcatProperties
    <3>2. 1 \in 1..2 /\ 2 \in 1..2 /\ 1 <= 1 /\ ~(2 <= 1) /\ 2 - 1 = 1 /\ 1 + 1 = 2
      OBVIOUS
    <3>3. QED
      BY <2>1, <3>1, <3>2
  <2>4. 1..2 = {1, 2}
    OBVIOUS
  <2>5. \A x : Holds(q \o t, x) <=> a = x \/ b = x
    BY <2>2, <2>3, <2>4 DEF Holds
  <2>6. QED
    BY <1>1, <1>2, <1>6, <2>5, Zenon DEF KindsApart, a, b, c, d
<1>7. QED
  BY <1>3, <1>4, <1>5, <1>6, Zenon DEF NoneOrOne, a, b

(* A sequence edge leads to the next step of the cycle. *)
LEMMA SequenceEdges ==
  ASSUME NEW es, NEW n \in Nat, NEW k \in 1..n, NEW q, Leads(es, q, k, n), NEW j \in 1..n
  PROVE  q = <<SeqTo(j)>> <=>
           /\ CycleAt(es, j) = CycleAt(es, k) /\ k < j
           /\ \A l \in 1..n : CycleAt(es, l) = CycleAt(es, k) => l <= k \/ l >= j
<1> DEFINE Follows(m) == /\ CycleAt(es, m) = CycleAt(es, k) /\ k < m
                       /\ \A l \in 1..n : CycleAt(es, l) = CycleAt(es, k) => l <= k \/ l >= m
<1>0. <<SeqTo(j)>> # <<>>
  OBVIOUS
<1>1. CASE q = <<>> /\ \A m \in (k+1)..n : CycleAt(es, m) # CycleAt(es, k)
  <2>1. ~(CycleAt(es, j) = CycleAt(es, k) /\ k < j)
    <3>1. k < j => j \in (k+1)..n
      OBVIOUS
    <3>2. QED
      BY <1>1, <3>1
  <2>2. QED
    BY <1>0, <1>1, <2>1
<1>2. ASSUME NEW m \in (k+1)..n, CycleAt(es, m) = CycleAt(es, k), q = <<SeqTo(m)>>,
             \A l \in (k+1)..(m-1) : CycleAt(es, l) # CycleAt(es, k)
      PROVE  q = <<SeqTo(j)>> <=> Follows(j)
  <2>1. Follows(m)
    BY <1>2
  <2>2. Follows(j) => j = m
    <3> HAVE Follows(j)
    <3>1. ~(j < m)
      <4>1. j < m => j \in (k+1)..(m-1)
        OBVIOUS
      <4>2. QED
        BY <1>2, <4>1
    <3>2. ~(m < j)
      <4>1. m \in 1..n
        OBVIOUS
      <4>2. m <= k \/ m >= j
        BY <1>2, <4>1
      <4>3. QED
        BY <4>2
    <3>3. QED
      BY <3>1, <3>2
  <2>3. <<SeqTo(m)>> = <<SeqTo(j)>> <=> m = j
    <3>1. <<SeqTo(m)>> = <<SeqTo(j)>> <=> SeqTo(m) = SeqTo(j)
      <4> HIDE DEF SeqTo
      <4> QED OBVIOUS
    <3>2. QED
      BY <3>1 DEF SeqTo
  <2> HIDE DEF Follows
  <2>4. QED
    BY <1>2, <2>1, <2>2, <2>3, Zenon
<1>3. QED
  BY <1>1, <1>2, Zenon DEF Leads, SeqTo

(* An entry that hands off to somebody, *)
HandoffAt(es, i) == EntryOf(es[i].c).type = "handoff" /\ EntryOf(es[i].c).to # ""
(* the edge that it gets, *)
HandOf(es, i) == IF HandoffAt(es, i) THEN PickUp(es, i, EntryOf(es[i].c).to) ELSE <<>>
(* and the step that it should lead to. *)
LandsOn(es, i, j) ==
  /\ HandoffAt(es, i) /\ i < j /\ EntryOf(es[j].c).agent = EntryOf(es[i].c).to
  /\ \A k \in (i+1)..(j-1) : EntryOf(es[k].c).agent # EntryOf(es[i].c).to

(* It does lead there. *)
LEMMA HandoffEdges ==
  ASSUME NEW es, Len(es) \in Nat, NEW i \in 1..Len(es)
  PROVE  \E h : /\ HandOf(es, i) = <<>> \/ HandOf(es, i) = <<HandTo(h)>>
                /\ \A j \in 1..Len(es) :
                     HandOf(es, i) = <<HandTo(h)>> /\ h = j <=> LandsOn(es, i, j)
<1> DEFINE N == Len(es)
           target == EntryOf(es[i].c).to
<1>0. ASSUME NEW x PROVE <<HandTo(x)>> # <<>>
  OBVIOUS
<1>1. CASE ~HandoffAt(es, i)
  <2>1. HandOf(es, i) = <<>>
    BY <1>1 DEF HandOf
  <2>2. \A j \in 1..N : ~LandsOn(es, i, j)
    BY <1>1 DEF LandsOn
  <2>3. <<HandTo(i)>> # <<>>
    BY <1>0
  <2>4. QED
    BY <2>1, <2>2, <2>3
<1>2. CASE HandoffAt(es, i)
  <2>1. HandOf(es, i) = PickUp(es, i, target)
    BY <1>2 DEF HandOf
  <2>2. CASE /\ PickUp(es, i, target) = <<>>
             /\ \A j \in (i+1)..N : EntryOf(es[j].c).agent # target
    <3>1. \A j \in 1..N : i < j => j \in (i+1)..N
      OBVIOUS
    <3>2. \A j \in 1..N : ~LandsOn(es, i, j)
      BY <2>2, <3>1 DEF LandsOn
    <3>3. <<HandTo(i)>> # <<>>
      BY <1>0
    <3>4. QED
      BY <2>1, <2>2, <3>2, <3>3
  <2>3. CASE \E j \in (i+1)..N :
               /\ PickUp(es, i, target) = <<[to |-> j, kind |-> "handoff"]>>
               /\ EntryOf(es[j].c).agent = target
               /\ \A k \in (i+1)..(j-1) : EntryOf(es[k].c).agent # target
    <3>1. PICK h \in (i+1)..N :
               /\ PickUp(es, i, target) = <<[to |-> h, kind |-> "handoff"]>>
               /\ EntryOf(es[h].c).agent = target
               /\ \A k \in (i+1)..(h-1) : EntryOf(es[k].c).agent # target
      BY <2>3, Zenon
    <3>2. HandOf(es, i) = <<HandTo(h)>>
      BY <2>1, <3>1, Zenon DEF HandTo
    <3>3. LandsOn(es, i, h)
      BY <1>2, <3>1 DEF LandsOn
    <3>4. ASSUME NEW j \in 1..N, LandsOn(es, i, j) PROVE h = j
      <4>1. ~(j < h)
        <5>1. j < h /\ i < j => j \in (i+1)..(h-1)
          OBVIOUS
        <5>2. QED
          BY <3>1, <3>4, <5>1 DEF LandsOn
      <4>2. ~(h < j)
        <5>1. h < j => h \in (i+1)..(j-1)
          OBVIOUS
        <5>2. QED
          BY <3>1, <3>4, <5>1 DEF LandsOn
      <4>3. QED
        BY <4>1, <4>2
    <3>5. QED
      BY <3>2, <3>3, <3>4, Zenon
  <2>4. PicksUp(es, i, target)
    <3> HIDE DEF target
    <3> QED BY PickUpIsFirst
  <2>5. QED
    BY <2>2, <2>3, <2>4, Zenon DEF PicksUp
<1>3. QED
  BY <1>1, <1>2

(* Replay's graph: reconstruct's, with the handoffs' edges after each step's *)
(* own.                                                                      *)
LEMMA ReplaySteps ==
  ASSUME NEW es, Len(es) \in Nat, DOMAIN es = 1..Len(es), VerifyChain(es) = NoBrokenLink
  PROVE  /\ Replay(es).cycles = Rebuild(es).cycles
         /\ Replay(es).steps = [i \in 1..Len(es) |-> Rebuild(es).steps[i] \o HandOf(es, i)]
         /\ GraphRight(es, Rebuild(es), Len(es))
<1> DEFINE N == Len(es)
           g == Rebuild(es)
           q == [i \in DOMAIN g.steps |->
                   IF EntryOf(es[i].c).type = "handoff" /\ EntryOf(es[i].c).to # ""
                   THEN g.steps[i] \o PickUp(es, i, EntryOf(es[i].c).to)
                   ELSE g.steps[i]]
<1>1. GraphRight(es, g, N)
  BY RebuildIsRight
<1>2. Replay(es) = [g EXCEPT !.steps = q]
  BY Zenon DEF Replay, addHandoffEdges
<1> HIDE DEF g
<1>3. g.steps \in Seq(Seq(SeqEdge)) /\ DOMAIN g.steps = 1..N
        /\ \A i \in 1..N : g.steps[i] \in Seq(SeqEdge)
  BY <1>1 DEF GraphRight, StepsRight
<1>4. q = [i \in 1..N |-> g.steps[i] \o HandOf(es, i)]
  <2>1. ASSUME NEW i \in 1..N
        PROVE  (IF EntryOf(es[i].c).type = "handoff" /\ EntryOf(es[i].c).to # ""
                THEN g.steps[i] \o PickUp(es, i, EntryOf(es[i].c).to)
                ELSE g.steps[i]) = g.steps[i] \o HandOf(es, i)
    <3>1. CASE HandoffAt(es, i)
      BY <3>1, Zenon DEF HandOf, HandoffAt
    <3>2. CASE ~HandoffAt(es, i)
      <4>1. HandOf(es, i) = <<>>
        BY <3>2 DEF HandOf
      <4>2. g.steps[i] \o <<>> = g.steps[i]
        BY <1>3
      <4>3. QED
        BY <3>2, <4>1, <4>2, Zenon DEF HandoffAt
    <3>3. QED
      BY <3>1, <3>2
  <2>2. QED
    BY <1>3, <2>1, Zenon
<1> HIDE DEF q
<1>5. [g EXCEPT !.steps = q].cycles = g.cycles /\ [g EXCEPT !.steps = q].steps = q
  <2>1. g = [steps |-> g.steps, cycles |-> g.cycles, last |-> g.last]
    BY <1>1 DEF GraphRight, IsReplay
  <2>2. QED
    BY <2>1
<1>6. QED
  BY <1>1, <1>2, <1>4, <1>5, Zenon DEF g

(* ReplayFaithful, for any contents, cycles and agents and ledgers of any    *)
(* length: the graph that Replay returns is the run.                         *)
THEOREM ReplayIsFaithful == AuditSpec => []ReplayFaithful
<1>1. ASSUME LedgerOK PROVE ReplayFaithful
  <2> DEFINE N == Len(entries)
             g == Replay(entries)
             b == Rebuild(entries)
             Pairs == (DOMAIN entries) \X (DOMAIN entries)
             Edges(kind) == {p \in Pairs : \E k \in DOMAIN g.steps[p[1]] :
                              g.steps[p[1]][k] = [to |-> p[2], kind |-> kind]}
             InCycle(p) == \E id \in {EntryOf(c).cycle : c \in Contents} :
                  /\ p[1] \in StepsOf(id) /\ p[2] \in StepsOf(id) /\ p[1] < p[2]
                  /\ \A k \in StepsOf(id) : k <= p[1] \/ k >= p[2]
             Handed(p) == LET e == EntryOf(entries[p[1]].c) IN
                  /\ e.type = "handoff" /\ e.to # "" /\ p[1] < p[2]
                  /\ EntryOf(entries[p[2]].c).agent = e.to
                  /\ \A k \in (p[1]+1)..(p[2]-1) : EntryOf(entries[k].c).agent # e.to
  <2>1. SUFFICES ASSUME VerifyChain(entries) = NoBrokenLink
                 PROVE  /\ Len(g.steps) = N
                        /\ Edges("sequence") = {p \in Pairs : InCycle(p)}
                        /\ Edges("handoff") = {p \in Pairs : Handed(p)}
                        /\ {g.cycles[k].id : k \in DOMAIN g.cycles} =
                             {EntryOf(entries[i].c).cycle : i \in DOMAIN entries}
                        /\ \A k \in DOMAIN g.cycles :
                             /\ {g.cycles[k].steps[i] : i \in DOMAIN g.cycles[k].steps}
                                  = StepsOf(g.cycles[k].id)
                             /\ \A l \in DOMAIN g.cycles : k < l =>
                                  g.cycles[k].steps[1] < g.cycles[l].steps[1]
    BY Zenon DEF ReplayFaithful
  <2>2. entries \in Seq(Line) /\ N \in Nat /\ DOMAIN entries = 1..N
    BY <1>1 DEF LedgerOK
  <2>3. /\ g.cycles = b.cycles /\ GraphRight(entries, b, N)
        /\ g.steps = [i \in 1..N |-> b.steps[i] \o HandOf(entries, i)]
    BY <2>1, <2>2, ReplaySteps
  <2> HIDE DEF g, b
  <2>4. Len(g.steps) = N
    BY <2>2, <2>3
  <2>5. ASSUME NEW i \in 1..N, NEW j \in 1..N
        PROVE  /\ Holds(g.steps[i], SeqTo(j)) <=> b.steps[i] = <<SeqTo(j)>>
               /\ Holds(g.steps[i], HandTo(j)) <=> LandsOn(entries, i, j)
               /\ Leads(entries, b.steps[i], i, N)
    <3> DEFINE q == b.steps[i]
               t == HandOf(entries, i)
    <3>1. Leads(entries, q, i, N)
      BY <2>3 DEF GraphRight, StepsRight
    <3>2. g.steps[i] = q \o t
      BY <2>3
    <3>3. PICK h : /\ t = <<>> \/ t = <<HandTo(h)>>
                   /\ \A x \in 1..N : t = <<HandTo(h)>> /\ h = x <=> LandsOn(entries, i, x)
      BY <2>2, HandoffEdges
    <3> HIDE DEF q, t
    <3>4. PICK m : q = <<>> \/ q = <<SeqTo(m)>>
      BY <3>1, Zenon DEF Leads, SeqTo
    <3>5. KindsApart(q, t, m, h, j)
      <4>1. NoneOrOne(q, SeqTo(m)) /\ NoneOrOne(t, HandTo(h))
        BY <3>3, <3>4, Zenon DEF NoneOrOne
      <4>2. QED
        BY <4>1, TwoKinds, Zenon
    <3>6. q = <<SeqTo(j)>> => m = j
      <4>1. <<SeqTo(j)>> # <<>>
        OBVIOUS
      <4>2. <<SeqTo(m)>> = <<SeqTo(j)>> => SeqTo(m) = SeqTo(j)
        <5> HIDE DEF SeqTo
        <5> QED OBVIOUS
      <4>3. SeqTo(m) = SeqTo(j) => m = j
        BY DEF SeqTo
      <4>4. QED
        BY <3>4, <4>1, <4>2, <4>3, Zenon
    <3>7. QED
      BY <3>1, <3>2, <3>3, <3>5, <3>6, Zenon DEF KindsApart, q
  <2>6. ASSUME NEW p \in Pairs
        PROVE  /\ (\E k \in DOMAIN g.steps[p[1]] :
                    g.steps[p[1]][k] = [to |-> p[2], kind |-> "sequence"])
                    <=> InCycle(p)
               /\ (\E k \in DOMAIN g.steps[p[1]] :
                    g.steps[p[1]][k] = [to |-> p[2], kind |-> "handoff"])
                    <=> Handed(p)
    <3> DEFINE i == p[1]
               j == p[2]
               id == CycleAt(entries, i)
    <3>1. i \in 1..N /\ j \in 1..N
      BY <2>2
    <3> HIDE DEF i, j
    <3>2. b.steps[i] = <<SeqTo(j)>> <=>
            /\ CycleAt(entries, j) = id /\ i < j
            /\ \A l \in 1..N : CycleAt(entries, l) = id => l <= i \/ l >= j
      BY <2>2, <2>5, <3>1, SequenceEdges, ZenonT(30)
    <3>3. id \in {EntryOf(c).cycle : c \in Contents}
      BY <2>2, <3>1, LineAt DEF CycleAt
    <3>4. \A x : StepsOf(x) = {k \in 1..N : CycleAt(entries, k) = x}
      BY <2>2, Zenon DEF StepsOf, CycleAt
    <3>5. InCycle(p) <=> b.steps[i] = <<SeqTo(j)>>
      <4>1. ASSUME InCycle(p) PROVE b.steps[i] = <<SeqTo(j)>>
        <5>1. PICK x : /\ i \in StepsOf(x) /\ j \in StepsOf(x) /\ i < j
                       /\ \A k \in StepsOf(x) : k <= i \/ k >= j
          BY <4>1, Zenon DEF i, j
        <5>2. x = id /\ CycleAt(entries, j) = id
          BY <3>4, <5>1
        <5>3. QED
          BY <3>2, <3>4, <5>1, <5>2
      <4>2. ASSUME b.steps[i] = <<SeqTo(j)>> PROVE InCycle(p)
        <5>1. /\ i \in StepsOf(id) /\ j \in StepsOf(id) /\ i < j
              /\ \A k \in StepsOf(id) : k <= i \/ k >= j
          BY <3>1, <3>2, <3>4, <4>2
        <5> HIDE DEF id
        <5>2. QED
          BY <3>3, <5>1, Zenon DEF i, j
      <4>3. QED
        BY <4>1, <4>2
    <3>6. Handed(p) <=> LandsOn(entries, i, j)
      BY Zenon DEF LandsOn, HandoffAt, i, j
    <3>7. /\ Holds(g.steps[i], SeqTo(j)) <=> InCycle(p)
          /\ Holds(g.steps[i], HandTo(j)) <=> Handed(p)
      BY <2>5, <3>1, <3>5, <3>6, Zenon
    <3> HIDE DEF InCycle, Handed
    <3>8. QED
      BY <3>7, Zenon DEF Holds, SeqTo, HandTo, i, j
  <2>7. Edges("sequence") = {p \in Pairs : InCycle(p)}
          /\ Edges("handoff") = {p \in Pairs : Handed(p)}
    <3> HIDE DEF InCycle, Handed, Pairs
    <3> QED BY <2>6, Zenon
  <2>8. CyclesRight(entries, b, N)
          /\ CyclesOf(entries, N) = {EntryOf(entries[i].c).cycle : i \in DOMAIN entries}
    BY <2>2, <2>3, Zenon DEF GraphRight, CyclesOf, CycleAt
  <2> DEFINE C == g.cycles
             D == CyclesOf(entries, N)
  <2>9. C \in Seq(Segment(D)) /\ DOMAIN C = 1..Len(C)
    BY <2>3, <2>8 DEF CyclesRight
  <2>10. \A k \in 1..Len(C) : C[k].id \in D
    <3>1. \A k \in 1..Len(C) : C[k] \in Segment(D)
      BY <2>9
    <3>2. QED
      BY <3>1 DEF Segment
  <2>11. \A c \in D : \E k \in 1..Len(C) : C[k].id = c
    BY <2>3, <2>8 DEF CyclesRight
  <2>12. ASSUME NEW k \in 1..Len(C)
         PROVE  /\ {C[k].steps[i] : i \in DOMAIN C[k].steps} = StepsOf(C[k].id)
                /\ \A l \in 1..Len(C) : k < l => C[k].steps[1] < C[l].steps[1]
    <3>1. OnSteps(C[k].steps) = {i \in 1..N : CycleAt(entries, i) = C[k].id}
      BY <2>3, <2>8 DEF CyclesRight
    <3>2. \A l \in 1..Len(C) : k < l => C[k].steps[1] < C[l].steps[1]
      BY <2>3, <2>8 DEF CyclesRight
    <3>3. StepsOf(C[k].id) = {i \in 1..N : CycleAt(entries, i) = C[k].id}
      BY <2>2, Zenon DEF StepsOf, CycleAt
    <3>4. QED
      BY <3>1, <3>2, <3>3, Zenon DEF OnSteps
  <2>13. {C[k].id : k \in DOMAIN C} = D
    BY <2>9, <2>10, <2>11
  <2> HIDE DEF Edges, InCycle, Handed, Pairs
  <2>14. QED
    BY <2>4, <2>7, <2>8, <2>9, <2>12, <2>13, Zenon
<1>2. QED
  BY <1>1, LedgerAlways, PTL
=============================================================================
