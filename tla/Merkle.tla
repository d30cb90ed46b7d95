------------------------------- MODULE Merkle -------------------------------
(***************************************************************************)
(* The hash chain of a ledger and the Merkle tree of RFC 6962 over it:     *)
(* VerifyChain, the inclusion and consistency proofs, and `cycle verify`.  *)
(*                                                                         *)
(* A content is a number.  Hashes are taken to be injective: ChainHash is  *)
(* an injective function on numbers, and a tree hash is a word that spells *)
(* its tree.                                                               *)
(***************************************************************************)
EXTENDS Integers, Sequences, FiniteSets

CONSTANT Contents   \* 1..n

ASSUME MerkleAssumption == IsFiniteSet(Contents) /\ Contents = 1..Cardinality(Contents)

GenesisHash == 0
Base    == Cardinality(Contents) + 1

ChainHash(c, prev) == prev * Base + c

Entry(c, at, prev) == [c |-> c, at |-> at, prev |-> prev, h |-> ChainHash(c, prev)]
LastHash(es) == IF es = <<>> THEN GenesisHash ELSE es[Len(es)].h
LastAt(es)   == IF es = <<>> THEN 1 ELSE es[Len(es)].at
Seen(es)     == [i \in 1..Len(es) |-> es[i].c]

(* Mutant of Fits: the links are checked, the contents are not. *)
FitsLinks(es, i) == es[i].prev = IF i = 1 THEN GenesisHash ELSE es[i-1].h

(* One turn of VerifyChain's loop, and its verdict: the first entry that     *)
(* does not fit, or NoBrokenLink.                                            *)
NoBrokenLink == 0
Fits(es, i) ==
  /\ es[i].prev = IF i = 1 THEN GenesisHash ELSE es[i-1].h
  /\ es[i].h = ChainHash(es[i].c, es[i].prev)
VerifyChain(es) ==
  IF \A i \in 1..Len(es) : Fits(es, i) THEN NoBrokenLink
  ELSE CHOOSE i \in 1..Len(es) : ~Fits(es, i) /\ \A j \in 1..(i-1) : Fits(es, j)
-----------------------------------------------------------------------------
(* The Merkle tree.  Words over numbers: a leaf, a node, the empty tree. *)
Word == Seq(Nat)
LeafHash(e)    == <<0, e.h>>
NodeHash(l, r) == <<1>> \o l \o r
EmptyRoot      == <<2>>

Prefix(s, k) == SubSeq(s, 1, k)
Rest(s, k)   == SubSeq(s, k + 1, Len(s))

Power[p \in Nat] == IF p = 0 THEN 1 ELSE 2 * Power[p - 1]

(* largestPowerOfTwoLessThan. *)
Split(n) == CHOOSE k \in {Power[p] : p \in 0..n} : k < n /\ 2 * k >= n

TreeHash[d \in Seq(Word)] ==
  CASE d = <<>>   -> EmptyRoot
    [] Len(d) = 1 -> d[1]
    [] OTHER      -> LET k == Split(Len(d))
                     IN  NodeHash(TreeHash[Prefix(d, k)], TreeHash[Rest(d, k)])

Leaves(es)     == [i \in 1..Len(es) |-> LeafHash(es[i])]
MerkleRoot(es) == TreeHash[Leaves(es)]

InclusionPath[p \in Nat \X Seq(Word)] ==
  LET m == p[1] d == p[2] k == Split(Len(d)) IN
    IF Len(d) <= 1 THEN <<>>
    ELSE IF m < k THEN Append(InclusionPath[<<m, Prefix(d, k)>>], TreeHash[Rest(d, k)])
    ELSE Append(InclusionPath[<<m - k, Rest(d, k)>>], TreeHash[Prefix(d, k)])

InclusionProof(es, i) ==
  [index |-> i, size |-> Len(es), path |-> InclusionPath[<<i, Leaves(es)>>]]

PathLen[p \in Nat \X Nat] ==
  LET m == p[1] n == p[2] k == Split(n) IN
    IF n <= 1 THEN 0
    ELSE 1 + IF m < k THEN PathLen[<<m, k>>] ELSE PathLen[<<m - k, n - k>>]

(* The levels at which the node is the last one on its edge. *)
Edge[p \in Nat \X Nat] ==
  IF p[1] % 2 = 0 /\ p[1] # 0 THEN Edge[<<p[1] \div 2, p[2] \div 2>>] ELSE p

(* Mutant of OnRight: the right edge of the tree is forgotten. *)
OnRightOdd(fn, sn) == fn % 2 = 1

(* The proof's node is a left sibling. *)
OnRight(fn, sn) == fn % 2 = 1 \/ fn = sn

FoldNode(at, node) ==
  LET e == Edge[<<at.fn, at.sn>>] IN
    IF OnRight(at.fn, at.sn)
    THEN [acc |-> NodeHash(node, at.acc), fn |-> e[1] \div 2, sn |-> e[2] \div 2]
    ELSE [acc |-> NodeHash(at.acc, node), fn |-> at.fn \div 2, sn |-> at.sn \div 2]

(* The loop over the proof's nodes: what it holds after i of them. *)
FoldPath(leaf, m, n, path) ==
  LET fold[i \in 0..Len(path)] ==
        IF i = 0 THEN [acc |-> leaf, fn |-> m, sn |-> n - 1]
        ELSE FoldNode(fold[i-1], path[i])
  IN  fold[Len(path)].acc

VerifyInclusion(e, proof, root) ==
  /\ proof.index \in 0..(proof.size - 1)
  /\ Len(proof.path) = PathLen[<<proof.index, proof.size>>]
  /\ FoldPath(LeafHash(e), proof.index, proof.size, proof.path) = root

SubProof[p \in (Nat \ {0}) \X Seq(Word) \X BOOLEAN] ==
  LET m == p[1] d == p[2] whole == p[3] k == Split(Len(d)) IN
    IF m >= Len(d) THEN IF whole THEN <<>> ELSE <<TreeHash[d]>>
    ELSE IF m <= k THEN Append(SubProof[<<m, Prefix(d, k), whole>>], TreeHash[Rest(d, k)])
    ELSE Append(SubProof[<<m - k, Rest(d, k), FALSE>>], TreeHash[Prefix(d, k)])

ConsistencyProof(m, es) ==
  [old |-> m, new |-> Len(es),
   path |-> IF m \in {0, Len(es)} THEN <<>> ELSE SubProof[<<m, Leaves(es), TRUE>>]]

Boundary[p \in Nat \X Nat] ==
  IF p[1] % 2 = 1 THEN Boundary[<<p[1] \div 2, p[2] \div 2>>] ELSE p

(* The loop towards both roots; it returns at a node beyond the new tree. *)
BothNode(at, node) ==
  LET e == Edge[<<at.fn, at.sn>>] IN
    IF at.sn = 0 THEN [at EXCEPT !.beyond = TRUE]
    ELSE IF OnRight(at.fn, at.sn)
    THEN [at EXCEPT !.fr = NodeHash(node, at.fr), !.sr = NodeHash(node, at.sr),
                    !.fn = e[1] \div 2, !.sn = e[2] \div 2]
    ELSE [at EXCEPT !.sr = NodeHash(at.sr, node), !.fn = at.fn \div 2, !.sn = at.sn \div 2]
FoldBoth(seed, fn, sn, path) ==
  LET fold[i \in 0..Len(path)] ==
        IF i = 0 THEN [fr |-> seed, sr |-> seed, fn |-> fn, sn |-> sn, beyond |-> FALSE]
        ELSE BothNode(fold[i-1], path[i])
  IN  fold[Len(path)]

VerifyConsistency(proof, oldRoot, newRoot) ==
  /\ proof.old <= proof.new
  /\ IF proof.old = 0 THEN proof.path = <<>> /\ oldRoot = EmptyRoot
     ELSE IF proof.old = proof.new THEN proof.path = <<>> /\ oldRoot = newRoot
     ELSE LET b    == Boundary[<<proof.old - 1, proof.new - 1>>]
              seed == IF b[1] = 0 THEN oldRoot ELSE Head(proof.path)
              path == IF b[1] = 0 THEN proof.path ELSE Tail(proof.path)
              end  == FoldBoth(seed, b[1], b[2], path)
          IN  /\ proof.path # <<>>
              /\ ~end.beyond /\ end.sn = 0 /\ end.fr = oldRoot /\ end.sr = newRoot

(* `cycle verify --inclusion i --consistency m`; NotGiven is an option not given. *)
NotGiven == -1
VerifyLedgerEntries(es, i, m) ==
  /\ VerifyChain(es) = NoBrokenLink
  /\ i # NotGiven => /\ i < Len(es)
                 /\ VerifyInclusion(es[i+1], InclusionProof(es, i), MerkleRoot(es))
  /\ m # NotGiven => /\ m <= Len(es)
                 /\ VerifyConsistency(ConsistencyProof(m, es), MerkleRoot(Prefix(es, m)),
                                      MerkleRoot(es))
=============================================================================
