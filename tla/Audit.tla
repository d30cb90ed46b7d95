------------------------------- MODULE Audit --------------------------------
(***************************************************************************)
(* What is computed from a cycle's ledger: the verdicts of module Merkle,  *)
(* Replay's control graph and the two stuck detectors.  They are pure; the *)
(* machine below grows a ledger entry by entry, lets an auditor keep the   *)
(* root of what it has seen, and lets somebody edit the file afterwards,   *)
(* with or without computing the hashes again.                             *)
(***************************************************************************)
EXTENDS Merkle

CONSTANTS
  EntryOf(_),   \* the ledger entry of a content: type, cycle, agent, to, print
  RecordOf(_),  \* the turn record of a content: role, artifacts, ends, print
  Few,          \* the contents of the ledgers that are audited
  MaxFew,       \* how long those get
  MaxAll,       \* how long the ledgers over all Contents get
  RepeatTurn, RepeatGate, PingPong, Window,  \* the thresholds of cycle.Stuck
  DryWindow, RepeatRecord                    \* and of session.Stuck

ASSUME AuditAssumption ==
  /\ Few \subseteq Contents /\ MaxFew \in Nat /\ MaxAll \in Nat
  /\ {RepeatTurn, RepeatGate, PingPong, Window, DryWindow, RepeatRecord} \subseteq Nat \ {0, 1}

VARIABLES
  entries,    \* the ledger as a reader gets it: content, stamp, prev and hash
  kept,       \* the tree size and the root that the auditor keeps,
  witness,    \* history: the contents it has seen then,
  edited      \* history: whether the file was edited

auditVars == <<entries, kept, witness, edited>>
-----------------------------------------------------------------------------
(* cycle.Stuck.  The turns' fingerprints and stamps, in order. *)
PrintOf(e) == [print |-> EntryOf(e.c).print, at |-> e.at]
Prints(es, type) ==
  LET prints[i \in 0..Len(es)] ==
        IF i = 0 THEN <<>>
        ELSE IF EntryOf(es[i].c).type = type THEN Append(prints[i-1], PrintOf(es[i]))
        ELSE prints[i-1]
  IN  prints[Len(es)]

Count(s, print) == Cardinality({i \in DOMAIN s : s[i].print = print})
Repeated(s, n)  == \E i \in DOMAIN s : Count(s, s[i].print) >= n

(* Mutant of RunLength: a run starts over with one. *)
RunLengthShort(s, i, run) ==
  IF s[i].print = s[i-1].print THEN 1
  ELSE IF i > 2 /\ s[i].print = s[i-2].print THEN run + 1 ELSE 1

(* pingPongStuck's loop: the alternating run that ends at i, given the one   *)
(* that ends before it.                                                      *)
RunLength(s, i, run) ==
  IF s[i].print = s[i-1].print THEN 1
  ELSE IF i > 2 /\ s[i].print = s[i-2].print THEN run + 1 ELSE 2

Runs(s) ==
  LET run[i \in 0..Len(s)] == IF i <= 1 THEN 1 ELSE RunLength(s, i, run[i-1])
  IN  run

pingPongStuck(s) == Len(s) >= PingPong /\ \E i \in 2..Len(s) : Runs(s)[i] >= PingPong

noProgressStuck(es, s) ==
  LET start == Len(s) - Window IN
    /\ start >= 0
    /\ \A i \in (start + 1)..Len(s) : \E j \in 1..start : s[j].print = s[i].print
    /\ \A i \in DOMAIN es : EntryOf(es[i].c).type = "green" => es[i].at < s[start + 1].at

Stuck(es) ==
  LET turns == Prints(es, "turn") IN
    \/ Repeated(turns, RepeatTurn) \/ Repeated(Prints(es, "failed"), RepeatGate)
    \/ pingPongStuck(turns) \/ noProgressStuck(es, turns)
-----------------------------------------------------------------------------
(* session.Stuck.  The loop of DryRounds and detectNoProgress: how many dry  *)
(* records there are at the end, after the artifacts seen.                   *)
Records(es) == [i \in DOMAIN es |-> RecordOf(es[i].c)]
isDry(r, seen) == r.artifacts \subseteq seen /\ ~r.ends

DryStep(at, r) ==
  [seen |-> at.seen \cup r.artifacts, dry |-> IF isDry(r, at.seen) THEN at.dry + 1 ELSE 0]
DryTail(rs) ==
  LET tail[i \in 0..Len(rs)] ==
        IF i = 0 THEN [seen |-> {}, dry |-> 0] ELSE DryStep(tail[i-1], rs[i])
  IN  tail[Len(rs)].dry

(* detectPingPong: a window of two roles in turn, in which every record is   *)
(* dry, what was seen before it not counted.                                 *)
Alternates(rs, s) ==
  /\ rs[s].role # rs[s + 1].role
  /\ \A i \in s..(s + DryWindow - 3) : rs[i].role = rs[i + 2].role
detectPingPong(rs) ==
  \E s \in 1..(Len(rs) - DryWindow + 1) :
    Alternates(rs, s) /\ DryTail(SubSeq(rs, s, s + DryWindow - 1)) = DryWindow

(* The exit condition looks at no fewer records than a window has. *)
SessionStuck(rs) ==
  /\ Len(rs) >= DryWindow
  /\ \/ detectPingPong(rs)
     \/ DryTail(rs) >= DryWindow
     \/ \E i \in DOMAIN rs :
          Cardinality({j \in DOMAIN rs : rs[j].print = rs[i].print}) >= RepeatRecord
-----------------------------------------------------------------------------
(* Replay: the loop of reconstruct, which keeps the last step of each cycle, *)
(* and then the handoffs.                                                    *)
NoGraph == [steps |-> <<>>, cycles |-> <<>>, last |-> [c \in {} |-> 0]]
SlotOf(cycles, id) == {k \in DOMAIN cycles : cycles[k].id = id}

(* Mutant of Linked: the step is linked to the one before it. *)
LinkedAny(g, id) == (DOMAIN g.steps) \cap {Len(g.steps)}

(* The step that the next step of a cycle is linked from. *)
Linked(g, id) == {g.last[c] : c \in (DOMAIN g.last) \cap {id}}

Extend(g, e) ==
  LET i    == Len(g.steps) + 1
      slot == SlotOf(g.cycles, e.cycle)
      from == Linked(g, e.cycle)
  IN  [steps  |-> Append([k \in DOMAIN g.steps |->
                            IF k \in from THEN Append(g.steps[k], [to |-> i, kind |-> "sequence"])
                            ELSE g.steps[k]], <<>>),
       cycles |-> IF slot = {} THEN Append(g.cycles, [id |-> e.cycle, steps |-> <<i>>])
                  ELSE [k \in DOMAIN g.cycles |->
                          IF k \in slot THEN [g.cycles[k] EXCEPT !.steps = Append(@, i)]
                          ELSE g.cycles[k]],
       last   |-> [c \in (DOMAIN g.last) \cup {e.cycle} |-> IF c = e.cycle THEN i ELSE g.last[c]]]

Rebuild(es) ==
  LET graph[i \in 0..Len(es)] ==
        IF i = 0 THEN NoGraph ELSE Extend(graph[i-1], EntryOf(es[i].c))
  IN  graph[Len(es)]

(* The first step after i that the target takes. *)
PickUp(es, i, target) ==
  LET later == {j \in (i+1)..Len(es) : EntryOf(es[j].c).agent = target} IN
    IF later = {} THEN <<>>
    ELSE <<[to |-> CHOOSE j \in later : \A k \in later : j <= k, kind |-> "handoff"]>>

addHandoffEdges(g, es) ==
  [g EXCEPT !.steps = [i \in DOMAIN g.steps |->
     LET e == EntryOf(es[i].c) IN
       IF e.type = "handoff" /\ e.to # "" THEN g.steps[i] \o PickUp(es, i, e.to)
       ELSE g.steps[i]]]

Replay(es) ==
  IF VerifyChain(es) # NoBrokenLink THEN NoGraph
  ELSE addHandoffEdges(Rebuild(es), es)
-----------------------------------------------------------------------------
AuditInit ==
  /\ entries = <<>> /\ kept = [size |-> 0, root |-> EmptyRoot] /\ witness = <<>>
  /\ edited = FALSE

OnlyFew == \A i \in DOMAIN entries : entries[i].c \in Few /\ entries[i].at = 1

(* LedgerFileSync.Append; two entries may have the same stamp. *)
AppendEntry(c, at) ==
  /\ ~edited /\ (entries = <<>> => at = 1)
  /\ \/ Len(entries) < MaxAll /\ kept.size = 0
     \/ Len(entries) < MaxFew /\ OnlyFew /\ c \in Few /\ at = 1
  /\ entries' = Append(entries, Entry(c, at, LastHash(entries)))
  /\ UNCHANGED <<kept, witness, edited>>

(* An auditor notes the root. *)
Keep ==
  /\ entries # <<>> /\ OnlyFew /\ ~edited /\ kept.size = 0
  /\ kept' = [size |-> Len(entries), root |-> MerkleRoot(entries)]
  /\ witness' = Seen(entries)
  /\ UNCHANGED <<entries, edited>>

(* The file is edited: an entry is changed and its hashes are left, *)
Tamper(i, c) ==
  /\ OnlyFew /\ ~edited /\ edited' = TRUE
  /\ entries' = [entries EXCEPT ![i].c = c]
  /\ UNCHANGED <<kept, witness>>

(* or the ledger is written anew from that entry on, *)
Rehashed(es) ==
  LET done[i \in 0..Len(es)] ==
        IF i = 0 THEN <<>>
        ELSE Append(done[i-1], Entry(es[i].c, es[i].at, LastHash(done[i-1])))
  IN  done[Len(es)]

Rewrite(i, c) ==
  /\ OnlyFew /\ ~edited /\ edited' = TRUE
  /\ entries' = Rehashed([entries EXCEPT ![i].c = c])
  /\ UNCHANGED <<kept, witness>>

(* or its end is cut off. *)
Cut(n) ==
  /\ OnlyFew /\ ~edited /\ edited' = TRUE
  /\ entries' = Prefix(entries, n)
  /\ UNCHANGED <<kept, witness>>

AuditNext ==
  \/ \E c \in Contents, at \in {LastAt(entries), LastAt(entries) + 1} : AppendEntry(c, at)
  \/ Keep
  \/ \E i \in DOMAIN entries, c \in Few : Tamper(i, c) \/ Rewrite(i, c)
  \/ \E n \in 0..(Len(entries) - 1) : Cut(n)

AuditSpec == AuditInit /\ [][AuditNext]_auditVars
-----------------------------------------------------------------------------
(* An auditor who kept a root, checks the chain and asks for a consistency   *)
(* proof accepts a ledger exactly if it goes on from what it saw then and    *)
(* every hash is right.  Neither check does that alone: the tree commits to  *)
(* the entries' hashes, not to their contents, and the chain to nothing      *)
(* outside of the file.                                                      *)
AuditCatches ==
  (/\ VerifyChain(entries) = NoBrokenLink
   /\ kept.size <= Len(entries)
   /\ VerifyConsistency(ConsistencyProof(kept.size, entries), kept.root, MerkleRoot(entries)))
  <=>
  (/\ kept.size <= Len(entries) /\ Prefix(Seen(entries), kept.size) = witness
   /\ entries = Rehashed(entries))

(* Proofs verify and mean what they say, at every size and place: the proof  *)
(* of an entry's place verifies for no other entry and no other place, and   *)
(* `cycle verify` fails on nothing but a broken chain or an option out of    *)
(* range.                                                                    *)
ProofsExact ==
  LET n == Len(entries) root == MerkleRoot(entries)
      intact == VerifyChain(entries) = NoBrokenLink
  IN
    /\ \A i \in 0..(n-1) :
         LET proof == InclusionProof(entries, i) IN
           \A j \in 0..(n-1) :
             /\ VerifyInclusion(entries[j+1], proof, root) <=> i = j
             /\ VerifyInclusion(entries[i+1], [proof EXCEPT !.index = j], root) <=> i = j
    /\ \A i \in NotGiven..n : VerifyLedgerEntries(entries, i, NotGiven) <=> i < n /\ intact
    /\ \A m \in 0..(n+1) : VerifyLedgerEntries(entries, NotGiven, m) <=> m <= n /\ intact

(* The stuck detectors' loops find what their comments say: an alternation   *)
(* of two fingerprints of the threshold's length anywhere in the turns; no   *)
(* progress only if no green entry follows the window's first turn; and, in  *)
(* a session, a window at the end without an artifact that was not there     *)
(* before.  A repetition is never forgiven: a ledger that is stuck by one    *)
(* stays stuck, whatever turns green after it.                               *)
Repeats(es) ==
  \/ Repeated(Prints(es, "turn"), RepeatTurn) \/ Repeated(Prints(es, "failed"), RepeatGate)
  \/ pingPongStuck(Prints(es, "turn"))
TurnsIn(es) == {i \in DOMAIN es : EntryOf(es[i].c).type = "turn"}
StuckExact ==
  LET s == Prints(entries, "turn") rs == Records(entries) IN
    /\ \A k \in DOMAIN entries : Repeats(Prefix(entries, k)) => Stuck(entries)
    /\ noProgressStuck(entries, s) =>
         \A i \in TurnsIn(entries), g \in DOMAIN entries :
           EntryOf(entries[g].c).type = "green" /\ i < g =>
             Cardinality({j \in TurnsIn(entries) : j >= i}) > Window
    /\ pingPongStuck(s) <=>
         \E i \in 1..(Len(s) - PingPong + 1) :
           /\ s[i].print # s[i+1].print
           /\ \A j \in i..(i + PingPong - 3) : s[j].print = s[j+2].print
    /\ DryTail(rs) >= DryWindow <=>
         /\ Len(rs) >= DryWindow
         /\ \A i \in (Len(rs) - DryWindow + 1)..Len(rs) :
              ~rs[i].ends /\ rs[i].artifacts \subseteq UNION {rs[j].artifacts : j \in 1..(i-1)}

(* Replay's graph is the run: the sequence edges of a cycle lead from its    *)
(* first step to its last through every one of them, every cycle is listed   *)
(* with its steps, in the order in which cycles appear, and a handoff leads  *)
(* to the first later step of its target.                                    *)
StepsOf(id) == {i \in DOMAIN entries : EntryOf(entries[i].c).cycle = id}
ReplayFaithful ==
  VerifyChain(entries) = NoBrokenLink =>
    LET g == Replay(entries)
        Edges(kind) == {p \in (DOMAIN entries) \X (DOMAIN entries) :
                          \E k \in DOMAIN g.steps[p[1]] : g.steps[p[1]][k] = [to |-> p[2], kind |-> kind]}
    IN  /\ Len(g.steps) = Len(entries)
        /\ Edges("sequence") =
             {p \in (DOMAIN entries) \X (DOMAIN entries) :
                \E id \in {EntryOf(c).cycle : c \in Contents} :
                  /\ p[1] \in StepsOf(id) /\ p[2] \in StepsOf(id) /\ p[1] < p[2]
                  /\ \A k \in StepsOf(id) : k <= p[1] \/ k >= p[2]}
        /\ Edges("handoff") =
             {p \in (DOMAIN entries) \X (DOMAIN entries) :
                LET e == EntryOf(entries[p[1]].c) IN
                  /\ e.type = "handoff" /\ e.to # "" /\ p[1] < p[2]
                  /\ EntryOf(entries[p[2]].c).agent = e.to
                  /\ \A k \in (p[1]+1)..(p[2]-1) : EntryOf(entries[k].c).agent # e.to}
        /\ {g.cycles[k].id : k \in DOMAIN g.cycles} =
             {EntryOf(entries[i].c).cycle : i \in DOMAIN entries}
        /\ \A k \in DOMAIN g.cycles :
             /\ {g.cycles[k].steps[i] : i \in DOMAIN g.cycles[k].steps} = StepsOf(g.cycles[k].id)
             /\ \A l \in DOMAIN g.cycles : k < l =>
                  g.cycles[k].steps[1] < g.cycles[l].steps[1]
=============================================================================
