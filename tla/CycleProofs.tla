---------------------------- MODULE CycleProofs ----------------------------
(***************************************************************************)
(* Proofs about autonomous cycles, for any number of handlers and passes,  *)
(* any limits, and with failing writes and dying processes.                *)
(***************************************************************************)
EXTENDS Cycle, FiniteSetTheorems, TLAPS

(* Appending an entry that is neither a halt nor green changes no seal. *)
LEMMA PlainEntry ==
  ASSUME NEW l \in Seq(Events), NEW e \in Events, e \notin {"halted", "green"}
  PROVE  LedgerSealsResume(Append(l, e)) <=> LedgerSealsResume(l)
<1> DEFINE m == Append(l, e)
<1>1. /\ m \in Seq(Events) /\ Len(m) = Len(l) + 1 /\ Len(l) \in Nat
      /\ \A i \in 1..Len(l) : m[i] = l[i]
      /\ m[Len(l) + 1] = e
  OBVIOUS
<1>2. ASSUME LedgerSealsResume(m) PROVE LedgerSealsResume(l)
  <2>1. PICK i \in 1..Len(m) : m[i] = "halted"
                               /\ \A j \in i..Len(m) : m[j] # "green"
    BY <1>2 DEF LedgerSealsResume
  <2>2. i \in 1..Len(l)
    BY <1>1, <2>1
  <2>3. l[i] = "halted" /\ \A j \in i..Len(l) : l[j] # "green"
    BY <1>1, <2>1, <2>2
  <2> QED BY <2>2, <2>3 DEF LedgerSealsResume
<1>3. ASSUME LedgerSealsResume(l) PROVE LedgerSealsResume(m)
  <2>1. PICK i \in 1..Len(l) : l[i] = "halted"
                               /\ \A j \in i..Len(l) : l[j] # "green"
    BY <1>3 DEF LedgerSealsResume
  <2>2. i \in 1..Len(m) /\ m[i] = "halted"
    BY <1>1, <2>1
  <2>3. \A j \in i..Len(m) : m[j] # "green"
    BY <1>1, <2>1
  <2> QED BY <2>2, <2>3 DEF LedgerSealsResume
<1> QED BY <1>2, <1>3

(* Appending cycle_halted seals. *)
LEMMA HaltEntry ==
  ASSUME NEW l \in Seq(Events)
  PROVE  LedgerSealsResume(Append(l, "halted"))
<1> DEFINE m == Append(l, "halted")
<1>1. Len(m) = Len(l) + 1 /\ Len(l) \in Nat /\ m[Len(l) + 1] = "halted"
  OBVIOUS
<1>2. /\ Len(m) \in 1..Len(m) /\ m[Len(m)] = "halted"
      /\ \A j \in Len(m)..Len(m) : m[j] # "green"
  BY <1>1
<1> QED BY <1>2 DEF LedgerSealsResume

(* Appending validation_green lifts. *)
LEMMA GreenEntry ==
  ASSUME NEW l \in Seq(Events)
  PROVE  ~LedgerSealsResume(Append(l, "green"))
<1> DEFINE m == Append(l, "green")
<1>1. /\ Len(m) = Len(l) + 1 /\ Len(l) \in Nat /\ m[Len(l) + 1] = "green"
  OBVIOUS
<1>2. \A i \in 1..Len(m) : Len(m) \in i..Len(m) /\ m[Len(m)] = "green"
  BY <1>1
<1> QED BY <1>2 DEF LedgerSealsResume

(* What is ever appended, as appends of single entries. *)
LEMMA Appends ==
  ASSUME NEW l \in Seq(Events)
  PROVE  /\ l \o <<"halted">> = Append(l, "halted")
         /\ l \o <<"failed">> = Append(l, "failed")
         /\ l \o <<"green", "completed">> = Append(Append(l, "green"), "completed")
         /\ \A e \in Events : Append(l, e) \in Seq(Events)
  BY DEF Events

(* So: green and completed lift the seal, the others leave it or set it. *)
LEMMA SealSteps ==
  ASSUME NEW l \in Seq(Events)
  PROVE  /\ LedgerSealsResume(l \o <<"halted">>)
         /\ LedgerSealsResume(Append(l, "halted"))
         /\ LedgerSealsResume(l \o <<"failed">>) <=> LedgerSealsResume(l)
         /\ LedgerSealsResume(Append(l, "turn")) <=> LedgerSealsResume(l)
         /\ ~LedgerSealsResume(l \o <<"green", "completed">>)
<1>1. /\ Append(l, "green") \in Seq(Events)
      /\ {"green", "completed", "failed", "turn"} \subseteq Events
  BY Appends DEF Events
<1>2. ~LedgerSealsResume(Append(Append(l, "green"), "completed"))
  BY <1>1, PlainEntry, GreenEntry
<1>3. /\ LedgerSealsResume(Append(l, "failed")) <=> LedgerSealsResume(l)
      /\ LedgerSealsResume(Append(l, "turn")) <=> LedgerSealsResume(l)
  BY <1>1, PlainEntry
<1> QED BY <1>2, <1>3, HaltEntry, Appends
-----------------------------------------------------------------------------
(* The places of each kind of process, spelt out. *)
LEMMA StepperPlaces ==
  ASSUME NEW p \in Steppers, NEW l
  PROVE  /\ p \in Procs /\ p \notin Runners
         /\ <<p, l>> \in Places <=> l \in {"idle", "get", "guard"} \cup StepLabels
         /\ <<p, l>> \in Holding <=> l \in {"guard"} \cup StepLabels
         /\ <<p, l>> \in Inside <=> l \in StepLabels
  BY CycleAssumption DEF Procs, Runners, Places, Holding, Inside, StepLabels,
     RunOnceLabels

LEMMA HalterPlaces ==
  ASSUME NEW p \in Halters, NEW l
  PROVE  /\ p \in Procs /\ p \notin Runners
         /\ <<p, l>> \in Places <=> l \in {"idle"} \cup HaltLabels
         /\ <<p, l>> \in Holding <=> l \in HaltLabels
         /\ <<p, l>> \notin Inside
  BY CycleAssumption DEF Procs, Runners, Places, Holding, Inside, StepLabels,
     HaltLabels, RunOnceLabels

LEMMA OrchPlaces ==
  ASSUME NEW p \in Orchs, NEW l
  PROVE  /\ p \in Procs /\ p \in Runners /\ p \notin Steppers \cup Halters
         /\ <<p, l>> \in Places <=>
              l \in {"idle", "sync", "guard", "flag", "enter", "read", "sleep"}
                    \cup RunOnceLabels
         /\ <<p, l>> \in Holding <=> l \in RunOnceLabels
         /\ <<p, l>> \in Places =>
              (<<p, l>> \in Inside <=> l \in {"read", "sleep"} \cup RunOnceLabels)
  BY CycleAssumption DEF Procs, Runners, Places, Holding, Inside, StepLabels,
     RunOnceLabels

LEMMA PassPlaces ==
  ASSUME NEW p \in Passes, NEW l
  PROVE  /\ p \in Procs /\ p \in Runners /\ p \notin Orchs
         /\ p \notin Steppers \cup Halters /\ p \notin Daemon
         /\ <<p, l>> \in Places <=>
              l \in {"idle", "guard", "bare", "sealing"} \cup RunOnceLabels
         /\ <<p, l>> \in Holding <=>
              l \in {"guard", "bare", "sealing"} \cup RunOnceLabels
         /\ <<p, l>> \in Places =>
              (<<p, l>> \in Inside <=> l \in {"bare", "sealing"} \cup RunOnceLabels)
  BY CycleAssumption DEF Procs, Runners, Daemon, Places, Holding, Inside,
     StepLabels, RunOnceLabels

(* The states the operations make are states, of the same cycle. *)
LEMMA StatesClosed ==
  ASSUME NEW s \in States, NEW t \in Nat
  PROVE  /\ HaltState(s, t) \in States /\ HaltState(s, t).id = s.id
         /\ CompleteCycle(s, t) \in States /\ CompleteCycle(s, t).id = s.id
         /\ [s EXCEPT !.goal = TRUE] \in States
         /\ [s EXCEPT !.goal = TRUE].id = s.id
         /\ [s EXCEPT !.goal = TRUE, !.at = t] \in States
         /\ s # NoState
<1>1. /\ s.id \in BOOLEAN /\ s.halted \in BOOLEAN /\ s.completed \in Nat
      /\ s.goal \in BOOLEAN
      /\ s = [id |-> s.id, halted |-> s.halted, completed |-> s.completed,
              goal |-> s.goal, at |-> s.at]
  BY DEF States
<1>2. HaltState(s, t) \in States /\ HaltState(s, t).id = s.id
  BY <1>1 DEF States, HaltState
<1>3. CompleteCycle(s, t) \in States /\ CompleteCycle(s, t).id = s.id
  <2>1. CASE s.halted
    BY <1>1, <2>1 DEF States, CompleteCycle
  <2>2. CASE ~s.halted
    <3>1. s.completed + 1 \in Nat
      BY <1>1
    <3>2. CompleteCycle(s, t) =
            [s EXCEPT !.completed = s.completed + 1, !.goal = FALSE, !.at = t]
      BY <2>2 DEF CompleteCycle
    <3> QED BY <1>1, <3>1, <3>2 DEF States
  <2> QED BY <2>1, <2>2
<1>4. /\ [s EXCEPT !.goal = TRUE] \in States
      /\ [s EXCEPT !.goal = TRUE].id = s.id
      /\ [s EXCEPT !.goal = TRUE, !.at = t] \in States
  BY <1>1 DEF States
<1> QED BY <1>2, <1>3, <1>4, CycleAssumption

LEMMA ZeroState == Zero \in States /\ NewState \in States /\ NewState.id
  BY DEF Zero, NewState, States

(* A process that goes to a place where it may be, with what it needs there, *)
(* leaves all in order.                                                      *)
LEMMA Moved ==
  ASSUME ProcsOK, NEW p \in Procs, NEW l, NEW s \in States \cup {NoState},
         With(p, l, s), <<p, l>> \in Places,
         <<p, l>> \in Holding =>
           s \in States /\ (p \in Steppers \cup Halters => s.id)
  PROVE  ProcsOK'
<1>1. /\ pc' = [q \in Procs |-> IF q = p THEN l ELSE pc[q]]
      /\ st' = [q \in Procs |-> IF q = p THEN s ELSE st[q]]
  BY DEF With, ProcsOK
<1>2. pc' = [q \in Procs |-> pc'[q]] /\ st' \in [Procs -> States \cup {NoState}]
  BY <1>1 DEF ProcsOK
<1>3. ASSUME NEW q \in Procs
      PROVE  /\ At(q)' \in Places
             /\ At(q)' \in Holding => st'[q] \in States
             /\ At(q)' \in Holding /\ q \in Steppers \cup Halters => st'[q].id
  <2>1. CASE q = p
    BY <1>1, <2>1 DEF At
  <2>2. CASE q # p
    <3>1. At(q)' = At(q) /\ st'[q] = st[q]
      BY <1>1, <2>2 DEF At
    <3> QED BY <3>1 DEF ProcsOK
  <2> QED BY <2>1, <2>2
<1>4. Places' = Places /\ Holding' = Holding
  BY DEF Places, Holding
<1> QED BY <1>2, <1>3, <1>4 DEF ProcsOK

LEMMA MovedOn ==
  ASSUME ProcsOK, NEW p \in Procs, NEW l, Goto(p, l), <<p, l>> \in Places,
         <<p, l>> \in Holding => At(p) \in Holding
  PROVE  ProcsOK'
<1>1. st[p] \in States \cup {NoState} /\ With(p, l, st[p])
  BY DEF ProcsOK, Goto, With
<1>2. <<p, l>> \in Holding =>
        st[p] \in States /\ (p \in Steppers \cup Halters => st[p].id)
  BY DEF ProcsOK
<1> QED BY <1>1, <1>2, Moved

LEMMA MovedHome ==
  ASSUME ProcsOK, NEW p \in Procs, Ended(p)
  PROVE  ProcsOK'
<1>1. <<p, "idle">> \in Places /\ <<p, "idle">> \notin Holding
  BY DEF Procs, Places, Holding
<1> QED BY <1>1, Moved DEF Ended

LEMMA Stayed == ASSUME ProcsOK, UNCHANGED <<pc, st>> PROVE ProcsOK'
  BY DEF ProcsOK, At, Places, Holding
-----------------------------------------------------------------------------
(* What get finds, and what it and refreshFromFile leave in the cache. *)
LEMMA Cached ==
  ASSUME FilesOK
  PROVE  /\ Found \in {s \in States : s.id} \cup {NoState}
         /\ Get \/ Refresh => /\ cache' \in {s \in States : s.id} \cup {NoState}
                             /\ synced' \in BOOLEAN
<1>1. Found \in {s \in States : s.id} \cup {NoState}
  BY DEF FilesOK, Found
<1>2. ASSUME Get PROVE cache' \in {s \in States : s.id} \cup {NoState}
  BY <1>1, <1>2 DEF Get
<1>3. ASSUME Refresh PROVE cache' \in {s \in States : s.id} \cup {NoState}
  BY <1>3 DEF FilesOK, Refresh
<1>4. ASSUME Get \/ Refresh PROVE synced' \in BOOLEAN
  BY <1>4 DEF FilesOK, Get, Refresh
<1> QED BY <1>1, <1>2, <1>3, <1>4

LEMMA Recorded ==
  ASSUME ledger \in Seq(Events), NEW es \in Seq(Events), Logged(es)
  PROVE  ledger' \in Seq(Events)
<1>1. ledger \o es \in Seq(Events)
  OBVIOUS
<1>2. CASE ledger' = ledger \o es
  BY <1>1, <1>2
<1>3. CASE UNCHANGED ledger
  BY <1>3
<1> QED BY <1>2, <1>3 DEF Logged

LEMMA Stamps == ASSUME clock \in Nat, NEW t \in Times PROVE t \in Nat
  BY CycleAssumption DEF Times

(* The gates leave the process with a state, in one of two places. *)
LEMMA Executed ==
  ASSUME TypeOK, NEW p \in Procs, At(p) \in Holding, NEW l, NEW m,
         Execute(p, l, m), <<p, l>> \in Places, <<p, m>> \in Places
  PROVE  ProcsOK' /\ clock' \in Nat
<1>1. PICK t \in Times :
        /\ clock' = t
        /\ \/ With(p, l, CompleteCycle(st[p], t))
           \/ With(p, m, HaltState(st[p], t))
  BY DEF Execute
<1>2. /\ t \in Nat /\ st[p] \in States
      /\ p \in Steppers \cup Halters => st[p].id
  BY Stamps DEF TypeOK, FilesOK, ProcsOK
<1>3. /\ CompleteCycle(st[p], t) \in States /\ HaltState(st[p], t) \in States
      /\ p \in Steppers \cup Halters =>
           CompleteCycle(st[p], t).id /\ HaltState(st[p], t).id
  BY <1>2, StatesClosed
<1>4. CASE With(p, l, CompleteCycle(st[p], t))
  BY <1>1, <1>2, <1>3, <1>4, Moved DEF TypeOK
<1>5. CASE With(p, m, HaltState(st[p], t))
  BY <1>1, <1>2, <1>3, <1>5, Moved DEF TypeOK
<1> QED BY <1>1, <1>4, <1>5

LEMMA StepTypes ==
  ASSUME TypeOK, NEW p \in Steppers, Step(p)
  PROVE  TypeOK'
<1> USE DEF TypeOK
<1>1. /\ p \in Procs
      /\ \A l : /\ <<p, l>> \in Places <=> l \in {"idle", "get", "guard"} \cup StepLabels
               /\ <<p, l>> \in Holding <=> l \in {"guard"} \cup StepLabels
  BY StepperPlaces
<1>2. At(p) \in Holding => st[p] \in States /\ st[p].id
  BY <1>1 DEF ProcsOK
<1>3. CASE StepRefresh(p)
  <2>1. FilesOK'
    BY <1>3, Cached DEF StepRefresh, FilesOK
  <2>2. ProcsOK'
    <3>1. <<p, "get">> \in Places /\ <<p, "get">> \notin Holding
      BY StepperPlaces DEF StepLabels
    <3> QED BY <1>1, <1>3, <3>1, MovedOn DEF StepRefresh
  <2> QED BY <2>1, <2>2
<1>4. CASE StepGet(p)
  <2>1. FilesOK'
    BY <1>4, Cached DEF StepGet, FilesOK
  <2>2. CASE Found = NoState
    BY <1>1, <1>4, <2>1, <2>2, MovedHome DEF StepGet
  <2>3. CASE Found # NoState
    <3>1. With(p, "guard", Found) /\ Found \in States /\ Found.id
      BY <1>4, <2>3, Cached DEF StepGet
    <3> QED BY <1>1, <2>1, <3>1, Moved
  <2> QED BY <2>2, <2>3
<1>5. CASE StepGuard(p)
  <2>1. FilesOK'
    BY <1>5 DEF StepGuard, FilesOK, store
  <2>2. At(p) \in Holding
    BY <1>1, <1>5 DEF StepGuard, At
  <2>3. CASE Ended(p)
    BY <1>1, <2>1, <2>3, MovedHome
  <2>4. CASE With(p, "run", [st[p] EXCEPT !.goal = TRUE])
    <3>1. [st[p] EXCEPT !.goal = TRUE] \in States /\ [st[p] EXCEPT !.goal = TRUE].id
      BY <1>2, <2>2, StatesClosed
    <3> QED BY <1>1, <2>1, <2>4, <3>1, Moved DEF StepLabels
  <2>5. CASE Goto(p, "run")
    BY <1>1, <2>1, <2>2, <2>5, MovedOn DEF StepLabels
  <2> QED BY <1>5, <2>3, <2>4, <2>5 DEF StepGuard
<1>6. CASE StepPipeline(p)
  <2>1. At(p) \in Holding
    BY <1>1, <1>6 DEF StepPipeline, At, StepLabels
  <2>2. ProcsOK' /\ clock' \in Nat
    BY <1>1, <1>6, <2>1, Executed DEF StepPipeline, StepLabels
  <2>3. FilesOK'
    BY <1>6, <2>2 DEF StepPipeline, FilesOK, store
  <2> QED BY <2>2, <2>3
<1>7. CASE StepRecord(p)
  <2>1. ledger' \in Seq(Events)
    <3>1. <<"green", "completed">> \in Seq(Events) /\ <<"failed">> \in Seq(Events)
      BY DEF Events
    <3> QED BY <1>7, <3>1, Recorded DEF StepRecord, FilesOK
  <2>2. FilesOK'
    BY <1>7, <2>1 DEF StepRecord, FilesOK, store
  <2>3. ProcsOK'
    BY <1>1, <1>7, MovedOn DEF StepRecord, StepLabels, At
  <2> QED BY <2>2, <2>3
<1>8. CASE StepSync(p)
  <2>1. FilesOK'
    BY <1>8 DEF StepSync, FilesOK, store
  <2>2. At(p) \in Holding
    BY <1>1, <1>8 DEF StepSync, At, StepLabels
  <2>3. ProcsOK'
    BY <1>1, <1>8, <2>2, MovedOn DEF StepSync, StepLabels
  <2> QED BY <2>1, <2>3
<1>9. CASE StepWrite(p)
  <2>1. At(p) \in Holding
    BY <1>1, <1>9 DEF StepWrite, At, StepLabels
  <2>2. FilesOK'
    BY <1>2, <1>9, <2>1 DEF StepWrite, Written, FilesOK, store
  <2>3. ProcsOK'
    BY <1>1, <1>9, <2>1, MovedOn DEF StepWrite, StepLabels
  <2> QED BY <2>2, <2>3
<1>10. CASE StepPut(p)
  <2>1. At(p) \in Holding
    BY <1>1, <1>10 DEF StepPut, At, StepLabels
  <2>2. FilesOK'
    BY <1>2, <1>10, <2>1 DEF StepPut, FilesOK
  <2>3. ProcsOK'
    BY <1>1, <1>10, MovedHome DEF StepPut
  <2> QED BY <2>2, <2>3
<1> QED BY <1>3, <1>4, <1>5, <1>6, <1>7, <1>8, <1>9, <1>10 DEF Step

LEMMA HaltTypes ==
  ASSUME TypeOK, NEW p \in Halters, HaltStep(p)
  PROVE  TypeOK'
<1> USE DEF TypeOK
<1>1. /\ p \in Procs
      /\ \A l \in {"sync", "write", "remove", "seal", "put", "close"} :
           <<p, l>> \in Places /\ <<p, l>> \in Holding
  BY HalterPlaces DEF HaltLabels
<1>2. At(p) \in Holding => st[p] \in States /\ st[p].id
  BY <1>1 DEF ProcsOK
<1>3. CASE HaltGet(p)
  <2>1. PICK t \in Times : clock' = t /\ With(p, "sync", HaltState(Found, t))
    BY <1>3 DEF HaltGet
  <2>2. t \in Nat /\ Found \in States /\ Found.id
    BY <1>3, Cached, Stamps DEF HaltGet, FilesOK
  <2>3. HaltState(Found, t) \in States /\ HaltState(Found, t).id
    BY <2>2, StatesClosed
  <2>4. FilesOK'
    BY <1>3, <2>1, <2>2, Cached DEF HaltGet, FilesOK
  <2>5. ProcsOK'
    BY <1>1, <2>1, <2>3, Moved
  <2> QED BY <2>4, <2>5
<1>4. CASE HaltSync(p)
  <2>1. FilesOK'
    BY <1>4 DEF HaltSync, FilesOK, store
  <2>2. ProcsOK'
    BY <1>1, <1>4, MovedOn DEF HaltSync, At
  <2> QED BY <2>1, <2>2
<1>5. CASE HaltWrite(p)
  <2>1. At(p) \in Holding
    BY <1>1, <1>5 DEF HaltWrite, At
  <2>2. FilesOK'
    BY <1>2, <1>5, <2>1 DEF HaltWrite, Written, FilesOK, store
  <2>3. ProcsOK'
    BY <1>1, <1>5, <2>1, MovedOn DEF HaltWrite
  <2> QED BY <2>2, <2>3
<1>6. CASE HaltRemove(p)
  <2>1. FilesOK'
    BY <1>6 DEF HaltRemove, Written, FilesOK, store
  <2>2. ProcsOK'
    BY <1>1, <1>6, MovedOn DEF HaltRemove, At
  <2> QED BY <2>1, <2>2
<1>7. CASE HaltSeal(p)
  <2>1. ledger' \in Seq(Events)
    <3>1. <<"halted">> \in Seq(Events)
      BY DEF Events
    <3> QED BY <1>7, <3>1, Recorded DEF HaltSeal, FilesOK
  <2>2. FilesOK'
    BY <1>7, <2>1 DEF HaltSeal, FilesOK, store
  <2>3. ProcsOK'
    BY <1>1, <1>7, MovedOn DEF HaltSeal, At
  <2> QED BY <2>2, <2>3
<1>8. CASE HaltPut(p)
  <2>1. At(p) \in Holding
    BY <1>1, <1>8 DEF HaltPut, At
  <2>2. FilesOK'
    BY <1>2, <1>8, <2>1 DEF HaltPut, FilesOK
  <2>3. ProcsOK'
    BY <1>1, <1>8, <2>1, MovedOn DEF HaltPut
  <2> QED BY <2>2, <2>3
<1>9. CASE HaltClose(p)
  <2>1. FilesOK'
    BY <1>9 DEF HaltClose, FilesOK
  <2>2. ProcsOK'
    BY <1>1, <1>9, MovedHome DEF HaltClose
  <2> QED BY <2>1, <2>2
<1> QED BY <1>3, <1>4, <1>5, <1>6, <1>7, <1>8, <1>9 DEF HaltStep

(* The goroutine and the pass share the places of RunOnce. *)
LEMMA RunnerPlaces ==
  ASSUME NEW p \in Runners
  PROVE  /\ p \in Procs /\ p \notin Steppers \cup Halters
         /\ p \in Orchs \/ p \in Passes
         /\ \A l \in RunOnceLabels : /\ <<p, l>> \in Places
                                     /\ <<p, l>> \in Holding
                                     /\ <<p, l>> \in Inside
<1>1. CASE p \in Orchs
  BY <1>1, OrchPlaces
<1>2. CASE p \in Passes
  BY <1>2, PassPlaces
<1> QED BY <1>1, <1>2 DEF Runners

LEMMA RunnerEnds ==
  ASSUME TypeOK, NEW p \in Procs, RunEnds(p)
  PROVE  ProcsOK' /\ orchestrating' \in BOOLEAN
  BY MovedHome DEF RunEnds, TypeOK, FilesOK

LEMMA OrchTypes ==
  ASSUME TypeOK, NEW p \in Orchs, OrchStep(p)
  PROVE  TypeOK'
<1> USE DEF TypeOK
<1>1. /\ p \in Procs /\ p \notin Steppers \cup Halters
      /\ \A l \in {"idle", "sync", "guard", "flag", "enter", "read", "sleep"} :
           <<p, l>> \in Places /\ <<p, l>> \notin Holding
      /\ <<p, "check">> \in Places
  BY OrchPlaces DEF RunOnceLabels
<1>2. CASE OrchGet(p)
  <2>1. FilesOK'
    BY <1>2, Cached DEF OrchGet, FilesOK
  <2>2. ProcsOK'
    BY <1>1, <1>2, MovedOn DEF OrchGet
  <2> QED BY <2>1, <2>2
<1>3. CASE OrchSync(p)
  <2>1. FilesOK'
    BY <1>3 DEF OrchSync, FilesOK
  <2>2. ProcsOK'
    BY <1>1, <1>3, MovedOn DEF OrchSync
  <2> QED BY <2>1, <2>2
<1>4. CASE OrchGuard(p)
  <2>1. FilesOK'
    BY <1>4 DEF OrchGuard, FilesOK, store
  <2>2. ProcsOK'
    BY <1>1, <1>4, MovedOn, MovedHome DEF OrchGuard
  <2> QED BY <2>1, <2>2
<1>5. CASE OrchFlag(p)
  <2>1. FilesOK'
    BY <1>5 DEF OrchFlag, FilesOK
  <2>2. ProcsOK'
    BY <1>1, <1>5, MovedOn, MovedHome DEF OrchFlag
  <2> QED BY <2>1, <2>2
<1>6. CASE RunGuard(p)
  <2>1. ProcsOK' /\ orchestrating' \in BOOLEAN
    BY <1>1, <1>6, MovedOn, RunnerEnds DEF RunGuard, FilesOK
  <2>2. FilesOK'
    BY <1>6, <2>1 DEF RunGuard, FilesOK
  <2> QED BY <2>1, <2>2
<1>7. CASE RunRead(p)
  <2> DEFINE s == IF file = NoState THEN Zero ELSE file
  <2>1. s \in States
    BY ZeroState DEF FilesOK
  <2>2. RunEnds(p) \/ (With(p, "check", s) /\ UNCHANGED orchestrating)
    BY <1>7 DEF RunRead
  <2> HIDE DEF s
  <2>3. ProcsOK' /\ orchestrating' \in BOOLEAN
    BY <1>1, <2>1, <2>2, Moved, RunnerEnds DEF FilesOK
  <2>4. FilesOK'
    BY <1>7, <2>3 DEF RunRead, FilesOK
  <2> QED BY <2>3, <2>4
<1> QED BY <1>2, <1>3, <1>4, <1>5, <1>6, <1>7 DEF OrchStep

LEMMA PassTypes ==
  ASSUME TypeOK, NEW p \in Passes, PassStep(p)
  PROVE  TypeOK'
<1> USE DEF TypeOK
<1>1. /\ p \in Procs /\ p \notin Steppers \cup Halters
      /\ \A l \in {"idle", "guard", "bare", "sealing"} \cup RunOnceLabels :
           <<p, l>> \in Places
      /\ <<p, "guard">> \in Holding /\ <<p, "sealing">> \in Holding
  BY PassPlaces
<1>2. CASE PassRead(p)
  <2>1. FilesOK'
    BY <1>2 DEF PassRead, FilesOK, store
  <2>2. ProcsOK'
    BY <1>1, <1>2, Moved DEF PassRead, FilesOK
  <2> QED BY <2>1, <2>2
<1>3. CASE PassGuard(p)
  <2>1. st[p] \in States
    BY <1>1, <1>3 DEF PassGuard, ProcsOK, At
  <2>2. CASE Ended(p) /\ UNCHANGED clock
    <3>1. FilesOK'
      BY <1>3, <2>2 DEF PassGuard, FilesOK, store
    <3> QED BY <1>1, <2>2, <3>1, MovedHome
  <2>3. ASSUME NEW s \in {st[p], [st[p] EXCEPT !.goal = TRUE]},
               PassAgents(p, s) \/ PassBare(p, s)
        PROVE  TypeOK'
    <3>1. s \in States
      BY <2>1, <2>3, StatesClosed
    <3>2. CASE UNCHANGED clock /\ With(p, "check", s)
      <4>1. FilesOK'
        BY <1>3, <3>2 DEF PassGuard, FilesOK, store
      <4>2. <<p, "check">> \in Places
        BY <1>1 DEF RunOnceLabels
      <4> QED BY <1>1, <3>1, <3>2, <4>1, <4>2, Moved
    <3>3. CASE UNCHANGED clock /\ With(p, "bare", s)
      <4>1. FilesOK'
        BY <1>3, <3>3 DEF PassGuard, FilesOK, store
      <4> QED BY <1>1, <3>1, <3>3, <4>1, Moved
    <3>4. CASE UNCHANGED clock /\ Ended(p)
      BY <2>2, <3>4
    <3>5. CASE \E t \in Times : clock' = t /\ With(p, "sealing", HaltState(s, t))
      <4>1. PICK t \in Times : clock' = t /\ With(p, "sealing", HaltState(s, t))
        BY <3>5
      <4>2. t \in Nat /\ HaltState(s, t) \in States
        BY <3>1, Stamps, StatesClosed DEF FilesOK
      <4>3. FilesOK'
        BY <1>3, <4>1, <4>2 DEF PassGuard, FilesOK, store
      <4> QED BY <1>1, <4>1, <4>2, <4>3, Moved
    <3> QED BY <2>3, <3>2, <3>3, <3>4, <3>5 DEF PassAgents, PassBare
  <2> QED BY <1>3, <2>2, <2>3 DEF PassGuard
<1>4. CASE PassSealing(p)
  <2>1. ledger' \in Seq(Events)
    BY <1>4 DEF PassSealing, FilesOK, Events
  <2>2. FilesOK'
    BY <1>4, <2>1 DEF PassSealing, FilesOK, store
  <2>3. <<p, "save">> \in Places
    BY <1>1 DEF RunOnceLabels
  <2>4. ProcsOK'
    BY <1>1, <1>4, <2>3, MovedOn, MovedHome DEF PassSealing, At
  <2> QED BY <2>2, <2>4
<1>5. CASE PassDies(p)
  <2>1. FilesOK'
    BY <1>5 DEF PassDies, FilesOK, store
  <2>2. ProcsOK'
    BY <1>1, <1>5, MovedHome DEF PassDies
  <2> QED BY <2>1, <2>2
<1> QED BY <1>2, <1>3, <1>4, <1>5 DEF PassStep

LEMMA RunTypes ==
  ASSUME TypeOK, NEW p \in Runners, RunOnce(p)
  PROVE  TypeOK'
<1> USE DEF TypeOK
<1>1. /\ p \in Procs /\ p \notin Steppers \cup Halters
      /\ \A l \in {"check", "turn", "step", "green", "halting", "save"} :
           /\ <<p, l>> \in Places /\ <<p, l>> \in Holding
           /\ pc[p] = l => st[p] \in States
  BY RunnerPlaces DEF RunOnceLabels, ProcsOK, At
<1>2. ASSUME NEW t \in Times, st[p] \in States
      PROVE  /\ t \in Nat /\ HaltState(st[p], t) \in States
             /\ [st[p] EXCEPT !.goal = TRUE, !.at = t] \in States
  BY <1>2, Stamps, StatesClosed DEF FilesOK
<1>3. CASE RunCheck(p)
  <2>1. CASE RunEnds(p) /\ UNCHANGED clock
    BY <1>1, <1>3, <2>1, RunnerEnds DEF RunCheck, FilesOK
  <2>2. CASE UNCHANGED <<orchestrating, clock>> /\ Goto(p, "turn")
    <3>1. FilesOK'
      BY <1>3, <2>2 DEF RunCheck, FilesOK
    <3>2. At(p) \in Holding
      BY <1>1, <1>3 DEF RunCheck, At
    <3> QED BY <1>1, <2>2, <3>1, <3>2, MovedOn
  <2>3. CASE /\ UNCHANGED orchestrating
             /\ \E t \in Times : clock' = t /\ With(p, "halting", HaltState(st[p], t))
    <3>1. PICK t \in Times : clock' = t /\ With(p, "halting", HaltState(st[p], t))
      BY <2>3
    <3>2. t \in Nat /\ HaltState(st[p], t) \in States
      BY <1>1, <1>2, <1>3 DEF RunCheck
    <3>3. FilesOK'
      BY <1>3, <2>3, <3>1, <3>2 DEF RunCheck, FilesOK
    <3> QED BY <1>1, <3>1, <3>2, <3>3, Moved
  <2> QED BY <1>3, <2>1, <2>2, <2>3 DEF RunCheck
<1>4. CASE RunTurn(p)
  <2>1. ledger' \in Seq(Events)
    BY <1>4 DEF RunTurn, FilesOK, Events
  <2>2. CASE RunEnds(p) /\ clock' \in Nat
    BY <1>1, <1>4, <2>1, <2>2, RunnerEnds DEF RunTurn, FilesOK
  <2>3. CASE ApplyResponse(p)
    <3>1. PICK t \in Times :
            /\ clock' = t
            /\ \/ With(p, "halting", HaltState(st[p], t)) /\ UNCHANGED orchestrating
               \/ /\ With(p, "step", [st[p] EXCEPT !.goal = TRUE, !.at = t])
                  /\ UNCHANGED orchestrating
               \/ RunEnds(p)
      BY <2>3 DEF ApplyResponse
    <3>2. /\ t \in Nat /\ HaltState(st[p], t) \in States
          /\ [st[p] EXCEPT !.goal = TRUE, !.at = t] \in States
      BY <1>1, <1>2, <1>4 DEF RunTurn
    <3>3. CASE RunEnds(p)
      BY <2>2, <3>1, <3>2, <3>3
    <3>4. CASE UNCHANGED orchestrating /\ With(p, "halting", HaltState(st[p], t))
      <4>1. FilesOK'
        BY <1>4, <2>1, <3>1, <3>2, <3>4 DEF RunTurn, FilesOK
      <4> QED BY <1>1, <3>2, <3>4, <4>1, Moved
    <3>5. CASE /\ UNCHANGED orchestrating
               /\ With(p, "step", [st[p] EXCEPT !.goal = TRUE, !.at = t])
      <4>1. FilesOK'
        BY <1>4, <2>1, <3>1, <3>2, <3>5 DEF RunTurn, FilesOK
      <4> QED BY <1>1, <3>2, <3>5, <4>1, Moved
    <3> QED BY <3>1, <3>3, <3>4, <3>5
  <2> QED BY <1>4, <2>2, <2>3 DEF RunTurn, FilesOK
<1>5. CASE RunStep(p)
  <2>1. CASE pc[p] = "step"
    <3>1. At(p) \in Holding /\ Execute(p, "green", "save")
      BY <1>1, <1>5, <2>1 DEF RunStep, At
    <3>2. ProcsOK' /\ clock' \in Nat
      BY <1>1, <3>1, Executed
    <3>3. FilesOK'
      BY <1>5, <3>2 DEF RunStep, FilesOK, store
    <3> QED BY <3>2, <3>3
  <2>2. CASE pc[p] = "bare"
    <3>1. p \in Passes
      <4>1. <<p, "bare">> \in Places
        BY <1>1, <2>2 DEF ProcsOK, At
      <4>2. ASSUME p \in Orchs PROVE FALSE
        BY <4>1, <4>2, OrchPlaces DEF RunOnceLabels
      <4> QED BY <4>2, RunnerPlaces
    <3>2. /\ At(p) \in Holding /\ Execute(p, "green", "sealing")
          /\ <<p, "sealing">> \in Places
      BY <1>5, <2>2, <3>1, PassPlaces DEF RunStep, At
    <3>3. ProcsOK' /\ clock' \in Nat
      BY <1>1, <3>2, Executed
    <3>4. FilesOK'
      BY <1>5, <3>3 DEF RunStep, FilesOK, store
    <3> QED BY <3>3, <3>4
  <2> QED BY <1>5, <2>1, <2>2 DEF RunStep
<1>6. CASE RunGreen(p)
  <2>1. ledger' \in Seq(Events)
    <3>1. <<"green", "completed">> \in Seq(Events)
      BY DEF Events
    <3> QED BY <1>6, <3>1, Recorded DEF RunGreen, FilesOK
  <2>2. FilesOK'
    BY <1>6, <2>1 DEF RunGreen, FilesOK, store
  <2>3. ProcsOK'
    BY <1>1, <1>6, MovedOn DEF RunGreen, At
  <2> QED BY <2>2, <2>3
<1>7. CASE RunHalting(p)
  <2>1. ledger' \in Seq(Events)
    <3>1. <<"halted">> \in Seq(Events)
      BY DEF Events
    <3> QED BY <1>7, <3>1, Recorded DEF RunHalting, FilesOK
  <2>2. FilesOK'
    BY <1>7, <2>1 DEF RunHalting, FilesOK, store
  <2>3. ProcsOK'
    BY <1>1, <1>7, MovedOn DEF RunHalting, At
  <2> QED BY <2>2, <2>3
<1>8. CASE RunSave(p)
  <2>1. file' \in States \cup {NoState}
    BY <1>1, <1>8 DEF RunSave, FilesOK
  <2>2. CASE RunEnds(p)
    BY <1>1, <1>8, <2>1, <2>2, RunnerEnds DEF RunSave, FilesOK
  <2>3. CASE p \in Orchs /\ With(p, "sleep", NoState) /\ UNCHANGED orchestrating
    <3>1. FilesOK'
      BY <1>8, <2>1, <2>3 DEF RunSave, FilesOK
    <3>2. <<p, "sleep">> \in Places /\ <<p, "sleep">> \notin Holding
      BY <2>3, OrchPlaces DEF RunOnceLabels
    <3> QED BY <1>1, <2>3, <3>1, <3>2, Moved
  <2> QED BY <1>8, <2>2, <2>3 DEF RunSave
<1> QED BY <1>3, <1>4, <1>5, <1>6, <1>7, <1>8 DEF RunOnce

(* What happens to the daemon and to the clock. *)
LEMMA RestTypes ==
  ASSUME TypeOK, GetCycle \/ DaemonRestart \/ Expire \/ UNCHANGED vars
  PROVE  TypeOK'
<1> USE DEF TypeOK
<1>1. CASE GetCycle
  <2>1. FilesOK'
    BY <1>1, Cached DEF GetCycle, FilesOK
  <2> QED BY <1>1, <2>1, Stayed DEF GetCycle
<1>2. CASE DaemonRestart
  <2>1. FilesOK'
    BY <1>2 DEF DaemonRestart, FilesOK
  <2>2. ASSUME NEW p \in Procs, p \in Daemon
        PROVE  /\ At(p)' \in Places' /\ At(p)' \notin Holding'
    <3>1. At(p)' = <<p, "idle">>
      BY <1>2, <2>2 DEF DaemonRestart, At
    <3>2. <<p, "idle">> \in Places /\ <<p, "idle">> \notin Holding
      BY DEF Procs, Places, Holding
    <3> QED BY <3>1, <3>2 DEF Places, Holding
  <2>3. ASSUME NEW p \in Procs, p \notin Daemon
        PROVE  At(p)' = At(p) /\ st'[p] = st[p]
    BY <1>2, <2>3 DEF DaemonRestart, At
  <2>4. Places' = Places /\ Holding' = Holding
    BY DEF Places, Holding
  <2>5. /\ pc' = [p \in Procs |-> pc'[p]]
        /\ st' \in [Procs -> States \cup {NoState}]
    BY <1>2 DEF DaemonRestart, ProcsOK
  <2>6. ProcsOK'
    BY <2>2, <2>3, <2>4, <2>5 DEF ProcsOK
  <2> QED BY <2>1, <2>6
<1>3. CASE Expire
  BY <1>3, Stayed DEF Expire, FilesOK, store
<1>4. CASE UNCHANGED vars
  BY <1>4, Stayed DEF vars, FilesOK
<1> QED BY <1>1, <1>2, <1>3, <1>4

LEMMA TypeStep == TypeOK /\ [Next]_vars => TypeOK'
  BY StepTypes, HaltTypes, OrchTypes, PassTypes, RunTypes, RestTypes DEF Next

LEMMA TypeInit == Init => TypeOK
<1> SUFFICES ASSUME Init PROVE TypeOK
  OBVIOUS
<1>1. FilesOK
  <2>1. ledger = <<>> /\ <<>> \in Seq(Events)
    BY DEF Init
  <2>2. cache \in {s \in States : s.id} /\ file \in States
    BY ZeroState DEF Init
  <2> QED BY <2>1, <2>2 DEF Init, FilesOK
<1>2. ASSUME NEW p \in Procs PROVE At(p) \in Places /\ At(p) \notin Holding
  <2>1. At(p) = <<p, "idle">>
    BY DEF Init, At
  <2> QED BY <2>1 DEF Procs, Places, Holding
<1>3. /\ pc = [p \in Procs |-> pc[p]]
      /\ st \in [Procs -> States \cup {NoState}]
  BY DEF Init
<1> QED BY <1>1, <1>2, <1>3 DEF TypeOK, ProcsOK

(* Whatever the handlers, the goroutine and the passes do to each other, a   *)
(* process that works on a state has one, and the daemon never caches a      *)
(* state without an ID (of a file that was removed under an orchestration).  *)
THEOREM TypeCorrect == Spec => []TypeOK
<1>1. Init => TypeOK
  BY TypeInit
<1>2. TypeOK /\ [Next]_vars => TypeOK'
  BY TypeStep
<1> QED BY <1>1, <1>2, PTL DEF Spec
-----------------------------------------------------------------------------
(* What a move of one process does to the set of those that were let in. *)
LEMMA Moves ==
  ASSUME ProcsOK, NEW p \in Procs, NEW l, pc' = [pc EXCEPT ![p] = l]
  PROVE  /\ <<p, l>> \notin Inside \/ At(p) \in Inside => Admitted' \subseteq Admitted
         /\ <<p, l>> \in Inside => Admitted' = Admitted \cup {p}
         /\ At(p) \in Inside => p \in Admitted
         /\ (<<p, l>> \in Inside <=> At(p) \in Inside) => Admitted' = Admitted
<1>1. \A q \in Procs : pc'[q] = IF q = p THEN l ELSE pc[q]
  BY DEF ProcsOK
<1>2. \A q \in Procs : At(q)' = IF q = p THEN <<p, l>> ELSE At(q)
  BY <1>1 DEF At
<1>3. Inside' = Inside /\ Procs' = Procs
  BY DEF Inside, Procs
<1> QED BY <1>2, <1>3 DEF Admitted

(* The four kinds of steps: nothing is added and the seal stays; a worker is *)
(* let in; a halt is recorded; the gates are recorded to have passed.        *)
LEMMA CalmStep ==
  ASSUME Sealed' = Sealed, Admitted' \subseteq Admitted
  PROVE  Guard!SealNext
  BY DEF Guard!SealNext, Guard!Leave

LEMMA AdmitStep ==
  ASSUME ~Sealed, Sealed' = Sealed, NEW p \in Procs, Admitted' = Admitted \cup {p}
  PROVE  Guard!SealNext
  BY DEF Guard!SealNext, Guard!Admit

LEMMA CloseStep ==
  ASSUME ledger \in Seq(Events), Admitted' = Admitted,
         Logged(<<"halted">>) \/ ledger' = Append(ledger, "halted")
  PROVE  Guard!SealNext
<1>1. CASE Sealed'
  BY <1>1 DEF Guard!SealNext, Guard!Close
<1>2. CASE UNCHANGED ledger
  BY <1>2, CalmStep DEF Sealed
<1>3. CASE ledger' = ledger \o <<"halted">> \/ ledger' = Append(ledger, "halted")
  <2>1. /\ LedgerSealsResume(ledger \o <<"halted">>)
        /\ LedgerSealsResume(Append(ledger, "halted"))
    BY SealSteps
  <2>2. Sealed'
    BY <1>3, <2>1, Zenon DEF Sealed
  <2> QED BY <1>1, <2>2
<1> QED BY <1>2, <1>3 DEF Logged

LEMMA LiftStep ==
  ASSUME ledger \in Seq(Events), Admitted' = Admitted, Admitted # {},
         Logged(<<"green", "completed">>)
  PROVE  Guard!SealNext
<1>1. CASE ~Sealed'
  BY <1>1 DEF Guard!SealNext, Guard!Lift
<1>2. CASE UNCHANGED ledger
  BY <1>2, CalmStep DEF Sealed
<1>3. CASE ledger' = ledger \o <<"green", "completed">>
  <2>1. ~Sealed'
    BY <1>3, SealSteps DEF Sealed
  <2> QED BY <1>1, <2>1
<1> QED BY <1>2, <1>3 DEF Logged

(* A runner that ends, and a process that ends, leaves. *)
LEMMA EndStep ==
  ASSUME ProcsOK, NEW p \in Procs, Ended(p), Sealed' = Sealed
  PROVE  Guard!SealNext
<1>1. <<p, "idle">> \notin Inside
  BY DEF Inside, StepLabels, RunOnceLabels
<1> QED BY <1>1, Moves, CalmStep DEF Ended, With

LEMMA StepperSeal ==
  ASSUME TypeOK, NEW p \in Steppers, Step(p)
  PROVE  Guard!SealNext
<1> USE DEF TypeOK
<1>1. /\ p \in Procs
      /\ \A l : <<p, l>> \in Inside <=> l \in StepLabels
  BY StepperPlaces
<1>2. UNCHANGED ledger => Sealed' = Sealed
  BY DEF Sealed
<1>3. CASE StepRefresh(p)
  <2>1. <<p, "get">> \notin Inside
    BY <1>1 DEF StepLabels
  <2> QED BY <1>1, <1>2, <1>3, <2>1, Moves, CalmStep DEF StepRefresh, Goto
<1>4. CASE StepGet(p)
  <2>1. <<p, "guard">> \notin Inside
    BY <1>1 DEF StepLabels
  <2>2. CASE Ended(p)
    BY <1>1, <1>2, <1>4, <2>2, EndStep DEF StepGet
  <2>3. CASE With(p, "guard", Found)
    BY <1>1, <1>2, <1>4, <2>1, <2>3, Moves, CalmStep DEF StepGet, With
  <2> QED BY <1>4, <2>2, <2>3 DEF StepGet
<1>5. CASE StepGuard(p)
  <2>1. UNCHANGED ledger
    BY <1>5 DEF StepGuard
  <2>2. CASE Ended(p)
    BY <1>1, <1>2, <2>1, <2>2, EndStep
  <2>3. CASE ~Sealed /\ pc' = [pc EXCEPT ![p] = "run"]
    <3>1. <<p, "run">> \in Inside
      BY <1>1 DEF StepLabels
    <3> QED BY <1>1, <1>2, <2>1, <2>3, <3>1, Moves, AdmitStep
  <2> QED BY <1>5, <2>2, <2>3 DEF StepGuard, With, Goto
<1>6. CASE StepPipeline(p) \/ StepSync(p) \/ StepWrite(p) \/ StepPut(p)
  <2>1. At(p) \in Inside /\ UNCHANGED ledger
    BY <1>1, <1>6 DEF StepPipeline, StepSync, StepWrite, StepPut, At, StepLabels
  <2>2. \E l : pc' = [pc EXCEPT ![p] = l]
    BY <1>6 DEF StepPipeline, StepSync, StepWrite, StepPut, Execute, Ended, With, Goto
  <2> QED BY <1>1, <1>2, <2>1, <2>2, Moves, CalmStep
<1>7. CASE StepRecord(p)
  <2>1. At(p) \in Inside /\ <<p, "sync">> \in Inside
    BY <1>1, <1>7 DEF StepRecord, At, StepLabels
  <2>2. Admitted' = Admitted /\ Admitted # {}
    BY <1>1, <1>7, <2>1, Moves DEF StepRecord, Goto
  <2>3. CASE Logged(<<"green", "completed">>)
    BY <2>2, <2>3, LiftStep DEF FilesOK
  <2>4. CASE Logged(<<"failed">>)
    <3>1. CASE ledger' = ledger \o <<"failed">>
      <4>1. Sealed' <=> Sealed
        BY <3>1, SealSteps DEF Sealed, FilesOK
      <4>2. Sealed' = Sealed
        BY <4>1, Zenon DEF Sealed, LedgerSealsResume
      <4> QED BY <2>2, <4>2, CalmStep
    <3>2. CASE UNCHANGED ledger
      BY <1>2, <2>2, <3>2, CalmStep
    <3> QED BY <2>4, <3>1, <3>2 DEF Logged
  <2> QED BY <1>7, <2>3, <2>4 DEF StepRecord
<1> QED BY <1>3, <1>4, <1>5, <1>6, <1>7 DEF Step

LEMMA HalterSeal ==
  ASSUME TypeOK, NEW p \in Halters, HaltStep(p)
  PROVE  Guard!SealNext
<1> USE DEF TypeOK
<1>1. p \in Procs /\ \A l : <<p, l>> \notin Inside
  BY HalterPlaces
<1>2. \E l : pc' = [pc EXCEPT ![p] = l]
  BY DEF HaltStep, HaltGet, HaltSync, HaltWrite, HaltRemove, HaltSeal, HaltPut, HaltClose,
     Ended, With, Goto
<1>3. Admitted' = Admitted
  BY <1>1, <1>2, Moves DEF At
<1>4. CASE HaltSeal(p)
  BY <1>3, <1>4, CloseStep DEF HaltSeal, FilesOK
<1>5. CASE UNCHANGED ledger
  BY <1>3, <1>5, CalmStep DEF Sealed
<1> QED BY <1>4, <1>5
     DEF HaltStep, HaltGet, HaltSync, HaltWrite, HaltRemove, HaltPut, HaltClose, store

LEMMA OrchSeal ==
  ASSUME TypeOK, NEW p \in Orchs, OrchStep(p)
  PROVE  Guard!SealNext
<1> USE DEF TypeOK
<1>1. /\ p \in Procs
      /\ <<p, "sync">> \notin Inside /\ <<p, "guard">> \notin Inside
      /\ <<p, "flag">> \notin Inside /\ <<p, "enter">> \notin Inside
      /\ <<p, "read">> \in Inside /\ <<p, "sleep">> \in Inside
  BY OrchPlaces DEF RunOnceLabels
<1>2. Sealed' = Sealed
  BY DEF OrchStep, OrchGet, OrchSync, OrchGuard, OrchFlag, RunGuard, RunRead, Sealed
<1>3. CASE Ended(p)
  BY <1>1, <1>2, <1>3, EndStep
<1>4. CASE Goto(p, "sync") \/ Goto(p, "guard") \/ Goto(p, "flag") \/ Goto(p, "enter")
  BY <1>1, <1>2, <1>4, Moves, CalmStep DEF Goto
<1>5. CASE ~Sealed /\ Goto(p, "read")
  BY <1>1, <1>2, <1>5, Moves, AdmitStep DEF Goto
<1>6. CASE RunRead(p)
  <2>1. At(p) \in Inside
    BY <1>1, <1>6 DEF RunRead, At
  <2>2. \E l : pc' = [pc EXCEPT ![p] = l]
    BY <1>6 DEF RunRead, RunEnds, Ended, With
  <2> QED BY <1>1, <1>2, <2>1, <2>2, Moves, CalmStep
<1> QED BY <1>3, <1>4, <1>5, <1>6
     DEF OrchStep, OrchGet, OrchSync, OrchGuard, OrchFlag, RunGuard, RunEnds

LEMMA PassSeal ==
  ASSUME TypeOK, NEW p \in Passes, PassStep(p)
  PROVE  Guard!SealNext
<1> USE DEF TypeOK
<1>1. /\ p \in Procs /\ <<p, "guard">> \notin Inside
      /\ \A l \in {"check", "bare", "sealing", "save"} : <<p, l>> \in Inside
  BY PassPlaces DEF RunOnceLabels
<1>2. UNCHANGED ledger => Sealed' = Sealed
  BY DEF Sealed
<1>3. CASE Ended(p) /\ UNCHANGED ledger
  BY <1>1, <1>2, <1>3, EndStep
<1>4. CASE PassRead(p)
  BY <1>1, <1>2, <1>4, Moves, CalmStep DEF PassRead, With
<1>5. CASE PassGuard(p)
  <2>1. UNCHANGED ledger
    BY <1>5 DEF PassGuard
  <2>2. \/ Ended(p)
        \/ ~Sealed /\ \E l \in {"check", "bare", "sealing"} : pc' = [pc EXCEPT ![p] = l]
    BY <1>5 DEF PassGuard, PassAgents, PassBare, With
  <2>3. CASE ~Sealed /\ \E l \in {"check", "bare", "sealing"} :
                          pc' = [pc EXCEPT ![p] = l]
    <3>1. PICK l \in {"check", "bare", "sealing"} : pc' = [pc EXCEPT ![p] = l]
      BY <2>3
    <3> QED BY <1>1, <1>2, <2>1, <2>3, <3>1, Moves, AdmitStep
  <2> QED BY <1>3, <2>1, <2>2, <2>3
<1>6. CASE PassSealing(p)
  <2>1. At(p) \in Inside
    BY <1>1, <1>6 DEF PassSealing, At
  <2>2. CASE ledger' = Append(ledger, "halted") /\ Goto(p, "save")
    BY <1>1, <2>1, <2>2, Moves, CloseStep DEF Goto, FilesOK
  <2> QED BY <1>3, <1>6, <2>2 DEF PassSealing
<1> QED BY <1>3, <1>4, <1>5, <1>6 DEF PassStep, PassDies

LEMMA RunSeal ==
  ASSUME TypeOK, NEW p \in Runners, RunOnce(p)
  PROVE  Guard!SealNext
<1> USE DEF TypeOK
<1>1. /\ p \in Procs
      /\ \A l \in {"check", "turn", "step", "green", "halting", "save"} :
           <<p, l>> \in Inside
      /\ <<p, "bare">> \in Inside
  BY RunnerPlaces DEF RunOnceLabels, Inside
<1>2. At(p) \in Inside
  BY <1>1 DEF RunOnce, RunCheck, RunTurn, RunStep, RunGreen, RunHalting, RunSave, At
<1>3. \E l : pc' = [pc EXCEPT ![p] = l]
  BY DEF RunOnce, RunCheck, RunTurn, RunStep, RunGreen, RunHalting, RunSave,
     ApplyResponse, Execute, RunEnds, Ended, With, Goto
<1>4. Admitted' \subseteq Admitted /\ Admitted # {}
  BY <1>1, <1>2, <1>3, Moves
<1>5. Goto(p, "save") => Admitted' = Admitted
  BY <1>1, <1>2, Moves DEF Goto
<1>6. CASE UNCHANGED ledger
  BY <1>4, <1>6, CalmStep DEF Sealed
<1>7. CASE ledger' = Append(ledger, "turn")
  <2>1. Sealed' <=> Sealed
    BY <1>7, SealSteps DEF Sealed, FilesOK
  <2>2. Sealed' = Sealed
    BY <2>1, Zenon DEF Sealed, LedgerSealsResume
  <2> QED BY <1>4, <2>2, CalmStep
<1>8. CASE RunGreen(p)
  BY <1>4, <1>5, <1>8, LiftStep DEF RunGreen, FilesOK
<1>9. CASE RunHalting(p)
  BY <1>5, <1>9, CloseStep DEF RunHalting, FilesOK
<1> QED BY <1>6, <1>7, <1>8, <1>9 DEF RunOnce, RunCheck, RunTurn, RunStep, RunSave

LEMMA RestSeal ==
  ASSUME TypeOK, GetCycle \/ DaemonRestart \/ Expire \/ UNCHANGED vars
  PROVE  Guard!SealNext
<1>1. Sealed' = Sealed
  BY DEF GetCycle, DaemonRestart, Expire, vars, Sealed
<1>2. CASE UNCHANGED pc
  BY <1>1, <1>2, CalmStep DEF Admitted, At, Inside, Procs
<1>3. CASE DaemonRestart
  <2>1. ASSUME NEW q \in Procs, At(q)' \in Inside' PROVE At(q) \in Inside
    <3>1. <<q, "idle">> \notin Inside /\ Inside' = Inside
      BY DEF Inside, StepLabels, RunOnceLabels
    <3>2. At(q)' = IF q \in Daemon THEN <<q, "idle">> ELSE At(q)
      BY <1>3 DEF DaemonRestart, At
    <3> QED BY <2>1, <3>1, <3>2
  <2>2. Admitted' \subseteq Admitted
    BY <2>1 DEF Admitted, Procs
  <2> QED BY <1>1, <2>2, CalmStep
<1> QED BY <1>2, <1>3 DEF GetCycle, Expire, vars

LEMMA SealStep == TypeOK /\ [Next]_vars => Guard!SealNext
  BY StepperSeal, HalterSeal, OrchSeal, PassSeal, RunSeal, RestSeal DEF Next

LEMMA SealStart == Init => Guard!SealInit
<1> SUFFICES ASSUME Init PROVE Guard!SealInit
  OBVIOUS
<1>1. ~Sealed
  BY DEF Init, Sealed, LedgerSealsResume
<1>2. ASSUME NEW p \in Procs PROVE At(p) \notin Inside
  <2>1. At(p) = <<p, "idle">>
    BY DEF Init, At
  <2> QED BY <2>1 DEF Inside, StepLabels, RunOnceLabels
<1>3. Sealed = FALSE
  BY <1>1, Zenon DEF Sealed, LedgerSealsResume
<1> QED BY <1>2, <1>3 DEF Guard!SealInit, Admitted

(* The three places that call the guard, with the ledger and all that can    *)
(* interrupt them, implement the abstract seal: nothing is let in while the  *)
(* cycle is sealed, and only what was let in lifts the seal.                 *)
THEOREM GuardImplementsSeal == Spec => ImplementsSeal
<1>1. TypeOK /\ [Next]_vars => [Guard!SealNext]_Guard!sealVars
  BY SealStep
<1> QED BY <1>1, SealStart, TypeCorrect, PTL
     DEF Spec, ImplementsSeal, Guard!SealSpec

LEMMA HeldStep ==
  ASSUME Sealed, Admitted = {}, Guard!SealNext
  PROVE  Sealed' /\ Admitted' = {}
  BY DEF Guard!SealNext, Guard!Admit, Guard!Leave, Guard!Close, Guard!Lift

(* A halt sticks as soon as no work that was let in before is under way.     *)
THEOREM HaltHolds == Spec => SealHolds
<1>1. TypeOK /\ [Next]_vars =>
        [Sealed /\ Admitted = {} => (Sealed /\ Admitted = {})']_vars
  BY SealStep, HeldStep
<1> QED BY <1>1, TypeCorrect, PTL DEF Spec, SealHolds

LEMMA GoneStep ==
  ASSUME TypeOK, Gone, [Next]_vars
  PROVE  Gone'
<1> USE DEF Gone
<1>1. Sealed' /\ Admitted' = {}
  BY SealStep, HeldStep
<1>2. Found = NoState
  BY DEF Found
<1>3. \A p \in Procs : At(p) \notin Inside
  BY DEF Admitted
<1>4. Get \/ Refresh => cache' = NoState
  BY <1>2 DEF Get, Refresh
<1> DEFINE Rest == /\ file' = NoState /\ cache' = NoState
                   /\ \A p \in Halters : pc'[p] = "idle"
<1> HIDE DEF Gone
<1>5. /\ file = NoState /\ cache = NoState /\ \A p \in Halters : pc[p] = "idle"
  BY DEF Gone
<1>6. ASSUME NEW p \in Procs, p \notin Halters, NEW l, pc' = [pc EXCEPT ![p] = l]
      PROVE  \A q \in Halters : pc'[q] = "idle"
  BY <1>5, <1>6 DEF TypeOK, ProcsOK
<1>7. ASSUME GetCycle \/ DaemonRestart \/ Expire \/ UNCHANGED vars PROVE Rest
  <2>1. file' = NoState /\ cache' = NoState
    BY <1>4, <1>5, <1>7 DEF GetCycle, DaemonRestart, Expire, vars, store
  <2>2. \A p \in Halters : pc'[p] = "idle"
    BY <1>5, <1>7 DEF GetCycle, DaemonRestart, Expire, vars, Procs, Daemon
  <2> QED BY <2>1, <2>2
<1>8. ASSUME NEW p \in Steppers, Step(p) PROVE Rest
  <2>1. p \in Procs /\ p \notin Halters /\ pc[p] \notin StepLabels
    BY <1>3, StepperPlaces, CycleAssumption DEF At
  <2>2. StepRefresh(p) \/ StepGet(p) \/ StepGuard(p)
    BY <1>8, <2>1 DEF Step, StepPipeline, StepRecord, StepSync, StepWrite, StepPut,
       StepLabels
  <2>3. file' = NoState /\ cache' = NoState
    BY <1>4, <1>5, <2>2 DEF StepRefresh, StepGet, StepGuard, store
  <2>4. \E l : pc' = [pc EXCEPT ![p] = l]
    BY <2>2 DEF StepRefresh, StepGet, StepGuard, Ended, With, Goto
  <2> QED BY <1>6, <2>1, <2>3, <2>4
<1>9. ASSUME NEW p \in Halters, HaltStep(p) PROVE FALSE
  BY <1>2, <1>5, <1>9 DEF HaltStep, HaltGet, HaltSync, HaltWrite, HaltRemove, HaltSeal,
     HaltPut, HaltClose
<1>10. ASSUME NEW p \in Orchs, OrchStep(p) PROVE Rest
  <2>1. p \in Procs /\ p \notin Halters
    BY OrchPlaces
  <2>2. file' = NoState /\ cache' = NoState
    BY <1>4, <1>5, <1>10 DEF OrchStep, OrchGet, OrchSync, OrchGuard, OrchFlag,
       RunGuard, RunRead, store
  <2>3. \E l : pc' = [pc EXCEPT ![p] = l]
    BY <1>10 DEF OrchStep, OrchGet, OrchSync, OrchGuard, OrchFlag, RunGuard,
       RunRead, RunEnds, Ended, With, Goto
  <2> QED BY <1>6, <2>1, <2>2, <2>3
<1>11. ASSUME NEW p \in Passes, PassStep(p) PROVE Rest
  <2>1. p \in Procs /\ p \notin Halters
    BY PassPlaces
  <2>2. file' = NoState /\ cache' = NoState
    BY <1>5, <1>11 DEF PassStep, PassRead, PassGuard, PassSealing, PassDies, store
  <2>3. \E l : pc' = [pc EXCEPT ![p] = l]
    BY <1>11 DEF PassStep, PassRead, PassGuard, PassSealing, PassDies, PassAgents,
       PassBare, Ended, With, Goto
  <2> QED BY <1>6, <2>1, <2>2, <2>3
<1>12. ASSUME NEW p \in Runners, RunOnce(p) PROVE FALSE
  <2>1. /\ p \in Procs /\ <<p, "bare">> \in Inside
        /\ \A l \in {"check", "turn", "step", "green", "halting", "save"} :
             <<p, l>> \in Inside
    BY RunnerPlaces DEF RunOnceLabels, Inside
  <2>2. At(p) \in Inside
    BY <1>12, <2>1 DEF RunOnce, RunCheck, RunTurn, RunStep, RunGreen, RunHalting,
       RunSave, At
  <2> QED BY <1>3, <2>1, <2>2
<1>13. Rest
  BY <1>7, <1>8, <1>9, <1>10, <1>11, <1>12 DEF Next
<1> QED BY <1>1, <1>13 DEF Gone

(* A halted cycle whose file and cached copy are gone, with nothing under    *)
(* way, is never brought back by a late request.                             *)
THEOREM NoZombies == Spec => GoneStaysGone
<1>1. TypeOK /\ [Next]_vars => [Gone => Gone']_vars
  BY GoneStep
<1> QED BY <1>1, TypeCorrect, PTL DEF Spec, GoneStaysGone
-----------------------------------------------------------------------------
(* The flag is held for as long as the goroutine works. *)
FlagHeld == \A p \in Orchs : Working(p) => orchestrating

FlagInv == OneOrchestrator /\ FlagHeld

(* Whoever leaves the goroutines alone, and the flag, leaves this. *)
LEMMA FlagKept ==
  ASSUME FlagInv, \A q \in Orchs : pc'[q] = pc[q] \/ ~Working(q)',
         orchestrating => orchestrating'
  PROVE  FlagInv'
<1>1. \A q \in Orchs : Working(q)' => Working(q)
  BY DEF Working, RunOnceLabels
<1> QED BY <1>1 DEF FlagInv, OneOrchestrator, FlagHeld

LEMMA FlagStep ==
  ASSUME TypeOK, FlagInv, [Next]_vars
  PROVE  FlagInv'
<1> USE DEF TypeOK
<1>1. ASSUME NEW p \in Procs, NEW l, pc' = [pc EXCEPT ![p] = l]
      PROVE  \A q \in Procs : pc'[q] = IF q = p THEN l ELSE pc[q]
  BY <1>1 DEF ProcsOK
<1>2. ASSUME NEW p \in Procs, p \notin Orchs, NEW l, pc' = [pc EXCEPT ![p] = l],
             orchestrating => orchestrating'
      PROVE  FlagInv'
  <2>1. \A q \in Orchs : pc'[q] = pc[q]
    BY <1>1, <1>2 DEF Procs
  <2> QED BY <1>2, <2>1, FlagKept
<1>3. CASE GetCycle \/ Expire \/ UNCHANGED vars
  BY <1>3, FlagKept DEF GetCycle, Expire, vars, store
<1>4. CASE DaemonRestart
  <2>1. \A q \in Orchs : ~Working(q)'
    BY <1>4 DEF DaemonRestart, Working, RunOnceLabels, Procs, Daemon
  <2> QED BY <2>1 DEF FlagInv, OneOrchestrator, FlagHeld
<1>5. ASSUME NEW p \in Steppers, Step(p) PROVE FlagInv'
  <2>1. p \in Procs /\ p \notin Orchs
    BY StepperPlaces DEF Runners
  <2>2. UNCHANGED orchestrating /\ \E l : pc' = [pc EXCEPT ![p] = l]
    BY <1>5 DEF Step, StepRefresh, StepGet, StepGuard, StepPipeline, StepRecord,
       StepSync, StepWrite, StepPut, Execute, Ended, With, Goto, store
  <2> QED BY <1>2, <2>1, <2>2
<1>6. ASSUME NEW p \in Halters, HaltStep(p) PROVE FlagInv'
  <2>1. p \in Procs /\ p \notin Orchs
    BY HalterPlaces DEF Runners
  <2>2. UNCHANGED orchestrating /\ \E l : pc' = [pc EXCEPT ![p] = l]
    BY <1>6 DEF HaltStep, HaltGet, HaltSync, HaltWrite, HaltRemove, HaltSeal, HaltPut,
       HaltClose, Ended, With, Goto, store
  <2> QED BY <1>2, <2>1, <2>2
<1>7. ASSUME NEW p \in Passes, PassStep(p) PROVE FlagInv'
  <2>1. p \in Procs /\ p \notin Orchs
    BY PassPlaces
  <2>2. UNCHANGED orchestrating /\ \E l : pc' = [pc EXCEPT ![p] = l]
    BY <1>7 DEF PassStep, PassRead, PassGuard, PassSealing, PassDies, PassAgents,
       PassBare, Ended, With, Goto, store
  <2> QED BY <1>2, <2>1, <2>2
<1>8. ASSUME NEW p \in Orchs, pc' = [pc EXCEPT ![p] = "idle"], Working(p)
      PROVE  FlagInv'
  <2>1. \A q \in Orchs : pc'[q] = IF q = p THEN "idle" ELSE pc[q]
    BY <1>1, <1>8 DEF Procs
  <2>2. ~Working(p)' /\ \A q \in Orchs : q # p => (Working(q)' <=> Working(q))
    BY <2>1 DEF Working, RunOnceLabels
  <2>3. \A q \in Orchs : ~Working(q)'
    BY <1>8, <2>2 DEF FlagInv, OneOrchestrator
  <2> QED BY <2>3 DEF FlagInv, OneOrchestrator, FlagHeld
<1>9. ASSUME NEW p \in Orchs, NEW l, pc' = [pc EXCEPT ![p] = l], Working(p),
             UNCHANGED orchestrating
      PROVE  FlagInv'
  <2>1. \A q \in Orchs : Working(q)' => Working(q)
    BY <1>1, <1>9 DEF Working, RunOnceLabels, Procs
  <2> QED BY <1>9, <2>1 DEF FlagInv, OneOrchestrator, FlagHeld
<1>10. ASSUME NEW p \in Orchs, NEW l, pc' = [pc EXCEPT ![p] = l],
              l \in {"idle", "sync", "guard", "flag"},
              orchestrating => orchestrating'
       PROVE  FlagInv'
  <2>1. \A q \in Orchs : pc'[q] = pc[q] \/ ~Working(q)'
    BY <1>1, <1>10 DEF Working, RunOnceLabels, Procs
  <2> QED BY <1>10, <2>1, FlagKept
<1>11. ASSUME NEW p \in Orchs, OrchStep(p) PROVE FlagInv'
  <2>1. CASE OrchGet(p) \/ OrchSync(p) \/ OrchGuard(p)
    <3>1. UNCHANGED orchestrating
      BY <2>1 DEF OrchGet, OrchSync, OrchGuard, store
    <3>2. \E l \in {"idle", "sync", "guard", "flag"} : pc' = [pc EXCEPT ![p] = l]
      BY <2>1 DEF OrchGet, OrchSync, OrchGuard, Ended, With, Goto
    <3> QED BY <1>10, <3>1, <3>2
  <2>2. CASE OrchFlag(p)
    <3>1. CASE orchestrating
      BY <1>10, <2>2, <3>1 DEF OrchFlag, Ended, With
    <3>2. CASE ~orchestrating
      <4>1. orchestrating' /\ pc' = [pc EXCEPT ![p] = "enter"]
        BY <2>2, <3>2 DEF OrchFlag, Goto
      <4>2. \A q \in Orchs : Working(q)' => q = p
        BY <1>1, <3>2, <4>1 DEF Working, RunOnceLabels, Procs, FlagInv, FlagHeld
      <4> QED BY <4>1, <4>2 DEF FlagInv, OneOrchestrator, FlagHeld
    <3> QED BY <3>1, <3>2
  <2>3. CASE RunGuard(p)
    BY <1>8, <1>9, <2>3 DEF RunGuard, RunEnds, Ended, With, Goto, Working
  <2>4. CASE RunRead(p)
    BY <1>8, <1>9, <2>4 DEF RunRead, RunEnds, Ended, With, Working
  <2> QED BY <1>11, <2>1, <2>2, <2>3, <2>4 DEF OrchStep
<1>12. ASSUME NEW p \in Runners, RunOnce(p) PROVE FlagInv'
  <2>1. \/ RunEnds(p)
        \/ UNCHANGED orchestrating /\ \E l : pc' = [pc EXCEPT ![p] = l]
    BY <1>12 DEF RunOnce, RunCheck, RunTurn, RunStep, RunGreen, RunHalting, RunSave,
       ApplyResponse, Execute, With, Goto, store
  <2>2. CASE p \in Orchs
    <3>1. Working(p)
      <4>1. pc[p] # "bare"
        BY <2>2, OrchPlaces DEF ProcsOK, At, RunOnceLabels
      <4> QED BY <1>12, <4>1 DEF RunOnce, RunCheck, RunTurn, RunStep, RunGreen,
         RunHalting, RunSave, Working, RunOnceLabels
    <3> QED BY <1>8, <1>9, <2>1, <2>2, <3>1 DEF RunEnds, Ended, With
  <2>3. CASE p \notin Orchs
    <3>1. orchestrating => orchestrating'
      BY <2>1, <2>3, Zenon DEF RunEnds
    <3>2. \E l : pc' = [pc EXCEPT ![p] = l]
      BY <2>1, Zenon DEF RunEnds, Ended, With
    <3> QED BY <1>2, <2>3, <3>1, <3>2, RunnerPlaces
  <2> QED BY <2>2, <2>3
<1> QED BY <1>3, <1>4, <1>5, <1>6, <1>7, <1>11, <1>12 DEF Next

(* However requests to orchestrate overlap with each other and with the end  *)
(* of a goroutine, one goroutine at most works on the cycle.                 *)
THEOREM OneGoroutine == Spec => []OneOrchestrator
<1>1. Init => FlagInv
  BY DEF Init, FlagInv, OneOrchestrator, FlagHeld, Working, RunOnceLabels, Procs
<1>2. TypeOK /\ FlagInv /\ [Next]_vars => FlagInv'
  BY FlagStep
<1>3. FlagInv => OneOrchestrator
  BY DEF FlagInv
<1> QED BY <1>1, <1>2, <1>3, TypeCorrect, PTL DEF Spec
-----------------------------------------------------------------------------
(* The processes whose agent is at work: they have looked at the ceiling and *)
(* not recorded their turn.                                                  *)
InTurn == {p \in Procs : pc[p] = "turn"}

(* Turns made and turns under way together: the check and the record are     *)
(* two steps, and CeilingHolds alone does not survive the second.            *)
CeilingInv ==
  MaxLifetimeTurns > 0 =>
    Number(ledger, {"turn"}) + Cardinality(InTurn)
      <= MaxLifetimeTurns + Cardinality(Passes)

(* The number of turns in the ledger grows by one with a turn, and with      *)
(* nothing else that is recorded.                                            *)
LEMMA TurnsCounted ==
  ASSUME NEW l \in Seq(Events), NEW e
  PROVE  /\ Number(l, {"turn"}) \in Nat
         /\ Number(Append(l, e), {"turn"}) =
              Number(l, {"turn"}) + (IF e = "turn" THEN 1 ELSE 0)
<1> DEFINE I(m) == {i \in 1..Len(m) : m[i] \in {"turn"}}
           m == Append(l, e)
<1>1. Len(l) \in Nat /\ Len(m) = Len(l) + 1
  OBVIOUS
<1>2. IsFiniteSet(I(l))
  <2>1. IsFiniteSet(1..Len(l)) /\ I(l) \in SUBSET (1..Len(l))
    BY <1>1, FS_Interval
  <2>2. QED
    BY <2>1, FS_Subset
<1>3. Cardinality(I(l)) \in Nat
  BY <1>2, FS_CardinalityType
<1>4. \A i \in 1..Len(m) : m[i] = IF i = Len(l) + 1 THEN e ELSE l[i]
  OBVIOUS
<1>5. I(m) = IF e = "turn" THEN I(l) \cup {Len(l) + 1} ELSE I(l)
  BY <1>1, <1>4
<1>6. Len(l) + 1 \notin I(l)
  BY <1>1
<1>7. Cardinality(I(l) \cup {Len(l) + 1}) = Cardinality(I(l)) + 1
  BY <1>2, <1>6, FS_AddElement
<1>8. Cardinality(I(m)) = Cardinality(I(l)) + (IF e = "turn" THEN 1 ELSE 0)
  <2>1. CASE e = "turn"
    <3>1. I(m) = I(l) \cup {Len(l) + 1}
      BY <1>5, <2>1
    <3>2. QED
      BY <1>7, <2>1, <3>1
  <2>2. CASE e # "turn"
    <3>1. I(m) = I(l)
      BY <1>5, <2>2
    <3>2. Cardinality(I(m)) = Cardinality(I(l))
      BY <3>1
    <3> HIDE DEF I, m
    <3>3. QED
      BY <1>3, <2>2, <3>2
  <2>3. QED
    BY <2>1, <2>2
<1>9. QED
  BY <1>3, <1>8 DEF Number

(* What is recorded, apart from a turn, leaves the number of turns.          *)
LEMMA OthersNotCounted ==
  ASSUME ledger \in Seq(Events),
         \/ UNCHANGED ledger
         \/ \E es \in {<<"halted">>, <<"failed">>, <<"green", "completed">>} : Logged(es)
         \/ ledger' = Append(ledger, "halted")
  PROVE  Number(ledger', {"turn"}) = Number(ledger, {"turn"})
<1> DEFINE N(l) == Number(l, {"turn"})
<1>1. \A l \in Seq(Events), e \in Events \ {"turn"} :
        N(Append(l, e)) = N(l) /\ Append(l, e) \in Seq(Events)
  <2> TAKE l \in Seq(Events), e \in Events \ {"turn"}
  <2>1. N(l) \in Nat /\ N(Append(l, e)) = N(l) + 0
    BY TurnsCounted
  <2>2. QED
    BY <2>1, Appends
<1> HIDE DEF N
<1>2. {"halted", "failed", "green", "completed"} \subseteq Events \ {"turn"}
  BY DEF Events
<1>3. /\ N(ledger \o <<"halted">>) = N(ledger)
      /\ N(ledger \o <<"failed">>) = N(ledger)
      /\ N(ledger \o <<"green", "completed">>) = N(ledger)
      /\ N(Append(ledger, "halted")) = N(ledger)
  <2>1. /\ Append(ledger, "green") \in Seq(Events)
        /\ N(Append(ledger, "green")) = N(ledger)
        /\ N(Append(ledger, "halted")) = N(ledger)
        /\ N(Append(ledger, "failed")) = N(ledger)
    BY <1>1, <1>2, Zenon
  <2>2. N(Append(Append(ledger, "green"), "completed")) = N(Append(ledger, "green"))
    BY <1>1, <1>2, <2>1, Zenon
  <2>3. /\ ledger \o <<"halted">> = Append(ledger, "halted")
        /\ ledger \o <<"failed">> = Append(ledger, "failed")
        /\ ledger \o <<"green", "completed">> = Append(Append(ledger, "green"), "completed")
    BY Appends, Zenon
  <2>4. QED
    BY <2>1, <2>2, <2>3, Zenon
<1>4. \/ ledger' = ledger
      \/ ledger' = ledger \o <<"halted">>
      \/ ledger' = ledger \o <<"failed">>
      \/ ledger' = ledger \o <<"green", "completed">>
      \/ ledger' = Append(ledger, "halted")
  BY DEF Logged
<1>5. N(ledger') = N(ledger)
  BY <1>3, <1>4, Zenon
<1>6. QED
  BY <1>5 DEF N

(* Those under way are passes and at most one goroutine of the daemon.       *)
FewInTurn ==
  /\ IsFiniteSet(InTurn) /\ Cardinality(InTurn) \in Nat
  /\ Cardinality(InTurn) <= Cardinality(Passes) + 1

LEMMA FewAtOnce ==
  ASSUME TypeOK, OneOrchestrator, IsFiniteSet(Passes)
  PROVE  FewInTurn
<1>1. \A p \in InTurn : p \in Orchs \/ p \in Passes
  BY StepperPlaces, HalterPlaces
     DEF InTurn, TypeOK, ProcsOK, At, Procs, StepLabels, HaltLabels
<1>2. \A p, q \in InTurn \cap Orchs : p = q
  BY DEF InTurn, OneOrchestrator, Working, RunOnceLabels
<1>3. \E o : InTurn \subseteq Passes \cup {o}
  <2>1. CASE InTurn \cap Orchs = {}
    BY <1>1, <2>1
  <2>2. ASSUME NEW o \in InTurn \cap Orchs PROVE InTurn \subseteq Passes \cup {o}
    BY <1>1, <1>2
  <2>3. QED
    BY <2>1, <2>2
<1>4. PICK o : InTurn \subseteq Passes \cup {o}
  BY <1>3
<1>5. Cardinality(Passes) \in Nat
  BY FS_CardinalityType
<1>6. /\ IsFiniteSet(Passes \cup {o})
      /\ Cardinality(Passes \cup {o}) \in {Cardinality(Passes), Cardinality(Passes) + 1}
  BY FS_AddElement
<1>7. IsFiniteSet(InTurn) /\ Cardinality(InTurn) <= Cardinality(Passes \cup {o})
  BY <1>4, <1>6, FS_Subset
<1>8. Cardinality(InTurn) \in Nat
  BY <1>7, FS_CardinalityType
<1>9. QED
  BY <1>5, <1>6, <1>7, <1>8 DEF FewInTurn

(* A step begins a turn below the ceiling, or records one that was under     *)
(* way, or neither counts nor begins one.                                    *)
LEMMA TurnKinds ==
  ASSUME TypeOK, [Next]_vars
  PROVE  \/ ~ExceedsCeiling(ledger) /\ UNCHANGED ledger
         \/ \E p \in InTurn : ledger' = Append(ledger, "turn") /\ InTurn' = InTurn \ {p}
         \/ /\ Number(ledger', {"turn"}) = Number(ledger, {"turn"})
            /\ InTurn' \subseteq InTurn
<1> USE DEF TypeOK
<1>1. ASSUME NEW p \in Procs, NEW l, pc' = [pc EXCEPT ![p] = l], l # "turn"
      PROVE  InTurn' = InTurn \ {p}
  <2>1. \A q \in Procs : pc'[q] = IF q = p THEN l ELSE pc[q]
    BY <1>1 DEF ProcsOK
  <2>2. QED
    BY <1>1, <2>1 DEF InTurn, Procs
<1> DEFINE Plain == \/ UNCHANGED ledger
                    \/ \E es \in {<<"halted">>, <<"failed">>, <<"green", "completed">>} :
                         Logged(es)
                    \/ ledger' = Append(ledger, "halted")
           NotToTurn(p) == \E l : l # "turn" /\ pc' = [pc EXCEPT ![p] = l]
           Kept == Number(ledger', {"turn"}) = Number(ledger, {"turn"})
                     /\ InTurn' \subseteq InTurn
<1>2. ASSUME NEW p \in Procs, Plain, NotToTurn(p) PROVE Kept
  BY <1>1, <1>2, OthersNotCounted DEF FilesOK
<1>3. ASSUME GetCycle \/ Expire \/ UNCHANGED vars \/ DaemonRestart PROVE Kept
  <2>1. UNCHANGED ledger
    BY <1>3 DEF GetCycle, Expire, vars, store, DaemonRestart
  <2>2. \A q \in Procs : pc'[q] = pc[q] \/ pc'[q] = "idle"
    BY <1>3 DEF GetCycle, Expire, vars, store, DaemonRestart
  <2>3. InTurn' \subseteq InTurn
    BY <2>2 DEF InTurn, Procs
  <2>4. QED
    BY <2>1, <2>3
<1>4. ASSUME NEW p \in Steppers, Step(p) PROVE Kept
  <2>1. Plain
    BY <1>4 DEF Step, StepRefresh, StepGet, StepGuard, StepPipeline, StepRecord,
       StepSync, StepWrite, StepPut, store
  <2>2. NotToTurn(p)
    BY <1>4 DEF Step, StepRefresh, StepGet, StepGuard, StepPipeline, StepRecord,
       StepSync, StepWrite, StepPut, Execute, Ended, With, Goto
  <2>3. QED
    BY <1>2, <2>1, <2>2, StepperPlaces
<1>5. ASSUME NEW p \in Halters, HaltStep(p) PROVE Kept
  <2>1. Plain
    BY <1>5 DEF HaltStep, HaltGet, HaltSync, HaltWrite, HaltRemove, HaltSeal, HaltPut,
       HaltClose, store
  <2>2. NotToTurn(p)
    BY <1>5 DEF HaltStep, HaltGet, HaltSync, HaltWrite, HaltRemove, HaltSeal, HaltPut,
       HaltClose, Ended, With, Goto
  <2>3. QED
    BY <1>2, <2>1, <2>2, HalterPlaces
<1>6. ASSUME NEW p \in Orchs, OrchStep(p) PROVE Kept
  <2>1. Plain
    BY <1>6 DEF OrchStep, OrchGet, OrchSync, OrchGuard, OrchFlag, RunGuard, RunRead, store
  <2>2. NotToTurn(p)
    BY <1>6 DEF OrchStep, OrchGet, OrchSync, OrchGuard, OrchFlag, RunGuard, RunRead,
       RunEnds, Ended, With, Goto
  <2>3. QED
    BY <1>2, <2>1, <2>2, OrchPlaces
<1>7. ASSUME NEW p \in Passes, PassStep(p) PROVE Kept
  <2>1. Plain
    BY <1>7 DEF PassStep, PassRead, PassGuard, PassSealing, PassDies, store
  <2>2. NotToTurn(p)
    BY <1>7 DEF PassStep, PassRead, PassGuard, PassSealing, PassDies, PassAgents,
       PassBare, Ended, With, Goto
  <2>3. QED
    BY <1>2, <2>1, <2>2, PassPlaces
<1>8. ASSUME NEW p \in Runners, RunOnce(p)
      PROVE  \/ ~ExceedsCeiling(ledger) /\ UNCHANGED ledger
             \/ \E q \in InTurn : ledger' = Append(ledger, "turn") /\ InTurn' = InTurn \ {q}
             \/ Kept
  <2>1. p \in Procs
    BY RunnerPlaces
  <2>2. CASE RunCheck(p)
    <3>1. UNCHANGED ledger
      BY <2>2 DEF RunCheck
    <3>2. ~ExceedsCeiling(ledger) \/ NotToTurn(p)
      BY <2>2 DEF RunCheck, RunEnds, Ended, With
    <3>3. QED
      BY <1>2, <2>1, <3>1, <3>2
  <2>3. CASE RunTurn(p)
    <3>1. p \in InTurn
      BY <2>1, <2>3 DEF RunTurn, InTurn
    <3>2. NotToTurn(p)
      BY <2>3 DEF RunTurn, ApplyResponse, RunEnds, Ended, With
    <3>3. InTurn' = InTurn \ {p}
      BY <1>1, <2>1, <3>2
    <3>4. UNCHANGED ledger \/ ledger' = Append(ledger, "turn")
      BY <2>3 DEF RunTurn
    <3>5. QED
      BY <1>2, <2>1, <3>1, <3>2, <3>3, <3>4
  <2>4. CASE RunStep(p) \/ RunGreen(p) \/ RunHalting(p) \/ RunSave(p)
    <3>1. Plain
      BY <2>4 DEF RunStep, RunGreen, RunHalting, RunSave
    <3>2. NotToTurn(p)
      BY <2>4 DEF RunStep, RunGreen, RunHalting, RunSave, Execute, RunEnds, Ended, With, Goto
    <3>3. QED
      BY <1>2, <2>1, <3>1, <3>2
  <2>5. QED
    BY <1>8, <2>2, <2>3, <2>4 DEF RunOnce
<1> HIDE DEF Kept
<1>9. QED
  <2>1. \/ ~ExceedsCeiling(ledger) /\ UNCHANGED ledger
        \/ \E q \in InTurn : ledger' = Append(ledger, "turn") /\ InTurn' = InTurn \ {q}
        \/ Kept
    BY <1>3, <1>4, <1>5, <1>6, <1>7, <1>8, Zenon DEF Next
  <2>2. QED
    BY <2>1 DEF Kept

LEMMA CeilingStep ==
  ASSUME TypeOK, FewInTurn, FewInTurn', CeilingInv, IsFiniteSet(Passes), [Next]_vars
  PROVE  CeilingInv'
<1> SUFFICES ASSUME MaxLifetimeTurns > 0
             PROVE  Number(ledger', {"turn"}) + Cardinality(InTurn')
                      <= MaxLifetimeTurns + Cardinality(Passes)
  BY DEF CeilingInv
<1> DEFINE n == Number(ledger, {"turn"})
<1>1. ledger \in Seq(Events) /\ MaxLifetimeTurns \in Nat
  BY CycleAssumption DEF TypeOK, FilesOK
<1>2. n \in Nat /\ Number(Append(ledger, "turn"), {"turn"}) = n + 1
  BY <1>1, TurnsCounted
<1>3. /\ IsFiniteSet(InTurn) /\ Cardinality(InTurn) \in Nat
      /\ Cardinality(Passes) \in Nat
  BY FS_CardinalityType DEF FewInTurn
<1>4. /\ IsFiniteSet(InTurn') /\ Cardinality(InTurn') \in Nat
      /\ Cardinality(InTurn') <= Cardinality(Passes) + 1
  BY DEF FewInTurn
<1>5. n + Cardinality(InTurn) <= MaxLifetimeTurns + Cardinality(Passes)
  BY DEF CeilingInv
<1>6. CASE ~ExceedsCeiling(ledger) /\ UNCHANGED ledger
  <2>1. n < MaxLifetimeTurns /\ Number(ledger', {"turn"}) = n
    BY <1>1, <1>2, <1>6 DEF ExceedsCeiling
  <2>2. QED
    BY <1>1, <1>2, <1>3, <1>4, <2>1
<1>7. ASSUME NEW p \in InTurn, ledger' = Append(ledger, "turn"), InTurn' = InTurn \ {p}
      PROVE  Number(ledger', {"turn"}) + Cardinality(InTurn')
               <= MaxLifetimeTurns + Cardinality(Passes)
  <2>1. Cardinality(InTurn') = Cardinality(InTurn) - 1
    BY <1>3, <1>7, FS_RemoveElement
  <2>2. Number(ledger', {"turn"}) = n + 1
    BY <1>2, <1>7
  <2>3. QED
    BY <1>1, <1>2, <1>3, <1>5, <2>1, <2>2
<1>8. CASE Number(ledger', {"turn"}) = n /\ InTurn' \subseteq InTurn
  <2>1. Cardinality(InTurn') <= Cardinality(InTurn)
    BY <1>3, <1>8, FS_Subset
  <2>2. QED
    BY <1>1, <1>2, <1>3, <1>4, <1>5, <1>8, <2>1
<1>9. QED
  BY <1>6, <1>7, <1>8, TurnKinds

(* The ceiling on agent turns is checked before a turn and recorded after it *)
(* in a file that other processes append to: however many passes overlap     *)
(* with each other and with the daemon's goroutine, die or are restarted,    *)
(* they exceed it by at most one turn for each pass.                         *)
THEOREM CeilingKept ==
  ASSUME IsFiniteSet(Passes)
  PROVE  Spec => []CeilingHolds
<1>1. Init => CeilingInv
  <2> SUFFICES ASSUME Init PROVE CeilingInv
    OBVIOUS
  <2>1. InTurn = {} /\ {i \in 1..Len(ledger) : ledger[i] \in {"turn"}} = {}
    BY DEF Init, InTurn, Procs
  <2>2. Cardinality({}) = 0 /\ Cardinality(Passes) \in Nat
    BY FS_EmptySet, FS_CardinalityType
  <2>3. Number(ledger, {"turn"}) = 0
    BY <2>1, <2>2, Zenon DEF Number
  <2>4. Cardinality(InTurn) = 0
    BY <2>1, <2>2
  <2>5. QED
    BY <2>2, <2>3, <2>4, CycleAssumption DEF CeilingInv
<1>2. TypeOK /\ FewInTurn /\ FewInTurn' /\ CeilingInv /\ [Next]_vars => CeilingInv'
  BY CeilingStep
<1>3. TypeOK /\ OneOrchestrator => FewInTurn
  BY FewAtOnce
<1>4. TypeOK /\ FewInTurn /\ CeilingInv => CeilingHolds
  <2> SUFFICES ASSUME TypeOK, FewInTurn, CeilingInv, MaxLifetimeTurns > 0
               PROVE  Number(ledger, {"turn"}) <= MaxLifetimeTurns + Cardinality(Passes)
    BY DEF CeilingHolds
  <2>1. Number(ledger, {"turn"}) \in Nat
    BY TurnsCounted DEF TypeOK, FilesOK
  <2>2. Cardinality(InTurn) \in Nat /\ Cardinality(Passes) \in Nat
    BY FS_CardinalityType DEF FewInTurn
  <2>3. QED
    BY <2>1, <2>2, CycleAssumption DEF CeilingInv
<1>5. QED
  BY <1>1, <1>2, <1>3, <1>4, TypeCorrect, OneGoroutine, PTL DEF Spec
=============================================================================
