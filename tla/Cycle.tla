------------------------------- MODULE Cycle -------------------------------
(***************************************************************************)
(* One autonomous cycle.  Its state is kept in a file, of which the daemon *)
(* caches a copy; what happened is kept in an append-only ledger, and a    *)
(* cycle_halted entry there seals the cycle until a later validation_green *)
(* (the reviver guard).  Four kinds of processes work on the two files:    *)
(*                                                                         *)
(*   Steppers  handleStepCycle of the daemon                               *)
(*   Halters   handleHaltCycle of the daemon                               *)
(*   Orchs     handleOrchestrate and the goroutine it starts               *)
(*   Passes    cycle run --once, processes of their own                    *)
(*                                                                         *)
(* A handler that is done is used again for the next request.  A critical  *)
(* section, a write of the state file (an atomic rename), a removal and a  *)
(* read or append of the ledger are one step each.                         *)
(***************************************************************************)
EXTENDS Integers, Sequences, FiniteSets

CONSTANTS
  Steppers, Halters, Orchs, Passes,
  MaxCycles,          \* max_cycles of the cycle
  MaxLifetimeTurns,   \* the ceiling on agent turns; 0 for none
  StuckAfter,         \* turns or failed gates without which Stuck is false
  Timed,              \* whether the cycle has max_duration_minutes
  Faults,             \* whether writes fail and processes die
  MaxClock,           \* bound on the time stamps
  MaxLedger,          \* bound on the ledger: nothing starts beyond it
  NoState             \* no state: no file, or nothing cached

Procs   == Steppers \cup Halters \cup Orchs \cup Passes
Daemon  == Steppers \cup Halters \cup Orchs
Runners == Orchs \cup Passes

(* contract.CycleState: whether it has an ID, whether it is halted, the      *)
(* completed cycles, whether it has a goal, and updated_at.                  *)
States == [id : BOOLEAN, halted : BOOLEAN, completed : Nat, goal : BOOLEAN,
           at : Nat]

Events == {"halted", "green", "completed", "turn", "failed"}

ASSUME CycleAssumption ==
  /\ NoState \notin States
  /\ MaxCycles \in Nat \ {0} /\ MaxLifetimeTurns \in Nat /\ StuckAfter \in Nat
  /\ MaxClock \in Nat /\ MaxLedger \in Nat
  /\ Timed \in BOOLEAN /\ Faults \in BOOLEAN
  /\ Steppers \cap (Halters \cup Orchs \cup Passes) = {}
  /\ Halters \cap (Orchs \cup Passes) = {}
  /\ Orchs \cap Passes = {}

VARIABLES
  file,            \* the state file
  cache,           \* cycleStore.states
  synced,          \* cycleStore.syncs has an entry
  orchestrating,   \* cycleStore.orchestrating
  ledger,          \* the entries that are looked at again, in order
  clock,           \* the time
  expired,         \* max_duration_minutes have passed
  answered,        \* history: a halt request has been answered
  pc,              \* where each process is
  st               \* the state it has in hand

vars == <<file, cache, synced, orchestrating, ledger, clock, expired,
          answered, pc, st>>
store == <<cache, synced, orchestrating>>

(* What Read returns for a file that does not exist. *)
Zero == [id |-> FALSE, halted |-> FALSE, completed |-> 0, goal |-> FALSE,
         at |-> 0]

NewState == [Zero EXCEPT !.id = TRUE, !.goal = TRUE]

(* handleCreateCycle has answered: only then the client knows the ID. *)
Init ==
  /\ file = NewState /\ cache = NewState /\ synced = TRUE
  /\ orchestrating = FALSE /\ ledger = <<>> /\ clock = 0
  /\ expired = FALSE /\ answered = FALSE
  /\ pc = [p \in Procs |-> "idle"] /\ st = [p \in Procs |-> NoState]
-----------------------------------------------------------------------------
(* The last cycle_halted entry has no validation_green after it. *)
LedgerSealsResume(l) ==
  \E i \in 1..Len(l) : /\ l[i] = "halted"
                       /\ \A j \in i..Len(l) : l[j] # "green"

Sealed == LedgerSealsResume(ledger)

(* A ledger that cannot be read refuses as well. *)
MayRefuse == Sealed \/ Faults

Number(l, es) == Cardinality({i \in 1..Len(l) : l[i] \in es})

(* Mutant of ExceedsCeiling: the turn that reaches the ceiling is forgotten. *)
ExceedsCeilingLate(l) ==
  MaxLifetimeTurns > 0 /\ Number(l, {"turn"}) > MaxLifetimeTurns

(* budget.ExceedsLifetimeCeiling *)
ExceedsCeiling(l) ==
  MaxLifetimeTurns > 0 /\ Number(l, {"turn"}) >= MaxLifetimeTurns

(* Stuck looks for repetitions, which are not modelled: it may find one as   *)
(* soon as there are enough entries for it.                                  *)
MayBeStuck(l) == Number(l, {"turn", "failed"}) >= StuckAfter

(* A zero state has no limits. *)
CanAdvance(s) ==
  /\ ~s.halted
  /\ s.id => s.completed < MaxCycles /\ ~expired

(* Time stamps are in milliseconds: a later one may be the same. *)
Times == {t \in clock..(clock + 1) : t <= MaxClock}

HaltState(s, t) == [s EXCEPT !.halted = TRUE, !.at = t]

(* CompleteCycle refuses a halted state, and returns it; its callers clear   *)
(* the goal all the same.                                                    *)
CompleteCycle(s, t) ==
  IF s.halted THEN [s EXCEPT !.goal = FALSE]
  ELSE [s EXCEPT !.completed = @ + 1, !.goal = FALSE, !.at = t]

Goto(p, l)     == pc' = [pc EXCEPT ![p] = l] /\ UNCHANGED st
With(p, l, s)  == pc' = [pc EXCEPT ![p] = l] /\ st' = [st EXCEPT ![p] = s]
Ended(p)       == With(p, "idle", NoState)

(* Pipeline.Execute and what its callers make of it: the gates pass and the  *)
(* cycle is completed, or one fails and the state is halted.                 *)
Execute(p, passed, failed) ==
  \E t \in Times :
    /\ clock' = t
    /\ \/ With(p, passed, CompleteCycle(st[p], t))
       \/ With(p, failed, HaltState(st[p], t))

Logged(es)  == ledger' = ledger \o es \/ (Faults /\ UNCHANGED ledger)
Written(s)  == file' = s \/ (Faults /\ UNCHANGED file)

(* cycleStore.get: the cached state, or else the file's. *)
Found == IF cache # NoState THEN cache ELSE
         IF file # NoState /\ file.id THEN file ELSE NoState

Get ==
  /\ cache' = Found
  /\ synced' = (synced \/ (cache = NoState /\ Found # NoState))

(* refreshFromFile *)
Refresh ==
  LET fresh == /\ file # NoState /\ file.id
               /\ cache # NoState => file.at >= cache.at
  IN /\ cache' = IF fresh THEN file ELSE cache
     /\ synced' = (synced \/ fresh)

Room == Len(ledger) < MaxLedger
-----------------------------------------------------------------------------
(* handleGetCycle refreshes and gets, handleCycleEvents and                  *)
(* handleCycleLedger get: a step each.                                       *)
GetCycle ==
  /\ Refresh \/ Get
  /\ UNCHANGED <<file, orchestrating, ledger, clock, expired, answered, pc, st>>

StepRefresh(p) ==
  /\ pc[p] = "idle" /\ Room
  /\ Refresh /\ Goto(p, "get")
  /\ UNCHANGED <<file, orchestrating, ledger, clock, expired, answered>>

StepGet(p) ==
  /\ pc[p] = "get"
  /\ Get
  /\ IF Found = NoState THEN Ended(p) ELSE With(p, "guard", Found)
  /\ UNCHANGED <<file, orchestrating, ledger, clock, expired, answered>>

(* Mutant of StepGuard: the ledger is not read. *)
StepGuardOpen(p) ==
  /\ pc[p] = "guard"
  /\ With(p, "run", [st[p] EXCEPT !.goal = TRUE])
  /\ UNCHANGED <<file, store, ledger, clock, expired, answered>>

(* The seal, then the goal: the request may bring one. *)
StepGuard(p) ==
  /\ pc[p] = "guard"
  /\ \/ MayRefuse /\ Ended(p)
     \/ /\ ~Sealed
        /\ \/ With(p, "run", [st[p] EXCEPT !.goal = TRUE])
           \/ st[p].goal /\ Goto(p, "run")
           \/ ~st[p].goal /\ Ended(p)
  /\ UNCHANGED <<file, store, ledger, clock, expired, answered>>

(* The pipeline runs without a lock, on whatever state was cached: neither   *)
(* halted nor max_cycles is looked at.                                       *)
StepPipeline(p) ==
  /\ pc[p] = "run" /\ Execute(p, "green", "red")
  /\ UNCHANGED <<file, store, ledger, expired, answered>>

(* A failed gate is recorded as such; cycle_halted is not recorded. *)
StepRecord(p) ==
  /\ \/ pc[p] = "green" /\ Logged(<<"green", "completed">>)
     \/ pc[p] = "red"   /\ Logged(<<"failed">>)
  /\ Goto(p, "sync")
  /\ UNCHANGED <<file, store, clock, expired, answered>>

(* getSync: without one the state is not written. *)
StepSync(p) ==
  /\ pc[p] = "sync" /\ Goto(p, IF synced THEN "write" ELSE "put")
  /\ UNCHANGED <<file, store, ledger, clock, expired, answered>>

StepWrite(p) ==
  /\ pc[p] = "write"
  /\ Written(st[p]) /\ Goto(p, "put")
  /\ UNCHANGED <<store, ledger, clock, expired, answered>>

StepPut(p) ==
  /\ pc[p] = "put"
  /\ cache' = st[p] /\ Ended(p)
  /\ UNCHANGED <<file, synced, orchestrating, ledger, clock, expired, answered>>
-----------------------------------------------------------------------------
(* handleHaltCycle does not refresh. *)
HaltGet(p) ==
  /\ pc[p] = "idle" /\ Room
  /\ Found # NoState /\ Get
  /\ \E t \in Times : clock' = t /\ With(p, "sync", HaltState(Found, t))
  /\ UNCHANGED <<file, orchestrating, ledger, expired, answered>>

HaltSync(p) ==
  /\ pc[p] = "sync" /\ Goto(p, IF synced THEN "write" ELSE "seal")
  /\ UNCHANGED <<file, store, ledger, clock, expired, answered>>

HaltWrite(p) ==
  /\ pc[p] = "write"
  /\ Written(st[p]) /\ Goto(p, "remove")
  /\ UNCHANGED <<store, ledger, clock, expired, answered>>

HaltRemove(p) ==
  /\ pc[p] = "remove"
  /\ Written(NoState) /\ Goto(p, "seal")
  /\ UNCHANGED <<store, ledger, clock, expired, answered>>

HaltSeal(p) ==
  /\ pc[p] = "seal"
  /\ Logged(<<"halted">>) /\ Goto(p, "put")
  /\ UNCHANGED <<file, store, clock, expired, answered>>

HaltPut(p) ==
  /\ pc[p] = "put"
  /\ cache' = st[p] /\ Goto(p, "close")
  /\ UNCHANGED <<file, synced, orchestrating, ledger, clock, expired, answered>>

(* closeAll, and the answer. *)
HaltClose(p) ==
  /\ pc[p] = "close"
  /\ cache' = NoState /\ synced' = FALSE
  /\ Ended(p) /\ answered' = TRUE
  /\ UNCHANGED <<file, orchestrating, ledger, clock, expired>>
-----------------------------------------------------------------------------
OrchGet(p) ==
  /\ pc[p] = "idle" /\ Room
  /\ Found # NoState /\ Get /\ Goto(p, "sync")
  /\ UNCHANGED <<file, orchestrating, ledger, clock, expired, answered>>

OrchSync(p) ==
  /\ pc[p] = "sync"
  /\ synced' = TRUE /\ Goto(p, "guard")
  /\ UNCHANGED <<file, cache, orchestrating, ledger, clock, expired, answered>>

OrchGuard(p) ==
  /\ pc[p] = "guard"
  /\ (MayRefuse /\ Ended(p)) \/ (~Sealed /\ Goto(p, "flag"))
  /\ UNCHANGED <<file, store, ledger, clock, expired, answered>>

(* Mutant of OrchFlag: the flag is set and not looked at. *)
OrchFlagBlind(p) ==
  /\ pc[p] = "flag" /\ Goto(p, "enter")
  /\ orchestrating' = TRUE
  /\ UNCHANGED <<file, cache, synced, ledger, clock, expired, answered>>

(* One goroutine at a time. *)
OrchFlag(p) ==
  /\ pc[p] = "flag"
  /\ IF orchestrating THEN Ended(p) ELSE Goto(p, "enter")
  /\ orchestrating' = TRUE
  /\ UNCHANGED <<file, cache, synced, ledger, clock, expired, answered>>

(* A runner ends; the goroutine also clears the flag. *)
RunEnds(p) == Ended(p) /\ orchestrating' = (orchestrating /\ p \notin Orchs)

(* Mutant of RunGuard: the handler's look at the seal is relied on. *)
RunGuardOpen(p) ==
  /\ pc[p] = "enter" /\ Goto(p, "read")
  /\ UNCHANGED <<file, store, ledger, clock, expired, answered>>

(* MultiAgentOrchestrator.Run looks at the seal once; it also ends when no   *)
(* agents are given.                                                         *)
RunGuard(p) ==
  /\ pc[p] = "enter"
  /\ \/ RunEnds(p)
     \/ ~Sealed /\ Goto(p, "read") /\ UNCHANGED orchestrating
  /\ UNCHANGED <<file, cache, synced, ledger, clock, expired, answered>>

(* The head of the loop, after the guard and after every sleep. *)
RunRead(p) ==
  LET s == IF file = NoState THEN Zero ELSE file
  IN /\ pc[p] = "read" \/ (pc[p] = "sleep" /\ Room)
     /\ \/ ~CanAdvance(s) /\ RunEnds(p)
        \/ CanAdvance(s) /\ With(p, "check", s) /\ UNCHANGED orchestrating
     /\ UNCHANGED <<file, cache, synced, ledger, clock, expired, answered>>
-----------------------------------------------------------------------------
(* cycle run --once: a cycle that is not there, is halted or cannot advance  *)
(* is left alone.                                                            *)
PassRead(p) ==
  /\ pc[p] = "idle" /\ Room
  /\ file # NoState /\ file.id /\ CanAdvance(file)
  /\ With(p, "guard", file)
  /\ UNCHANGED <<file, store, ledger, clock, expired, answered>>

(* With --agents RunOnce takes over. *)
PassAgents(p, s) == With(p, "check", s) /\ UNCHANGED clock

(* Without, the breakers come at once and then the gates. *)
PassBare(p, s) ==
  \/ /\ MayBeStuck(ledger) \/ ExceedsCeiling(ledger)
     /\ \E t \in Times : clock' = t /\ With(p, "sealing", HaltState(s, t))
  \/ /\ ~ExceedsCeiling(ledger)
     /\ IF s.goal THEN With(p, "bare", s) ELSE Ended(p)
     /\ UNCHANGED clock

(* The seal, and a goal from the command line. *)
PassGuard(p) ==
  /\ pc[p] = "guard"
  /\ \/ MayRefuse /\ Ended(p) /\ UNCHANGED clock
     \/ /\ ~Sealed
        /\ \E s \in {st[p], [st[p] EXCEPT !.goal = TRUE]} :
             PassAgents(p, s) \/ PassBare(p, s)
  /\ UNCHANGED <<file, store, ledger, expired, answered>>

(* The guards of RunOnce. *)
RunCheck(p) ==
  /\ pc[p] = "check"
  /\ \/ (~CanAdvance(st[p]) \/ Faults) /\ RunEnds(p) /\ UNCHANGED clock
     \/ /\ CanAdvance(st[p]) /\ UNCHANGED orchestrating
        /\ \/ /\ MayBeStuck(ledger) \/ ExceedsCeiling(ledger)
              /\ \E t \in Times :
                   clock' = t /\ With(p, "halting", HaltState(st[p], t))
           \/ ~ExceedsCeiling(ledger) /\ Goto(p, "turn") /\ UNCHANGED clock
  /\ UNCHANGED <<file, cache, synced, ledger, expired, answered>>

(* The agent asks for a halt or cannot be understood; or it leaves the cycle *)
(* with a goal, or without one, which Driver.Step refuses.                   *)
ApplyResponse(p) ==
  \E t \in Times :
    /\ clock' = t
    /\ \/ With(p, "halting", HaltState(st[p], t)) /\ UNCHANGED orchestrating
       \/ /\ With(p, "step", [st[p] EXCEPT !.goal = TRUE, !.at = t])
          /\ UNCHANGED orchestrating
       \/ (~st[p].goal \/ Faults) /\ RunEnds(p)

(* The adapter fails, or its turn is recorded and applied. *)
RunTurn(p) ==
  /\ pc[p] = "turn"
  /\ \/ RunEnds(p) /\ UNCHANGED <<ledger, clock>>
     \/ ledger' = Append(ledger, "turn") /\ ApplyResponse(p)
  /\ UNCHANGED <<file, cache, synced, expired, answered>>

(* Driver.Step: a failed gate halts the state.  Only the pass without agents *)
(* goes on to record cycle_halted.                                           *)
RunStep(p) ==
  /\ pc[p] \in {"step", "bare"}
  /\ Execute(p, "green", IF pc[p] = "bare" THEN "sealing" ELSE "save")
  /\ UNCHANGED <<file, store, ledger, expired, answered>>

RunGreen(p) ==
  /\ pc[p] = "green"
  /\ Logged(<<"green", "completed">>) /\ Goto(p, "save")
  /\ UNCHANGED <<file, store, clock, expired, answered>>

(* The halt is recorded before the state is written: always by the pass      *)
(* without agents (haltOnce), if possible by RunOnce.                        *)
PassSealing(p) ==
  /\ pc[p] = "sealing"
  /\ \/ ledger' = Append(ledger, "halted") /\ Goto(p, "save")
     \/ Faults /\ UNCHANGED ledger /\ Ended(p)
  /\ UNCHANGED <<file, store, clock, expired, answered>>

RunHalting(p) ==
  /\ pc[p] = "halting"
  /\ Logged(<<"halted">>) /\ Goto(p, "save")
  /\ UNCHANGED <<file, store, clock, expired, answered>>

(* Only the goroutine goes round again. *)
RunSave(p) ==
  /\ pc[p] = "save"
  /\ \/ Faults /\ UNCHANGED file /\ RunEnds(p)
     \/ /\ file' = st[p]
        /\ IF p \in Orchs /\ CanAdvance(st[p])
           THEN With(p, "sleep", NoState) /\ UNCHANGED orchestrating
           ELSE RunEnds(p)
  /\ UNCHANGED <<cache, synced, ledger, clock, expired, answered>>
-----------------------------------------------------------------------------
(* The daemon dies and is started again. *)
DaemonRestart ==
  /\ Faults
  /\ cache' = NoState /\ synced' = FALSE /\ orchestrating' = FALSE
  /\ pc' = [p \in Procs |-> IF p \in Daemon THEN "idle" ELSE pc[p]]
  /\ st' = [p \in Procs |-> IF p \in Daemon THEN NoState ELSE st[p]]
  /\ UNCHANGED <<file, ledger, clock, expired, answered>>

PassDies(p) ==
  /\ Faults /\ pc[p] # "idle" /\ Ended(p)
  /\ UNCHANGED <<file, store, ledger, clock, expired, answered>>

Expire ==
  /\ Timed /\ ~expired /\ expired' = TRUE
  /\ UNCHANGED <<file, store, ledger, clock, answered, pc, st>>

Step(p) == \/ StepRefresh(p) \/ StepGet(p) \/ StepGuard(p) \/ StepPipeline(p)
           \/ StepRecord(p) \/ StepSync(p) \/ StepWrite(p) \/ StepPut(p)

HaltStep(p) == \/ HaltGet(p) \/ HaltSync(p) \/ HaltWrite(p) \/ HaltRemove(p)
               \/ HaltSeal(p) \/ HaltPut(p) \/ HaltClose(p)

OrchStep(p) == \/ OrchGet(p) \/ OrchSync(p) \/ OrchGuard(p) \/ OrchFlag(p)
               \/ RunGuard(p) \/ RunRead(p)

PassStep(p) == PassRead(p) \/ PassGuard(p) \/ PassSealing(p) \/ PassDies(p)

RunOnce(p) == \/ RunCheck(p) \/ RunTurn(p) \/ RunStep(p) \/ RunGreen(p)
              \/ RunHalting(p) \/ RunSave(p)

Next ==
  \/ GetCycle \/ DaemonRestart \/ Expire
  \/ \E p \in Steppers : Step(p)
  \/ \E p \in Halters : HaltStep(p)
  \/ \E p \in Orchs : OrchStep(p)
  \/ \E p \in Passes : PassStep(p)
  \/ \E p \in Runners : RunOnce(p)

Spec == Init /\ [][Next]_vars
-----------------------------------------------------------------------------
(* Where the processes may be, where they have a state in hand, and where    *)
(* they have passed the reviver guard and not ended.                         *)
RunOnceLabels == {"check", "turn", "step", "green", "halting", "save"}
StepLabels == {"run", "green", "red", "sync", "write", "put"}
HaltLabels == {"sync", "write", "remove", "seal", "put", "close"}
Places ==
  (Steppers \X ({"idle", "get", "guard"} \cup StepLabels))
  \cup (Halters \X ({"idle"} \cup HaltLabels))
  \cup (Orchs \X ({"idle", "sync", "guard", "flag", "enter", "read", "sleep"}
                  \cup RunOnceLabels))
  \cup (Passes \X ({"idle", "guard", "bare", "sealing"} \cup RunOnceLabels))
Holding ==
  Places \ (   (Procs \X {"idle", "get"})
            \cup (Orchs \X {"sync", "guard", "flag", "enter", "read", "sleep"}))
Inside ==
  (Steppers \X StepLabels)
  \cup (Runners \X ({"read", "sleep", "bare", "sealing"} \cup RunOnceLabels))

At(p) == <<p, pc[p]>>
Admitted == {p \in Procs : At(p) \in Inside}

(* Types; a process that works on a state has one, and the daemon caches no  *)
(* state without an ID, which get and refreshFromFile take for no state.     *)
FilesOK ==
  /\ file \in States \cup {NoState}
  /\ cache \in {s \in States : s.id} \cup {NoState}
  /\ synced \in BOOLEAN /\ orchestrating \in BOOLEAN
  /\ ledger \in Seq(Events) /\ clock \in Nat
  /\ expired \in BOOLEAN /\ answered \in BOOLEAN
ProcsOK ==
  /\ pc = [p \in Procs |-> pc[p]] /\ st \in [Procs -> States \cup {NoState}]
  /\ \A p \in Procs :
       /\ At(p) \in Places
       /\ At(p) \in Holding => st[p] \in States
       /\ At(p) \in Holding /\ p \in Steppers \cup Halters => st[p].id
TypeOK == FilesOK /\ ProcsOK

(* A halt sticks: once the ledger seals the cycle and no work that was let   *)
(* in before is under way, it is sealed for good, whoever asks for a step,   *)
(* an orchestration or a pass, and whenever they do.                         *)
SealHolds == [][Sealed /\ Admitted = {} => (Sealed /\ Admitted = {})']_vars

(* The guards, wherever they are called, implement the abstract seal.        *)
Guard == INSTANCE Seal
         WITH Workers <- Procs, sealed <- Sealed, admitted <- Admitted
ImplementsSeal == Guard!SealSpec

(* No zombies: a halted cycle whose file and cached copy are gone, with      *)
(* nothing under way, is never brought back by a request that is late.       *)
Gone ==
  /\ Sealed /\ Admitted = {} /\ \A p \in Halters : pc[p] = "idle"
  /\ file = NoState /\ cache = NoState
GoneStaysGone == [][Gone => Gone']_vars

Working(p) == pc[p] \in {"enter", "read", "sleep"} \cup RunOnceLabels

(* Requests to orchestrate that overlap start one goroutine: every other     *)
(* finds the flag, which is only cleared when the goroutine has ended.       *)
OneOrchestrator ==
  \A p, q \in Orchs : Working(p) /\ Working(q) => p = q

(* The ceiling on turns is checked against the ledger before a turn and      *)
(* recorded after it: runners that overlap exceed it, but by no more than    *)
(* one turn each, of which one may be the daemon's goroutine.                *)
CeilingHolds ==
  MaxLifetimeTurns > 0 =>
    Number(ledger, {"turn"}) <= MaxLifetimeTurns + Cardinality(Passes)

(* The user's halt sticks: once it has been answered the cycle is sealed.    *)
HaltSticks == answered => Sealed
=============================================================================
