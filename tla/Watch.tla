------------------------------- MODULE Watch --------------------------------
(***************************************************************************)
(* The event streams of one cycle: `cycle watch` and `cycle start` follow  *)
(* handleCycleEvents, which sends the state it was given by get, then      *)
(* subscribes, then forwards what handleStepCycle and handleHaltCycle      *)
(* broadcast.  The store's lock is held by one operation at a time and     *)
(* never between two of them, so that steps, halts and streams overlap.    *)
(*                                                                         *)
(* Of a state only whether it is halted is kept; which of two copies is    *)
(* the later one is left open.  Module Cycle has the stamps.               *)
(***************************************************************************)
EXTENDS Naturals, Sequences, FiniteSets

CONSTANTS
  Watchers,   \* streams
  Steps,      \* handlers of a step
  Halts,      \* handlers of a halt
  EventCap    \* capacity of a subscriber's channel

ASSUME WatchAssumption == Steps \cap Halts = {} /\ EventCap \in Nat \ {0}

VARIABLES
  mem, disk,   \* cycleStore.states and the state file
  synced,      \* cycleStore.syncs has an entry
  sealed,      \* the ledger ends in cycle_halted
  events,      \* cycleStore.events: the streams whose channels are listed
  channel,     \* what each channel holds
  closed,      \* the channels that are closed
  watchAt,     \* where each stream is, and at the end why it ended
  at, held,    \* where each handler is and the state it has
  full,        \* history: streams whose channel had no room for a halt
  late         \* history: streams that subscribed between broadcast and closeAll

storeVars == <<mem, disk, synced, sealed>>
hubVars   == <<events, channel, closed, watchAt, full, late>>
watchVars == <<storeVars, hubVars, at, held>>

NoCycle     == "none"
CycleStates == {"running", "halted"}
WatchOver   == {"notfound", "halt", "closed", "left", "aborted"}

WatchInit ==
  /\ mem = "running" /\ disk = "running" /\ synced = TRUE /\ sealed = FALSE
  /\ events = {} /\ channel = [w \in Watchers |-> <<>>] /\ closed = {}
  /\ watchAt = [w \in Watchers |-> "idle"]
  /\ at = [p \in Steps \cup Halts |-> "idle"]
  /\ held = [p \in Steps \cup Halts |-> NoCycle]
  /\ full = {} /\ late = {}

(* get: memory, else the file, which is then kept in memory. *)
Found == IF mem # NoCycle THEN mem ELSE disk
Loads == /\ mem' = Found
         /\ synced' = (synced \/ (mem = NoCycle /\ disk # NoCycle))

ToWatch(w, next) == watchAt' = [watchAt EXCEPT ![w] = next]
ToHandler(p, next) == at' = [at EXCEPT ![p] = next]
-----------------------------------------------------------------------------
(* handleCycleEvents up to the first event, which is the state get returned. *)
Snapshot(w) ==
  /\ watchAt[w] = "idle" /\ Loads
  /\ ToWatch(w, IF Found = NoCycle THEN "notfound" ELSE "sent")
  /\ UNCHANGED <<disk, sealed, events, channel, closed, at, held, full, late>>

Subscribe(w) ==
  /\ watchAt[w] = "sent" /\ ToWatch(w, "waiting")
  /\ events' = events \cup {w}
  /\ late' = IF \E p \in Halts : at[p] = "told" THEN late \cup {w} ELSE late
  /\ UNCHANGED <<storeVars, channel, closed, at, held, full>>

(* Mutant of Unsubscribe: the channel stays listed. *)
UnsubscribeListed(w) == closed' = closed \cup {w} /\ UNCHANGED events

(* unsubscribe closes the channel, which panics if closeAll has closed it;   *)
(* the connection is then aborted.                                           *)
Unsubscribe(w) == events' = events \ {w} /\ closed' = closed \cup {w}

End(w, why) ==
  /\ Unsubscribe(w)
  /\ ToWatch(w, IF w \in closed THEN "aborted" ELSE why)
  /\ UNCHANGED <<storeVars, at, held, full, late>>

(* The loop's select: an event, which ends the stream if it is a halt, *)
Forward(w) ==
  /\ watchAt[w] = "waiting" /\ channel[w] # <<>>
  /\ channel' = [channel EXCEPT ![w] = Tail(@)]
  /\ IF Head(channel[w]) = "halted" THEN End(w, "halt")
     ELSE UNCHANGED <<storeVars, events, closed, watchAt, at, held, full, late>>

(* Mutant of Over: a closed channel is not told from an event. *)
OverNever(w) == FALSE

(* the end of the channel, when closeAll has closed it (here unsubscribe     *)
(* always panics), *)
Over(w) == channel[w] = <<>> /\ w \in closed

Drained(w) ==
  /\ watchAt[w] = "waiting" /\ Over(w)
  /\ events' = events \ {w} /\ ToWatch(w, "closed")
  /\ UNCHANGED <<storeVars, channel, closed, at, held, full, late>>

(* or a client that is gone: a signal, its timeout, or a halt it has read.   *)
Leave(w) ==
  /\ watchAt[w] = "waiting"
  /\ End(w, "left") /\ UNCHANGED channel
-----------------------------------------------------------------------------
(* broadcast: a channel without room is passed over. *)
Broadcast(e) ==
  LET room == {w \in events : Len(channel[w]) < EventCap} IN
    /\ channel' = [w \in Watchers |-> IF w \in room THEN Append(channel[w], e) ELSE channel[w]]
    /\ full' = IF e = "halted" THEN full \cup (events \ room) ELSE full

(* handleStepCycle: refreshFromFile, which takes the file unless memory is   *)
(* later, and get; *)
StepGet(p) ==
  /\ at[p] = "idle" /\ ToHandler(p, "got")
  /\ \/ disk # NoCycle /\ mem' = disk /\ synced' = TRUE
     \/ mem # NoCycle /\ UNCHANGED <<mem, synced>>
  /\ held' = [held EXCEPT ![p] = mem']
  /\ UNCHANGED <<disk, sealed, hubVars>>

(* the reviver guard; *)
StepGuard(p) ==
  /\ at[p] = "got" /\ ToHandler(p, IF sealed THEN "over" ELSE "guarded")
  /\ UNCHANGED <<storeVars, hubVars, held>>

(* the gates, which pass and append validation_green, or of which one halts; *)
StepGates(p) ==
  /\ at[p] = "guarded" /\ ToHandler(p, "ran")
  /\ \/ sealed' = FALSE /\ UNCHANGED held
     \/ held' = [held EXCEPT ![p] = "halted"] /\ UNCHANGED sealed
  /\ UNCHANGED <<mem, disk, synced, hubVars>>

(* and Write, put and broadcast. *)
WriteState(p, next) ==
  /\ disk' = IF synced THEN held[p] ELSE disk
  /\ ToHandler(p, next)
  /\ UNCHANGED <<mem, synced, sealed, hubVars, held>>

PutState(p, next) ==
  /\ mem' = held[p] /\ ToHandler(p, next)
  /\ UNCHANGED <<disk, synced, sealed, hubVars, held>>

Tell(p, next) ==
  /\ Broadcast(held[p]) /\ ToHandler(p, next)
  /\ UNCHANGED <<storeVars, events, closed, watchAt, late, held>>

StepWrite(p)     == at[p] = "ran" /\ WriteState(p, "wrote")
StepPut(p)       == at[p] = "wrote" /\ PutState(p, "put")
StepBroadcast(p) == at[p] = "put" /\ Tell(p, "over")

(* handleHaltCycle: get; the sync, which is looked up once for Write and     *)
(* Remove; the ledger; put; broadcast; and closeAll.                         *)
HaltGet(p) ==
  /\ at[p] = "idle" /\ Found # NoCycle /\ Loads
  /\ held' = [held EXCEPT ![p] = "halted"] /\ ToHandler(p, "ran")
  /\ UNCHANGED <<disk, sealed, hubVars>>

HaltWrite(p)    == at[p] = "ran" /\ synced /\ WriteState(p, "wrote")
HaltUnsynced(p) == at[p] = "ran" /\ ~synced /\ WriteState(p, "removed")

HaltRemove(p) ==
  /\ at[p] = "wrote" /\ disk' = NoCycle
  /\ ToHandler(p, "removed") /\ UNCHANGED <<mem, synced, sealed, hubVars, held>>

HaltAppend(p) ==
  /\ at[p] = "removed" /\ sealed' = TRUE
  /\ ToHandler(p, "sealed") /\ UNCHANGED <<mem, disk, synced, hubVars, held>>

HaltPut(p) == at[p] = "sealed" /\ PutState(p, "put")

(* Mutant of HaltBroadcast: the halt is not announced. *)
HaltBroadcastNot(p) ==
  /\ at[p] = "put" /\ ToHandler(p, "told") /\ UNCHANGED <<storeVars, hubVars, held>>

HaltBroadcast(p) == at[p] = "put" /\ Tell(p, "told")

CloseAll(p) ==
  /\ at[p] = "told" /\ ToHandler(p, "over")
  /\ closed' = closed \cup events /\ events' = {}
  /\ mem' = NoCycle /\ synced' = FALSE
  /\ UNCHANGED <<disk, sealed, channel, watchAt, full, late, held>>
-----------------------------------------------------------------------------
WatchStep(w) == Subscribe(w) \/ Forward(w) \/ Drained(w)
StepStep(p)  == StepGuard(p) \/ StepGates(p) \/ StepWrite(p) \/ StepPut(p) \/ StepBroadcast(p)
HaltStep(p)  == \/ HaltWrite(p) \/ HaltUnsynced(p) \/ HaltRemove(p) \/ HaltAppend(p)
                \/ HaltPut(p) \/ HaltBroadcast(p) \/ CloseAll(p)

WatchNext ==
  \/ \E w \in Watchers : Snapshot(w) \/ WatchStep(w) \/ Leave(w)
  \/ \E p \in Steps : StepGet(p) \/ StepStep(p)
  \/ \E p \in Halts : HaltGet(p) \/ HaltStep(p)

(* Handlers run on; nobody has to send a request or to leave. *)
WatchFair == /\ \A w \in Watchers : WF_watchVars(WatchStep(w))
             /\ \A p \in Steps : WF_watchVars(StepStep(p))
             /\ \A p \in Halts : WF_watchVars(HaltStep(p))

WatchSpec == WatchInit /\ [][WatchNext]_watchVars /\ WatchFair
-----------------------------------------------------------------------------
(* The types of the store, of the channels and of the places. *)
WatchTypeOK ==
  /\ mem \in CycleStates \cup {NoCycle} /\ disk \in CycleStates \cup {NoCycle}
  /\ synced \in BOOLEAN /\ sealed \in BOOLEAN
  /\ events \subseteq Watchers /\ closed \subseteq Watchers
  /\ full \subseteq Watchers /\ late \subseteq Watchers
  /\ channel \in [Watchers -> Seq(CycleStates)]
  /\ watchAt \in [Watchers -> WatchOver \cup {"idle", "sent", "waiting"}]
  /\ at \in [Steps \cup Halts -> {"idle", "got", "guarded", "ran", "wrote", "removed",
                                  "sealed", "put", "told", "over"}]
  /\ held \in [Steps \cup Halts -> CycleStates \cup {NoCycle}]

(* broadcast sends on every listed channel under the store's lock: none of   *)
(* them is closed and each belongs to a stream that still reads it, whatever *)
(* halts, steps and leaving clients overlap.                                 *)
ListedOpen ==
  events \cap closed = {} /\ \A w \in events : watchAt[w] = "waiting"

(* A stream that was cut by closeAll without a halt event either had no room *)
(* for it or subscribed after the broadcast: nobody else misses a halt.      *)
HaltSeen ==
  \A w \in Watchers : watchAt[w] = "closed" => w \in full \cup late

(* A halt ends the streams that are open when it gets under way. *)
HaltEndsStreams ==
  \A w \in Watchers :
    (w \in events /\ \E p \in Halts : at[p] = "ran") ~> watchAt[w] \in WatchOver
=============================================================================
