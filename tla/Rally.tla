------------------------------- MODULE Rally -------------------------------
(***************************************************************************)
(* One rally session of the broker: the baton, the handlers that wait for  *)
(* it on behalf of participants (HTTP server-sent events and the MCP tool  *)
(* rally_join), the one-place channel each of them owns, and the           *)
(* interruption of the session.                                            *)
(*                                                                         *)
(* A connection is one run of handleRallyBaton or mcpToolRallyJoin with    *)
(* the channel it makes.  Everything a handler does under rallies.mu is    *)
(* one step; what it does without the lock (writing to the client, the     *)
(* select, closing channels after the unlock) is a step of its own.        *)
(***************************************************************************)
EXTENDS Naturals, Sequences

CONSTANTS
  Names,        \* participant names
  Requests,     \* the participant lists a client may ask for
  Conns,        \* connections; one that has ended is used again
  Nobody,       \* the empty participant name
  NoConn,       \* the nil channel
  NoEvent,      \* content of an empty channel
  MaxTurn       \* bound on turnN

Events == [kind : {"baton", "closed"}, turn : Nat, from : Names \cup {Nobody}]

ASSUME RallyAssumption ==
  /\ Nobody \notin Names
  /\ NoConn \notin Conns
  /\ NoEvent \notin Events
  /\ Requests \subseteq Seq(Names)
  /\ MaxTurn \in Nat

VARIABLES
  participants, \* ordered list of the session's participants
  status,       \* Absent, Idle, TurnState(p) or Interrupted
  holder,       \* name of the current baton holder, or Nobody
  turnN,        \* current turn number
  history,      \* the handoffs made so far
  streams,      \* participant name -> connection whose channel is registered
  pc,           \* where each connection's handler is
  as,           \* the participant a connection waits for
  evt,          \* the event a handler has taken from its channel
  buf,          \* content of each connection's one-place channel
  closed,       \* connections whose channel has been closed
  toClose,      \* channels the interrupter has yet to close
  woken,        \* history: who was told of a turn since it last got the baton
  seen          \* history: turn of the last event taken for p

session == <<participants, status, holder, turnN, history>>
conns   == <<streams, pc, as, evt, buf, closed, toClose>>
ghosts  == <<woken, seen>>
vars    == <<session, conns, ghosts>>

Absent       == <<"absent", Nobody>>
Idle         == <<"idle", Nobody>>
Interrupted  == <<"interrupted", Nobody>>
TurnState(p) == <<"turn", p>>

Members == {participants[i] : i \in 1..Len(participants)}

BatonEvent(n, from) == [kind |-> "baton", turn |-> n, from |-> from]
CloseSentinel       == [kind |-> "closed", turn |-> 0, from |-> Nobody]
Handoffs == [from : Names, to : Names, turn : Nat]

(* A handler's places.  "none" is a connection without a running handler;  *)
(* in the others the handler has registered its channel and has not yet    *)
(* run cleanupStream, except in "mcp_return".                              *)
SSEPlaces   == {"sse_headers", "sse_select", "sse_ping", "sse_write"}
MCPPlaces   == {"mcp_select", "mcp_take", "mcp_timeout"}
Connected   == SSEPlaces \cup MCPPlaces \cup {"cleanup"}
Waiting     == {"sse_headers", "sse_select", "sse_ping", "mcp_select"}
Places      == Connected \cup {"none", "mcp_return"}
-----------------------------------------------------------------------------
Init ==
  /\ participants = <<>> /\ status = Absent /\ holder = Nobody
  /\ turnN = 0 /\ history = <<>>
  /\ streams = [p \in Names |-> NoConn]
  /\ pc      = [c \in Conns |-> "none"]
  /\ as      = [c \in Conns |-> Nobody]
  /\ evt     = [c \in Conns |-> CloseSentinel]
  /\ buf     = [c \in Conns |-> NoEvent]
  /\ closed  = {}
  /\ toClose = {}
  /\ woken   = {}
  /\ seen    = [p \in Names |-> 0]

(* Mutant of ValidRequest: a list of one is let through. *)
ValidRequestAlone(ps, fh) ==
  /\ Len(ps) >= 1
  /\ \A i, j \in 1..Len(ps) : ps[i] = ps[j] => i = j
  /\ fh # Nobody => \E i \in 1..Len(ps) : ps[i] = fh

(* The checks of createRallySession on the list and on first_holder fh.    *)
ValidRequest(ps, fh) ==
  /\ Len(ps) >= 2
  /\ \A i, j \in 1..Len(ps) : ps[i] = ps[j] => i = j
  /\ fh # Nobody => \E i \in 1..Len(ps) : ps[i] = fh

(* createRallySession: without first_holder the session starts idle. *)
Create(ps, fh) ==
  /\ status = Absent
  /\ ValidRequest(ps, fh)
  /\ participants' = ps
  /\ \/ /\ fh = Nobody
        /\ status' = Idle
        /\ UNCHANGED <<holder, turnN>>
     \/ /\ fh # Nobody
        /\ holder' = fh
        /\ status' = TurnState(fh)
        /\ turnN'  = 1
  /\ UNCHANGED <<history, conns, ghosts>>

(* A connection no handler runs and whose channel nothing refers to. *)
Unused(c) ==
  /\ pc[c] = "none" /\ c \notin toClose
  /\ \A p \in Names : streams[p] # c

(* Mutants of ResumeEvent: "from" read from the oldest entry, or the wrong   *)
(* field of the last; the turn taken from the length of the history.         *)
ResumeEventOldest ==
  BatonEvent(turnN, IF history = <<>> THEN Nobody ELSE history[1].from)

ResumeEventBehind ==
  BatonEvent(Len(history), IF history = <<>> THEN Nobody ELSE history[Len(history)].from)

(* The event a reconnecting or late holder is sent: its "from" is read back *)
(* from the last entry of the history.                                      *)
ResumeEvent ==
  BatonEvent(turnN, IF history = <<>> THEN Nobody ELSE history[Len(history)].from)

(* What a join must find: a live session, of which p is a member, and no    *)
(* channel registered for p.  Its own channel is new.                        *)
MayJoin(c, p) ==
  /\ status \notin {Absent, Interrupted}
  /\ p \in Members
  /\ streams[p] = NoConn
  /\ Unused(c)

(* The locked part of a join, common to both transports.  The first of the  *)
(* list takes an idle baton; the holder gets its event again.               *)
Join(c, p, place) ==
  /\ MayJoin(c, p)
  /\ streams' = [streams EXCEPT ![p] = c]
  /\ pc'      = [pc EXCEPT ![c] = place]
  /\ as'      = [as EXCEPT ![c] = p]
  /\ closed'  = closed \ {c}
  /\ \/ /\ status = Idle /\ participants[1] = p
        /\ turnN < MaxTurn
        /\ turnN'  = turnN + 1
        /\ holder' = p
        /\ status' = TurnState(p)
        /\ buf'    = [buf EXCEPT ![c] = BatonEvent(turnN + 1, Nobody)]
        /\ woken'  = woken \ {p}
     \/ /\ status = TurnState(p)
        /\ buf' = [buf EXCEPT ![c] = ResumeEvent]
        /\ UNCHANGED <<turnN, holder, status, woken>>
     \/ /\ status # TurnState(p)
        /\ ~(status = Idle /\ participants[1] = p)
        /\ buf' = [buf EXCEPT ![c] = NoEvent]
        /\ UNCHANGED <<turnN, holder, status, woken>>
  /\ UNCHANGED <<participants, history, evt, toClose, seen>>

SSEJoin(c, p) == Join(c, p, "sse_headers")
MCPJoin(c, p) == Join(c, p, "mcp_select")
-----------------------------------------------------------------------------
Goto(c, place) == pc' = [pc EXCEPT ![c] = place] /\ UNCHANGED as

(* The handler returns, and its locals are gone. *)
Return(c) ==
  /\ pc'  = [pc EXCEPT ![c] = "none"]
  /\ as'  = [as EXCEPT ![c] = Nobody]
  /\ evt' = [evt EXCEPT ![c] = CloseSentinel]

(* writeSSEHeaders: on a failed flush the handler returns at once. *)
SSEHeaders(c) ==
  /\ pc[c] = "sse_headers"
  /\ \/ Goto(c, "sse_select") /\ UNCHANGED evt
     \/ Return(c)
  /\ UNCHANGED <<session, streams, buf, closed, toClose, ghosts>>

(* The client is gone (ctx.Done). *)
SSEEnd(c) ==
  /\ pc[c] = "sse_select"
  /\ Goto(c, "cleanup")
  /\ UNCHANGED <<session, streams, evt, buf, closed, toClose, ghosts>>

(* The ticker fires: the ping is written into the response's buffer, and    *)
(* the deadline set for that is cleared again before the flush.             *)
SSETick(c) ==
  /\ pc[c] = "sse_select"
  /\ Goto(c, "sse_ping")
  /\ UNCHANGED <<session, streams, evt, buf, closed, toClose, ghosts>>

(* The flush of the ping, to which no deadline applies. *)
SSEPing(c) ==
  /\ pc[c] = "sse_ping"
  /\ Goto(c, "sse_select") \/ Goto(c, "cleanup")
  /\ UNCHANGED <<session, streams, evt, buf, closed, toClose, ghosts>>

(* Take the buffered event out of the channel; seen records its turn. *)
Take(c) ==
  /\ buf[c] # NoEvent
  /\ evt' = [evt EXCEPT ![c] = buf[c]]
  /\ buf' = [buf EXCEPT ![c] = NoEvent]
  /\ seen' = IF buf[c].kind = "closed" THEN seen
             ELSE [seen EXCEPT ![as[c]] = buf[c].turn]

(* The select of streamBatonEvents takes an event: a baton to write, or the *)
(* sentinel, after which the stream ends whether or not it could be sent.   *)
SSEReceive(c) ==
  /\ pc[c] = "sse_select"
  /\ Take(c)
  /\ Goto(c, IF buf[c].kind = "closed" THEN "cleanup" ELSE "sse_write")
  /\ UNCHANGED <<session, streams, closed, toClose, woken>>

(* A drained, closed channel ends the stream. *)
SSEClosed(c) ==
  /\ pc[c] = "sse_select"
  /\ buf[c] = NoEvent /\ c \in closed
  /\ Goto(c, "cleanup")
  /\ UNCHANGED <<session, streams, evt, buf, closed, toClose, ghosts>>

(* Mutant of SSEWrite: a failed write is ignored. *)
SSEWriteIgnoresError(c) ==
  /\ pc[c] = "sse_write"
  /\ Goto(c, "sse_select")
  /\ woken' \in {woken, woken \cup {as[c]}}
  /\ evt' = [evt EXCEPT ![c] = CloseSentinel]
  /\ UNCHANGED <<session, streams, buf, closed, toClose, seen>>

(* writeSSEEvent, which may fail. *)
SSEWrite(c) ==
  /\ pc[c] = "sse_write"
  /\ \/ Goto(c, "sse_select") /\ woken' = woken \cup {as[c]}
     \/ Goto(c, "cleanup") /\ UNCHANGED woken
  /\ evt' = [evt EXCEPT ![c] = CloseSentinel]
  /\ UNCHANGED <<session, streams, buf, closed, toClose, seen>>

(* The select of mcpToolRallyJoin: cancellation, an event or the timer.      *)
(* Its branch for a closed channel is never taken (JoinSeesSentinel).        *)
MCPCancel(c) ==
  /\ pc[c] = "mcp_select"
  /\ Goto(c, "cleanup")
  /\ UNCHANGED <<session, streams, evt, buf, closed, toClose, ghosts>>

MCPReceive(c) ==
  /\ pc[c] = "mcp_select"
  /\ Take(c)
  /\ Goto(c, "mcp_take")
  /\ UNCHANGED <<session, streams, closed, toClose, woken>>

(* Mutant of MCPTimer: the timer drains the channel and waits again. *)
MCPTimerRetries(c) ==
  /\ pc[c] = "mcp_select"
  /\ buf' = [buf EXCEPT ![c] = NoEvent]
  /\ UNCHANGED <<session, streams, pc, as, evt, closed, toClose, ghosts>>

MCPTimer(c) ==
  /\ pc[c] = "mcp_select"
  /\ Goto(c, "mcp_timeout")
  /\ UNCHANGED <<session, streams, evt, buf, closed, toClose, ghosts>>

(* cleanupStream deletes the registration by participant name.  What is     *)
(* left in the channel is lost: drained by the timer's branch, never read   *)
(* again on the others.                                                     *)
Cleanup(c) ==
  /\ pc[c] \in {"cleanup", "mcp_take", "mcp_timeout"}
  /\ streams' = [streams EXCEPT ![as[c]] = NoConn]
  /\ buf'     = [buf EXCEPT ![c] = NoEvent]
  /\ \/ pc[c] = "mcp_take" /\ Goto(c, "mcp_return") /\ UNCHANGED evt
     \/ pc[c] # "mcp_take" /\ Return(c)
  /\ UNCHANGED <<session, closed, toClose, ghosts>>

(* The event becomes the result of the tool call. *)
MCPReturn(c) ==
  /\ pc[c] = "mcp_return"
  /\ woken' = IF evt[c].kind = "closed" THEN woken ELSE woken \cup {as[c]}
  /\ Return(c)
  /\ UNCHANGED <<session, streams, buf, closed, toClose, seen>>
-----------------------------------------------------------------------------
(* nextParticipant: the preferred one if it is a member, else round-robin,  *)
(* from the start of the list if current is not on it.                      *)
NextParticipant(current, preferred) ==
  IF preferred \in Members THEN preferred
  ELSE IF current \notin Members THEN participants[1]
  ELSE LET i == CHOOSE j \in 1..Len(participants) : participants[j] = current
       IN  participants[(i % Len(participants)) + 1]

(* A send that does not block: dropped when the one-place buffer is full.   *)
TrySend(c, e) == IF buf[c] = NoEvent THEN e ELSE buf[c]

(* advanceRallyBaton: the holder p passes the baton on, with or without an   *)
(* explicit handoff_to.                                                      *)
Done(p, to) ==
  LET next == NextParticipant(p, to)
      dest == streams[next]
  IN
  /\ to # p
  /\ status \notin {Absent, Interrupted}
  /\ holder = p
  /\ to = Nobody \/ to \in Members
  /\ turnN < MaxTurn
  /\ turnN'   = turnN + 1
  /\ history' = Append(history, [from |-> p, to |-> next, turn |-> turnN + 1])
  /\ holder'  = next
  /\ status'  = TurnState(next)
  /\ buf' = IF dest = NoConn THEN buf
            ELSE [buf EXCEPT ![dest] = TrySend(dest, BatonEvent(turnN + 1, p))]
  /\ woken' = woken \ {next}
  /\ UNCHANGED <<participants, streams, pc, as, evt, closed, toClose, seen>>

(* Mutant of Sentinels: closing the channel is relied upon. *)
SentinelsNone(live) == buf

(* The channels after a sentinel was offered to each of the live ones. *)
Sentinels(live) ==
  [c \in Conns |-> IF c \in live THEN TrySend(c, CloseSentinel) ELSE buf[c]]

(* Mutant of Interrupt: the registrations are kept. *)
InterruptKeepsStreams ==
  LET live == {c \in Conns : \E p \in Names : streams[p] = c} IN
  /\ status \notin {Absent, Interrupted}
  /\ status'  = Interrupted
  /\ holder'  = Nobody
  /\ buf'     = Sentinels(live)
  /\ toClose' = toClose \cup live
  /\ UNCHANGED <<participants, turnN, history, streams, pc, as, evt, closed, ghosts>>

(* The locked part of interruptRallySession and of CloseAllRallies: every    *)
(* registered channel gets the sentinel if it has room, is unregistered and  *)
(* is left to be closed after the unlock.                                    *)
Interrupt ==
  LET live == {c \in Conns : \E p \in Names : streams[p] = c} IN
  /\ status \notin {Absent, Interrupted}
  /\ status'  = Interrupted
  /\ holder'  = Nobody
  /\ buf'     = Sentinels(live)
  /\ streams' = [p \in Names |-> NoConn]
  /\ toClose' = toClose \cup live
  /\ UNCHANGED <<participants, turnN, history, pc, as, evt, closed, ghosts>>

(* Mutant of CloseChannel: the sentinel alone is relied upon. *)
CloseChannelForgotten(c) ==
  /\ c \in toClose
  /\ toClose' = toClose \ {c}
  /\ UNCHANGED <<session, streams, pc, as, evt, buf, closed, ghosts>>

(* The loop after the unlock closes the collected channels one by one. *)
CloseChannel(c) ==
  /\ c \in toClose
  /\ closed'  = closed \cup {c}
  /\ toClose' = toClose \ {c}
  /\ UNCHANGED <<session, streams, pc, as, evt, buf, ghosts>>
-----------------------------------------------------------------------------
(* The steps a handler takes by itself: the frames of writeSSEEvent and of  *)
(* writeCloseSentinel are sent under a write deadline.                       *)
HandlerStep(c) ==
  \/ SSEReceive(c) \/ SSEClosed(c) \/ SSEWrite(c)
  \/ MCPReceive(c) \/ Cleanup(c) \/ MCPReturn(c)

(* The flushes without a deadline, which a client that is connected but     *)
(* does not read can hold up for ever.                                      *)
FlushStep(c) == SSEHeaders(c) \/ SSEPing(c)

(* What clients and the clock may or may not do. *)
ClientStep(c) ==
  \/ \E p \in Names : SSEJoin(c, p) \/ MCPJoin(c, p)
  \/ SSEEnd(c) \/ SSETick(c) \/ MCPCancel(c) \/ MCPTimer(c)

Next ==
  \/ \E ps \in Requests, fh \in Names \cup {Nobody} : Create(ps, fh)
  \/ \E c \in Conns :
       HandlerStep(c) \/ FlushStep(c) \/ ClientStep(c) \/ CloseChannel(c)
  \/ \E p \in Names, to \in Names \cup {Nobody} : Done(p, to)
  \/ Interrupt

Spec == Init /\ [][Next]_vars

(* A goroutine that can run does: handlers and the closing loop make        *)
(* progress, and a select in which an event is ready again and again takes   *)
(* it at last, as Go picks among the ready cases at random.  Nothing is      *)
(* assumed of clients, and so nothing of the flushes without a deadline.     *)
Fairness ==
  \A c \in Conns :
    /\ WF_vars(HandlerStep(c)) /\ WF_vars(CloseChannel(c))
    /\ SF_vars(SSEReceive(c) \/ SSEClosed(c))

FairSpec == Spec /\ Fairness
-----------------------------------------------------------------------------
Live == status \notin {Absent, Interrupted}

SessionType ==
  /\ participants \in Seq(Names)
  /\ status \in {Absent, Idle, Interrupted} \cup {TurnState(p) : p \in Names}
  /\ holder \in Names \cup {Nobody}
  /\ turnN \in Nat
  /\ history \in Seq(Handoffs)

ConnType ==
  /\ streams \in [Names -> Conns \cup {NoConn}]
  /\ pc \in [Conns -> Places]
  /\ as \in [Conns -> Names \cup {Nobody}]
  /\ evt \in [Conns -> Events]
  /\ buf \in [Conns -> Events \cup {NoEvent}]
  /\ closed \subseteq Conns
  /\ toClose \subseteq Conns
  /\ woken \subseteq Names
  /\ seen \in [Names -> Nat]

(* The types of rallySession's fields, of the handlers' locals and of the     *)
(* channels, whose capacity is the 1 of make(chan contract.BatonEvent, 1).   *)
TypeOK == SessionType /\ ConnType

(* Channels are closed outside the lock, after the session was interrupted   *)
(* under it (interruptRallySession, CloseAllRallies).  Still no handoff can   *)
(* send on a closed channel, because a registered one is neither closed nor  *)
(* about to be; and none is closed twice.  Either would panic.               *)
ChannelSafety ==
  /\ \A p \in Names : streams[p] # NoConn =>
        streams[p] \notin closed \cup toClose
  /\ toClose \cap closed = {}

(* cleanupStream deletes by participant name, whatever channel is registered *)
(* there.  While the session is live it deletes the caller's own channel: a  *)
(* handler that has not cleaned up yet is the one registered for its         *)
(* participant, so no participant has two readers.                           *)
OneReader ==
  Live => \A c \in Conns : pc[c] \in Connected => streams[as[c]] = c

(* The branch of rally_join for a closed channel returns without             *)
(* cleanupStream.  It is never taken: as long as the tool call waits, a      *)
(* channel that is or will be closed still holds an event, the sentinel or   *)
(* an earlier one, and the call returns with that.                           *)
JoinSeesSentinel ==
  \A c \in Conns :
    pc[c] = "mcp_select" /\ c \in toClose \cup closed => buf[c] # NoEvent

(* The two records of whose turn it is, holder and status, agree, and the    *)
(* turn counter counts the handoffs on top of the opening turn; nobody holds *)
(* the baton of an idle or interrupted session.                              *)
BatonConsistent ==
  \/ /\ status \in {Absent, Idle, Interrupted}
     /\ holder = Nobody
     /\ status # Interrupted => turnN = 0 /\ history = <<>>
  \/ /\ holder \in Members
     /\ status = TurnState(holder)
     /\ turnN = Len(history) + 1

(* The history is one unbroken chain of handoffs between different           *)
(* participants that ends at the holder.                                     *)
HistoryIsChain ==
  /\ \A i \in 1..Len(history) :
       /\ history[i].turn = i + 1
       /\ history[i].from # history[i].to
       /\ i > 1 => history[i].from = history[i-1].to
  /\ history # <<>> /\ holder # Nobody => holder = history[Len(history)].to

(* e tells p of a turn that p was really given, by the one who gave it. *)
Truthful(e, p) ==
  /\ e.turn \in 1..turnN
  /\ e.turn = 1 => /\ e.from = Nobody
                   /\ history # <<>> => history[1].from = p
                   /\ history = <<>> /\ Live => holder = p
  /\ e.turn > 1 => /\ e.turn <= Len(history) + 1
                   /\ history[e.turn - 1].to = p
                   /\ history[e.turn - 1].from = e.from

(* Whatever order handoffs, joins and reconnections come in, an event that   *)
(* waits in a participant's channel or is being handed to it is about a turn *)
(* that participant was given: one recomputed by a join (from the last       *)
(* history entry) is no different from the one the handoff sent.             *)
EventsTruthful ==
  \A c \in Conns :
    /\ pc[c] # "none" /\ buf[c] # NoEvent /\ buf[c].kind = "baton" =>
         Truthful(buf[c], as[c])
    /\ pc[c] \in {"sse_write", "mcp_take", "mcp_return"} /\ evt[c].kind = "baton" =>
         Truthful(evt[c], as[c])

(* A handoff's send is dropped when the buffer is full, and the timer of     *)
(* rally_join drains the channel.  Yet the holder is never left waiting in   *)
(* ignorance: a waiting handler of the holder has an event to come, unless   *)
(* the holder was told of a turn since it got the baton.                     *)
HolderWoken ==
  \A c \in Conns :
    Live /\ pc[c] \in Waiting /\ holder = as[c] => holder \in woken \/ buf[c] # NoEvent

(* A participant is never shown an older turn after a newer one, across      *)
(* reconnections and transports.                                             *)
ReceivesInOrder == [][\A p \in Names : seen'[p] >= seen[p]]_seen

(* No flush without a deadline holds c's handler for ever: its clients read  *)
(* or go.                                                                    *)
ClientsRead(c) == []<>(pc[c] \notin {"sse_headers", "sse_ping"})

(* An interrupted session lets go of a handler (runbook-rally-mode.md: the   *)
(* stream ends), although the sentinel may not fit into the buffer and a     *)
(* heartbeat may come between, unless a client that does not read holds it.  *)
InterruptDrains ==
  \A c \in Conns : ClientsRead(c) => ((status = Interrupted) ~> (pc[c] = "none"))

(* A handler that waits for the holder of the baton ends up telling it,      *)
(* unless the connection ends, the baton moves on first or a client that     *)
(* does not read holds the handler.                                          *)
HolderHears ==
  \A c \in Conns : ClientsRead(c) =>
    ((pc[c] \in Waiting /\ Live /\ holder = as[c])
       ~> (pc[c] = "none" \/ holder # as[c] \/ as[c] \in woken))

(* What handlers, handoffs and interrupts do to each other's channels, under *)
(* the lock and after it, is safe.                                           *)
ReadersSafe == ChannelSafety /\ OneReader

(* The session's records, and every event on its way to a participant, tell  *)
(* of one baton that is passed on.                                           *)
BatonTruth == BatonConsistent /\ HistoryIsChain /\ EventsTruthful

(* rally.go on streams: "Nil channel means the participant is not currently  *)
(* connected", and a second join is refused as already connected only when   *)
(* there is a first: a registered channel has a handler.                     *)
RegisteredMeansConnected ==
  \A p \in Names : streams[p] # NoConn => pc[streams[p]] # "none"

(* The session as the abstract baton sees it. *)
Phase == CASE status = Absent      -> "absent"
           [] status = Idle        -> "idle"
           [] status = Interrupted -> "over"
           [] OTHER                -> "play"

B == INSTANCE Baton WITH phase <- Phase, turn <- turnN

(* The broker's session, with all its connections, passes one baton. *)
ImplementsBaton == B!BatonSpec
=============================================================================
