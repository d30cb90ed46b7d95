---------------------------- MODULE RallyProofs ----------------------------
(***************************************************************************)
(* Proofs about Rally for any participants, connections and MaxTurn.       *)
(*                                                                         *)
(* The properties of Rally are not inductive one by one.  IInv adds what   *)
(* they rest on: who may be registered where (Channels), that the list of  *)
(* participants was checked when the session was created (Turns), and that *)
(* what waits in a channel is no older than what its participant has seen  *)
(* (Pending).  The steps of one handler preserve IInv for a common reason, *)
(* stated once as LocalStep and LocalEvents; the steps that change the     *)
(* session (Create, Join, Done, Interrupt, CloseChannel) have a lemma each.*)
(***************************************************************************)
EXTENDS Rally, TLAPS

(* A running handler knows its participant. *)
HandlersNamed == \A c \in Conns : pc[c] # "none" => as[c] \in Names

(* Channels are registered only in a live session; a registered channel is   *)
(* that of the participant its handler waits for, unless that handler has    *)
(* returned without cleaning up.                                             *)
StreamsOwned ==
  \A p \in Names : streams[p] # NoConn =>
    /\ Live
    /\ pc[streams[p]] # "none" => pc[streams[p]] \in Connected /\ as[streams[p]] = p

(* Two handlers never wait for the same participant at once, not even after  *)
(* an interruption, when none of them is registered.                         *)
ReadersDistinct ==
  \A c, d \in Conns :
    pc[c] \in Connected /\ pc[d] \in Connected /\ as[c] = as[d] => c = d

(* Nobody can have joined a session that does not exist. *)
AbsentQuiet == status = Absent => \A c \in Conns : pc[c] = "none"

(* createRallySession let through a list of at least two distinct names. *)
ListValid ==
  status # Absent =>
    /\ Len(participants) >= 2
    /\ \A i, j \in 1..Len(participants) : participants[i] = participants[j] => i = j

(* What waits for a participant is no older than what it has seen. *)
PendingInOrder ==
  /\ \A p \in Names : seen[p] <= turnN
  /\ \A c \in Conns :
       pc[c] \in Connected /\ buf[c] # NoEvent /\ buf[c].kind = "baton" =>
         buf[c].turn >= seen[as[c]]

(* The inductive invariant. *)
Channels == /\ ChannelSafety /\ OneReader /\ HandlersNamed
            /\ StreamsOwned /\ ReadersDistinct /\ AbsentQuiet
Turns    == BatonConsistent /\ HistoryIsChain /\ ListValid
Pending  == EventsTruthful /\ HolderWoken /\ PendingInOrder
IInv     == TypeOK /\ Channels /\ Turns /\ Pending
-----------------------------------------------------------------------------
(* A step of one handler: it leaves the session and the other connections    *)
(* alone, keeps its participant while it runs, and either leaves the         *)
(* registrations as they are or deletes its participant's.                   *)
LocalStep(c) ==
  /\ UNCHANGED <<session, closed, toClose>>
  /\ \A d \in Conns : d # c =>
       pc'[d] = pc[d] /\ as'[d] = as[d] /\ evt'[d] = evt[d] /\ buf'[d] = buf[d]
  /\ pc[c] # "none"
  /\ pc'[c] # "none" => as'[c] = as[c]
  /\ pc'[c] \in Connected => pc[c] \in Connected
  /\ \/ streams' = streams /\ (pc'[c] \in Connected \/ pc'[c] = "none" \/ pc[c] = "mcp_return")
     \/ /\ streams' = [streams EXCEPT ![as[c]] = NoConn]
        /\ pc[c] \in Connected /\ pc'[c] \notin Connected

(* What a handler's step does to events: it takes one out of its channel or   *)
(* drops it, and goes on waiting only with its channel untouched or after     *)
(* having told its participant.                                               *)
LocalEvents(c) ==
  /\ buf'[c] \in {buf[c], NoEvent}
  /\ pc'[c] \in {"sse_write", "mcp_take", "mcp_return"} =>
       \/ evt'[c] = evt[c] /\ pc[c] \in {"sse_write", "mcp_take", "mcp_return"}
       \/ evt'[c] = buf[c] /\ buf[c] # NoEvent
  /\ woken \subseteq woken'
  /\ pc'[c] \in Waiting =>
       \/ pc[c] \in Waiting /\ buf'[c] = buf[c]
       \/ as[c] \in woken'
  /\ \/ seen' = seen
     \/ /\ pc[c] \in Connected /\ buf[c] # NoEvent /\ buf[c].kind = "baton"
        /\ buf'[c] = NoEvent
        /\ seen' = [seen EXCEPT ![as[c]] = buf[c].turn]

(* A local step keeps registrations, readers and closed channels in order:   *)
(* it deletes only its own registration, because of OneReader.               *)
LEMMA LocalChannels ==
  ASSUME IInv, ConnType', NEW c \in Conns, LocalStep(c)
  PROVE  Channels'
<1>s. UNCHANGED <<status, closed, toClose>> /\ Live' = Live
  BY DEF LocalStep, session, Live, Absent, Interrupted
<1>c. HandlersNamed /\ StreamsOwned /\ ReadersDistinct /\ AbsentQuiet /\ OneReader /\ ChannelSafety
  BY DEF IInv, Channels
<1>t. /\ streams \in [Names -> Conns \cup {NoConn}] /\ streams' \in [Names -> Conns \cup {NoConn}]
      /\ as[c] \in Names
  BY <1>c DEF IInv, TypeOK, SessionType, ConnType, HandlersNamed, LocalStep
<1>d. \A d \in Conns : d # c => pc'[d] = pc[d] /\ as'[d] = as[d]
  BY DEF LocalStep
<1>r. \A p \in Names : streams'[p] = streams[p] \/ streams'[p] = NoConn
  BY <1>t DEF LocalStep
<1>1. ChannelSafety'
  BY <1>s, <1>c, <1>t, <1>r DEF ChannelSafety
<1>2. HandlersNamed'
  BY <1>c, <1>d DEF HandlersNamed, LocalStep
<1>3. ReadersDistinct'
  <2> SUFFICES ASSUME NEW d \in Conns, NEW e \in Conns,
                      pc'[d] \in Connected, pc'[e] \in Connected, as'[d] = as'[e]
               PROVE  d = e
    BY DEF ReadersDistinct
  <2>1. \A x \in {d, e} : pc[x] \in Connected /\ as'[x] = as[x]
    BY <1>d DEF LocalStep, Connected, SSEPlaces, MCPPlaces
  <2> QED
    BY <2>1, <1>c DEF ReadersDistinct
<1>4. OneReader'
  <2> SUFFICES ASSUME Live, NEW d \in Conns, pc'[d] \in Connected
               PROVE  streams'[as'[d]] = d
    BY <1>s DEF OneReader
  <2>1. pc[d] \in Connected /\ as'[d] = as[d] /\ streams[as[d]] = d
    BY <1>c, <1>d DEF LocalStep, OneReader, Connected, SSEPlaces, MCPPlaces
  <2>2. CASE streams' = streams
    BY <2>1, <2>2
  <2>3. CASE /\ streams' = [streams EXCEPT ![as[c]] = NoConn]
             /\ pc[c] \in Connected /\ pc'[c] \notin Connected
    <3>1. d # c /\ streams[as[c]] = c
      BY <2>3, <1>c DEF OneReader
    <3>2. as[d] # as[c] /\ as[d] \in Names
      BY <3>1, <2>1, <1>c DEF HandlersNamed, Connected, SSEPlaces, MCPPlaces
    <3> QED
      BY <3>2, <2>1, <2>3, <1>t
  <2> QED
    BY <2>2, <2>3 DEF LocalStep
<1>5. StreamsOwned'
  <2> SUFFICES ASSUME NEW p \in Names, streams'[p] # NoConn
               PROVE  /\ Live
                      /\ pc'[streams'[p]] # "none" =>
                           pc'[streams'[p]] \in Connected /\ as'[streams'[p]] = p
    BY <1>s DEF StreamsOwned
  <2> DEFINE d == streams[p]
  <2>1. streams'[p] = d /\ d # NoConn /\ d \in Conns
    BY <1>r, <1>t
  <2>2. Live /\ (pc[d] # "none" => pc[d] \in Connected /\ as[d] = p)
    BY <2>1, <1>c DEF StreamsOwned
  <2>3. CASE d # c
    BY <2>1, <2>2, <2>3, <1>d
  <2>4. CASE d = c
    <3>1. pc[c] \in Connected /\ as[c] = p
      BY <2>2, <2>4 DEF LocalStep
    <3>2. streams' = streams /\ (pc'[c] \in Connected \/ pc'[c] = "none")
      BY <3>1, <2>1, <1>t DEF LocalStep, Connected, SSEPlaces, MCPPlaces
    <3> QED
      BY <3>1, <3>2, <2>1, <2>2, <2>4 DEF LocalStep
  <2> QED
    BY <2>3, <2>4
<1>6. AbsentQuiet'
  BY <1>s, <1>c DEF AbsentQuiet, LocalStep, Absent
<1> QED
  BY <1>1, <1>2, <1>3, <1>4, <1>5, <1>6 DEF Channels

(* A local step does not touch the baton.                                    *)
LEMMA LocalTurns ==
  ASSUME IInv, UNCHANGED session
  PROVE  SessionType' /\ Turns'
BY DEF session, IInv, TypeOK, SessionType, Turns, BatonConsistent, HistoryIsChain,
   ListValid, Members,
       Absent, Idle, Interrupted, TurnState

(* A local step neither makes up events nor loses the holder's.              *)
LEMMA LocalPending ==
  ASSUME IInv, ConnType', NEW c \in Conns, LocalStep(c), LocalEvents(c)
  PROVE  Pending'
<1>s. UNCHANGED <<status, holder, turnN, history>> /\ Live' = Live
  BY DEF LocalStep, session, Live, Absent, Interrupted
<1>c. /\ HandlersNamed /\ ReadersDistinct
      /\ EventsTruthful /\ HolderWoken /\ PendingInOrder
  BY DEF IInv, Channels, Pending
<1>t. /\ seen \in [Names -> Nat] /\ as[c] \in Names
      /\ turnN \in Nat
      /\ \A d \in Conns : buf[d] # NoEvent => buf[d] \in Events
  BY <1>c DEF IInv, TypeOK, SessionType, ConnType, HandlersNamed, LocalStep
<1>d. \A d \in Conns : d # c =>
        pc'[d] = pc[d] /\ as'[d] = as[d] /\ evt'[d] = evt[d] /\ buf'[d] = buf[d]
  BY DEF LocalStep
<1>w. \A e, p : Truthful(e, p)' <=> Truthful(e, p)
  BY <1>s DEF Truthful
<1>1. EventsTruthful'
  <2> SUFFICES ASSUME NEW d \in Conns
               PROVE  /\ pc'[d] # "none" /\ buf'[d] # NoEvent /\ buf'[d].kind = "baton" =>
                           Truthful(buf'[d], as'[d])
                      /\ /\ pc'[d] \in {"sse_write", "mcp_take", "mcp_return"}
                         /\ evt'[d].kind = "baton"
                         => Truthful(evt'[d], as'[d])
    BY <1>w, <1>s DEF EventsTruthful, Truthful
  <2>1. CASE d # c
    BY <2>1, <1>d, <1>c DEF EventsTruthful
  <2>2. CASE d = c
    BY <2>2, <1>c DEF EventsTruthful, LocalStep, LocalEvents
  <2> QED
    BY <2>1, <2>2
<1>2. HolderWoken'
  <2> SUFFICES ASSUME NEW d \in Conns, Live, pc'[d] \in Waiting, holder = as'[d]
               PROVE  holder \in woken' \/ buf'[d] # NoEvent
    BY <1>s DEF HolderWoken
  <2>1. CASE d # c
    BY <2>1, <1>d, <1>c DEF HolderWoken, LocalEvents
  <2>2. CASE d = c
    <3>1. as'[c] = as[c]
      BY <2>2 DEF LocalStep, Waiting
    <3> QED
      BY <2>2, <3>1, <1>c DEF HolderWoken, LocalEvents
  <2> QED
    BY <2>1, <2>2
<1>3. PendingInOrder'
  <2>1. CASE seen' = seen
    <3>1. \A d \in Conns :
            pc'[d] \in Connected /\ buf'[d] # NoEvent =>
              pc[d] \in Connected /\ buf'[d] = buf[d] /\ as'[d] = as[d]
      <4>1. "none" \notin Connected
        BY DEF Connected, SSEPlaces, MCPPlaces
      <4> QED
        BY <4>1, <1>d DEF LocalStep, LocalEvents
    <3> QED
      BY <2>1, <3>1, <1>s, <1>c DEF PendingInOrder
  <2>2. CASE /\ pc[c] \in Connected /\ buf[c] # NoEvent /\ buf[c].kind = "baton"
             /\ buf'[c] = NoEvent
             /\ seen' = [seen EXCEPT ![as[c]] = buf[c].turn]
    <3>1. buf[c].turn \in Nat /\ buf[c].turn <= turnN
      <4>1. pc[c] # "none"
        BY <2>2 DEF Connected, SSEPlaces, MCPPlaces
      <4>2. Truthful(buf[c], as[c])
        BY <4>1, <2>2, <1>c DEF EventsTruthful
      <4> QED
        BY <4>2, <1>t DEF Truthful
    <3>2. \A p \in Names : seen'[p] <= turnN'
      BY <3>1, <2>2, <1>s, <1>c, <1>t DEF PendingInOrder
    <3>3. \A d \in Conns : d # c /\ pc[d] \in Connected => as[d] # as[c] /\ as[d] \in Names
      BY <2>2, <1>c DEF ReadersDistinct, HandlersNamed, Connected, SSEPlaces, MCPPlaces
    <3>4. ASSUME NEW d \in Conns,
                 pc'[d] \in Connected, buf'[d] # NoEvent, buf'[d].kind = "baton"
          PROVE  buf'[d].turn >= seen'[as'[d]]
      <4>1. d # c
        BY <2>2, <3>4
      <4>2. seen'[as[d]] = seen[as[d]]
        BY <4>1, <3>3, <3>4, <2>2, <1>d, <1>t
      <4> QED
        BY <4>1, <4>2, <3>4, <1>d, <1>c DEF PendingInOrder
    <3> QED
      BY <3>2, <3>4 DEF PendingInOrder
  <2> QED
    BY <2>1, <2>2 DEF LocalEvents
<1> QED
  BY <1>1, <1>2, <1>3 DEF Pending

(* A step that is local to a connection preserves the invariant. *)
LEMMA LocalInvariant ==
  ASSUME IInv, NEW c \in Conns, ConnType', LocalStep(c), LocalEvents(c)
  PROVE  IInv'
<1>1. UNCHANGED session
  BY DEF LocalStep
<1> QED
  BY <1>1, LocalChannels, LocalTurns, LocalPending DEF IInv, TypeOK

(* Truthful in the next state, of a given event and participant. *)
TruthfulNext(e, p) ==
  /\ e.turn \in 1..turnN'
  /\ e.turn = 1 => /\ e.from = Nobody
                   /\ history' # <<>> => history'[1].from = p
                   /\ history' = <<>> /\ Live' => holder' = p
  /\ e.turn > 1 => /\ e.turn <= Len(history') + 1
                   /\ history'[e.turn - 1].to = p
                   /\ history'[e.turn - 1].from = e.from

(* Facts about the values the handlers move around. *)
LEMMA Constants ==
  /\ CloseSentinel \in Events
  /\ Places = {"none", "sse_headers", "sse_select", "sse_ping", "sse_write", "mcp_select",
               "mcp_take", "mcp_timeout", "mcp_return", "cleanup"}
BY RallyAssumption DEF CloseSentinel, Events, Places, Connected, SSEPlaces, MCPPlaces

(* A header flush that fails or succeeds in writeSSEHeaders is a local step. *)
LEMMA SSEHeadersStep ==
  ASSUME IInv, NEW c \in Conns, SSEHeaders(c)
  PROVE  IInv'
<1>t. ConnType /\ as[c] \in Names
  BY DEF IInv, TypeOK, Channels, HandlersNamed, SSEHeaders
<1>1. ConnType'
  <2>1. streams' \in [Names -> Conns \cup {NoConn}] /\ buf' \in [Conns -> Events \cup {NoEvent}]
    BY <1>t DEF ConnType, SSEHeaders
  <2>2. pc' \in [Conns -> Places]
    BY <1>t, Constants DEF ConnType, SSEHeaders, Goto, Return
  <2>3. as' \in [Conns -> Names \cup {Nobody}]
    BY <1>t DEF ConnType, SSEHeaders, Goto, Return
  <2>4. evt' \in [Conns -> Events]
    BY <1>t, Constants DEF ConnType, SSEHeaders, Goto, Return
  <2> QED
    BY <2>1, <2>2, <2>3, <2>4, <1>t DEF ConnType, SSEHeaders, ghosts
<1>2. LocalStep(c)
  BY <1>t DEF ConnType, LocalStep, SSEHeaders, Goto, Return, Connected, SSEPlaces,
     MCPPlaces
<1>3. LocalEvents(c)
  BY <1>t DEF ConnType, LocalEvents, SSEHeaders, Goto, Return, ghosts, Waiting,
     Connected, SSEPlaces, MCPPlaces, CloseSentinel
<1> QED
  BY <1>1, <1>2, <1>3, LocalInvariant

(* ctx.Done in streamBatonEvents is a local step.                            *)
LEMMA SSEEndStep ==
  ASSUME IInv, NEW c \in Conns, SSEEnd(c)
  PROVE  IInv'
<1>t. ConnType /\ as[c] \in Names
  BY DEF IInv, TypeOK, Channels, HandlersNamed, SSEEnd
<1>1. ConnType'
  BY <1>t, Constants DEF ConnType, SSEEnd, Goto, ghosts
<1>2. LocalStep(c)
  BY <1>t DEF ConnType, LocalStep, SSEEnd, Goto, Connected, SSEPlaces, MCPPlaces
<1>3. LocalEvents(c)
  BY <1>t DEF ConnType, LocalEvents, SSEEnd, Goto, ghosts, Waiting, Connected,
     SSEPlaces, MCPPlaces
<1> QED
  BY <1>1, <1>2, <1>3, LocalInvariant

(* A heartbeat that falls due is a local step.                               *)
LEMMA SSETickStep ==
  ASSUME IInv, NEW c \in Conns, SSETick(c)
  PROVE  IInv'
<1>t. ConnType /\ as[c] \in Names
  BY DEF IInv, TypeOK, Channels, HandlersNamed, SSETick
<1>1. ConnType'
  BY <1>t, Constants DEF ConnType, SSETick, Goto, ghosts
<1>2. LocalStep(c)
  BY <1>t DEF ConnType, LocalStep, SSETick, Goto, Connected, SSEPlaces, MCPPlaces
<1>3. LocalEvents(c)
  BY <1>t DEF ConnType, LocalEvents, SSETick, Goto, ghosts, Waiting, Connected,
     SSEPlaces, MCPPlaces
<1> QED
  BY <1>1, <1>2, <1>3, LocalInvariant

(* The flush of a heartbeat, successful or not, is a local step.             *)
LEMMA SSEPingStep ==
  ASSUME IInv, NEW c \in Conns, SSEPing(c)
  PROVE  IInv'
<1>t. ConnType /\ as[c] \in Names
  BY DEF IInv, TypeOK, Channels, HandlersNamed, SSEPing
<1>1. ConnType'
  BY <1>t, Constants DEF ConnType, SSEPing, Goto, ghosts
<1>2. LocalStep(c)
  BY <1>t DEF ConnType, LocalStep, SSEPing, Goto, Connected, SSEPlaces, MCPPlaces
<1>3. LocalEvents(c)
  BY <1>t DEF ConnType, LocalEvents, SSEPing, Goto, ghosts, Waiting, Connected,
     SSEPlaces, MCPPlaces
<1> QED
  BY <1>1, <1>2, <1>3, LocalInvariant

(* The receive of streamBatonEvents is a local step.                         *)
LEMMA SSEReceiveStep ==
  ASSUME IInv, NEW c \in Conns, SSEReceive(c)
  PROVE  IInv'
<1>t. ConnType /\ as[c] \in Names
  BY DEF IInv, TypeOK, Channels, HandlersNamed, SSEReceive
<1>1. ConnType'
  BY <1>t, Constants DEF ConnType, SSEReceive, Goto, Take, ghosts, Events
<1>2. LocalStep(c)
  BY <1>t DEF ConnType, LocalStep, SSEReceive, Goto, Take, Connected, SSEPlaces,
     MCPPlaces
<1>3. LocalEvents(c)
  BY <1>t DEF ConnType, LocalEvents, SSEReceive, Goto, Take, ghosts, Waiting,
     Connected, SSEPlaces, MCPPlaces, Events
<1> QED
  BY <1>1, <1>2, <1>3, LocalInvariant

(* So is seeing the channel closed there.                                    *)
LEMMA SSEClosedStep ==
  ASSUME IInv, NEW c \in Conns, SSEClosed(c)
  PROVE  IInv'
<1>t. ConnType /\ as[c] \in Names
  BY DEF IInv, TypeOK, Channels, HandlersNamed, SSEClosed
<1>1. ConnType'
  BY <1>t, Constants DEF ConnType, SSEClosed, Goto, ghosts
<1>2. LocalStep(c)
  BY <1>t DEF ConnType, LocalStep, SSEClosed, Goto, Connected, SSEPlaces, MCPPlaces
<1>3. LocalEvents(c)
  BY <1>t DEF ConnType, LocalEvents, SSEClosed, Goto, ghosts, Waiting, Connected,
     SSEPlaces, MCPPlaces
<1> QED
  BY <1>1, <1>2, <1>3, LocalInvariant

(* So is writeSSEEvent, which is where the participant is told.              *)
LEMMA SSEWriteStep ==
  ASSUME IInv, NEW c \in Conns, SSEWrite(c)
  PROVE  IInv'
<1>t. ConnType /\ as[c] \in Names
  BY DEF IInv, TypeOK, Channels, HandlersNamed, SSEWrite
<1>1. ConnType'
  BY <1>t, Constants DEF ConnType, SSEWrite, Goto, ghosts
<1>2. LocalStep(c)
  BY <1>t DEF ConnType, LocalStep, SSEWrite, Goto, Connected, SSEPlaces, MCPPlaces
<1>3. LocalEvents(c)
  BY <1>t DEF ConnType, LocalEvents, SSEWrite, Goto, ghosts, Waiting, Connected,
     SSEPlaces, MCPPlaces, CloseSentinel
<1> QED
  BY <1>1, <1>2, <1>3, LocalInvariant

(* The cancelled rally_join is a local step.                                 *)
LEMMA MCPCancelStep ==
  ASSUME IInv, NEW c \in Conns, MCPCancel(c)
  PROVE  IInv'
<1>t. ConnType /\ as[c] \in Names
  BY DEF IInv, TypeOK, Channels, HandlersNamed, MCPCancel
<1>1. ConnType'
  BY <1>t, Constants DEF ConnType, MCPCancel, Goto, ghosts
<1>2. LocalStep(c)
  BY <1>t DEF ConnType, LocalStep, MCPCancel, Goto, Connected, SSEPlaces, MCPPlaces
<1>3. LocalEvents(c)
  BY <1>t DEF ConnType, LocalEvents, MCPCancel, Goto, ghosts, Waiting, Connected,
     SSEPlaces, MCPPlaces
<1> QED
  BY <1>1, <1>2, <1>3, LocalInvariant

(* The receive of rally_join is a local step.                                *)
LEMMA MCPReceiveStep ==
  ASSUME IInv, NEW c \in Conns, MCPReceive(c)
  PROVE  IInv'
<1>t. ConnType /\ as[c] \in Names
  BY DEF IInv, TypeOK, Channels, HandlersNamed, MCPReceive
<1>1. ConnType'
  BY <1>t, Constants DEF ConnType, MCPReceive, Goto, Take, ghosts, Events
<1>2. LocalStep(c)
  BY <1>t DEF ConnType, LocalStep, MCPReceive, Goto, Take, Connected, SSEPlaces,
     MCPPlaces
<1>3. LocalEvents(c)
  BY <1>t DEF ConnType, LocalEvents, MCPReceive, Goto, Take, ghosts, Waiting,
     Connected, SSEPlaces, MCPPlaces, Events
<1> QED
  BY <1>1, <1>2, <1>3, LocalInvariant

(* So is its timer.                                                          *)
LEMMA MCPTimerStep ==
  ASSUME IInv, NEW c \in Conns, MCPTimer(c)
  PROVE  IInv'
<1>t. ConnType /\ as[c] \in Names
  BY DEF IInv, TypeOK, Channels, HandlersNamed, MCPTimer
<1>1. ConnType'
  BY <1>t, Constants DEF ConnType, MCPTimer, Goto, ghosts
<1>2. LocalStep(c)
  BY <1>t DEF ConnType, LocalStep, MCPTimer, Goto, Connected, SSEPlaces, MCPPlaces
<1>3. LocalEvents(c)
  BY <1>t DEF ConnType, LocalEvents, MCPTimer, Goto, ghosts, Waiting, Connected,
     SSEPlaces, MCPPlaces
<1> QED
  BY <1>1, <1>2, <1>3, LocalInvariant

(* cleanupStream deletes the caller's registration and nobody else's.        *)
LEMMA CleanupStep ==
  ASSUME IInv, NEW c \in Conns, Cleanup(c)
  PROVE  IInv'
<1>t. ConnType /\ as[c] \in Names
  BY DEF IInv, TypeOK, Channels, HandlersNamed, Cleanup
<1>1. ConnType'
  <2>1. streams' \in [Names -> Conns \cup {NoConn}] /\ buf' \in [Conns -> Events \cup {NoEvent}]
    BY <1>t DEF ConnType, Cleanup
  <2>2. pc' \in [Conns -> Places]
    BY <1>t, Constants DEF ConnType, Cleanup, Goto, Return
  <2>3. as' \in [Conns -> Names \cup {Nobody}]
    BY <1>t DEF ConnType, Cleanup, Goto, Return
  <2>4. evt' \in [Conns -> Events]
    BY <1>t, Constants DEF ConnType, Cleanup, Goto, Return
  <2> QED
    BY <2>1, <2>2, <2>3, <2>4, <1>t DEF ConnType, Cleanup, ghosts
<1>2. LocalStep(c)
  BY <1>t DEF ConnType, LocalStep, Cleanup, Goto, Return, Connected, SSEPlaces,
     MCPPlaces
<1>3. LocalEvents(c)
  BY <1>t DEF ConnType, LocalEvents, Cleanup, Goto, Return, ghosts, Waiting,
     Connected, SSEPlaces, MCPPlaces, CloseSentinel
<1> QED
  BY <1>1, <1>2, <1>3, LocalInvariant

(* Returning the event as the tool's result is a local step.                 *)
LEMMA MCPReturnStep ==
  ASSUME IInv, NEW c \in Conns, MCPReturn(c)
  PROVE  IInv'
<1>t. ConnType /\ as[c] \in Names
  BY DEF IInv, TypeOK, Channels, HandlersNamed, MCPReturn
<1>1. ConnType'
  BY <1>t, Constants DEF ConnType, MCPReturn, Return, ghosts, Events
<1>2. LocalStep(c)
  BY <1>t DEF ConnType, LocalStep, MCPReturn, Return, Connected, SSEPlaces, MCPPlaces
<1>3. LocalEvents(c)
  BY <1>t DEF ConnType, LocalEvents, MCPReturn, Return, ghosts, Waiting, Connected,
     SSEPlaces, MCPPlaces, CloseSentinel, Events
<1> QED
  BY <1>1, <1>2, <1>3, LocalInvariant

(* nextParticipant names a member other than the one who passes the baton,   *)
(* for every list that createRallySession accepts.                           *)
LEMMA NextIsOther ==
  ASSUME participants \in Seq(Names), ListValid, status # Absent,
         NEW p \in Members, NEW to \in Names \cup {Nobody},
         to # p, to = Nobody \/ to \in Members
  PROVE  /\ NextParticipant(p, to) \in Members
         /\ NextParticipant(p, to) # p
         /\ NextParticipant(p, to) \in Names
<1>1. Members \subseteq Names
  BY DEF Members
<1>2. CASE to \in Members
  BY <1>1, <1>2 DEF NextParticipant
<1>3. CASE to \notin Members
  <2> DEFINE n == Len(participants)
             i == CHOOSE j \in 1..n : participants[j] = p
  <2>1. n \in Nat /\ n >= 2
    BY DEF ListValid
  <2>2. i \in 1..n /\ participants[i] = p
    BY DEF Members
  <2>3. (i % n) + 1 \in 1..n /\ (i % n) + 1 # i
    <3> HIDE DEF n, i
    <3>1. CASE i = n
      BY <3>1, <2>1, <2>2
    <3>2. CASE i # n
      <4>1. i < n
        BY <3>2, <2>1, <2>2
      <4>2. i % n = i
        BY <4>1, <2>1, <2>2
      <4> QED
        BY <4>1, <4>2, <2>1, <2>2
    <3> QED BY <3>1, <3>2
  <2>4. NextParticipant(p, to) = participants[(i % n) + 1]
    BY <1>3 DEF NextParticipant
  <2>5. participants[(i % n) + 1] \in Members
    BY <2>3 DEF Members
  <2>6. participants[(i % n) + 1] # participants[i]
    BY <2>2, <2>3 DEF ListValid
  <2> QED
    BY <1>1, <2>2, <2>4, <2>5, <2>6
<1> QED
  BY <1>2, <1>3

-----------------------------------------------------------------------------
(* createRallySession establishes what the rest of the session relies on.    *)
LEMMA CreateStep ==
  ASSUME IInv, NEW ps \in Requests, NEW fh \in Names \cup {Nobody}, Create(ps, fh)
  PROVE  IInv'
<1>t. SessionType /\ ConnType /\ Channels /\ Turns /\ Pending /\ ps \in Seq(Names)
  BY RallyAssumption DEF IInv, TypeOK
<1>a. /\ status = Absent /\ holder = Nobody /\ turnN = 0 /\ history = <<>>
      /\ UNCHANGED <<history, streams, pc, as, evt, buf, closed, toClose, woken, seen>>
  BY <1>t, RallyAssumption DEF Create, conns, ghosts, Turns, BatonConsistent,
     Absent, Idle, Interrupted, TurnState
<1>b. \A c \in Conns : pc[c] = "none"
  BY <1>a, <1>t DEF Channels, AbsentQuiet
<1>c. \A p \in Names : streams[p] = NoConn
  BY <1>a, <1>t DEF Channels, StreamsOwned, Live
<1>1. SessionType'
  BY <1>t, <1>a DEF SessionType, Create
<1>2. ConnType'
  BY <1>t, <1>a DEF ConnType
<1>3. Channels'
  BY <1>t, <1>a, <1>b, <1>c DEF Channels, ChannelSafety, OneReader, HandlersNamed,
     StreamsOwned,
     ReadersDistinct, AbsentQuiet, Connected, SSEPlaces, MCPPlaces
<1>4. Turns'
  <2>1. BatonConsistent'
    BY <1>a, RallyAssumption DEF Create, ValidRequest, BatonConsistent, Members,
       Absent, Idle, Interrupted
  <2>2. HistoryIsChain'
    BY <1>a DEF HistoryIsChain
  <2>3. ListValid'
    BY DEF Create, ValidRequest, ListValid
  <2> QED
    BY <2>1, <2>2, <2>3 DEF Turns
<1>5. Pending'
  <2>1. EventsTruthful' /\ HolderWoken'
    BY <1>a, <1>b DEF EventsTruthful, HolderWoken, Waiting
  <2>2. PendingInOrder'
    <3>1. \A c \in Conns : pc'[c] \notin Connected
      BY <1>a, <1>b DEF Connected, SSEPlaces, MCPPlaces
    <3>2. \A p \in Names : seen[p] = 0
      BY <1>a, <1>t DEF Pending, PendingInOrder, ConnType
    <3>3. turnN' \in {0, 1}
      BY <1>a DEF Create
    <3>4. \A p \in Names : seen'[p] <= turnN'
      BY <3>2, <3>3, <1>a
    <3> QED
      BY <3>1, <3>4 DEF PendingInOrder
  <2> QED
    BY <2>1, <2>2 DEF Pending
<1> QED
  BY <1>1, <1>2, <1>3, <1>4, <1>5 DEF IInv, TypeOK

(* interruptRallySession and CloseAllRallies unregister what they collect.   *)
LEMMA InterruptStep ==
  ASSUME IInv, Interrupt
  PROVE  IInv'
<1>t. SessionType /\ ConnType /\ Channels /\ Turns /\ Pending
  BY DEF IInv, TypeOK
<1> DEFINE live == {c \in Conns : \E p \in Names : streams[p] = c}
<1>a. /\ status' = Interrupted /\ holder' = Nobody /\ Live /\ ~Live' /\ status # Absent
      /\ streams' = [p \in Names |-> NoConn]
      /\ toClose' = toClose \cup live
      /\ UNCHANGED <<participants, turnN, history, pc, as, evt, closed, woken, seen>>
  BY DEF Interrupt, Live, ghosts
<1>b. \A c \in Conns : buf'[c] = buf[c] \/ buf'[c] = CloseSentinel
  BY DEF Interrupt, Sentinels, TrySend
<1>1. SessionType'
  BY <1>t, <1>a DEF SessionType
<1>2. ConnType'
  <2>1. buf' \in [Conns -> Events \cup {NoEvent}]
    BY <1>t, Constants DEF ConnType, Interrupt, Sentinels, TrySend
  <2> QED
    BY <1>t, <1>a, <2>1 DEF ConnType
<1>3. Channels'
  <2>1. ChannelSafety'
    BY <1>t, <1>a, RallyAssumption DEF Channels, ChannelSafety, ConnType
  <2>2. OneReader' /\ StreamsOwned' /\ AbsentQuiet'
    BY <1>a DEF OneReader, StreamsOwned, AbsentQuiet, Absent, Interrupted
  <2>3. HandlersNamed' /\ ReadersDistinct'
    BY <1>t, <1>a DEF Channels, HandlersNamed, ReadersDistinct
  <2> QED
    BY <2>1, <2>2, <2>3 DEF Channels
<1>4. Turns'
  BY <1>t, <1>a DEF Turns, BatonConsistent, HistoryIsChain, ListValid, Absent,
     Interrupted
<1>5. Pending'
  <2>2. EventsTruthful'
    <3>1. ASSUME NEW d \in Conns, pc[d] # "none", buf'[d] # NoEvent, buf'[d].kind = "baton"
          PROVE  Truthful(buf[d], as[d])'
      <4>1. buf'[d] = buf[d] /\ as'[d] = as[d]
        BY <3>1, <1>a, <1>b DEF CloseSentinel
      <4>2. Truthful(buf[d], as[d])
        BY <3>1, <4>1, <1>t DEF Pending, EventsTruthful
      <4> QED
        BY <4>1, <4>2, <1>a DEF Truthful
    <3>2. ASSUME NEW d \in Conns, pc[d] \in {"sse_write", "mcp_take", "mcp_return"},
                 evt[d].kind = "baton"
          PROVE  Truthful(evt[d], as[d])'
      <4>1. Truthful(evt[d], as[d])
        BY <3>2, <1>t DEF Pending, EventsTruthful
      <4> QED
        BY <4>1, <1>a DEF Truthful
    <3> QED
      BY <3>1, <3>2, <1>a DEF EventsTruthful
  <2>3. HolderWoken'
    BY <1>a DEF HolderWoken
  <2>4. PendingInOrder'
    <3>1. \A d \in Conns : buf'[d].kind = "baton" => buf'[d] = buf[d]
      BY <1>b DEF CloseSentinel
    <3> QED
      BY <3>1, <1>a, <1>t DEF Pending, PendingInOrder
  <2> QED
    BY <2>2, <2>3, <2>4 DEF Pending
<1> QED
  BY <1>1, <1>2, <1>3, <1>4, <1>5 DEF IInv, TypeOK

(* The closing loop after the unlock.                                        *)
LEMMA CloseChannelStep ==
  ASSUME IInv, NEW c \in Conns, CloseChannel(c)
  PROVE  IInv'
<1>t. ConnType /\ Channels /\ Pending
  BY DEF IInv, TypeOK
<1>a. UNCHANGED <<session, streams, pc, as, evt, buf, woken, seen>>
  BY DEF CloseChannel, ghosts
<1>s. UNCHANGED <<status, holder, turnN, history>> /\ Live' = Live
  BY <1>a DEF session, Live, Absent, Interrupted
<1>1. SessionType' /\ Turns'
  BY <1>a, LocalTurns
<1>2. ConnType'
  BY <1>t, <1>a DEF ConnType, CloseChannel
<1>3. Channels'
  <2>1. ChannelSafety'
    BY <1>t, <1>a DEF Channels, ChannelSafety, CloseChannel
  <2>2. OneReader' /\ HandlersNamed' /\ StreamsOwned'
    BY <1>t, <1>a, <1>s DEF Channels, OneReader, HandlersNamed, StreamsOwned
  <2>3. ReadersDistinct' /\ AbsentQuiet'
    BY <1>t, <1>a, <1>s DEF Channels, ReadersDistinct, AbsentQuiet, Absent
  <2> QED
    BY <2>1, <2>2, <2>3 DEF Channels
<1>4. Pending'
  <2>1. EventsTruthful'
    BY <1>t, <1>a, <1>s DEF Pending, EventsTruthful, Truthful
  <2>2. HolderWoken' /\ PendingInOrder'
    BY <1>t, <1>a, <1>s DEF Pending, HolderWoken, PendingInOrder
  <2> QED
    BY <2>1, <2>2 DEF Pending
<1> QED
  BY <1>1, <1>2, <1>3, <1>4 DEF IInv, TypeOK

(* A join registers its fresh channel where none was registered, and what    *)
(* it puts into it agrees with the history.                                  *)
LEMMA JoinStep ==
  ASSUME IInv, NEW c \in Conns, NEW p \in Names,
         NEW place \in {"sse_headers", "mcp_select"}, Join(c, p, place)
  PROVE  IInv'
<1>t. SessionType /\ ConnType /\ Channels /\ Turns /\ Pending
  BY DEF IInv, TypeOK
<1>a. /\ Live /\ p \in Members /\ streams[p] = NoConn
      /\ pc[c] = "none" /\ c \notin toClose
      /\ \A q \in Names : streams[q] # c
      /\ streams' = [streams EXCEPT ![p] = c]
      /\ pc' = [pc EXCEPT ![c] = place]
      /\ as' = [as EXCEPT ![c] = p]
      /\ closed' = closed \ {c}
      /\ UNCHANGED <<participants, history, evt, toClose, seen>>
  BY DEF Join, MayJoin, Unused, Live
<1>p. place \in Waiting /\ place \in Connected /\ place \in Places /\ "none" \notin Connected
  BY DEF Waiting, Connected, SSEPlaces, MCPPlaces, Places
<1>d. \A d \in Conns : d # c => pc'[d] = pc[d] /\ as'[d] = as[d] /\ buf'[d] = buf[d]
  BY <1>t, <1>a DEF ConnType, Join
<1>e. pc'[c] = place /\ as'[c] = p
  BY <1>t, <1>a DEF ConnType
<1>n. \A d \in Conns : d # c /\ pc[d] \in Connected => as[d] # p
  BY <1>t, <1>a, RallyAssumption DEF Channels, OneReader
<1>b. \/ /\ status = Idle /\ participants[1] = p /\ turnN = 0 /\ history = <<>>
         /\ turnN' = 1 /\ holder' = p /\ status' = TurnState(p)
         /\ buf'[c] = BatonEvent(1, Nobody)
         /\ woken' = woken \ {p}
      \/ /\ status = TurnState(p) /\ holder = p /\ turnN = Len(history) + 1
         /\ buf'[c] = ResumeEvent
         /\ UNCHANGED <<turnN, holder, status, woken>>
      \/ /\ status # TurnState(p) /\ holder # p
         /\ buf'[c] = NoEvent
         /\ UNCHANGED <<turnN, holder, status, woken>>
  <2>1. /\ status = Idle => turnN = 0 /\ history = <<>> /\ holder = Nobody
        /\ status = TurnState(p) => holder = p /\ turnN = Len(history) + 1
        /\ holder = p => status = TurnState(p)
    BY <1>t, <1>a, RallyAssumption DEF Turns, BatonConsistent, Live, Absent, Idle,
       Interrupted, TurnState
  <2>2. /\ \A e : buf' = [buf EXCEPT ![c] = e] => buf'[c] = e
        /\ 0 + 1 = 1
    BY <1>t DEF ConnType
  <2>3. CASE status = TurnState(p)
    BY <2>1, <2>2, <2>3 DEF Join, Idle, TurnState
  <2>4. CASE status = Idle /\ participants[1] = p
    BY <2>1, <2>2, <2>4 DEF Join, Idle, TurnState
  <2>5. CASE status # TurnState(p) /\ ~(status = Idle /\ participants[1] = p)
    BY <2>1, <2>2, <2>5 DEF Join
  <2> QED
    BY <2>3, <2>4, <2>5
<1>r. /\ history = <<>> => ResumeEvent = BatonEvent(turnN, Nobody)
      /\ history # <<>> => /\ ResumeEvent = BatonEvent(turnN, history[Len(history)].from)
                           /\ history[Len(history)] \in Handoffs
                           /\ Len(history) \in Nat \ {0}
  BY <1>t DEF ResumeEvent, SessionType
<1>h. \A i \in 1..Len(history) : history[i] \in Handoffs
  BY <1>t DEF SessionType
<1>1. SessionType'
  BY <1>t, <1>a, <1>b DEF SessionType
<1>2. ConnType'
  <2>1. buf'[c] \in Events \cup {NoEvent}
    <3>1. \A n \in Nat, f \in Names \cup {Nobody} : BatonEvent(n, f) \in Events
      BY DEF BatonEvent, Events
    <3>2. ResumeEvent \in Events
      BY <1>r, <1>t, <3>1 DEF SessionType, Handoffs
    <3> QED
      BY <3>1, <3>2, <1>b
  <2>2. buf' \in [Conns -> Events \cup {NoEvent}]
    <3>1. \E e : buf' = [buf EXCEPT ![c] = e]
      BY DEF Join
    <3> QED
      BY <3>1, <2>1, <1>t DEF ConnType
  <2>3. woken' \subseteq Names
    BY <1>b, <1>t DEF ConnType
  <2> QED
    BY <2>2, <2>3, <1>t, <1>a, <1>p DEF ConnType
<1>v. Live'
  BY <1>a, <1>b DEF Live, Absent, Interrupted, TurnState
<1>3. Channels'
  <2>1. ChannelSafety'
    BY <1>t, <1>a DEF Channels, ChannelSafety, ConnType
  <2>2. OneReader'
    <3> SUFFICES ASSUME NEW d \in Conns, pc'[d] \in Connected
                 PROVE  streams'[as'[d]] = d
      BY DEF OneReader
    <3>1. CASE d = c
      BY <3>1, <1>e, <1>a, <1>t DEF ConnType
    <3>2. CASE d # c
      <4>1. pc[d] \in Connected /\ as'[d] = as[d] /\ as[d] # p /\ streams[as[d]] = d
        BY <3>2, <1>d, <1>n, <1>a, <1>t DEF Channels, OneReader
      <4>2. as[d] \in Names
        BY <4>1, <1>p, <1>t DEF Channels, HandlersNamed
      <4> QED
        BY <4>1, <4>2, <1>a, <1>t DEF ConnType
    <3> QED
      BY <3>1, <3>2
  <2>3. HandlersNamed'
    BY <1>d, <1>e, <1>t DEF Channels, HandlersNamed
  <2>4. StreamsOwned'
    <3> SUFFICES ASSUME NEW q \in Names, streams'[q] # NoConn
                 PROVE  pc'[streams'[q]] # "none" =>
                           pc'[streams'[q]] \in Connected /\ as'[streams'[q]] = q
      BY <1>v DEF StreamsOwned
    <3>1. CASE q = p
      BY <3>1, <1>a, <1>e, <1>p, <1>t DEF ConnType
    <3>2. CASE q # p
      <4>1. streams'[q] = streams[q] /\ streams[q] \in Conns /\ streams[q] # c
        BY <3>2, <1>a, <1>t DEF ConnType
      <4> QED
        BY <4>1, <1>d, <1>t DEF Channels, StreamsOwned
    <3> QED
      BY <3>1, <3>2
  <2>5. ReadersDistinct'
    <3> SUFFICES ASSUME NEW d \in Conns, NEW e \in Conns, d # e,
                        pc'[d] \in Connected, pc'[e] \in Connected
                 PROVE  as'[d] # as'[e]
      BY DEF ReadersDistinct
    <3>1. CASE d = c
      BY <3>1, <1>d, <1>e, <1>n
    <3>2. CASE e = c
      BY <3>2, <1>d, <1>e, <1>n
    <3>3. CASE d # c /\ e # c
      BY <3>3, <1>d, <1>t DEF Channels, ReadersDistinct
    <3> QED
      BY <3>1, <3>2, <3>3
  <2>6. AbsentQuiet'
    BY <1>v DEF AbsentQuiet, Live
  <2> QED
    BY <2>1, <2>2, <2>3, <2>4, <2>5, <2>6 DEF Channels
<1>4. Turns'
  <2>1. BatonConsistent'
    <3>1. CASE status = Idle /\ holder' = p /\ status' = TurnState(p) /\ turnN' = 1 /\ history = <<>>
      BY <3>1, <1>a DEF BatonConsistent, Members
    <3>2. CASE UNCHANGED <<turnN, holder, status>>
      BY <3>2, <1>a, <1>t DEF Turns, BatonConsistent, Members, Absent, Idle,
         Interrupted, TurnState
    <3> QED
      BY <3>1, <3>2, <1>b
  <2>2. HistoryIsChain'
    BY <1>a, <1>b, <1>t DEF Turns, HistoryIsChain
  <2>3. ListValid'
    BY <1>a, <1>t DEF Turns, ListValid, Live
  <2> QED
    BY <2>1, <2>2, <2>3 DEF Turns
<1>5. Pending'
  <2>1. ASSUME NEW e, NEW q, Truthful(e, q)
        PROVE  TruthfulNext(e, q)
    <3>1. CASE turnN = 0
      BY <3>1, <2>1 DEF Truthful
    <3>2. CASE UNCHANGED <<turnN, holder, status>>
      BY <3>2, <2>1, <1>a DEF Truthful, TruthfulNext, Live
    <3> QED
      BY <3>1, <3>2, <1>b
  <2>2. buf'[c] # NoEvent => TruthfulNext(buf'[c], p)
    <3>1. CASE /\ turnN' = 1 /\ history = <<>> /\ holder' = p
               /\ buf'[c] = BatonEvent(1, Nobody)
      BY <3>1, <1>a DEF TruthfulNext, BatonEvent
    <3>2. CASE /\ holder = p /\ turnN = Len(history) + 1
               /\ buf'[c] = ResumeEvent
               /\ UNCHANGED <<turnN, holder>>
      <4>1. CASE history = <<>>
        BY <4>1, <3>2, <1>r, <1>a DEF TruthfulNext, BatonEvent
      <4>2. CASE history # <<>>
        <5>1. history[Len(history)].to = p
          BY <4>2, <3>2, <1>t, RallyAssumption DEF Turns, HistoryIsChain
        <5>2. Len(history) \in Nat \ {0} /\ turnN - 1 = Len(history)
          BY <4>2, <3>2, <1>r
        <5> QED
          BY <5>1, <5>2, <4>2, <3>2, <1>r, <1>a DEF TruthfulNext, BatonEvent
      <4> QED
        BY <4>1, <4>2
    <3> QED
      BY <3>1, <3>2, <1>b
  <2>3. EventsTruthful'
    <3>1. ASSUME NEW d \in Conns, pc'[d] # "none", buf'[d] # NoEvent, buf'[d].kind = "baton"
          PROVE  Truthful(buf[d], as[d])'
      <4>1. CASE d = c
        BY <4>1, <3>1, <2>2, <1>e DEF Truthful, TruthfulNext, Live
      <4>2. CASE d # c
        <5>1. buf'[d] = buf[d] /\ as'[d] = as[d] /\ Truthful(buf[d], as[d])
          BY <4>2, <3>1, <1>d, <1>t DEF Pending, EventsTruthful
        <5>2. TruthfulNext(buf'[d], as'[d])
          BY <5>1, <2>1
        <5> QED
          BY <5>2 DEF Truthful, TruthfulNext
      <4> QED
        BY <4>1, <4>2
    <3>2. ASSUME NEW d \in Conns, pc'[d] \in {"sse_write", "mcp_take", "mcp_return"},
                 evt'[d].kind = "baton"
          PROVE  Truthful(evt[d], as[d])'
      <4>1. d # c
        BY <3>2, <1>e
      <4>2. evt'[d] = evt[d] /\ as'[d] = as[d] /\ Truthful(evt[d], as[d])
        BY <4>1, <3>2, <1>a, <1>d, <1>t DEF Pending, EventsTruthful
      <4>3. TruthfulNext(evt'[d], as'[d])
        BY <4>2, <2>1
      <4> QED
        BY <4>3 DEF Truthful, TruthfulNext
    <3> QED
      BY <3>1, <3>2 DEF EventsTruthful
  <2>4. HolderWoken'
    <3> SUFFICES ASSUME NEW d \in Conns, pc'[d] \in Waiting, holder' = as'[d]
                 PROVE  holder' \in woken' \/ buf'[d] # NoEvent
      BY DEF HolderWoken
    <3>1. CASE d = c
      <4>1. \A n, f : BatonEvent(n, f) # NoEvent \/ n \notin Nat \/ f \notin Names \cup {Nobody}
        BY RallyAssumption DEF BatonEvent, Events
      <4>2. buf'[c] \in Events => buf'[c] # NoEvent
        BY RallyAssumption
      <4>3. ResumeEvent # NoEvent
        BY <4>1, <1>r, <1>t DEF SessionType, Handoffs
      <4> QED
        BY <3>1, <4>1, <4>3, <1>b, <1>e
    <3>2. CASE d # c
      <4>1. pc[d] \in Connected /\ as[d] # p
        BY <3>2, <1>d, <1>n DEF Waiting, Connected, SSEPlaces, MCPPlaces
      <4>2. UNCHANGED <<holder, woken>>
        BY <4>1, <3>2, <1>b, <1>d
      <4> QED
        BY <4>2, <3>2, <1>a, <1>d, <1>t DEF Pending, HolderWoken
    <3> QED
      BY <3>1, <3>2
  <2>5. PendingInOrder'
    <3>1. \A q \in Names : seen'[q] <= turnN'
      BY <1>a, <1>b, <1>t DEF Pending, PendingInOrder, ConnType
    <3>2. ASSUME NEW d \in Conns,
                 pc'[d] \in Connected, buf'[d] # NoEvent, buf'[d].kind = "baton"
          PROVE  buf'[d].turn >= seen'[as'[d]]
      <4>1. CASE d = c
        <5>1. buf'[c].turn = turnN'
          BY <4>1, <3>2, <1>b, <1>r DEF BatonEvent
        <5> QED
          BY <4>1, <5>1, <3>1, <1>e, <1>1, <1>2 DEF SessionType, ConnType
      <4>2. CASE d # c
        BY <4>2, <3>2, <1>a, <1>d, <1>t DEF Pending, PendingInOrder
      <4> QED
        BY <4>1, <4>2
    <3> QED
      BY <3>1, <3>2 DEF PendingInOrder
  <2> QED
    BY <2>3, <2>4, <2>5 DEF Pending
<1> QED
  BY <1>1, <1>2, <1>3, <1>4, <1>5 DEF IInv, TypeOK

(* A handoff extends the chain by one and leaves an event for the new        *)
(* holder, its own or an older one that was never read.                      *)
LEMMA DoneStep ==
  ASSUME IInv, NEW p \in Names, NEW to \in Names \cup {Nobody}, Done(p, to)
  PROVE  IInv'
<1> DEFINE next == NextParticipant(p, to)
           dest == streams[next]
           sent == BatonEvent(turnN + 1, p)
           hand == [from |-> p, to |-> next, turn |-> turnN + 1]
<1>t. SessionType /\ ConnType /\ Channels /\ Turns /\ Pending
  BY DEF IInv, TypeOK
<1>a. /\ Live /\ holder = p /\ to # p /\ (to = Nobody \/ to \in Members)
      /\ turnN' = turnN + 1
      /\ history' = Append(history, hand)
      /\ holder' = next
      /\ status' = TurnState(next)
      /\ woken' = woken \ {next}
      /\ UNCHANGED <<participants, streams, pc, as, evt, closed, toClose, seen>>
  BY DEF Done, Live
<1>b. p \in Members /\ turnN = Len(history) + 1
  BY <1>a, <1>t, RallyAssumption DEF Turns, BatonConsistent
<1>n. next \in Members /\ next # p /\ next \in Names
  BY <1>a, <1>b, <1>t, NextIsOther DEF SessionType, Turns, Live
<1>l. /\ Len(history) \in Nat /\ history \in Seq(Handoffs) /\ turnN \in Nat
      /\ Len(history') = Len(history) + 1
      /\ \A i \in 1..Len(history) : history'[i] = history[i]
      /\ history'[Len(history) + 1] = hand
      /\ history' # <<>>
  <2>1. history \in Seq(Handoffs) /\ hand \in Handoffs /\ turnN \in Nat
    BY <1>n, <1>t DEF SessionType, Handoffs
  <2> HIDE DEF hand
  <2> QED
    BY <2>1, <1>a
<1>c. sent \in Events /\ sent # NoEvent
  BY <1>l, RallyAssumption DEF BatonEvent, Events
<1>d. /\ \A d \in Conns : buf'[d] = buf[d] \/ (d = dest /\ buf[d] = NoEvent /\ buf'[d] = sent)
      /\ dest \in Conns => buf'[dest] # NoEvent
      /\ buf' \in [Conns -> Events \cup {NoEvent}]
  <2> HIDE DEF next, sent
  <2>1. buf' = IF dest = NoConn THEN buf ELSE [buf EXCEPT ![dest] = TrySend(dest, sent)]
    BY DEF Done, next, sent
  <2>2. dest \in Conns \cup {NoConn} /\ buf \in [Conns -> Events \cup {NoEvent}]
    BY <1>n, <1>t DEF ConnType
  <2> QED
    BY <2>1, <2>2, <1>c, RallyAssumption DEF TrySend
<1> HIDE DEF next, dest, sent, hand
<1>1. SessionType'
  <2>1. hand \in Handoffs
    BY <1>n, <1>l DEF Handoffs, hand
  <2> QED
    BY <2>1, <1>t, <1>a, <1>n DEF SessionType
<1>2. ConnType'
  BY <1>t, <1>a, <1>d DEF ConnType
<1>v. Live'
  BY <1>a DEF Live, Absent, Interrupted, TurnState
<1>3. Channels'
  <2>1. ChannelSafety' /\ HandlersNamed' /\ ReadersDistinct'
    BY <1>t, <1>a DEF Channels, ChannelSafety, HandlersNamed, ReadersDistinct
  <2>2. OneReader'
    BY <1>t, <1>a, <1>v DEF Channels, OneReader
  <2>3. StreamsOwned' /\ AbsentQuiet'
    BY <1>t, <1>a, <1>v DEF Channels, StreamsOwned, AbsentQuiet, Live
  <2> QED
    BY <2>1, <2>2, <2>3 DEF Channels
<1>4. Turns'
  <2>1. BatonConsistent'
    BY <1>a, <1>b, <1>n, <1>l DEF BatonConsistent, Members
  <2>2. HistoryIsChain'
    <3>1. \A i \in 1..Len(history) :
            /\ history[i].turn = i + 1
            /\ history[i].from # history[i].to
            /\ i > 1 => history[i].from = history[i-1].to
      BY <1>t DEF Turns, HistoryIsChain
    <3>2. Len(history) > 0 => history[Len(history)].to = p
      BY <1>a, <1>l, <1>t, RallyAssumption DEF Turns, HistoryIsChain
    <3>3. hand.turn = Len(history) + 2 /\ hand.from = p /\ hand.to = next
      BY <1>b, <1>l DEF hand
    <3>4. ASSUME NEW i \in 1..Len(history')
          PROVE  /\ history'[i].turn = i + 1
                 /\ history'[i].from # history'[i].to
                 /\ i > 1 => history'[i].from = history'[i-1].to
      <4>1. CASE i \in 1..Len(history)
        <5>1. i > 1 => i - 1 \in 1..Len(history)
          BY <4>1, <1>l
        <5> QED
          BY <4>1, <5>1, <3>1, <1>l
      <4>2. CASE i = Len(history) + 1
        <5>1. history'[i] = hand
          BY <4>2, <1>l
        <5>2. i > 1 => history'[i-1] = history[Len(history)] /\ Len(history) > 0
          BY <4>2, <1>l
        <5> QED
          BY <4>2, <5>1, <5>2, <3>2, <3>3, <1>l, <1>n
      <4> QED
        BY <4>1, <4>2, <1>l
    <3> QED
      BY <3>3, <3>4, <1>a, <1>l DEF HistoryIsChain
  <2>3. ListValid'
    BY <1>a, <1>t DEF Turns, ListValid, Live
  <2> QED
    BY <2>1, <2>2, <2>3 DEF Turns
<1>5. Pending'
  <2>1. ASSUME NEW e, NEW q, Truthful(e, q)
        PROVE  TruthfulNext(e, q)
    <3>1. e.turn \in 1..turnN
      BY <2>1 DEF Truthful
    <3>2. CASE e.turn = 1
      <4>1. history'[1].from = q
        <5>1. CASE history = <<>>
          BY <5>1, <3>2, <2>1, <1>a, <1>l DEF Truthful, hand
        <5>2. CASE history # <<>>
          <6>1. 1 \in 1..Len(history)
            BY <5>2, <1>l
          <6> QED
            BY <5>2, <6>1, <3>2, <2>1, <1>l DEF Truthful
        <5> QED
          BY <5>1, <5>2
      <4> QED
        BY <4>1, <3>1, <3>2, <2>1, <1>a, <1>l DEF Truthful, TruthfulNext
    <3>3. CASE e.turn > 1
      <4>1. e.turn - 1 \in 1..Len(history)
        BY <3>1, <3>3, <1>b, <1>l
      <4> QED
        BY <4>1, <3>1, <3>3, <2>1, <1>a, <1>l DEF Truthful, TruthfulNext
    <3> QED
      BY <3>1, <3>2, <3>3, <1>l
  <2>2. TruthfulNext(sent, next)
    <3>1. sent.turn = turnN + 1 /\ sent.from = p /\ hand.to = next /\ hand.from = p
      BY DEF sent, hand, BatonEvent
    <3>2. sent.turn - 1 = Len(history) + 1 /\ sent.turn > 1 /\ sent.turn \in 1..turnN'
      BY <3>1, <1>a, <1>b, <1>l
    <3> QED
      BY <3>1, <3>2, <1>l DEF TruthfulNext
  <2>3. EventsTruthful'
    <3>1. ASSUME NEW d \in Conns, pc[d] # "none", buf'[d] # NoEvent, buf'[d].kind = "baton"
          PROVE  Truthful(buf[d], as[d])'
      <4>1. TruthfulNext(buf'[d], as[d])
        <5>1. CASE buf'[d] = buf[d]
          <6>1. Truthful(buf[d], as[d])
            BY <5>1, <3>1, <1>t DEF Pending, EventsTruthful
          <6> QED
            BY <5>1, <6>1, <2>1
        <5>2. CASE d = dest /\ buf'[d] = sent
          <6>1. as[d] = next
            BY <5>2, <3>1, <1>n, <1>t, RallyAssumption DEF Channels, StreamsOwned, dest
          <6> QED
            BY <5>2, <6>1, <2>2
        <5> QED
          BY <5>1, <5>2, <1>d
      <4> QED
        BY <4>1, <1>a DEF Truthful, TruthfulNext
    <3>2. ASSUME NEW d \in Conns, pc[d] \in {"sse_write", "mcp_take", "mcp_return"},
                 evt[d].kind = "baton"
          PROVE  Truthful(evt[d], as[d])'
      <4>1. Truthful(evt[d], as[d])
        BY <3>2, <1>t DEF Pending, EventsTruthful
      <4>2. TruthfulNext(evt[d], as[d])
        BY <4>1, <2>1
      <4> QED
        BY <4>2, <1>a DEF Truthful, TruthfulNext
    <3> QED
      BY <3>1, <3>2, <1>a DEF EventsTruthful
  <2>4. HolderWoken'
    <3> SUFFICES ASSUME NEW d \in Conns, pc[d] \in Waiting, next = as[d]
                 PROVE  buf'[d] # NoEvent
      BY <1>a DEF HolderWoken
    <3>1. dest = d
      BY <1>a, <1>t DEF dest, Channels, OneReader, Waiting, Connected, SSEPlaces,
         MCPPlaces
    <3> QED
      BY <3>1, <1>d
  <2>5. PendingInOrder'
    <3>0. \A x, y \in Nat : x <= y => y + 1 >= x
      OBVIOUS
    <3>1. \A q \in Names : seen[q] <= turnN /\ seen[q] \in Nat
      BY <1>t DEF Pending, PendingInOrder, ConnType
    <3>2. ASSUME NEW d \in Conns,
                 pc[d] \in Connected, buf'[d] # NoEvent, buf'[d].kind = "baton"
          PROVE  buf'[d].turn >= seen[as[d]]
      <4>1. CASE buf'[d] = buf[d]
        BY <4>1, <3>2, <1>t DEF Pending, PendingInOrder
      <4>2. CASE buf'[d] = sent
        <5>1. sent.turn = turnN + 1
          BY DEF sent, BatonEvent
        <5>2. as[d] \in Names
          BY <3>2, <1>t DEF Channels, HandlersNamed, Connected, SSEPlaces, MCPPlaces
        <5>3. seen[as[d]] <= turnN /\ seen[as[d]] \in Nat /\ turnN \in Nat
          BY <5>2, <3>1, <1>l
        <5>4. buf'[d].turn = turnN + 1
          BY <4>2, <5>1
        <5>5. turnN + 1 >= seen[as[d]]
          BY <3>0, <5>3, Zenon
        <5> QED
          BY <5>4, <5>5, Zenon
      <4> QED
        BY <4>1, <4>2, <1>d
    <3>3. \A q \in Names : seen'[q] <= turnN'
      BY <3>1, <1>a, <1>l
    <3> QED
      BY <3>2, <3>3, <1>a DEF PendingInOrder
  <2> QED
    BY <2>3, <2>4, <2>5 DEF Pending
<1> QED
  BY <1>1, <1>2, <1>3, <1>4, <1>5 DEF IInv, TypeOK

-----------------------------------------------------------------------------
(* The broker starts without a session.                                      *)
LEMMA InitIInv == Init => IInv
<1> SUFFICES ASSUME Init PROVE IInv
  OBVIOUS
<1> USE RallyAssumption DEF Init
<1>1. TypeOK
  BY Constants DEF TypeOK, SessionType, ConnType
<1>2. Channels
  BY DEF Channels, ChannelSafety, OneReader, HandlersNamed, StreamsOwned,
     ReadersDistinct,
     AbsentQuiet, Connected, SSEPlaces, MCPPlaces
<1>3. Turns
  BY DEF Turns, BatonConsistent, HistoryIsChain, ListValid
<1>4. Pending
  BY DEF Pending, EventsTruthful, HolderWoken, PendingInOrder, Waiting,
     Connected, SSEPlaces, MCPPlaces
<1> QED
  BY <1>1, <1>2, <1>3, <1>4 DEF IInv

(* Every step preserves the invariant.                                       *)
LEMMA NextIInv == IInv /\ [Next]_vars => IInv'
<1> SUFFICES ASSUME IInv, [Next]_vars PROVE IInv'
  OBVIOUS
<1>1. ASSUME NEW ps \in Requests, NEW fh \in Names \cup {Nobody}, Create(ps, fh) PROVE IInv'
  BY <1>1, CreateStep
<1>2. ASSUME NEW c \in Conns, HandlerStep(c) \/ FlushStep(c) PROVE IInv'
  BY <1>2, SSEHeadersStep, SSEPingStep, SSEReceiveStep, SSEClosedStep, SSEWriteStep,
     MCPReceiveStep, CleanupStep, MCPReturnStep DEF HandlerStep, FlushStep
<1>3. ASSUME NEW c \in Conns, ClientStep(c) PROVE IInv'
  BY <1>3, JoinStep, SSEEndStep, SSETickStep, MCPCancelStep, MCPTimerStep DEF ClientStep,
     SSEJoin, MCPJoin
<1>4. ASSUME NEW c \in Conns, CloseChannel(c) PROVE IInv'
  BY <1>4, CloseChannelStep
<1>5. ASSUME NEW p \in Names, NEW to \in Names \cup {Nobody}, Done(p, to) PROVE IInv'
  BY <1>5, DoneStep
<1>6. CASE Interrupt
  BY <1>6, InterruptStep
<1>7. CASE UNCHANGED vars
  <2>1. UNCHANGED <<session, streams, pc, as, evt, buf, closed, toClose, woken, seen>>
    BY <1>7 DEF vars, conns, ghosts
  <2>2. UNCHANGED <<participants, status, holder, turnN, history>> /\ Live' = Live
    BY <2>1 DEF session, Live, Absent, Interrupted
  <2>3. SessionType' /\ Turns'
    BY <2>1, LocalTurns
  <2>4. ConnType'
    BY <2>1 DEF IInv, TypeOK, ConnType
  <2>5. Channels'
    BY <2>1, <2>2 DEF IInv, Channels, ChannelSafety, OneReader, HandlersNamed,
       StreamsOwned,
       ReadersDistinct, AbsentQuiet, Absent
  <2>6. Pending'
    <3>1. EventsTruthful'
      BY <2>1, <2>2 DEF IInv, Pending, EventsTruthful, Truthful
    <3>2. HolderWoken' /\ PendingInOrder'
      BY <2>1, <2>2 DEF IInv, Pending, HolderWoken, PendingInOrder
    <3> QED
      BY <3>1, <3>2 DEF Pending
  <2> QED
    BY <2>3, <2>4, <2>5, <2>6 DEF IInv, TypeOK
<1> QED
  BY <1>1, <1>2, <1>3, <1>4, <1>5, <1>6, <1>7 DEF Next

(* So it holds throughout.                                                   *)
LEMMA Inductive == Spec => []IInv
BY InitIInv, NextIInv, PTL DEF Spec

(* Every state of every rally session is well typed. *)
THEOREM TypeCorrect == Spec => []TypeOK
<1>1. IInv => TypeOK
  BY DEF IInv
<1> QED
  BY <1>1, Inductive, PTL

(* No handoff sends on a channel that interruptRallySession or               *)
(* CloseAllRallies has closed, none is closed twice, and cleanupStream only  *)
(* ever deletes the channel of the handler that calls it.                    *)
THEOREM ChannelsSafe == Spec => []ReadersSafe
<1>1. IInv => ReadersSafe
  BY DEF IInv, Channels, ReadersSafe
<1> QED
  BY <1>1, Inductive, PTL

(* holder, status, turn counter and history of a session always tell the     *)
(* same story, and every event a participant gets is about a turn it was     *)
(* given.                                                                    *)
THEOREM OneBaton == Spec => []BatonTruth
<1>1. IInv => BatonTruth
  BY DEF IInv, Turns, Pending, BatonTruth
<1> QED
  BY <1>1, Inductive, PTL

(* The holder is never left waiting without an event to come. *)
THEOREM Delivery == Spec => []HolderWoken
<1>1. IInv => HolderWoken
  BY DEF IInv, Pending
<1> QED
  BY <1>1, Inductive, PTL

(* No step shows a participant an older turn than it has seen. *)
THEOREM InOrder == Spec => ReceivesInOrder
<1>1. IInv /\ [Next]_vars => [\A p \in Names : seen'[p] >= seen[p]]_seen
  <2> SUFFICES ASSUME IInv, [Next]_vars, seen' # seen
               PROVE  \A p \in Names : seen'[p] >= seen[p]
    OBVIOUS
  <2>1. PICK c \in Conns : (SSEReceive(c) \/ MCPReceive(c)) /\ Take(c)
    BY ZenonT(40) DEF Next, HandlerStep, FlushStep, ClientStep, SSEJoin, MCPJoin, Join,
       Create, SSEHeaders, SSEEnd, SSETick, SSEPing,
       SSEReceive, SSEClosed, SSEWrite, MCPCancel, MCPReceive, MCPTimer, Cleanup,
       MCPReturn, Done, Interrupt, CloseChannel, vars, ghosts
  <2>2. ConnType /\ PendingInOrder /\ pc[c] \in Connected
    BY <2>1 DEF IInv, TypeOK, Pending, SSEReceive, MCPReceive, Connected, SSEPlaces,
       MCPPlaces
  <2>3. /\ buf[c] # NoEvent /\ buf[c] \in Events
        /\ seen' = [seen EXCEPT ![as[c]] = buf[c].turn] /\ buf[c].kind = "baton"
    BY <2>1, <2>2 DEF Take, ConnType, Events
  <2>4. buf[c].turn >= seen[as[c]]
    BY <2>2, <2>3 DEF PendingInOrder
  <2>5. seen \in [Names -> Nat]
    BY <2>2 DEF ConnType
  <2>6. TAKE p \in Names
  <2>7. CASE p = as[c]
    <3>1. seen'[p] = buf[c].turn
      BY <2>3, <2>5, <2>7
    <3> QED
      BY <3>1, <2>4, <2>7, Zenon
  <2>8. CASE p # as[c]
    <3>1. seen'[p] = seen[p] /\ seen[p] \in Nat
      BY <2>3, <2>5, <2>8
    <3> QED
      BY <3>1
  <2> QED
    BY <2>7, <2>8
<1> QED
  BY <1>1, Inductive, PTL DEF Spec, ReceivesInOrder
-----------------------------------------------------------------------------
(* What Phase is in each kind of status. *)
LEMMA Phases ==
  ASSUME SessionType
  PROVE  /\ Phase = "absent" <=> status = Absent
         /\ Phase = "idle" <=> status = Idle
         /\ Phase = "over" <=> status = Interrupted
         /\ Phase = "play" <=> \E p \in Names : status = TurnState(p)
BY DEF SessionType, Phase, Absent, Idle, Interrupted, TurnState

(* A step that leaves status, holder and turn alone is a stutter of Baton. *)
LEMMA Stutters ==
  ASSUME UNCHANGED <<status, holder, turnN>>
  PROVE  UNCHANGED B!batonVars
BY DEF B!batonVars, Phase, Absent, Idle, Interrupted

(* Every step of the session is a step of the abstract baton or leaves it    *)
(* alone: a join can only begin the first turn, a handoff passes the baton   *)
(* of its holder to somebody else, and nothing follows an interruption.      *)
LEMMA StepRefines ==
  ASSUME IInv, IInv', [Next]_vars
  PROVE  [B!BatonNext]_(B!batonVars)
<1>t. SessionType /\ SessionType' /\ Turns /\ Channels
  BY DEF IInv, TypeOK
<1>p. /\ Phase = "absent" <=> status = Absent
      /\ Phase = "idle" <=> status = Idle
      /\ Phase = "over" <=> status = Interrupted
      /\ Phase = "play" <=> \E p \in Names : status = TurnState(p)
  BY <1>t, Phases
<1>q. /\ status' = Idle => Phase' = "idle"
      /\ status' = Interrupted => Phase' = "over"
      /\ \A p \in Names : status' = TurnState(p) => Phase' = "play"
  BY DEF Phase, Absent, Idle, Interrupted, TurnState
<1>1. ASSUME NEW ps \in Requests, NEW fh \in Names \cup {Nobody}, Create(ps, fh)
      PROVE  B!Open
  <2>1. CASE fh = Nobody
    <3>1. status = Absent /\ status' = Idle /\ UNCHANGED <<holder, turnN>>
      BY <1>1, <2>1 DEF Create
    <3> QED
      BY <3>1, <1>p, <1>q DEF B!Open
  <2>2. CASE fh # Nobody
    <3>1. /\ status = Absent /\ holder' = fh /\ turnN' = 1
          /\ status' = TurnState(fh) /\ fh \in Names
      BY <1>1, <2>2 DEF Create
    <3> QED
      BY <3>1, <1>p, <1>q DEF B!Open
  <2> QED
    BY <2>1, <2>2
<1>2. ASSUME NEW c \in Conns, NEW p \in Names, NEW place, Join(c, p, place)
      PROVE  B!Serve(p) \/ UNCHANGED <<status, holder, turnN>>
  <2>1. CASE status = Idle /\ participants[1] = p
    <3>1. turnN = 0
      BY <2>1, <1>t, RallyAssumption
         DEF Turns, BatonConsistent, Idle, Interrupted, TurnState
    <3>2. holder' = p /\ turnN' = turnN + 1 /\ status' = TurnState(p)
      BY <1>2, <2>1 DEF Join, Idle, TurnState
    <3>3. turnN' = 1
      BY <3>1, <3>2
    <3> QED
      BY <2>1, <3>2, <3>3, <1>p, <1>q DEF B!Serve
  <2>2. CASE ~(status = Idle /\ participants[1] = p)
    BY <1>2, <2>2 DEF Join
  <2> QED
    BY <2>1, <2>2
<1>3. ASSUME NEW p \in Names, NEW to \in Names \cup {Nobody}, Done(p, to)
      PROVE  \E q \in Names : B!Pass(p, q)
  <2>1. /\ Live /\ holder = p /\ to # p /\ (to = Nobody \/ to \in Members)
        /\ turnN' = turnN + 1
        /\ holder' = NextParticipant(p, to)
        /\ status' = TurnState(holder')
    BY <1>3 DEF Done, Live
  <2>2. p \in Members /\ status = TurnState(p)
    BY <2>1, <1>t, RallyAssumption DEF Turns, BatonConsistent
  <2>3. holder' \in Names /\ holder' # p
    BY <2>1, <2>2, <1>t, NextIsOther DEF SessionType, Turns, Live
  <2>4. Phase = "play" /\ Phase' = "play"
    BY <2>1, <2>2, <2>3, <1>p, <1>q
  <2> QED
    BY <2>1, <2>3, <2>4 DEF B!Pass
<1>4. ASSUME Interrupt
      PROVE  B!Stop
  <2>1. /\ status \notin {Absent, Interrupted} /\ status' = Interrupted
        /\ holder' = Nobody /\ turnN' = turnN
    BY <1>4 DEF Interrupt
  <2>2. Phase \in {"idle", "play"}
    BY <2>1, <1>t, <1>p DEF SessionType
  <2> QED
    BY <2>1, <2>2, <1>q DEF B!Stop
<1>5. ASSUME NEW c \in Conns, HandlerStep(c) \/ FlushStep(c) \/ CloseChannel(c)
      PROVE  UNCHANGED <<status, holder, turnN>>
  BY <1>5 DEF HandlerStep, FlushStep, SSEHeaders, SSEPing, SSEReceive, SSEClosed, SSEWrite, MCPReceive,
     Cleanup, MCPReturn, CloseChannel, session
<1>6. ASSUME NEW c \in Conns, SSEEnd(c) \/ SSETick(c) \/ MCPCancel(c) \/ MCPTimer(c)
      PROVE  UNCHANGED <<status, holder, turnN>>
  BY <1>6 DEF SSEEnd, SSETick, MCPCancel, MCPTimer, session
<1>7. CASE UNCHANGED vars
  BY <1>7, Stutters DEF vars, session
<1>8. CASE Next
  <2>1. \/ B!Open
        \/ \E p \in Names : B!Serve(p)
        \/ \E p, q \in Names : B!Pass(p, q)
        \/ B!Stop
        \/ UNCHANGED <<status, holder, turnN>>
    BY <1>1, <1>2, <1>3, <1>4, <1>5, <1>6, <1>8 DEF Next, ClientStep, SSEJoin, MCPJoin
  <2> QED
    BY <2>1, Stutters DEF B!BatonNext
<1> QED
  BY <1>7, <1>8

(* The broker's rally session implements the abstract baton: createRally-    *)
(* Session opens it, the first participant's join serves it, every           *)
(* advanceRallyBaton passes it to somebody other than its holder, and an     *)
(* interruption takes it away for good, whatever the connections do.         *)
THEOREM Refinement == Spec => ImplementsBaton
<1>1. Init => B!BatonInit
  <2>1. Init => SessionType /\ status = Absent /\ holder = Nobody /\ turnN = 0
    BY InitIInv DEF Init, IInv, TypeOK
  <2> QED
    BY <2>1, Phases DEF B!BatonInit
<1>2. IInv /\ IInv' /\ [Next]_vars => [B!BatonNext]_(B!batonVars)
  BY StepRefines
<1> QED
  BY <1>1, <1>2, Inductive, PTL DEF Spec, ImplementsBaton, B!BatonSpec
-----------------------------------------------------------------------------
(* A channel to be closed was offered the sentinel, and only the wait itself *)
(* takes an event out of it.                                                 *)
LEMMA SentinelNext ==
  ASSUME TypeOK, JoinSeesSentinel, [Next]_vars PROVE JoinSeesSentinel'
<1> USE RallyAssumption DEF TypeOK, ConnType, JoinSeesSentinel
<1>1. ASSUME NEW c \in Conns,
             \/ HandlerStep(c) \/ FlushStep(c)
             \/ SSEEnd(c) \/ SSETick(c) \/ MCPCancel(c) \/ MCPTimer(c)
      PROVE  JoinSeesSentinel'
  <2>1. /\ pc'[c] # "mcp_select" /\ UNCHANGED <<closed, toClose>>
        /\ \A d \in Conns \ {c} : pc'[d] = pc[d] /\ buf'[d] = buf[d]
    BY <1>1, ZenonT(40) DEF HandlerStep, FlushStep, SSEHeaders, SSEPing, SSEReceive, SSEClosed,
                SSEWrite, MCPReceive, Cleanup, MCPReturn, SSEEnd, SSETick, MCPCancel, MCPTimer, Goto, Return, Take
  <2>2. QED
    BY <2>1
<1>2. ASSUME NEW c \in Conns, NEW p \in Names, SSEJoin(c, p) \/ MCPJoin(c, p)
      PROVE  JoinSeesSentinel'
  <2>1. PICK place \in {"sse_headers", "mcp_select"} : Join(c, p, place)
    BY <1>2 DEF SSEJoin, MCPJoin
  <2>2. c \notin toClose' \cup closed' /\ toClose' = toClose /\ closed' \subseteq closed
    BY <2>1 DEF Join, MayJoin, Unused
  <2>3. \A d \in Conns \ {c} : pc'[d] = pc[d]
    BY <2>1 DEF Join
  <2>4. PICK e : buf' = [buf EXCEPT ![c] = e]
    BY <2>1, Zenon DEF Join
  <2>5. \A d \in Conns \ {c} : buf'[d] = buf[d]
    BY <2>4
  <2>6. QED
    BY <2>2, <2>3, <2>5
<1>3. ASSUME NEW c \in Conns, CloseChannel(c) PROVE JoinSeesSentinel'
  BY <1>3 DEF CloseChannel
<1>4. ASSUME NEW p \in Names, NEW to \in Names \cup {Nobody}, Done(p, to)
      PROVE  JoinSeesSentinel'
  <2>1. UNCHANGED <<pc, closed, toClose>>
    BY <1>4 DEF Done
  <2>2. ASSUME NEW c \in Conns, buf[c] # NoEvent PROVE buf'[c] # NoEvent
    BY <1>4, <2>2 DEF Done, TrySend
  <2>3. QED
    BY <2>1, <2>2
<1>5. CASE Interrupt
  <2> DEFINE live == {c \in Conns : \E p \in Names : streams[p] = c}
  <2>1. CloseSentinel # NoEvent
    BY DEF CloseSentinel, Events
  <2>2. /\ UNCHANGED <<pc, closed>> /\ toClose' = toClose \cup live
        /\ buf' = [c \in Conns |-> IF c \in live THEN TrySend(c, CloseSentinel) ELSE buf[c]]
    BY <1>5 DEF Interrupt, Sentinels
  <2>3. \A c \in live : buf'[c] # NoEvent
    BY <2>1, <2>2 DEF TrySend
  <2>4. QED
    BY <2>2, <2>3
<1>6. CASE \/ UNCHANGED vars
           \/ \E ps \in Requests, fh \in Names \cup {Nobody} : Create(ps, fh)
  BY <1>6 DEF Create, vars, conns
<1> HIDE DEF JoinSeesSentinel
<1>7. QED
  BY <1>1, <1>2, <1>3, <1>4, <1>5, <1>6, Zenon DEF Next, ClientStep

(* rally_join never sees a closed, empty channel, the one case in which it   *)
(* returns and leaves its registration behind: with any number of            *)
(* participants and connections, the sentinel or an earlier event is there.  *)
THEOREM ClosedIsSeen == Spec => []JoinSeesSentinel
<1>1. Init => JoinSeesSentinel
  BY DEF Init, JoinSeesSentinel
<1>2. TypeOK /\ JoinSeesSentinel /\ [Next]_vars => JoinSeesSentinel'
  BY SentinelNext
<1>3. QED
  BY <1>1, <1>2, TypeCorrect, PTL DEF Spec
=============================================================================
