---------------------------- MODULE StreamProofs ----------------------------
(***************************************************************************)
(* Proofs about the two kinds of event streams: of the MCP transport, for  *)
(* any number of agents and hosts, and of the events of a cycle, for any   *)
(* number of streams, steps and halts, both for any capacity of a channel. *)
(***************************************************************************)
EXTENDS Mcp, Watch, TLAPS

(* The messages of a stream. *)
Messages(s) == {s[i] : i \in DOMAIN s}

LEMMA AppendMessages ==
  ASSUME NEW s \in Seq(Nat), NEW e \in Nat
  PROVE  Append(s, e) \in Seq(Nat) /\ Messages(Append(s, e)) = Messages(s) \cup {e}
<1>1. /\ Append(s, e) \in Seq(Nat) /\ Len(Append(s, e)) = Len(s) + 1
      /\ \A i \in 1..Len(s) : Append(s, e)[i] = s[i]
      /\ Append(s, e)[Len(s) + 1] = e
  OBVIOUS
<1>2. DOMAIN s = 1..Len(s) /\ DOMAIN Append(s, e) = 1..(Len(s) + 1) /\ Len(s) \in Nat
  BY <1>1
<1> QED
  BY <1>1, <1>2 DEF Messages

LEMMA TailMessages ==
  ASSUME NEW s \in Seq(Nat), s # <<>>
  PROVE  /\ Tail(s) \in Seq(Nat) /\ Messages(Tail(s)) \subseteq Messages(s)
         /\ Head(s) \in Nat /\ Head(s) \in Messages(s)
<1>1. /\ Tail(s) \in Seq(Nat) /\ Len(Tail(s)) = Len(s) - 1 /\ Len(s) \in Nat /\ Len(s) > 0
      /\ \A i \in 1..(Len(s) - 1) : Tail(s)[i] = s[i + 1]
      /\ Head(s) = s[1] /\ s[1] \in Nat
  OBVIOUS
<1>2. DOMAIN s = 1..Len(s) /\ DOMAIN Tail(s) = 1..(Len(s) - 1)
  BY <1>1
<1>3. ASSUME NEW i \in DOMAIN Tail(s) PROVE Tail(s)[i] \in Messages(s)
  <2>1. i + 1 \in DOMAIN s /\ Tail(s)[i] = s[i + 1]
    BY <1>1, <1>2
  <2> QED
    BY <2>1 DEF Messages
<1>4. Head(s) \in Messages(s)
  BY <1>1, <1>2 DEF Messages
<1> QED
  BY <1>1, <1>3, <1>4 DEF Messages

LEMMA OneMessage ==
  ASSUME NEW n \in Nat
  PROVE  /\ Messages(<<n>>) = {n} /\ <<n>> # <<>> /\ <<n>> \in Seq(Nat)
         /\ Head(<<n>>) = n /\ Tail(<<n>>) = <<>> /\ Append(<<>>, n) = <<n>>
<1>1. DOMAIN <<n>> = {1} /\ <<n>>[1] = n
  OBVIOUS
<1>2. Messages(<<n>>) = {n}
  BY <1>1 DEF Messages
<1> QED
  BY <1>2

(* A handler goes on. *)
LEMMA MovesOn ==
  ASSUME McpTypeOK, NEW h \in handlers, NEW place \in {"lookup", "dispatch", "send"}
  PROVE  LET g == [h EXCEPT !.at = place] IN
           /\ g \in [client : McpClients, id : Nat, at : {"lookup", "dispatch", "send"}]
           /\ g.client = h.client /\ g.id = h.id /\ g.at = place
BY DEF McpTypeOK

-----------------------------------------------------------------------------
(* The inductive invariant, for an agent.  At most one of its requests is    *)
(* under way: it is with its one handler, or its answer is in the channel,   *)
(* or on the wire.                                                           *)
Idle(c) == \A h \in handlers : h.client # c

FlightInv ==
  \A c \in Agents :
    /\ \A h, g \in handlers : h.client = c /\ g.client = c => h = g
    /\ \A h \in handlers : h.client = c => h.id = nextID[c] /\ respCh[c] = <<>>
    /\ respCh[c] = <<>> \/ respCh[c] = <<nextID[c]>>
    /\ agentAt[c] \in {"idle", "endpoint", "ready"} => Idle(c) /\ respCh[c] = <<>>
    /\ agentAt[c] = "reading" => Idle(c)

WireInv ==
  \A c \in Agents :
    /\ \A n \in Messages(wire[c]) : n <= nextID[c]
    /\ nextID[c] > 0 /\ nextID[c] \in Messages(wire[c]) => Idle(c) /\ respCh[c] = <<>>

(* Its second request is the last, and runs the tool. *)
CountInv ==
  \A c \in Agents :
    /\ nextID[c] <= 2 /\ ran[c] <= 1 /\ (nextID[c] < 2 => ran[c] = 0)
    /\ agentAt[c] \in {"idle", "endpoint"} => nextID[c] = 0
    /\ agentAt[c] = "ready" => nextID[c] < 2
    /\ \A h \in handlers :
         h.client = c /\ nextID[c] = 2 => ran[c] = (IF h.at = "send" THEN 1 ELSE 0)
    /\ nextID[c] = 2 /\ respCh[c] # <<>> => ran[c] = 1
    /\ 2 \in Messages(wire[c]) => ran[c] = 1
    /\ agentAt[c] = "done" => ran[c] = 1

McpInv == McpTypeOK /\ FlightInv /\ WireInv /\ CountInv

LEMMA McpTypeStep ==
  ASSUME McpTypeOK, [McpNext]_mcpVars
  PROVE  McpTypeOK'
<1> USE McpAssumption DEF McpTypeOK, McpClients, AgentOver, Endpoint
<1>1. ASSUME NEW c \in McpClients, OpenStream(c) PROVE McpTypeOK'
  BY <1>1 DEF OpenStream, To, Endpoint
<1>2. ASSUME NEW c \in McpClients, StreamWrites(c) PROVE McpTypeOK'
  BY <1>2, AppendMessages, TailMessages DEF StreamWrites
<1>3. ASSUME NEW c \in McpClients, StreamCloses(c) PROVE McpTypeOK'
  BY <1>3 DEF StreamCloses, Unregister
<1>4. ASSUME NEW c \in McpClients, ReadEndpoint(c) PROVE McpTypeOK'
  BY <1>4, TailMessages DEF ReadEndpoint, To
<1>5. ASSUME NEW c \in McpClients, Post(c) PROVE McpTypeOK'
  BY <1>5 DEF Post, To
<1>6. ASSUME NEW c \in McpClients, Answered(c) PROVE McpTypeOK'
  BY <1>6, TailMessages DEF Answered, Called, To
<1>7. ASSUME NEW c \in McpClients, Skip(c) PROVE McpTypeOK'
  BY <1>7, TailMessages DEF Skip
<1>8. ASSUME NEW c \in McpClients, GiveUp(c) PROVE McpTypeOK'
  BY <1>8 DEF GiveUp, AfterTimeout, To
<1>9. ASSUME NEW h \in handlers, LookedUp(h) PROVE McpTypeOK'
  <2> DEFINE g == [h EXCEPT !.at = "dispatch"]
  <2>1. /\ handlers' = (handlers \ {h}) \cup {g}
        /\ g \in [client : McpClients, id : Nat, at : {"lookup", "dispatch", "send"}]
        /\ g.client = h.client /\ g.id = h.id /\ g.at = "dispatch"
    BY <1>9, MovesOn DEF LookedUp
  <2> HIDE DEF g
  <2> QED
    BY <1>9, <2>1 DEF LookedUp
<1>10. ASSUME NEW h \in handlers, NotFound(h) PROVE McpTypeOK'
  BY <1>10 DEF NotFound, To
<1>11. ASSUME NEW h \in handlers, DispatchMCP(h) PROVE McpTypeOK'
  <2>1. handlers' \subseteq [client : McpClients, id : Nat, at : {"lookup", "dispatch", "send"}]
    BY <1>11, MovesOn DEF DispatchMCP
  <2>2. ran' \in [McpClients -> Nat]
    BY <1>11 DEF DispatchMCP
  <2> QED
    BY <1>11, <2>1, <2>2 DEF DispatchMCP
<1>12. ASSUME NEW h \in handlers, SendResponse(h) PROVE McpTypeOK'
  BY <1>12, AppendMessages DEF SendResponse, To
<1>13. ASSUME UNCHANGED mcpVars PROVE McpTypeOK'
  BY <1>13 DEF mcpVars
<1> QED
  BY <1>1, <1>2, <1>3, <1>4, <1>5, <1>6, <1>7, <1>8, <1>9, <1>10, <1>11, <1>12, <1>13
  DEF McpNext, StreamStep, AgentStep, HandlerStep

LEMMA FlightStep ==
  ASSUME McpTypeOK, FlightInv, WireInv, CountInv, [McpNext]_mcpVars
  PROVE  FlightInv'
<1> USE McpAssumption DEF McpTypeOK, McpClients, AgentOver, FlightInv, WireInv, CountInv, Idle
<1>1. ASSUME NEW c \in McpClients, OpenStream(c) PROVE FlightInv'
  BY <1>1 DEF OpenStream, To, Endpoint
<1>2. ASSUME NEW c \in McpClients, StreamWrites(c) PROVE FlightInv'
  <2>1. respCh' = [respCh EXCEPT ![c] = Tail(@)] /\ respCh[c] # <<>>
    BY <1>2 DEF StreamWrites
  <2>2. c \in Agents => respCh[c] = <<nextID[c]>> /\ nextID[c] \in Nat
    BY <2>1
  <2>3. c \in Agents => Tail(respCh[c]) = <<>>
    <3>1. \A n \in Nat : Tail(<<n>>) = <<>>
      BY OneMessage
    <3> QED
      BY <2>2, <3>1, ZenonT(30)
  <2>4. \A a \in Agents : respCh'[a] = <<>> \/ respCh'[a] = respCh[a]
    BY <2>1, <2>3
  <2> QED
    BY <1>2, <2>4, SMTT(30) DEF StreamWrites
<1>3. ASSUME NEW c \in McpClients, StreamCloses(c) PROVE FlightInv'
  BY <1>3 DEF StreamCloses, Unregister
<1>4. ASSUME NEW c \in McpClients, ReadEndpoint(c) PROVE FlightInv'
  BY <1>4, TailMessages DEF ReadEndpoint, To
<1>5. ASSUME NEW c \in McpClients, Post(c) PROVE FlightInv'
  BY <1>5, SMTT(30) DEF Post, To
<1>6. ASSUME NEW c \in McpClients, Answered(c) PROVE FlightInv'
  <2>1. c \in Agents => Idle(c) /\ respCh[c] = <<>>
    BY <1>6, TailMessages DEF Answered, Called, To
  <2>2. UNCHANGED <<handlers, nextID, respCh>> /\ \A a \in Agents \ {c} : agentAt'[a] = agentAt[a]
    BY <1>6 DEF Answered, Called, To
  <2> QED
    BY <2>1, <2>2, ZenonT(40)
<1>7. ASSUME NEW c \in McpClients, Skip(c) PROVE FlightInv'
  BY <1>7, TailMessages DEF Skip
<1>8. ASSUME NEW c \in McpClients, GiveUp(c) PROVE FlightInv'
  BY <1>8 DEF GiveUp, AfterTimeout, To
<1>9. ASSUME NEW h \in handlers, LookedUp(h) PROVE FlightInv'
  <2> DEFINE g == [h EXCEPT !.at = "dispatch"]
  <2>1. /\ handlers' = (handlers \ {h}) \cup {g}
        /\ g \in [client : McpClients, id : Nat, at : {"lookup", "dispatch", "send"}]
        /\ g.client = h.client /\ g.id = h.id /\ g.at = "dispatch"
    BY <1>9, MovesOn DEF LookedUp
  <2> HIDE DEF g
  <2> QED
    BY <1>9, <2>1, SMTT(30) DEF LookedUp
<1>10. ASSUME NEW h \in handlers, NotFound(h) PROVE FlightInv'
  BY <1>10 DEF NotFound, To
<1>11. ASSUME NEW h \in handlers, DispatchMCP(h) PROVE FlightInv'
  <2> DEFINE g == [h EXCEPT !.at = "send"]
  <2>1. /\ handlers' = (handlers \ {h}) \cup {g}
        /\ g \in [client : McpClients, id : Nat, at : {"lookup", "dispatch", "send"}]
        /\ g.client = h.client /\ g.id = h.id /\ g.at = "send"
    BY <1>11, MovesOn DEF DispatchMCP
  <2> HIDE DEF g
  <2> QED
    BY <1>11, <2>1, SMTT(30) DEF DispatchMCP
<1>12. ASSUME NEW h \in handlers, SendResponse(h) PROVE FlightInv'
  <2>1. \A a \in Agents : h.client # a => UNCHANGED <<agentAt[a], respCh[a], nextID[a]>>
    BY <1>12 DEF SendResponse, To
  <2>2. \A a \in Agents : h.client = a => \A g \in handlers' : g.client # a
    BY <1>12 DEF SendResponse, To
  <2>3. ASSUME h.client \in Agents PROVE respCh'[h.client] = <<nextID'[h.client]>>
    <3>1. /\ respCh'[h.client] = Append(respCh[h.client], h.id) /\ nextID' = nextID
      BY <1>12 DEF SendResponse, To
    <3>2. respCh[h.client] = <<>> /\ h.id = nextID[h.client] /\ h.id \in Nat
      BY <2>3
    <3> QED
      BY <3>1, <3>2, OneMessage
  <2>4. \A a \in Agents : h.client = a => agentAt[a] \notin {"idle", "endpoint", "ready"}
    BY <1>12 DEF SendResponse, To
  <2>5. \A a \in Agents : agentAt'[a] \in {agentAt[a], "reading"}
    BY <1>12 DEF SendResponse, To
  <2>6. handlers' \subseteq handlers
    BY <1>12 DEF SendResponse, To
  <2> QED
    BY <2>1, <2>2, <2>3, <2>4, <2>5, <2>6, SMTT(30)
<1>13. ASSUME UNCHANGED mcpVars PROVE FlightInv'
  BY <1>13 DEF mcpVars
<1> QED
  BY <1>1, <1>2, <1>3, <1>4, <1>5, <1>6, <1>7, <1>8, <1>9, <1>10, <1>11, <1>12, <1>13
  DEF McpNext, StreamStep, AgentStep, HandlerStep

LEMMA WireStep ==
  ASSUME McpTypeOK, FlightInv, WireInv, [McpNext]_mcpVars
  PROVE  WireInv'
<1> USE McpAssumption DEF McpTypeOK, McpClients, AgentOver, FlightInv, WireInv, Idle
<1>1. ASSUME NEW c \in McpClients, OpenStream(c) PROVE WireInv'
  BY <1>1, OneMessage DEF OpenStream, To, Endpoint
<1>2. ASSUME NEW c \in McpClients, StreamWrites(c) PROVE WireInv'
  <2>1. c \in Agents => /\ Idle(c) /\ Head(respCh[c]) = nextID[c] /\ respCh'[c] = <<>>
    BY <1>2, OneMessage, SMTT(30) DEF StreamWrites
  <2>2. c \in Agents => Messages(wire'[c]) = Messages(wire[c]) \cup {nextID[c]}
    BY <1>2, <2>1, AppendMessages DEF StreamWrites
  <2>3. \A a \in Agents \ {c} : UNCHANGED <<wire[a], respCh[a]>>
    BY <1>2 DEF StreamWrites
  <2>4. UNCHANGED <<handlers, nextID>>
    BY <1>2 DEF StreamWrites
  <2>5. \A a \in Agents : nextID[a] \in Nat
    OBVIOUS
  <2>6. \A a \in Agents : Idle(a)' <=> Idle(a)
    BY <2>4
  <2> SUFFICES ASSUME NEW a \in Agents
               PROVE  /\ \A n \in Messages(wire'[a]) : n <= nextID[a]
                      /\ nextID[a] > 0 /\ nextID[a] \in Messages(wire'[a])
                           => Idle(a) /\ respCh'[a] = <<>>
    BY <2>4, <2>6 DEF Messages
  <2>7. CASE a = c
    BY <2>1, <2>2, <2>5, <2>7
  <2>8. CASE a # c
    BY <2>3, <2>8
  <2> QED
    BY <2>7, <2>8
<1>3. ASSUME NEW c \in McpClients, StreamCloses(c) PROVE WireInv'
  BY <1>3 DEF StreamCloses, Unregister
<1>4. ASSUME NEW c \in McpClients, ReadEndpoint(c) PROVE WireInv'
  BY <1>4, TailMessages DEF ReadEndpoint, To
<1>5. ASSUME NEW c \in McpClients, Post(c) PROVE WireInv'
  <2>1. UNCHANGED <<wire, respCh>> /\ nextID'[c] = nextID[c] + 1 /\ nextID[c] \in Nat
    BY <1>5 DEF Post, To
  <2>2. \A a \in Agents \ {c} : nextID'[a] = nextID[a] /\ (Idle(a) => Idle(a)')
    BY <1>5 DEF Post, To
  <2>3. c \in Agents => \A n \in Messages(wire[c]) : n <= nextID[c]
    OBVIOUS
  <2>4. \A n \in Messages(wire[c]) : n \in Nat
    BY DEF Messages
  <2>5. c \in Agents => nextID'[c] \notin Messages(wire[c])
    BY <2>1, <2>3, <2>4
  <2>6. c \in Agents => \A n \in Messages(wire[c]) : n <= nextID'[c]
    BY <2>1, <2>3, <2>4
  <2> QED
    BY <2>1, <2>2, <2>5, <2>6
<1>6. ASSUME NEW c \in McpClients, Answered(c) PROVE WireInv'
  BY <1>6, TailMessages DEF Answered, Called, To
<1>7. ASSUME NEW c \in McpClients, Skip(c) PROVE WireInv'
  BY <1>7, TailMessages DEF Skip
<1>8. ASSUME NEW c \in McpClients, GiveUp(c) PROVE WireInv'
  BY <1>8 DEF GiveUp, AfterTimeout, To
<1>9. ASSUME NEW h \in handlers, LookedUp(h) PROVE WireInv'
  <2> DEFINE g == [h EXCEPT !.at = "dispatch"]
  <2>1. /\ handlers' = (handlers \ {h}) \cup {g}
        /\ g \in [client : McpClients, id : Nat, at : {"lookup", "dispatch", "send"}]
        /\ g.client = h.client /\ g.id = h.id /\ g.at = "dispatch"
    BY <1>9, MovesOn DEF LookedUp
  <2> HIDE DEF g
  <2> QED
    BY <1>9, <2>1 DEF LookedUp
<1>10. ASSUME NEW h \in handlers, NotFound(h) PROVE WireInv'
  BY <1>10 DEF NotFound, To
<1>11. ASSUME NEW h \in handlers, DispatchMCP(h) PROVE WireInv'
  <2> DEFINE g == [h EXCEPT !.at = "send"]
  <2>1. /\ handlers' = (handlers \ {h}) \cup {g}
        /\ g \in [client : McpClients, id : Nat, at : {"lookup", "dispatch", "send"}]
        /\ g.client = h.client /\ g.id = h.id /\ g.at = "send"
    BY <1>11, MovesOn DEF DispatchMCP
  <2> HIDE DEF g
  <2> QED
    BY <1>11, <2>1 DEF DispatchMCP
<1>12. ASSUME NEW h \in handlers, SendResponse(h) PROVE WireInv'
  BY <1>12 DEF SendResponse, To
<1>13. ASSUME UNCHANGED mcpVars PROVE WireInv'
  BY <1>13 DEF mcpVars
<1> QED
  BY <1>1, <1>2, <1>3, <1>4, <1>5, <1>6, <1>7, <1>8, <1>9, <1>10, <1>11, <1>12, <1>13
  DEF McpNext, StreamStep, AgentStep, HandlerStep

LEMMA CountStep ==
  ASSUME McpTypeOK, FlightInv, WireInv, CountInv, [McpNext]_mcpVars
  PROVE  CountInv'
<1> USE McpAssumption DEF McpTypeOK, McpClients, AgentOver, FlightInv, WireInv, CountInv, Idle
<1>1. ASSUME NEW c \in McpClients, OpenStream(c) PROVE CountInv'
  BY <1>1, OneMessage DEF OpenStream, To, Endpoint
<1>2. ASSUME NEW c \in McpClients, StreamWrites(c) PROVE CountInv'
  BY <1>2, OneMessage, AppendMessages, TailMessages, SMTT(30) DEF StreamWrites
<1>3. ASSUME NEW c \in McpClients, StreamCloses(c) PROVE CountInv'
  BY <1>3 DEF StreamCloses, Unregister
<1>4. ASSUME NEW c \in McpClients, ReadEndpoint(c) PROVE CountInv'
  BY <1>4, TailMessages, SMTT(30) DEF ReadEndpoint, To
<1>5. ASSUME NEW c \in McpClients, Post(c) PROVE CountInv'
  BY <1>5 DEF Post, To
<1>6. ASSUME NEW c \in McpClients, Answered(c) PROVE CountInv'
  BY <1>6, TailMessages, SMTT(30) DEF Answered, Called, To
<1>7. ASSUME NEW c \in McpClients, Skip(c) PROVE CountInv'
  BY <1>7, TailMessages, SMTT(30) DEF Skip
<1>8. ASSUME NEW c \in McpClients, GiveUp(c) PROVE CountInv'
  BY <1>8 DEF GiveUp, AfterTimeout, To
<1>9. ASSUME NEW h \in handlers, LookedUp(h) PROVE CountInv'
  <2> DEFINE g == [h EXCEPT !.at = "dispatch"]
  <2>1. /\ handlers' = (handlers \ {h}) \cup {g}
        /\ g \in [client : McpClients, id : Nat, at : {"lookup", "dispatch", "send"}]
        /\ g.client = h.client /\ g.id = h.id /\ g.at = "dispatch"
    BY <1>9, MovesOn DEF LookedUp
  <2> HIDE DEF g
  <2> QED
    BY <1>9, <2>1 DEF LookedUp
<1>10. ASSUME NEW h \in handlers, NotFound(h) PROVE CountInv'
  BY <1>10 DEF NotFound, To
<1>11. ASSUME NEW h \in handlers, DispatchMCP(h) PROVE CountInv'
  <2> DEFINE g == [h EXCEPT !.at = "send"]
  <2>1. /\ handlers' = (handlers \ {h}) \cup {g}
        /\ g \in [client : McpClients, id : Nat, at : {"lookup", "dispatch", "send"}]
        /\ g.client = h.client /\ g.id = h.id /\ g.at = "send"
    BY <1>11, MovesOn DEF DispatchMCP
  <2> HIDE DEF g
  <2> QED
    BY <1>11, <2>1 DEF DispatchMCP
<1>12. ASSUME NEW h \in handlers, SendResponse(h) PROVE CountInv'
  <2>1. UNCHANGED <<nextID, wire, ran>> /\ handlers' \subseteq handlers
    BY <1>12 DEF SendResponse, To
  <2>2. \A a \in Agents : agentAt'[a] = agentAt[a] \/ agentAt'[a] = "reading"
    BY <1>12 DEF SendResponse, To
  <2>3. \A a \in Agents : h.client # a => respCh'[a] = respCh[a]
    BY <1>12 DEF SendResponse, To
  <2>4. \A a \in Agents : h.client = a /\ nextID[a] = 2 => ran[a] = 1
    BY <1>12 DEF SendResponse, To
  <2> QED
    BY <2>1, <2>2, <2>3, <2>4
<1>13. ASSUME UNCHANGED mcpVars PROVE CountInv'
  BY <1>13 DEF mcpVars
<1> QED
  BY <1>1, <1>2, <1>3, <1>4, <1>5, <1>6, <1>7, <1>8, <1>9, <1>10, <1>11, <1>12, <1>13
  DEF McpNext, StreamStep, AgentStep, HandlerStep

LEMMA McpInvInit == McpInit => McpInv
<1> SUFFICES ASSUME McpInit PROVE McpInv
  OBVIOUS
<1>1. McpTypeOK
  BY DEF McpInit, McpTypeOK, McpClients, AgentOver
<1>2. FlightInv /\ WireInv /\ CountInv
  BY DEF McpInit, FlightInv, WireInv, CountInv, Idle, Messages, McpClients
<1> QED
  BY <1>1, <1>2 DEF McpInv

LEMMA McpInductive == McpInv /\ [McpNext]_mcpVars => McpInv'
BY McpTypeStep, FlightStep, WireStep, CountStep DEF McpInv

LEMMA McpInvariance == McpSpec => []McpInv
BY McpInvInit, McpInductive, PTL DEF McpSpec

(* The sessions, channels and handlers of mcp.go are well typed. *)
THEOREM McpTypeCorrect == McpSpec => []McpTypeOK
<1>1. McpInv => McpTypeOK
  BY DEF McpInv
<1> QED
  BY <1>1, McpInvariance, PTL

(* An agent's tool runs at most once, and once if the agent reports success, *)
(* whatever times out.                                                       *)
THEOREM ToolRunsOnce == McpSpec => []ToolOnce
<1>1. McpInv => ToolOnce
  BY DEF McpInv, CountInv, ToolOnce
<1> QED
  BY <1>1, McpInvariance, PTL

(* handleMCPMessage never blocks on the channel of an agent. *)
THEOREM NeverBlocks == McpSpec => []RoomToAnswer
<1>1. McpInv => RoomToAnswer
  BY McpAssumption DEF McpInv, McpTypeOK, FlightInv, RoomToAnswer
<1> QED
  BY <1>1, McpInvariance, PTL
-----------------------------------------------------------------------------
(* A halt is among what a channel holds. *)
Holds(s) == \E i \in DOMAIN s : s[i] = "halted"

LEMMA EmptyHolds == ~Holds(<<>>)
BY DEF Holds

LEMMA AppendHolds ==
  ASSUME NEW s \in Seq(CycleStates), NEW e \in CycleStates
  PROVE  /\ Append(s, e) \in Seq(CycleStates)
         /\ Holds(s) \/ e = "halted" => Holds(Append(s, e))
<1>1. /\ Append(s, e) \in Seq(CycleStates) /\ Len(Append(s, e)) = Len(s) + 1
      /\ \A i \in 1..Len(s) : Append(s, e)[i] = s[i]
      /\ Append(s, e)[Len(s) + 1] = e
  OBVIOUS
<1>2. DOMAIN s = 1..Len(s) /\ DOMAIN Append(s, e) = 1..Len(Append(s, e)) /\ Len(s) \in Nat
  BY <1>1
<1> QED
  BY <1>1, <1>2 DEF Holds

LEMMA TailHolds ==
  ASSUME NEW s \in Seq(CycleStates), s # <<>>
  PROVE  /\ Tail(s) \in Seq(CycleStates)
         /\ Holds(s) /\ Head(s) # "halted" => Holds(Tail(s))
<1>1. /\ Tail(s) \in Seq(CycleStates) /\ Len(Tail(s)) = Len(s) - 1 /\ Len(s) \in Nat /\ Len(s) > 0
      /\ \A i \in 1..(Len(s) - 1) : Tail(s)[i] = s[i + 1]
      /\ Head(s) = s[1]
  OBVIOUS
<1>2. DOMAIN s = 1..Len(s) /\ DOMAIN Tail(s) = 1..Len(Tail(s))
  BY <1>1
<1>3. ASSUME NEW i \in DOMAIN s, s[i] = "halted", Head(s) # "halted" PROVE Holds(Tail(s))
  <2>1. i - 1 \in 1..(Len(s) - 1)
    BY <1>1, <1>2, <1>3
  <2> QED
    BY <1>1, <1>2, <1>3, <2>1 DEF Holds
<1> QED
  BY <1>1, <1>3 DEF Holds

(* broadcast, for a state that there is. *)
LEMMA BroadcastHolds ==
  ASSUME WatchTypeOK, NEW e \in CycleStates, Broadcast(e)
  PROVE  /\ channel' \in [Watchers -> Seq(CycleStates)] /\ full' \subseteq Watchers
         /\ full \subseteq full'
         /\ \A w \in Watchers : Holds(channel[w]) => Holds(channel'[w])
         /\ \A w \in events : e = "halted" => w \in full' \/ Holds(channel'[w])
<1> DEFINE room == {w \in events : Len(channel[w]) < EventCap}
<1>1. /\ channel' = [w \in Watchers |-> IF w \in room THEN Append(channel[w], e) ELSE channel[w]]
      /\ full' = IF e = "halted" THEN full \cup (events \ room) ELSE full
  BY DEF Broadcast
<1> HIDE DEF room
<1>2. \A w \in Watchers : /\ channel[w] \in Seq(CycleStates)
                          /\ Append(channel[w], e) \in Seq(CycleStates)
                          /\ Holds(channel[w]) \/ e = "halted" => Holds(Append(channel[w], e))
  BY AppendHolds DEF WatchTypeOK
<1>3. events \subseteq Watchers /\ full \subseteq Watchers
  BY DEF WatchTypeOK
<1> QED
  BY <1>1, <1>2, <1>3

-----------------------------------------------------------------------------
(* The inductive invariant: the types; who has a state; who is listed; and   *)
(* that a stream which is listed when a halt has been announced, or cut off  *)
(* afterwards, has the halt before it unless it is in full or late.          *)
HeldInv ==
  /\ \A p \in Steps \cup Halts : at[p] # "idle" => held[p] \in CycleStates
  /\ \A p \in Halts : at[p] # "idle" => held[p] = "halted"

HubInv ==
  /\ ListedOpen
  /\ \A w \in Watchers : watchAt[w] \in {"idle", "sent"} => w \notin events \cup closed

Noticed(w) == w \in full \cup late \/ Holds(channel[w])
Announced == \E p \in Halts : at[p] = "told"

NoticeInv ==
  /\ Announced => \A w \in events : Noticed(w)
  /\ \A w \in closed : watchAt[w] = "waiting" => Noticed(w)
  /\ HaltSeen

WatchInv == WatchTypeOK /\ HeldInv /\ HubInv /\ NoticeInv

LEMMA WatchTypeStep ==
  ASSUME WatchTypeOK, HeldInv, [WatchNext]_watchVars
  PROVE  WatchTypeOK'
<1> USE WatchAssumption DEF WatchTypeOK, CycleStates, NoCycle, WatchOver, HeldInv,
        storeVars, hubVars
<1>1. ASSUME NEW w \in Watchers, Snapshot(w) PROVE WatchTypeOK'
  BY <1>1 DEF Snapshot, Loads, Found, ToWatch
<1>2. ASSUME NEW w \in Watchers, Subscribe(w) PROVE WatchTypeOK'
  BY <1>2 DEF Subscribe, ToWatch
<1>3. ASSUME NEW w \in Watchers, Forward(w) PROVE WatchTypeOK'
  BY <1>3, TailHolds, ZenonT(40) DEF Forward, End, Unsubscribe, ToWatch
<1>4. ASSUME NEW w \in Watchers, Drained(w) PROVE WatchTypeOK'
  BY <1>4 DEF Drained, Over, ToWatch
<1>5. ASSUME NEW w \in Watchers, Leave(w) PROVE WatchTypeOK'
  BY <1>5 DEF Leave, End, Unsubscribe, ToWatch
<1>6. ASSUME NEW p \in Steps, StepGet(p) PROVE WatchTypeOK'
  BY <1>6 DEF StepGet, ToHandler
<1>7. ASSUME NEW p \in Steps, StepGuard(p) PROVE WatchTypeOK'
  BY <1>7 DEF StepGuard, ToHandler
<1>8. ASSUME NEW p \in Steps, StepGates(p) PROVE WatchTypeOK'
  BY <1>8 DEF StepGates, ToHandler
<1>9. ASSUME NEW p \in Steps, StepWrite(p) PROVE WatchTypeOK'
  BY <1>9 DEF StepWrite, WriteState, ToHandler
<1>10. ASSUME NEW p \in Steps, StepPut(p) PROVE WatchTypeOK'
  BY <1>10 DEF StepPut, PutState, ToHandler
<1>11. ASSUME NEW p \in Steps, StepBroadcast(p) PROVE WatchTypeOK'
  BY <1>11, BroadcastHolds DEF StepBroadcast, Tell, ToHandler
<1>12. ASSUME NEW p \in Halts, HaltGet(p) PROVE WatchTypeOK'
  BY <1>12 DEF HaltGet, Loads, Found, ToHandler
<1>13. ASSUME NEW p \in Halts, HaltWrite(p) PROVE WatchTypeOK'
  BY <1>13 DEF HaltWrite, WriteState, ToHandler
<1>14. ASSUME NEW p \in Halts, HaltUnsynced(p) PROVE WatchTypeOK'
  BY <1>14 DEF HaltUnsynced, WriteState, ToHandler
<1>15. ASSUME NEW p \in Halts, HaltRemove(p) PROVE WatchTypeOK'
  BY <1>15 DEF HaltRemove, ToHandler
<1>16. ASSUME NEW p \in Halts, HaltAppend(p) PROVE WatchTypeOK'
  BY <1>16 DEF HaltAppend, ToHandler
<1>17. ASSUME NEW p \in Halts, HaltPut(p) PROVE WatchTypeOK'
  BY <1>17 DEF HaltPut, PutState, ToHandler
<1>18. ASSUME NEW p \in Halts, HaltBroadcast(p) PROVE WatchTypeOK'
  BY <1>18, BroadcastHolds DEF HaltBroadcast, Tell, ToHandler
<1>19. ASSUME NEW p \in Halts, CloseAll(p) PROVE WatchTypeOK'
  BY <1>19 DEF CloseAll, ToHandler
<1>20. ASSUME UNCHANGED watchVars PROVE WatchTypeOK'
  BY <1>20 DEF watchVars
<1> QED
  BY <1>1, <1>2, <1>3, <1>4, <1>5, <1>6, <1>7, <1>8, <1>9, <1>10,
     <1>11, <1>12, <1>13, <1>14, <1>15, <1>16, <1>17, <1>18, <1>19, <1>20
  DEF WatchNext, WatchStep, StepStep, HaltStep

LEMMA HeldStep ==
  ASSUME WatchTypeOK, HeldInv, [WatchNext]_watchVars
  PROVE  HeldInv'
<1> USE WatchAssumption DEF WatchTypeOK, CycleStates, NoCycle, WatchOver, HeldInv,
        storeVars, hubVars
<1>1. ASSUME NEW w \in Watchers, Snapshot(w) PROVE HeldInv'
  BY <1>1 DEF Snapshot, Loads, Found, ToWatch
<1>2. ASSUME NEW w \in Watchers, Subscribe(w) PROVE HeldInv'
  BY <1>2 DEF Subscribe, ToWatch
<1>3. ASSUME NEW w \in Watchers, Forward(w) PROVE HeldInv'
  BY <1>3 DEF Forward, End, Unsubscribe, ToWatch
<1>4. ASSUME NEW w \in Watchers, Drained(w) PROVE HeldInv'
  BY <1>4 DEF Drained, Over, ToWatch
<1>5. ASSUME NEW w \in Watchers, Leave(w) PROVE HeldInv'
  BY <1>5 DEF Leave, End, Unsubscribe, ToWatch
<1>6. ASSUME NEW p \in Steps, StepGet(p) PROVE HeldInv'
  BY <1>6 DEF StepGet, ToHandler
<1>7. ASSUME NEW p \in Steps, StepGuard(p) PROVE HeldInv'
  BY <1>7 DEF StepGuard, ToHandler
<1>8. ASSUME NEW p \in Steps, StepGates(p) PROVE HeldInv'
  BY <1>8 DEF StepGates, ToHandler
<1>9. ASSUME NEW p \in Steps, StepWrite(p) PROVE HeldInv'
  BY <1>9 DEF StepWrite, WriteState, ToHandler
<1>10. ASSUME NEW p \in Steps, StepPut(p) PROVE HeldInv'
  BY <1>10 DEF StepPut, PutState, ToHandler
<1>11. ASSUME NEW p \in Steps, StepBroadcast(p) PROVE HeldInv'
  BY <1>11 DEF StepBroadcast, Tell, ToHandler
<1>12. ASSUME NEW p \in Halts, HaltGet(p) PROVE HeldInv'
  BY <1>12 DEF HaltGet, Loads, Found, ToHandler
<1>13. ASSUME NEW p \in Halts, HaltWrite(p) PROVE HeldInv'
  BY <1>13 DEF HaltWrite, WriteState, ToHandler
<1>14. ASSUME NEW p \in Halts, HaltUnsynced(p) PROVE HeldInv'
  BY <1>14 DEF HaltUnsynced, WriteState, ToHandler
<1>15. ASSUME NEW p \in Halts, HaltRemove(p) PROVE HeldInv'
  BY <1>15 DEF HaltRemove, ToHandler
<1>16. ASSUME NEW p \in Halts, HaltAppend(p) PROVE HeldInv'
  BY <1>16 DEF HaltAppend, ToHandler
<1>17. ASSUME NEW p \in Halts, HaltPut(p) PROVE HeldInv'
  BY <1>17 DEF HaltPut, PutState, ToHandler
<1>18. ASSUME NEW p \in Halts, HaltBroadcast(p) PROVE HeldInv'
  BY <1>18 DEF HaltBroadcast, Tell, ToHandler
<1>19. ASSUME NEW p \in Halts, CloseAll(p) PROVE HeldInv'
  BY <1>19 DEF CloseAll, ToHandler
<1>20. ASSUME UNCHANGED watchVars PROVE HeldInv'
  BY <1>20 DEF watchVars
<1> QED
  BY <1>1, <1>2, <1>3, <1>4, <1>5, <1>6, <1>7, <1>8, <1>9, <1>10,
     <1>11, <1>12, <1>13, <1>14, <1>15, <1>16, <1>17, <1>18, <1>19, <1>20
  DEF WatchNext, WatchStep, StepStep, HaltStep

LEMMA HubStep ==
  ASSUME WatchTypeOK, HubInv, [WatchNext]_watchVars
  PROVE  HubInv'
<1> USE WatchAssumption DEF WatchTypeOK, CycleStates, NoCycle, WatchOver, HubInv,
        ListedOpen, storeVars, hubVars
<1>1. ASSUME NEW w \in Watchers, Snapshot(w) PROVE HubInv'
  BY <1>1 DEF Snapshot, Loads, Found, ToWatch
<1>2. ASSUME NEW w \in Watchers, Subscribe(w) PROVE HubInv'
  BY <1>2 DEF Subscribe, ToWatch
<1>3. ASSUME NEW w \in Watchers, Forward(w) PROVE HubInv'
  BY <1>3 DEF Forward, End, Unsubscribe, ToWatch
<1>4. ASSUME NEW w \in Watchers, Drained(w) PROVE HubInv'
  BY <1>4 DEF Drained, Over, ToWatch
<1>5. ASSUME NEW w \in Watchers, Leave(w) PROVE HubInv'
  BY <1>5 DEF Leave, End, Unsubscribe, ToWatch
<1>6. ASSUME NEW p \in Steps, StepGet(p) PROVE HubInv'
  BY <1>6 DEF StepGet, ToHandler
<1>7. ASSUME NEW p \in Steps, StepGuard(p) PROVE HubInv'
  BY <1>7 DEF StepGuard, ToHandler
<1>8. ASSUME NEW p \in Steps, StepGates(p) PROVE HubInv'
  BY <1>8 DEF StepGates, ToHandler
<1>9. ASSUME NEW p \in Steps, StepWrite(p) PROVE HubInv'
  BY <1>9 DEF StepWrite, WriteState, ToHandler
<1>10. ASSUME NEW p \in Steps, StepPut(p) PROVE HubInv'
  BY <1>10 DEF StepPut, PutState, ToHandler
<1>11. ASSUME NEW p \in Steps, StepBroadcast(p) PROVE HubInv'
  BY <1>11 DEF StepBroadcast, Tell, ToHandler
<1>12. ASSUME NEW p \in Halts, HaltGet(p) PROVE HubInv'
  BY <1>12 DEF HaltGet, Loads, Found, ToHandler
<1>13. ASSUME NEW p \in Halts, HaltWrite(p) PROVE HubInv'
  BY <1>13 DEF HaltWrite, WriteState, ToHandler
<1>14. ASSUME NEW p \in Halts, HaltUnsynced(p) PROVE HubInv'
  BY <1>14 DEF HaltUnsynced, WriteState, ToHandler
<1>15. ASSUME NEW p \in Halts, HaltRemove(p) PROVE HubInv'
  BY <1>15 DEF HaltRemove, ToHandler
<1>16. ASSUME NEW p \in Halts, HaltAppend(p) PROVE HubInv'
  BY <1>16 DEF HaltAppend, ToHandler
<1>17. ASSUME NEW p \in Halts, HaltPut(p) PROVE HubInv'
  BY <1>17 DEF HaltPut, PutState, ToHandler
<1>18. ASSUME NEW p \in Halts, HaltBroadcast(p) PROVE HubInv'
  BY <1>18 DEF HaltBroadcast, Tell, ToHandler
<1>19. ASSUME NEW p \in Halts, CloseAll(p) PROVE HubInv'
  BY <1>19 DEF CloseAll, ToHandler
<1>20. ASSUME UNCHANGED watchVars PROVE HubInv'
  BY <1>20 DEF watchVars
<1> QED
  BY <1>1, <1>2, <1>3, <1>4, <1>5, <1>6, <1>7, <1>8, <1>9, <1>10,
     <1>11, <1>12, <1>13, <1>14, <1>15, <1>16, <1>17, <1>18, <1>19, <1>20
  DEF WatchNext, WatchStep, StepStep, HaltStep

LEMMA NoticeStep ==
  ASSUME WatchTypeOK, HeldInv, HubInv, NoticeInv, [WatchNext]_watchVars
  PROVE  NoticeInv'
<1> USE WatchAssumption DEF WatchTypeOK, CycleStates, NoCycle, WatchOver, HeldInv, HubInv,
        ListedOpen, NoticeInv, HaltSeen, Noticed, Announced, storeVars, hubVars
<1>1. ASSUME NEW w \in Watchers, Snapshot(w) PROVE NoticeInv'
  BY <1>1 DEF Snapshot, Loads, Found, ToWatch
<1>2. ASSUME NEW w \in Watchers, Subscribe(w) PROVE NoticeInv'
  BY <1>2 DEF Subscribe, ToWatch
<1>3. ASSUME NEW w \in Watchers, Forward(w) PROVE NoticeInv'
  BY <1>3, TailHolds DEF Forward, End, Unsubscribe, ToWatch
<1>4. ASSUME NEW w \in Watchers, Drained(w) PROVE NoticeInv'
  BY <1>4, EmptyHolds DEF Drained, Over, ToWatch
<1>5. ASSUME NEW w \in Watchers, Leave(w) PROVE NoticeInv'
  BY <1>5 DEF Leave, End, Unsubscribe, ToWatch
<1>6. ASSUME NEW p \in Steps, StepGet(p) PROVE NoticeInv'
  BY <1>6 DEF StepGet, ToHandler
<1>7. ASSUME NEW p \in Steps, StepGuard(p) PROVE NoticeInv'
  BY <1>7 DEF StepGuard, ToHandler
<1>8. ASSUME NEW p \in Steps, StepGates(p) PROVE NoticeInv'
  BY <1>8 DEF StepGates, ToHandler
<1>9. ASSUME NEW p \in Steps, StepWrite(p) PROVE NoticeInv'
  BY <1>9 DEF StepWrite, WriteState, ToHandler
<1>10. ASSUME NEW p \in Steps, StepPut(p) PROVE NoticeInv'
  BY <1>10 DEF StepPut, PutState, ToHandler
<1>11. ASSUME NEW p \in Steps, StepBroadcast(p) PROVE NoticeInv'
  BY <1>11, BroadcastHolds DEF StepBroadcast, Tell, ToHandler
<1>12. ASSUME NEW p \in Halts, HaltGet(p) PROVE NoticeInv'
  BY <1>12 DEF HaltGet, Loads, Found, ToHandler
<1>13. ASSUME NEW p \in Halts, HaltWrite(p) PROVE NoticeInv'
  BY <1>13 DEF HaltWrite, WriteState, ToHandler
<1>14. ASSUME NEW p \in Halts, HaltUnsynced(p) PROVE NoticeInv'
  BY <1>14 DEF HaltUnsynced, WriteState, ToHandler
<1>15. ASSUME NEW p \in Halts, HaltRemove(p) PROVE NoticeInv'
  BY <1>15 DEF HaltRemove, ToHandler
<1>16. ASSUME NEW p \in Halts, HaltAppend(p) PROVE NoticeInv'
  BY <1>16 DEF HaltAppend, ToHandler
<1>17. ASSUME NEW p \in Halts, HaltPut(p) PROVE NoticeInv'
  BY <1>17 DEF HaltPut, PutState, ToHandler
<1>18. ASSUME NEW p \in Halts, HaltBroadcast(p) PROVE NoticeInv'
  BY <1>18, BroadcastHolds DEF HaltBroadcast, Tell, ToHandler
<1>19. ASSUME NEW p \in Halts, CloseAll(p) PROVE NoticeInv'
  BY <1>19 DEF CloseAll, ToHandler
<1>20. ASSUME UNCHANGED watchVars PROVE NoticeInv'
  BY <1>20 DEF watchVars
<1> QED
  BY <1>1, <1>2, <1>3, <1>4, <1>5, <1>6, <1>7, <1>8, <1>9, <1>10,
     <1>11, <1>12, <1>13, <1>14, <1>15, <1>16, <1>17, <1>18, <1>19, <1>20
  DEF WatchNext, WatchStep, StepStep, HaltStep

LEMMA WatchInvInit == WatchInit => WatchInv
<1> SUFFICES ASSUME WatchInit PROVE WatchInv
  OBVIOUS
<1>1. WatchTypeOK
  <2> USE DEF WatchInit, CycleStates, NoCycle, WatchOver
  <2>1. /\ mem \in CycleStates \cup {NoCycle} /\ disk \in CycleStates \cup {NoCycle}
        /\ synced \in BOOLEAN /\ sealed \in BOOLEAN
        /\ events \subseteq Watchers /\ closed \subseteq Watchers
        /\ full \subseteq Watchers /\ late \subseteq Watchers
    OBVIOUS
  <2>2. channel \in [Watchers -> Seq(CycleStates)]
    OBVIOUS
  <2>3. watchAt \in [Watchers -> WatchOver \cup {"idle", "sent", "waiting"}]
    OBVIOUS
  <2>4. /\ at \in [Steps \cup Halts -> {"idle", "got", "guarded", "ran", "wrote", "removed",
                                        "sealed", "put", "told", "over"}]
        /\ held \in [Steps \cup Halts -> CycleStates \cup {NoCycle}]
    OBVIOUS
  <2> QED
    BY <2>1, <2>2, <2>3, <2>4 DEF WatchTypeOK
<1>2. HeldInv /\ HubInv /\ NoticeInv
  BY DEF WatchInit, HeldInv, HubInv, ListedOpen, NoticeInv, Announced, HaltSeen
<1> QED
  BY <1>1, <1>2 DEF WatchInv

LEMMA WatchInductive == WatchInv /\ [WatchNext]_watchVars => WatchInv'
BY WatchTypeStep, HeldStep, HubStep, NoticeStep DEF WatchInv

LEMMA WatchInvariance == WatchSpec => []WatchInv
BY WatchInvInit, WatchInductive, PTL DEF WatchSpec

(* The store, the channels and the handlers of cycle.go are well typed: in   *)
(* particular nothing is broadcast but a state.                              *)
THEOREM WatchTypeCorrect == WatchSpec => []WatchTypeOK
<1>1. WatchInv => WatchTypeOK
  BY DEF WatchInv
<1> QED
  BY <1>1, WatchInvariance, PTL

(* broadcast never sends on a closed channel, and every channel it sends on  *)
(* has a reader.                                                             *)
THEOREM BroadcastIsSafe == WatchSpec => []ListedOpen
<1>1. WatchInv => ListedOpen
  BY DEF WatchInv, HubInv
<1> QED
  BY <1>1, WatchInvariance, PTL

(* Nobody misses a halt but a stream without room for it and one that        *)
(* subscribed between broadcast and closeAll.                                *)
THEOREM HaltIsSeen == WatchSpec => []HaltSeen
<1>1. WatchInv => HaltSeen
  BY DEF WatchInv, NoticeInv
<1> QED
  BY <1>1, WatchInvariance, PTL
=============================================================================
