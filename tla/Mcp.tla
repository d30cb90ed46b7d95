-------------------------------- MODULE Mcp ---------------------------------
(***************************************************************************)
(* The broker's MCP transport and `rally mcp-agent`.  A client opens an    *)
(* event stream, is told an endpoint, posts JSON-RPC requests to it and    *)
(* reads the answers from the stream.  A post's handler looks the stream's *)
(* channel up, runs the tool, and sends the answer on the channel, which   *)
(* blocks when it is full: the stream may be gone by then.                 *)
(*                                                                         *)
(* Agents are this repository's one-shot client: initialize, one tool, one *)
(* request at a time.  Hosts are MCP clients of other programs, which may  *)
(* post several requests before they read an answer.                       *)
(***************************************************************************)
EXTENDS Integers, Sequences, FiniteSets

CONSTANTS
  Agents, Hosts,
  Cap,        \* capacity of respCh
  MaxPosts    \* how many requests a host posts

ASSUME McpAssumption ==
  Agents \cap Hosts = {} /\ Cap \in Nat \ {0} /\ MaxPosts \in Nat

VARIABLES
  agentAt,    \* where each client is
  nextID,     \* its last request
  stream,     \* its handleMCPSSE: "none", "open" or "closed"
  sessions,   \* the clients whose transport session is registered
  respCh,     \* the ids answered on each session's channel
  wire,       \* what is written to each stream and not yet read
  handlers,   \* handleMCPMessage under way: client, id and where it is
  ran         \* history: how often each client's tool was run

mcpVars == <<agentAt, nextID, stream, sessions, respCh, wire, handlers, ran>>

McpClients == Agents \cup Hosts
Endpoint   == 0
AgentOver  == {"done", "failed"}

McpInit ==
  /\ agentAt = [c \in McpClients |-> "idle"] /\ nextID = [c \in McpClients |-> 0]
  /\ stream = [c \in McpClients |-> "none"] /\ sessions = {}
  /\ respCh = [c \in McpClients |-> <<>>] /\ wire = [c \in McpClients |-> <<>>]
  /\ handlers = {} /\ ran = [c \in McpClients |-> 0]

To(c, next) == agentAt' = [agentAt EXCEPT ![c] = next]
-----------------------------------------------------------------------------
(* handleMCPSSE: create, and the endpoint event. *)
OpenStream(c) ==
  /\ agentAt[c] = "idle" /\ To(c, "endpoint")
  /\ stream' = [stream EXCEPT ![c] = "open"]
  /\ sessions' = sessions \cup {c}
  /\ wire' = [wire EXCEPT ![c] = <<Endpoint>>]
  /\ UNCHANGED <<nextID, respCh, handlers, ran>>

(* One turn of its select: an answer is written. *)
StreamWrites(c) ==
  /\ stream[c] = "open" /\ respCh[c] # <<>>
  /\ respCh' = [respCh EXCEPT ![c] = Tail(@)]
  /\ wire' = [wire EXCEPT ![c] = Append(@, Head(respCh[c]))]
  /\ UNCHANGED <<agentAt, nextID, stream, sessions, handlers, ran>>

(* defer remove(id). *)
Unregister(c) == sessions' = sessions \ {c}

(* The client has closed the connection. *)
StreamCloses(c) ==
  /\ stream[c] = "open" /\ agentAt[c] \in AgentOver
  /\ stream' = [stream EXCEPT ![c] = "closed"]
  /\ Unregister(c)
  /\ UNCHANGED <<agentAt, nextID, respCh, wire, handlers, ran>>
-----------------------------------------------------------------------------
(* Mutant of Registered: the manager's lock is held across the send. *)
RegisteredLocked(c) == c \in sessions /\ \A h \in handlers : h.at # "send"

(* get: the manager's lock is held for the lookup only. *)
Registered(c) == c \in sessions

LookedUp(h) ==
  /\ h \in handlers /\ h.at = "lookup" /\ Registered(h.client)
  /\ handlers' = (handlers \ {h}) \cup {[h EXCEPT !.at = "dispatch"]}
  /\ UNCHANGED <<agentAt, nextID, stream, sessions, respCh, wire, ran>>

(* 404: the stream is gone. *)
NotFound(h) ==
  /\ h \in handlers /\ h.at = "lookup" /\ h.client \notin sessions
  /\ handlers' = handlers \ {h}
  /\ IF agentAt[h.client] = "posting" THEN To(h.client, "failed") ELSE UNCHANGED agentAt
  /\ UNCHANGED <<nextID, stream, sessions, respCh, wire, ran>>

(* dispatchMCP.  Request 1 is initialize, every later one runs a tool. *)
DispatchMCP(h) ==
  /\ h \in handlers /\ h.at = "dispatch"
  /\ handlers' = (handlers \ {h}) \cup {[h EXCEPT !.at = "send"]}
  /\ ran' = IF h.id > 1 THEN [ran EXCEPT ![h.client] = @ + 1] ELSE ran
  /\ UNCHANGED <<agentAt, nextID, stream, sessions, respCh, wire>>

(* respCh <- resp, and 202. *)
SendResponse(h) ==
  /\ h \in handlers /\ h.at = "send" /\ Len(respCh[h.client]) < Cap
  /\ handlers' = handlers \ {h}
  /\ respCh' = [respCh EXCEPT ![h.client] = Append(@, h.id)]
  /\ IF agentAt[h.client] = "posting" THEN To(h.client, "reading") ELSE UNCHANGED agentAt
  /\ UNCHANGED <<nextID, stream, sessions, wire, ran>>
-----------------------------------------------------------------------------
(* readEndpoint. *)
ReadEndpoint(c) ==
  /\ agentAt[c] = "endpoint" /\ wire[c] # <<>>
  /\ To(c, "ready")
  /\ wire' = [wire EXCEPT ![c] = Tail(@)]
  /\ UNCHANGED <<nextID, stream, sessions, respCh, handlers, ran>>

(* The first half of call: the request is posted; a host does not wait for   *)
(* its 202.                                                                  *)
Post(c) ==
  /\ agentAt[c] = "ready" /\ (c \in Hosts => nextID[c] < MaxPosts)
  /\ nextID' = [nextID EXCEPT ![c] = @ + 1]
  /\ handlers' = handlers \cup {[client |-> c, id |-> nextID[c] + 1, at |-> "lookup"]}
  /\ To(c, IF c \in Hosts THEN "ready" ELSE "posting")
  /\ UNCHANGED <<stream, sessions, respCh, wire, ran>>

(* Mutant of Called: the handshake does not wait for its answer. *)
CalledEager(c) == (wire[c] # <<>> /\ Head(wire[c]) = nextID[c]) \/ nextID[c] = 1

(* The message that call waits for. *)
Called(c) == wire[c] # <<>> /\ Head(wire[c]) = nextID[c]

(* The second half of call: initialize is followed by the tool, the tool by  *)
(* the end; a tool's error is the agent's.                                   *)
Answered(c) ==
  /\ agentAt[c] = "reading" /\ Called(c)
  /\ \/ nextID[c] = 1 /\ To(c, "ready")
     \/ nextID[c] > 1 /\ To(c, "done")
     \/ nextID[c] > 1 /\ To(c, "failed")
  /\ wire' = [wire EXCEPT ![c] = IF @ = <<>> THEN @ ELSE Tail(@)]
  /\ UNCHANGED <<nextID, stream, sessions, respCh, handlers, ran>>

(* A message with another id, or a host reading. *)
Skip(c) ==
  /\ wire[c] # <<>>
  /\ (agentAt[c] = "reading" /\ Head(wire[c]) # nextID[c]) \/ (c \in Hosts /\ agentAt[c] = "ready")
  /\ wire' = [wire EXCEPT ![c] = Tail(@)]
  /\ UNCHANGED <<agentAt, nextID, stream, sessions, respCh, handlers, ran>>

(* Mutant of AfterTimeout: the request is sent once more. *)
AfterTimeoutRetry(c) == IF agentAt[c] = "reading" /\ nextID[c] = 2 THEN "ready" ELSE "failed"

(* The client's timeout, or a signal, ends the command. *)
AfterTimeout(c) == "failed"

GiveUp(c) ==
  /\ agentAt[c] \notin AgentOver \cup {"idle"}
  /\ To(c, AfterTimeout(c))
  /\ UNCHANGED <<nextID, stream, sessions, respCh, wire, handlers, ran>>
-----------------------------------------------------------------------------
StreamStep(c)  == StreamWrites(c) \/ StreamCloses(c)
HandlerStep(h) == LookedUp(h) \/ NotFound(h) \/ DispatchMCP(h) \/ SendResponse(h)
AgentStep(c)   == ReadEndpoint(c) \/ Post(c) \/ Answered(c) \/ Skip(c)

McpNext ==
  \/ \E c \in McpClients : OpenStream(c) \/ StreamStep(c) \/ AgentStep(c) \/ GiveUp(c)
  \/ \E h \in handlers : HandlerStep(h)

(* The broker's goroutines go on when they can, and so does an agent.  That  *)
(* a tool ends is module Rally's matter.                                     *)
HandlerOf(c) == \E h \in handlers : h.client = c /\ HandlerStep(h)
McpFair ==
  /\ \A c \in McpClients : WF_mcpVars(StreamStep(c))
  /\ \A c \in Agents : WF_mcpVars(AgentStep(c)) /\ WF_mcpVars(HandlerOf(c))

McpSpec == McpInit /\ [][McpNext]_mcpVars /\ McpFair
-----------------------------------------------------------------------------
(* The types of the channels and of the clients' and handlers' places. *)
McpTypeOK ==
  /\ agentAt \in [McpClients -> AgentOver \cup {"idle", "endpoint", "ready", "posting", "reading"}]
  /\ nextID \in [McpClients -> Nat] /\ ran \in [McpClients -> Nat]
  /\ stream \in [McpClients -> {"none", "open", "closed"}] /\ sessions \subseteq McpClients
  /\ respCh \in [McpClients -> Seq(Nat)] /\ wire \in [McpClients -> Seq(Nat)]
  /\ handlers \subseteq [client : McpClients, id : Nat, at : {"lookup", "dispatch", "send"}]

(* A tool passes the baton: it is run at most once for an agent, however the *)
(* agent fares, and exactly once when the agent reports success.             *)
ToolOnce ==
  \A c \in Agents : ran[c] <= 1 /\ (agentAt[c] = "done" => ran[c] = 1)

(* handleMCPMessage sends without a way out.  For an agent there is always   *)
(* room, even if its stream is gone: no handler of its is left behind.       *)
RoomToAnswer ==
  \A h \in handlers : h.client \in Agents /\ h.at = "send" => Len(respCh[h.client]) < Cap

(* An agent's call ends, although a host has filled its own channel and left *)
(* handlers blocked on it for ever.                                          *)
AgentEnds ==
  \A c \in Agents : agentAt[c] = "endpoint" ~> agentAt[c] \in AgentOver
=============================================================================
