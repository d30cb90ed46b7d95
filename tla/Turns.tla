------------------------------- MODULE Turns --------------------------------
(***************************************************************************)
(* One headless session of the broker: runners poll for a turn (next),     *)
(* work, and post what they did (turn); A2A clients subscribe to it as a   *)
(* task and cancel it.  Handlers run concurrently and share the session's  *)
(* state under s.mu.  What a handler does while it holds the lock is one   *)
(* step, and so is each piece of work between two critical sections.       *)
(*                                                                         *)
(* Clients are free: anybody may poll, post, subscribe, cancel or go away  *)
(* at any time.  A handler that has returned is used again.                *)
(***************************************************************************)
EXTENDS Integers, Sequences, FiniteSets

CONSTANTS
  Polls, Posts, Subs,   \* handlers of next, of turn and of SubscribeToTask
  RoleIDs,              \* preset.Roles, in order
  Reviewer,             \* the role id "reviewer"
  NoRole,               \* the empty role id
  Routing,              \* preset.Routing
  ExitWhen,             \* preset.ExitWhen
  MaxTurns, MaxTokens,  \* preset.Budget
  DryRoundsThreshold,
  Responses,            \* what runners post
  NoResp, NoReq,        \* nil
  SubCap,               \* capacity of a subscriber's channel
  Faults                \* of "client" (goes away during a post), "disk"

Roles == {RoleIDs[i] : i \in 1..Len(RoleIDs)}
Requests == [turn : Nat, role : Roles \cup {NoRole}]
Shell == {"tests_pass", "all_artifacts_compile"}
Conditions == Shell \cup
  {"turns_exhausted", "tokens_exhausted", "deadline_passed", "reviewer_approved",
   "dry_rounds", "stuck", "human_signal"}

\* A session's terminalReason; Open while it is not terminal.
Open     == "open"
Canceled == "canceled"
Budget   == "budget_exhausted"
Reasons  == {Open, Canceled, Budget} \cup Conditions
Updates  == [reason : Reasons, final : BOOLEAN]

ASSUME TurnsAssumption ==
  /\ RoleIDs \in Seq(Roles) /\ RoleIDs # <<>> /\ NoRole \notin Roles
  /\ Routing \in {"round_robin", "handoff_then_round_robin", "strict_round_robin",
                  "last_writer_wins"}
  /\ ExitWhen \in Seq(Conditions)
  /\ MaxTurns \in Nat /\ MaxTokens \in Nat /\ DryRoundsThreshold \in Nat /\ SubCap \in Nat
  /\ NoReq \notin Requests /\ NoResp \notin Responses
  /\ \A r \in Responses : r.tokens \in Nat
  /\ Faults \subseteq {"client", "disk"}

VARIABLES
  made,         \* "none", or by whom: "rest" or "a2a" (which has no scratch file)
  turnCount, used, dryRounds, lastResp, terminal,
  notify,       \* which notify channel is the current one
  pending,      \* pendingReqs[id]
  log,          \* the requests of log.jsonl
  toClose,      \* earlier ones that some handler is about to close
  pollAt, pollAs, pollOn,
  postAt, postReq,
  subAt, a2aSubs, subBuf, subClosed,
  panics,       \* how handlers have panicked
  endedAt       \* history: turnCount when the session became terminal

session == <<made, turnCount, used, dryRounds, lastResp>>
polls   == <<pollAt, pollAs, pollOn>>
posts   == <<postAt, postReq>>
subs    == <<subAt, a2aSubs, subBuf, subClosed>>
ends    == <<terminal, endedAt>>
wakes   == <<notify, toClose>>
vars    == <<session, ends, wakes, pending, log, polls, posts, subs, panics>>

Init ==
  /\ made = "none" /\ turnCount = 0 /\ used = 0 /\ dryRounds = 0
  /\ lastResp = NoResp
  /\ terminal = Open /\ endedAt = 0
  /\ notify = 0 /\ toClose = {}
  /\ pending = NoReq /\ log = <<>>
  /\ pollAt = [p \in Polls |-> "idle"]
  /\ pollAs = [p \in Polls |-> NoRole] /\ pollOn = [p \in Polls |-> 0]
  /\ postAt = [h \in Posts |-> "idle"] /\ postReq = [h \in Posts |-> NoReq]
  /\ subAt = [c \in Subs |-> "idle"] /\ a2aSubs = {}
  /\ subBuf = [c \in Subs |-> <<>>] /\ subClosed = {}
  /\ panics = {}

(* A handler that panics under s.mu leaves it locked; net/http goes on. *)
Unlocked == "nil_scratch" \notin panics
-----------------------------------------------------------------------------
roundRobin(turn) == RoleIDs[((turn - 1) % Len(RoleIDs)) + 1]

Blocked == lastResp # NoResp /\ lastResp.eval = "blocked"
Asked   == lastResp # NoResp /\ lastResp.handoff \in Roles /\ Routing # "strict_round_robin"

(* The turn whose slot names the role: turnCount + 1, or the one before it. *)
slot == IF Routing = "last_writer_wins" /\ lastResp # NoResp THEN turnCount ELSE turnCount + 1

(* Router.Next.  NoRole stands for its error. *)
NextRole ==
  IF Blocked THEN IF Reviewer \in Roles THEN Reviewer ELSE NoRole
  ELSE IF Asked THEN lastResp.handoff
  ELSE roundRobin(slot)

(* Mutant of NoTurnsLeft: off by one. *)
NoTurnsLeftLate == turnCount > MaxTurns

(* TurnsLeft <= 0 and TokensLeft <= 0 of what Budgeter.Remaining returns. *)
NoTurnsLeft  == turnCount >= MaxTurns
NoTokensLeft == used >= MaxTokens

(* Budgeter.IsExhausted. *)
IsExhausted == NoTurnsLeft \/ NoTokensLeft

(* Evaluator.evaluateOne, for a condition that needs no shell.  A deadline   *)
(* may have passed at any time; a stuck pattern takes six records.           *)
Matches(cond, late, stuck) ==
  CASE cond = "turns_exhausted"   -> NoTurnsLeft
    [] cond = "tokens_exhausted"  -> NoTokensLeft
    [] cond = "deadline_passed"   -> late
    [] cond = "reviewer_approved" -> /\ lastResp # NoResp
                                     /\ lastResp.eval = "confident" /\ lastResp.done
    [] cond = "dry_rounds"        -> DryRoundsThreshold > 0 /\ dryRounds >= DryRoundsThreshold
    [] cond = "stuck"             -> stuck /\ Len(log) >= 6
    [] OTHER                      -> FALSE

(* Evaluate, as the set of the one reason it gives: the first condition that *)
(* matches ends the session; one that needs a shell is an error, and ends    *)
(* the evaluation instead.                                                   *)
Evaluate(late, stuck) ==
  LET Hit(i) == Matches(ExitWhen[i], late, stuck)
      first  == {i \in 1..Len(ExitWhen) :
                   Hit(i) /\ \A j \in 1..(i - 1) : ExitWhen[j] \notin Shell /\ ~Hit(j)}
  IN  IF first = {} THEN {Open} ELSE {ExitWhen[i] : i \in first}
-----------------------------------------------------------------------------
(* An entry for the session in sessionStates. *)
Create(by) ==
  /\ made = "none"
  /\ made' = by
  /\ UNCHANGED <<turnCount, used, dryRounds, lastResp>>
  /\ UNCHANGED <<ends, wakes, pending, log, polls, posts, subs, panics>>

handleCreateSession == Create("rest")

(* SendMessage; there is no scratch.Manager in what it makes. *)
handleA2ASend == Create("a2a")
-----------------------------------------------------------------------------
(* handleNextTurn. *)
PollStart(p, r) ==
  /\ made # "none" /\ pollAt[p] = "idle"
  /\ pollAt' = [pollAt EXCEPT ![p] = "check"]
  /\ pollAs' = [pollAs EXCEPT ![p] = r]
  /\ UNCHANGED pollOn
  /\ UNCHANGED <<session, ends, wakes, pending, log, posts, subs, panics>>

PollReturns(p) ==
  /\ pollAt' = [pollAt EXCEPT ![p] = "idle"]
  /\ pollAs' = [pollAs EXCEPT ![p] = NoRole] /\ pollOn' = [pollOn EXCEPT ![p] = 0]

Checking(p) == pollAt[p] = "check" /\ Unlocked

(* 410 Gone. *)
PollTerminated(p) ==
  /\ Checking(p) /\ terminal # Open
  /\ PollReturns(p)
  /\ UNCHANGED <<session, ends, wakes, pending, log, posts, subs, panics>>

(* The budget is exhausted: the session is terminal, and nobody is told. *)
PollExhausted(p) ==
  /\ Checking(p) /\ terminal = Open /\ IsExhausted
  /\ terminal' = Budget /\ endedAt' = turnCount
  /\ PollReturns(p)
  /\ UNCHANGED <<session, wakes, pending, log, posts, subs, panics>>

(* Mutant of Playing: a terminal session is played on. *)
PlayingOn(p) == Checking(p) /\ ~IsExhausted

(* Neither early return is taken. *)
Playing(p) == Checking(p) /\ terminal = Open /\ ~IsExhausted

(* The router fails, or the client is gone. *)
PollFails(p) ==
  /\ Playing(p)
  /\ PollReturns(p)
  /\ UNCHANGED <<session, ends, wakes, pending, log, posts, subs, panics>>

Mine(p) == NextRole # NoRole /\ pollAs[p] \in {NoRole, NextRole}

(* The turn is this poll's: it becomes the pending one.  Whether the client  *)
(* gets it is not known here.                                                *)
PollServe(p) ==
  /\ Playing(p) /\ Mine(p) /\ made = "rest"
  /\ pending' = [turn |-> turnCount + 1, role |-> NextRole]
  /\ PollReturns(p)
  /\ UNCHANGED <<session, ends, wakes, log, posts, subs, panics>>

(* A session made by SendMessage has no scratch.Manager to read. *)
PollPanics(p) ==
  /\ Playing(p) /\ Mine(p) /\ made = "a2a"
  /\ panics' = panics \cup {"nil_scratch"}
  /\ PollReturns(p)
  /\ UNCHANGED <<session, ends, wakes, pending, log, posts, subs>>

(* Another role's turn: wait on the channel that is current now. *)
PollWaits(p) ==
  /\ Playing(p) /\ NextRole # NoRole /\ ~Mine(p)
  /\ pollAt' = [pollAt EXCEPT ![p] = "wait"]
  /\ pollOn' = [pollOn EXCEPT ![p] = notify]
  /\ UNCHANGED pollAs
  /\ UNCHANGED <<session, ends, wakes, pending, log, posts, subs, panics>>

(* A notify channel that has been replaced and is closed. *)
Closed(n) == n < notify /\ n \notin toClose

PollWakes(p) ==
  /\ pollAt[p] = "wait" /\ Closed(pollOn[p])
  /\ pollAt' = [pollAt EXCEPT ![p] = "check"]
  /\ pollOn' = [pollOn EXCEPT ![p] = 0]
  /\ UNCHANGED pollAs
  /\ UNCHANGED <<session, ends, wakes, pending, log, posts, subs, panics>>

(* 204 after pollTimeout, or the client is gone. *)
PollTimesOut(p) ==
  /\ pollAt[p] = "wait"
  /\ PollReturns(p)
  /\ UNCHANGED <<session, ends, wakes, pending, log, posts, subs, panics>>
-----------------------------------------------------------------------------
Dry(resp) == ~resp.fresh /\ ~resp.done /\ resp.handoff = NoRole

(* Mutant of TakePending: the request stays. *)
TakePendingNot == UNCHANGED pending

(* delete(s.pendingReqs, id). *)
TakePending == pending' = NoReq

(* What the first locked half of handlePostTurn does to the session. *)
Counted(h, resp) ==
  /\ turnCount' = turnCount + 1
  /\ used' = used + resp.tokens
  /\ dryRounds' = IF Dry(resp) THEN dryRounds + 1 ELSE 0
  /\ lastResp' = resp
  /\ postReq' = [postReq EXCEPT ![h] = pending]
  /\ postAt' = [postAt EXCEPT ![h] = "append"]
  /\ UNCHANGED made

(* The first half: the pending request is taken, whoever asked for it.       *)
(* Whether the session is terminal is not looked at.                         *)
PostTurn(h, resp) ==
  /\ postAt[h] = "idle" /\ Unlocked /\ pending # NoReq
  /\ Counted(h, resp)
  /\ TakePending
  /\ UNCHANGED <<ends, wakes, log, polls, subs, panics>>

(* Mutant of Recorded: a session that has ended is not written to. *)
RecordedIfOpen(h) == log' = IF terminal = Open THEN Append(log, postReq[h]) ELSE log

(* The line that store.Append adds to log.jsonl. *)
Recorded(h) == log' = Append(log, postReq[h])

(* store.Append. *)
AppendTurn(h) ==
  /\ postAt[h] = "append"
  /\ Recorded(h)
  /\ postAt' = [postAt EXCEPT ![h] = "replay"]
  /\ postReq' = [postReq EXCEPT ![h] = NoReq]
  /\ UNCHANGED <<session, ends, wakes, pending, polls, subs, panics>>

(* store.Append or Replay fails, on the disk's account, because the client   *)
(* is gone, or because Replay, which takes no lock, meets a line that another *)
(* handler is writing.  The handler returns.                                 *)
PostFails(h) ==
  /\ postAt[h] \in {"append", "replay"} /\ Faults # {}
  /\ postAt' = [postAt EXCEPT ![h] = "idle"]
  /\ postReq' = [postReq EXCEPT ![h] = NoReq]
  /\ UNCHANGED <<session, ends, wakes, pending, log, polls, subs, panics>>

(* The line is written but fsync fails. *)
SyncFails(h) ==
  /\ postAt[h] = "append" /\ "disk" \in Faults
  /\ Recorded(h)
  /\ postAt' = [postAt EXCEPT ![h] = "idle"]
  /\ postReq' = [postReq EXCEPT ![h] = NoReq]
  /\ UNCHANGED <<session, ends, wakes, pending, polls, subs, panics>>

(* The events for subscribers: one is dropped where the channel is full. *)
Offer(update) ==
  [c \in Subs |-> IF c \in a2aSubs /\ Len(subBuf[c]) < SubCap
                  THEN Append(subBuf[c], update) ELSE subBuf[c]]

(* Mutant of Renew: the channel is kept. *)
RenewNot == UNCHANGED wakes

(* A new notify channel; the old one is closed after the unlock. *)
Renew ==
  /\ notify' = notify + 1
  /\ toClose' = toClose \cup {notify}

(* Mutant of Release: the closed channels stay registered. *)
ReleaseKeeps == subClosed' = subClosed \cup a2aSubs /\ UNCHANGED a2aSubs

(* Every registered channel is closed, and a2aSubs is nil. *)
Release == subClosed' = subClosed \cup a2aSubs /\ a2aSubs' = {}

(* What evaluating all the conditions may give. *)
Evaluated == UNION {Evaluate(late, stuck) : late \in BOOLEAN, stuck \in BOOLEAN}

(* Evaluate stops, with an error, when the client is gone. *)
Verdicts == Evaluated \cup (IF "client" \in Faults THEN {Open} ELSE {})

(* A verdict replaces the reason of a session that is terminal already. *)
Ruled(verdict) == IF verdict # Open THEN verdict ELSE terminal

(* The second half: the session is read again and the exit conditions are    *)
(* evaluated.                                                                *)
Finish(h) ==
  /\ postAt[h] = "replay" /\ Unlocked
  /\ \E verdict \in Verdicts :
       /\ terminal' = Ruled(verdict)
       /\ endedAt' = IF terminal = Open /\ verdict # Open THEN turnCount ELSE endedAt
       /\ subBuf' = Offer([reason |-> terminal', final |-> terminal' # Open])
       /\ IF terminal' # Open THEN Release ELSE UNCHANGED <<subClosed, a2aSubs>>
  /\ Renew
  /\ postAt' = [postAt EXCEPT ![h] = "idle"]
  /\ UNCHANGED <<session, pending, log, polls, postReq, subAt, panics>>

(* close(oldNotify), after the unlock. *)
CloseNotify(n) ==
  /\ n \in toClose
  /\ toClose' = toClose \ {n}
  /\ UNCHANGED notify
  /\ UNCHANGED <<session, ends, pending, log, polls, posts, subs, panics>>
-----------------------------------------------------------------------------
(* handleA2ACancel. *)
Cancel ==
  /\ made # "none" /\ Unlocked /\ terminal = Open
  /\ terminal' = Canceled /\ endedAt' = turnCount
  /\ Renew
  /\ subBuf' = Offer([reason |-> Canceled, final |-> TRUE])
  /\ Release
  /\ UNCHANGED <<session, pending, log, polls, posts, subAt, panics>>

(* handleA2ASendSubscribe, with a channel of its own.  A terminal session    *)
(* is reported at once and changes nothing.                                  *)
Subscribe(c) ==
  /\ made # "none" /\ Unlocked /\ terminal = Open /\ subAt[c] = "idle"
  /\ a2aSubs' = a2aSubs \cup {c}
  /\ subBuf' = [subBuf EXCEPT ![c] = <<>>] /\ subClosed' = subClosed \ {c}
  /\ subAt' = [subAt EXCEPT ![c] = "stream"]
  /\ UNCHANGED <<session, ends, wakes, pending, log, polls, posts, panics>>

SubReceives(c) ==
  /\ subAt[c] = "stream" /\ subBuf[c] # <<>>
  /\ subBuf' = [subBuf EXCEPT ![c] = Tail(@)]
  /\ subAt' = [subAt EXCEPT ![c] = IF Head(subBuf[c]).final THEN "idle" ELSE "stream"]
  /\ UNCHANGED <<a2aSubs, subClosed>>
  /\ UNCHANGED <<session, ends, wakes, pending, log, polls, posts, panics>>

(* The channel is closed and empty. *)
SubEnds(c) ==
  /\ subAt[c] = "stream" /\ subBuf[c] = <<>> /\ c \in subClosed
  /\ subAt' = [subAt EXCEPT ![c] = "idle"]
  /\ UNCHANGED <<a2aSubs, subBuf, subClosed>>
  /\ UNCHANGED <<session, ends, wakes, pending, log, polls, posts, panics>>

(* The select may take ctx.Done: the channel is taken out of a2aSubs under   *)
(* the lock, and closed.                                                     *)
SubLeaves(c) ==
  /\ subAt[c] = "stream" /\ Unlocked
  /\ a2aSubs' = a2aSubs \ {c}
  /\ subClosed' = subClosed \cup {c}
  /\ panics' = panics \cup (IF c \in subClosed THEN {"double_close"} ELSE {})
  /\ subAt' = [subAt EXCEPT ![c] = "idle"]
  /\ subBuf' = [subBuf EXCEPT ![c] = <<>>]
  /\ UNCHANGED <<session, ends, wakes, pending, log, polls, posts>>
-----------------------------------------------------------------------------
Next ==
  \/ handleCreateSession \/ handleA2ASend
  \/ \E p \in Polls :
       \/ \E r \in Roles \cup {NoRole} : PollStart(p, r)
       \/ PollTerminated(p) \/ PollExhausted(p) \/ PollFails(p)
       \/ PollServe(p) \/ PollPanics(p)
       \/ PollWaits(p) \/ PollWakes(p) \/ PollTimesOut(p)
  \/ \E h \in Posts :
       \/ \E resp \in Responses : PostTurn(h, resp)
       \/ AppendTurn(h) \/ PostFails(h) \/ SyncFails(h) \/ Finish(h)
  \/ \E n \in toClose : CloseNotify(n)
  \/ Cancel
  \/ \E c \in Subs :
       Subscribe(c) \/ SubReceives(c) \/ SubEnds(c) \/ SubLeaves(c)

Spec == Init /\ [][Next]_vars
-----------------------------------------------------------------------------
(* The types of the session's record and of the handlers' locals. *)
TypeOK ==
  /\ made \in {"none", "rest", "a2a"}
  /\ turnCount \in Nat /\ used \in Nat /\ dryRounds \in Nat /\ endedAt \in Nat
  /\ lastResp \in Responses \cup {NoResp}
  /\ terminal \in Reasons
  /\ notify \in Nat /\ toClose \subseteq Nat
  /\ pending \in Requests \cup {NoReq} /\ log \in Seq(Requests)
  /\ pollAt \in [Polls -> {"idle", "check", "wait"}]
  /\ pollAs \in [Polls -> Roles \cup {NoRole}] /\ pollOn \in [Polls -> Nat]
  /\ postAt \in [Posts -> {"idle", "append", "replay"}]
  /\ postReq \in [Posts -> Requests \cup {NoReq}]
  /\ subAt \in [Subs -> {"idle", "stream"}]
  /\ a2aSubs \subseteq Subs /\ subClosed \subseteq Subs
  /\ subBuf \in [Subs -> Seq(Updates)]
  /\ panics \subseteq {"nil_scratch", "double_close"}

(* handlePostTurn takes whatever is pending and checks nothing else: still,  *)
(* with several runners polling and posting at once, the budget of turns is  *)
(* never overrun.                                                            *)
WithinBudget == turnCount <= MaxTurns

(* A turn is recorded at most once, however many runners were given it or    *)
(* post for it: the turns in the log and those being recorded are distinct.  *)
TurnsDistinct ==
  /\ \A i, j \in 1..Len(log) : log[i].turn = log[j].turn => i = j
  /\ \A h \in Posts : postAt[h] = "append" =>
       /\ \A i \in 1..Len(log) : log[i].turn # postReq[h].turn
       /\ \A k \in Posts : postAt[k] = "append" /\ postReq[k].turn = postReq[h].turn => k = h

(* A session that is terminal counts at most the one turn that was pending   *)
(* when it ended: Cancel and a verdict leave pendingReqs alone.              *)
LateTurnsBounded == terminal # Open => turnCount <= endedAt + 1

(* The end is final: no handler that was under way makes the session live    *)
(* again, and no turn is handed out any more.                                *)
EndIsFinal ==
  [][terminal # Open => terminal' # Open /\ pending' \in {pending, NoReq}]_vars

(* No event is sent on, and no channel closed by a post or by Cancel, after  *)
(* a subscriber that left has closed it.                                     *)
SubsOpen == a2aSubs \cap subClosed = {}

(* Who ended the session released every subscriber; only a poll that finds   *)
(* the budget exhausted does not.                                            *)
EndReleasesSubs == terminal \notin {Open, Budget} => a2aSubs = {}

(* Whatever runners and clients do at the end, a session counts no turn over *)
(* its budget and one at most after its end.                                 *)
TurnsBounded == WithinBudget /\ LateTurnsBounded

(* Subscribers' channels are neither used after they are closed nor left     *)
(* open by who ends the session.                                             *)
SubsReleased == SubsOpen /\ EndReleasesSubs

Quiet == \A h \in Posts : postAt[h] = "idle"

(* Without faults: a poll sleeps only while another role's turn is due, in a *)
(* session that goes on.  Channels are replaced and closed apart from the    *)
(* state change they announce, and no wake-up is lost in between.            *)
NoSleepingRole ==
  Quiet =>
    \A p \in Polls :
      pollAt[p] = "wait" /\ pollOn[p] = notify =>
        terminal = Open /\ ~IsExhausted /\ ~Mine(p)

(* DESIGN.md on log.jsonl: "every TurnRequest + TurnResponse".  When nobody  *)
(* is recording, every turn that was counted is in the log.                  *)
EveryTurnLogged == Quiet => Len(log) = turnCount

(* feature-spec.md, AC-F8.1: "A session reaching `turns_exhausted`           *)
(* terminates with that reason."  The preset lists turns_exhausted; when the *)
(* last turn is recorded the session is terminal, by it or by another        *)
(* condition.                                                                *)
ExhaustionEnds ==
  made # "none" /\ Quiet /\ turnCount >= MaxTurns => terminal \notin {Open, Budget}

(* DESIGN.md: "Never `panic` outside `main`."  No poll, post, cancellation   *)
(* or subscription makes its handler panic.                                  *)
NoPanics == panics = {}
=============================================================================
