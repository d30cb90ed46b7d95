------------------------------- MODULE Squash -------------------------------
(***************************************************************************)
(* `rallish squash`: one runner loop for each role of the preset, against  *)
(* the session of module Turns.  A runner polls, lets its adapter work in  *)
(* the repository, and posts what came of it.  Its HTTP client gives up    *)
(* after a while; the handler it called goes on, with a cancelled context, *)
(* and fails at the next thing that looks at that.                         *)
(*                                                                         *)
(* Which goroutine of the broker answers makes no difference: a request    *)
(* takes the first one that is free.                                       *)
(***************************************************************************)
EXTENDS Turns

CONSTANTS
  NoConn,       \* no request under way
  MaxTimeouts   \* how often a runner's HTTP client gives up

ASSUME SquashAssumption ==
  /\ Polls \cap Posts = {} /\ NoConn \notin Polls \cup Posts
  /\ MaxTimeouts \in Nat

VARIABLES
  runAt,        \* where each role's runner is in Loop.Run
  conn,         \* the handler that it waits for
  work,         \* what its adapter has returned
  stray,        \* a post whose client has given up, before the broker took it
  timeouts,
  postLost      \* history: a post has timed out

runners == <<runAt, conn, work, stray, timeouts, postLost>>
allVars == <<vars, runners>>

Ended == {"done", "failed"}

SquashInit ==
  /\ Init
  /\ runAt = [r \in Roles |-> "start"] /\ conn = [r \in Roles |-> NoConn]
  /\ work = [r \in Roles |-> NoResp] /\ stray = NoResp
  /\ timeouts = 0 /\ postLost = FALSE

(* The errgroup's context: one runner's error ends the others. *)
Cancelled == \E r \in Roles : runAt[r] = "failed"

(* RunSquash: the session is created and a goroutine started for each role. *)
Launch ==
  /\ handleCreateSession
  /\ runAt' = [r \in Roles |-> "poll"]
  /\ UNCHANGED <<conn, work, stray, timeouts, postLost>>

(* The client of handler h, if it still waits, goes to next. *)
Told(h, next) ==
  /\ runAt' = [r \in Roles |-> IF conn[r] = h THEN next[r] ELSE runAt[r]]
  /\ conn' = [r \in Roles |-> IF conn[r] = h THEN NoConn ELSE conn[r]]
  /\ work' = [r \in Roles |-> IF conn[r] = h /\ next[r] = "poll" THEN NoResp ELSE work[r]]
  /\ UNCHANGED <<stray, timeouts, postLost>>

All(next) == [r \in Roles |-> next]
Orphan(h) == \A r \in Roles : conn[r] # h
-----------------------------------------------------------------------------
FreePoll == CHOOSE p \in Polls : pollAt[p] = "idle"
FreePost == CHOOSE h \in Posts : postAt[h] = "idle"

(* pollNext sends its request. *)
PollNext(r) ==
  /\ runAt[r] = "poll" /\ ~Cancelled
  /\ \E p \in Polls : pollAt[p] = "idle"
  /\ PollStart(FreePoll, r)
  /\ runAt' = [runAt EXCEPT ![r] = "polling"]
  /\ conn' = [conn EXCEPT ![r] = FreePoll]
  /\ UNCHANGED <<work, stray, timeouts, postLost>>

(* Mutant of NoTurnYet: 204 is read like 200. *)
NoTurnYetRuns == "run"

(* Mutant of NoTurnYet: 204 is read like 410. *)
NoTurnYetEnds == "done"

(* errNoTurnYet: the loop goes on. *)
NoTurnYet == "poll"

(* Mutant of SessionGone: 410 is taken for transient. *)
SessionGoneLoops == "poll"

(* ErrSessionGone: the loop ends without an error. *)
SessionGone == "done"

(* What Loop.Run makes of the broker's answer: 410 ends the loop, 204 is     *)
(* polled again, another status than 200 is an error.                        *)
PollAnswered(p) ==
  \/ PollTerminated(p) /\ Told(p, All(SessionGone))
  \/ PollExhausted(p) /\ Told(p, All(SessionGone))
  \/ PollServe(p) /\ Told(p, All("run"))
  \/ PollTimesOut(p) /\ Told(p, All(NoTurnYet))
  \/ PollFails(p) /\ (NextRole = NoRole \/ Orphan(p)) /\ Told(p, All("failed"))

PollHeld(p) ==
  /\ PollWaits(p) \/ PollWakes(p)
  /\ UNCHANGED runners

(* adapter.Run. *)
Adapt(r, resp) ==
  /\ runAt[r] = "run"
  /\ runAt' = [runAt EXCEPT ![r] = "post"]
  /\ work' = [work EXCEPT ![r] = resp]
  /\ UNCHANGED <<conn, stray, timeouts, postLost>> /\ UNCHANGED vars

AdapterFails(r) ==
  /\ runAt[r] = "run"
  /\ runAt' = [runAt EXCEPT ![r] = "failed"]
  /\ UNCHANGED <<conn, work, stray, timeouts, postLost>> /\ UNCHANGED vars

(* The broker takes the post, or has nothing pending and answers 400. *)
PostTaken(r) ==
  /\ runAt[r] = "post" /\ ~Cancelled
  /\ \E h \in Posts : postAt[h] = "idle"
  /\ PostTurn(FreePost, work[r])
  /\ runAt' = [runAt EXCEPT ![r] = "posting"]
  /\ conn' = [conn EXCEPT ![r] = FreePost]
  /\ UNCHANGED <<work, stray, timeouts, postLost>>

PostRefused(r) ==
  /\ runAt[r] = "post" /\ ~Cancelled /\ Unlocked /\ pending = NoReq
  /\ runAt' = [runAt EXCEPT ![r] = "failed"]
  /\ UNCHANGED <<conn, work, stray, timeouts, postLost>> /\ UNCHANGED vars

(* resp.Done ends the loop, whatever the session does. *)
AfterPost(r) == IF work[r].done THEN "done" ELSE "poll"

(* The exit conditions are evaluated while the client waits; without it the  *)
(* evaluation may have been cut short.                                       *)
PostAnswered(h) ==
  /\ Finish(h)
  /\ Orphan(h) \/ \E verdict \in Evaluated : terminal' = Ruled(verdict)
  /\ Told(h, [r \in Roles |-> AfterPost(r)])

PostHeld(h) == AppendTurn(h) /\ UNCHANGED runners

(* 500: the turn is counted, but perhaps not recorded; no exit condition is  *)
(* evaluated and no poll is woken.  It is an error to a runner that still    *)
(* waits.                                                                    *)
PostBroken(h) == (PostFails(h) \/ SyncFails(h)) /\ Told(h, All("failed"))
-----------------------------------------------------------------------------
(* The HTTP client's timeout is transient, of a poll as of a post. *)
PollGivenUp(r) ==
  /\ runAt[r] = "polling" /\ timeouts < MaxTimeouts
  /\ runAt' = [runAt EXCEPT ![r] = "poll"] /\ conn' = [conn EXCEPT ![r] = NoConn]
  /\ timeouts' = timeouts + 1
  /\ UNCHANGED <<work, stray, postLost>> /\ UNCHANGED vars

PostGivenUp(r) ==
  /\ runAt[r] \in {"post", "posting"} /\ timeouts < MaxTimeouts
  /\ runAt' = [runAt EXCEPT ![r] = "poll"] /\ conn' = [conn EXCEPT ![r] = NoConn]
  /\ stray' = IF runAt[r] = "post" THEN work[r] ELSE stray
  /\ work' = [work EXCEPT ![r] = NoResp]
  /\ timeouts' = timeouts + 1 /\ postLost' = TRUE
  /\ UNCHANGED vars

StrayTaken ==
  /\ stray # NoResp
  /\ \E h \in Posts : postAt[h] = "idle"
  /\ PostTurn(FreePost, stray)
  /\ stray' = NoResp
  /\ UNCHANGED <<runAt, conn, work, timeouts, postLost>>

StrayDropped ==
  /\ stray # NoResp
  /\ stray' = NoResp
  /\ UNCHANGED <<runAt, conn, work, timeouts, postLost>> /\ UNCHANGED vars

(* The context is cancelled; so is a request under way. *)
Quit(r) ==
  /\ Cancelled /\ runAt[r] \notin Ended
  /\ runAt' = [runAt EXCEPT ![r] = "done"] /\ conn' = [conn EXCEPT ![r] = NoConn]
  /\ stray' \in {stray, IF runAt[r] = "post" THEN work[r] ELSE stray}
  /\ UNCHANGED <<work, timeouts, postLost>> /\ UNCHANGED vars

(* Another client cancels the task. *)
CancelTask == Cancel /\ UNCHANGED runners
-----------------------------------------------------------------------------
Runner(r) ==
  \/ PollNext(r) \/ AdapterFails(r) \/ (\E resp \in Responses : Adapt(r, resp))
  \/ PostTaken(r) \/ PostRefused(r) \/ Quit(r)

Broker ==
  \/ \E p \in Polls : PollAnswered(p) \/ PollHeld(p)
  \/ \E h \in Posts : PostAnswered(h) \/ PostHeld(h) \/ PostBroken(h)
  \/ \E n \in toClose : CloseNotify(n) /\ UNCHANGED runners

SquashNext ==
  \/ Launch \/ (\E r \in Roles : Runner(r) \/ PollGivenUp(r) \/ PostGivenUp(r))
  \/ Broker \/ StrayTaken \/ StrayDropped \/ CancelTask

(* A goroutine that can go on does: the runners, the adapter's process, the  *)
(* broker's handlers.  A client need not time out, nor a task be cancelled.  *)
SquashSpec ==
  /\ SquashInit /\ [][SquashNext]_allVars
  /\ WF_allVars(Launch)
  /\ \A r \in Roles : WF_allVars(Runner(r))
  /\ \A p \in Polls : WF_allVars(PollAnswered(p) \/ PollHeld(p))
  /\ \A h \in Posts : WF_allVars(PostAnswered(h) \/ PostHeld(h) \/ PostBroken(h))
  /\ WF_allVars(\E n \in toClose : CloseNotify(n) /\ UNCHANGED runners)
-----------------------------------------------------------------------------
(* A turn is worked on only while it is the pending one, so what a runner    *)
(* posts is recorded for its own role, and two adapters, which share one     *)
(* repository, never work at once, whatever polls time out and are answered  *)
(* late or twice.  That is as long as no post has timed out: Loop.Run takes  *)
(* that for transient, and may be given the same turn again while the broker *)
(* goes on to the next.                                                      *)
OwnTurn ==
  ~postLost => \A r \in Roles :
    runAt[r] \in {"run", "post"} => pending # NoReq /\ pending.role = r

(* RunSquash: "completed successfully".  When every runner has ended and     *)
(* none with an error, the session has ended too, unless a runner left       *)
(* because its own answer said done.                                         *)
SuccessIsEnd ==
  (\A r \in Roles : runAt[r] = "done") =>
    terminal # Open \/ \E r \in Roles : work[r] # NoResp /\ work[r].done

(* squash ends, whatever posts are lost, fail, or are counted and neither    *)
(* recorded nor announced: no runner polls for ever for a turn that is not   *)
(* its own, unless another left a session that goes on because its answer    *)
(* said done.                                                                *)
SquashEnds ==
  <>((\A r \in Roles : runAt[r] \in Ended)
     \/ (terminal = Open /\ \E r \in Roles : runAt[r] = "done"))
=============================================================================
