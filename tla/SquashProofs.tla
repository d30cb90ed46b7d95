---------------------------- MODULE SquashProofs ----------------------------
(***************************************************************************)
(* Proofs about Squash: the runners use the session as its clients may, so *)
(* what is proved of Turns holds of it; and what the runners make of the   *)
(* broker's answers is right, for any roles, presets and adapters, however *)
(* many handlers the broker runs and however often a client gives up.      *)
(***************************************************************************)
EXTENDS Squash, TurnsProofs

(* The types of the runners' locals. *)
RunnersType ==
  /\ runAt \in [Roles -> {"start", "poll", "polling", "run", "post", "posting"} \cup Ended]
  /\ conn \in [Roles -> Polls \cup Posts \cup {NoConn}]
  /\ work \in [Roles -> Responses \cup {NoResp}]
  /\ stray \in Responses \cup {NoResp}
  /\ timeouts \in Nat /\ postLost \in BOOLEAN

(* Who polls is connected to a poll that asks for its role, who posts to a   *)
(* post; nobody else is connected.                                           *)
Connected ==
  \A r \in Roles :
    /\ runAt[r] = "polling" =>
         conn[r] \in Polls /\ pollAt[conn[r]] # "idle" /\ pollAs[conn[r]] = r
    /\ runAt[r] = "posting" => conn[r] \in Posts
    /\ runAt[r] \notin {"polling", "posting"} => conn[r] = NoConn

(* Who posts has what its adapter returned. *)
HasWork == \A r \in Roles : runAt[r] \in {"post", "posting"} => work[r] \in Responses

(* Before RunSquash has made the session no runner has started. *)
NotBegun == made = "none" => \A r \in Roles : runAt[r] = "start"

(* A request is pending for the role whose turn it is. *)
PendingIsDue == pending # NoReq => pending.role = NextRole

(* Unless a post has timed out, a post without a client is one that was cut  *)
(* off by another runner's error, and its turn is still the pending one.     *)
StrayIsDue ==
  ~postLost /\ stray # NoResp =>
    Cancelled /\ pending # NoReq /\ \A r \in Roles : pending.role = r => runAt[r] \in Ended

(* Why a runner is done. *)
DoneWhy ==
  \A r \in Roles : runAt[r] = "done" =>
    terminal # Open \/ Cancelled \/ (work[r] # NoResp /\ work[r].done)

RunInv == RunnersType /\ Connected /\ HasWork /\ NotBegun
OwnInv == PendingIsDue /\ OwnTurn /\ StrayIsDue
-----------------------------------------------------------------------------
(* A handler that is free is one of the broker's. *)
LEMMA FreeHandlers ==
  /\ (\E p \in Polls : pollAt[p] = "idle") => FreePoll \in Polls /\ pollAt[FreePoll] = "idle"
  /\ (\E h \in Posts : postAt[h] = "idle") => FreePost \in Posts /\ postAt[FreePost] = "idle"
BY DEF FreePoll, FreePost

(* What a runner or the broker does is something that some client and the    *)
(* broker may do, or changes nothing of the session.                         *)
LEMMA SquashStep ==
  ASSUME RunInv, [SquashNext]_allVars PROVE [Next]_vars
<1> USE DEF RunInv
<1>1. CASE Launch
  BY <1>1 DEF Launch, Next
<1>2. ASSUME NEW r \in Roles, PollNext(r) PROVE Next
  <2>1. FreePoll \in Polls /\ PollStart(FreePoll, r)
    BY <1>2, FreeHandlers DEF PollNext
  <2>2. QED
    BY <2>1 DEF Next
<1>3. ASSUME NEW r \in Roles, PostTaken(r) PROVE Next
  <2>1. FreePost \in Posts /\ PostTurn(FreePost, work[r]) /\ work[r] \in Responses
    BY <1>3, FreeHandlers DEF PostTaken, HasWork
  <2>2. QED
    BY <2>1, Zenon DEF Next
<1>4. CASE StrayTaken
  <2>1. FreePost \in Posts /\ PostTurn(FreePost, stray) /\ stray \in Responses
    BY <1>4, FreeHandlers DEF StrayTaken, RunnersType
  <2>2. QED
    BY <2>1, Zenon DEF Next
<1>5. ASSUME NEW r \in Roles,
             \/ AdapterFails(r) \/ (\E resp \in Responses : Adapt(r, resp))
             \/ PostRefused(r) \/ Quit(r) \/ PollGivenUp(r) \/ PostGivenUp(r)
      PROVE  UNCHANGED vars
  BY <1>5, Zenon DEF AdapterFails, Adapt, PostRefused, Quit, PollGivenUp, PostGivenUp
<1>6. CASE Broker
  BY <1>6, Zenon DEF Broker, PollAnswered, PollHeld, PostAnswered, PostHeld, PostBroken,
                        Next
<1>7. CASE StrayDropped
  BY <1>7, Zenon DEF StrayDropped
<1>8. CASE CancelTask
  BY <1>8, Zenon DEF CancelTask, Next
<1>9. CASE UNCHANGED allVars
  BY <1>9, Zenon DEF allVars
<1>10. QED
  BY <1>1, <1>2, <1>3, <1>4, <1>5, <1>6, <1>7, <1>8, <1>9, Zenon DEF SquashNext, Runner
-----------------------------------------------------------------------------
(* The runners keep their types and their connections. *)
LEMMA RunNext ==
  ASSUME TypeOK, RunInv, [SquashNext]_allVars PROVE RunInv'
<1> USE SquashAssumption
    DEF RunInv, RunnersType, Connected, HasWork, NotBegun, Ended
<1>1. CASE Launch
  BY <1>1 DEF Launch, handleCreateSession, Create, polls
<1>2. ASSUME NEW r \in Roles, PollNext(r) PROVE RunInv'
  <2>1. /\ FreePoll \in Polls /\ pollAt[FreePoll] = "idle" /\ runAt[r] = "poll"
        /\ pollAt' = [pollAt EXCEPT ![FreePoll] = "check"]
        /\ pollAs' = [pollAs EXCEPT ![FreePoll] = r]
        /\ runAt' = [runAt EXCEPT ![r] = "polling"]
        /\ conn' = [conn EXCEPT ![r] = FreePoll]
        /\ UNCHANGED <<made, work, stray, timeouts, postLost>>
    BY <1>2, FreeHandlers DEF PollNext, PollStart, session
  <2>2. QED
    BY <2>1 DEF TypeOK
<1>3. ASSUME NEW r \in Roles, PostTaken(r) PROVE RunInv'
  <2>1. /\ FreePost \in Posts /\ runAt[r] = "post"
        /\ runAt' = [runAt EXCEPT ![r] = "posting"]
        /\ conn' = [conn EXCEPT ![r] = FreePost]
        /\ UNCHANGED <<made, work, stray, timeouts, postLost, polls>>
    BY <1>3, FreeHandlers DEF PostTaken, PostTurn, Counted
  <2>2. QED
    BY <2>1 DEF polls
<1>4. CASE StrayTaken
  BY <1>4 DEF StrayTaken, PostTurn, Counted, polls
<1>5. ASSUME NEW r \in Roles,
             \/ AdapterFails(r) \/ (\E resp \in Responses : Adapt(r, resp))
             \/ PostRefused(r)
      PROVE  RunInv'
  BY <1>5 DEF AdapterFails, Adapt, PostRefused, vars, session, polls
<1>6. ASSUME NEW r \in Roles, PollGivenUp(r) \/ PostGivenUp(r) PROVE RunInv'
  <2>1. CASE PollGivenUp(r)
    BY <2>1 DEF PollGivenUp, vars, session, polls
  <2>2. CASE PostGivenUp(r)
    <3>1. stray' \in Responses \cup {NoResp}
      BY <2>2 DEF PostGivenUp
    <3>2. QED
      BY <2>2, <3>1 DEF PostGivenUp, vars, session, polls
  <2>3. QED
    BY <1>6, <2>1, <2>2
<1>7. ASSUME NEW r \in Roles, Quit(r) PROVE RunInv'
  BY <1>7 DEF Quit, Cancelled, vars, session, polls
<1>8. CASE \/ StrayDropped \/ CancelTask \/ UNCHANGED allVars
           \/ \E n \in toClose : CloseNotify(n) /\ UNCHANGED runners
           \/ \E h \in Posts : PostHeld(h)
  BY <1>8 DEF StrayDropped, CancelTask, Cancel, CloseNotify, PostHeld, AppendTurn, allVars,
              runners, vars, session, polls
<1>9. ASSUME NEW p \in Polls, PollHeld(p) PROVE RunInv'
  BY <1>9 DEF PollHeld, PollWaits, PollWakes, runners, session, TypeOK
<1>10. ASSUME NEW p \in Polls, PollAnswered(p) PROVE RunInv'
  <2>1. PICK next \in {"done", "run", "poll", "failed"} : Told(p, All(next))
    BY <1>10 DEF PollAnswered, SessionGone, NoTurnYet
  <2>2. PollReturns(p) /\ made' = made
    BY <1>10 DEF PollAnswered, PollTerminated, PollExhausted, PollServe, PollTimesOut,
                 PollFails, session
  <2>3. /\ \A r \in Roles : IF conn[r] = p THEN runAt'[r] = next /\ conn'[r] = NoConn
                              ELSE runAt'[r] = runAt[r] /\ conn'[r] = conn[r]
        /\ \A q \in Polls \ {p} : pollAt'[q] = pollAt[q] /\ pollAs'[q] = pollAs[q]
    BY <2>1, <2>2 DEF Told, All, PollReturns, TypeOK
  <2>4. Connected'
    BY <2>3
  <2>5. RunnersType'
    BY <2>1 DEF Told, All
  <2>6. HasWork' /\ NotBegun'
    BY <2>1, <2>2 DEF Told, All
  <2>7. QED
    BY <2>4, <2>5, <2>6
<1>11. ASSUME NEW h \in Posts, PostAnswered(h) \/ PostBroken(h) PROVE RunInv'
  <2>1. PICK next : Told(h, next) /\ \A r \in Roles : next[r] \in {"done", "poll", "failed"}
    <3>1. \A r \in Roles : AfterPost(r) \in {"done", "poll"}
      BY DEF AfterPost
    <3>2. QED
      BY <1>11, <3>1 DEF PostAnswered, PostBroken, All
  <2>2. UNCHANGED <<made, polls>>
    BY <1>11 DEF PostAnswered, PostBroken, Finish, PostFails, SyncFails, session
  <2>3. QED
    BY <2>1, <2>2 DEF Told, polls
<1> HIDE DEF RunInv
<1>12. QED
  BY <1>1, <1>2, <1>3, <1>4, <1>5, <1>6, <1>7, <1>8, <1>9, <1>10, <1>11, Zenon
     DEF SquashNext, Runner, Broker
-----------------------------------------------------------------------------
(* Whose turn it is changes only with the post that takes the request. *)
LEMMA DueNext ==
  ASSUME PendingIsDue, [Next]_vars PROVE PendingIsDue'
<1> USE DEF PendingIsDue
<1>1. ASSUME UNCHANGED <<turnCount, lastResp, pending>> PROVE PendingIsDue'
  BY <1>1 DEF NextRole, Blocked, Asked, slot
<1>2. ASSUME NEW p \in Polls, PollServe(p) PROVE PendingIsDue'
  BY <1>2 DEF PollServe, session, NextRole, Blocked, Asked, slot
<1>3. ASSUME NEW h \in Posts, NEW resp \in Responses, PostTurn(h, resp) PROVE PendingIsDue'
  BY <1>3 DEF PostTurn, TakePending
<1>4. ASSUME NEW p \in Polls,
             \/ \E r \in Roles \cup {NoRole} : PollStart(p, r)
             \/ PollTerminated(p) \/ PollExhausted(p) \/ PollFails(p) \/ PollPanics(p)
             \/ PollWaits(p) \/ PollWakes(p) \/ PollTimesOut(p)
      PROVE  UNCHANGED <<turnCount, lastResp, pending>>
  BY <1>4 DEF PollStart, PollTerminated, PollExhausted, PollFails, PollPanics, PollWaits,
              PollWakes, PollTimesOut, session
<1>5. ASSUME NEW h \in Posts, AppendTurn(h) \/ PostFails(h) \/ SyncFails(h) \/ Finish(h)
      PROVE  UNCHANGED <<turnCount, lastResp, pending>>
  BY <1>5 DEF AppendTurn, PostFails, SyncFails, Finish, session
<1>6. ASSUME \/ handleCreateSession \/ handleA2ASend \/ Cancel \/ UNCHANGED vars
             \/ \E n \in toClose : CloseNotify(n)
             \/ \E c \in Subs : Subscribe(c) \/ SubReceives(c) \/ SubEnds(c) \/ SubLeaves(c)
      PROVE  UNCHANGED <<turnCount, lastResp, pending>>
  BY <1>6 DEF handleCreateSession, handleA2ASend, Create, Cancel, vars, CloseNotify, Subscribe,
              SubReceives, SubEnds, SubLeaves, session
<1> HIDE DEF PendingIsDue
<1>7. QED
  BY <1>1, <1>2, <1>3, <1>4, <1>5, <1>6, Zenon DEF Next

(* A runner's error is final, and so is its end. *)
LEMMA EndedStays ==
  ASSUME RunInv, [SquashNext]_allVars, NEW r \in Roles, runAt[r] \in Ended
  PROVE  runAt'[r] = runAt[r] /\ work'[r] = work[r]
<1> USE SquashAssumption DEF RunInv, RunnersType, Connected, Ended
<1>1. CASE Launch
  BY <1>1 DEF Launch, handleCreateSession, Create, NotBegun
<1>2. ASSUME NEW h \in Polls \cup Posts, NEW next, Told(h, next)
      PROVE  runAt'[r] = runAt[r] /\ work'[r] = work[r]
  <2>1. conn[r] # h
    OBVIOUS
  <2>2. QED
    BY <1>2, <2>1 DEF Told
<1>3. ASSUME NEW s \in Roles,
             \/ PollNext(s) \/ AdapterFails(s) \/ (\E resp \in Responses : Adapt(s, resp))
             \/ PostTaken(s) \/ PostRefused(s) \/ Quit(s) \/ PollGivenUp(s) \/ PostGivenUp(s)
      PROVE  runAt'[r] = runAt[r] /\ work'[r] = work[r]
  BY <1>3 DEF PollNext, AdapterFails, Adapt, PostTaken, PostRefused, Quit, PollGivenUp,
              PostGivenUp
<1>4. CASE \/ StrayTaken \/ StrayDropped \/ CancelTask \/ UNCHANGED allVars
           \/ \E n \in toClose : CloseNotify(n) /\ UNCHANGED runners
           \/ \E h \in Posts : PostHeld(h)
           \/ \E p \in Polls : PollHeld(p)
  BY <1>4 DEF StrayTaken, StrayDropped, CancelTask, PostHeld, PollHeld, allVars, runners
<1>5. CASE \/ \E p \in Polls : PollAnswered(p)
           \/ \E h \in Posts : PostAnswered(h) \/ PostBroken(h)
  BY <1>2, <1>5, Zenon DEF PollAnswered, PostAnswered, PostBroken
<1>6. QED
  BY <1>1, <1>3, <1>4, <1>5, Zenon DEF SquashNext, Runner, Broker

(* Another runner's error stays an error. *)
LEMMA CancelledStays ==
  ASSUME RunInv, [SquashNext]_allVars, Cancelled PROVE Cancelled'
<1>1. PICK r \in Roles : runAt[r] = "failed"
  BY DEF Cancelled
<1>2. runAt'[r] = "failed"
  BY <1>1, EndedStays DEF Ended
<1>3. QED
  BY <1>2 DEF Cancelled

(* A poll is served for the role that is due and answered to the runner that *)
(* asked for that role, so nobody works on another's turn.                   *)
LEMMA OwnNext ==
  ASSUME TypeOK, RunInv, OwnInv, [SquashNext]_allVars PROVE OwnInv'
<1>1. PendingIsDue'
  BY SquashStep, DueNext DEF OwnInv
<1> DEFINE Busy(r) == runAt[r] \in {"run", "post"}
<1>2. ASSUME UNCHANGED postLost, pending' = pending,
             \A r \in Roles : Busy(r)' => Busy(r)
      PROVE  OwnTurn'
  BY <1>2 DEF OwnInv, OwnTurn
<1>3. ASSUME UNCHANGED <<postLost, stray>>, pending' = pending
      PROVE  StrayIsDue'
  BY <1>3, EndedStays, CancelledStays DEF OwnInv, StrayIsDue
<1>4. ASSUME stray' = NoResp \/ postLost' = TRUE PROVE StrayIsDue'
  BY <1>4 DEF StrayIsDue
<1>5. CASE Launch
  BY <1>1, <1>2, <1>3, <1>5 DEF Launch, handleCreateSession, Create, OwnInv
<1>6. ASSUME NEW r \in Roles,
             \/ PollNext(r) \/ AdapterFails(r) \/ (\E resp \in Responses : Adapt(r, resp))
             \/ PostRefused(r) \/ PollGivenUp(r)
      PROVE  OwnInv'
  <2>1. UNCHANGED <<postLost, stray, pending>>
    BY <1>6 DEF PollNext, PollStart, AdapterFails, Adapt, PostRefused, PollGivenUp, vars
  <2>2. \A s \in Roles : Busy(s)' => Busy(s)
    BY <1>6 DEF PollNext, AdapterFails, Adapt, PostRefused, PollGivenUp, RunInv, RunnersType
  <2>3. QED
    BY <1>1, <1>2, <1>3, <2>1, <2>2 DEF OwnInv
<1>7. ASSUME NEW r \in Roles, PostTaken(r) PROVE OwnInv'
  <2>1. /\ runAt[r] = "post" /\ runAt' = [runAt EXCEPT ![r] = "posting"]
        /\ pending' = NoReq /\ ~Cancelled /\ UNCHANGED <<postLost, stray>>
    BY <1>7 DEF PostTaken, PostTurn, TakePending
  <2>2. OwnTurn'
    BY <2>1 DEF OwnInv, OwnTurn, RunInv, RunnersType
  <2>3. StrayIsDue'
    BY <2>1 DEF OwnInv, StrayIsDue
  <2>4. QED
    BY <1>1, <2>2, <2>3 DEF OwnInv
<1>8. CASE StrayTaken
  <2>1. stray # NoResp /\ stray' = NoResp /\ UNCHANGED <<postLost, runAt>>
    BY <1>8 DEF StrayTaken
  <2>2. OwnTurn'
    BY <2>1 DEF OwnInv, OwnTurn, StrayIsDue, Ended
  <2>3. QED
    BY <1>1, <1>4, <2>1, <2>2 DEF OwnInv
<1>9. ASSUME NEW r \in Roles, PostGivenUp(r) PROVE OwnInv'
  BY <1>1, <1>4, <1>9 DEF PostGivenUp, OwnInv, OwnTurn
<1>10. ASSUME NEW r \in Roles, Quit(r) PROVE OwnInv'
  <2>1. /\ Cancelled /\ runAt' = [runAt EXCEPT ![r] = "done"]
        /\ stray' = stray \/ runAt[r] = "post"
        /\ UNCHANGED <<postLost, pending>>
    BY <1>10 DEF Quit, vars
  <2>2. OwnTurn'
    BY <1>2, <2>1 DEF RunInv, RunnersType
  <2>3. CASE stray' = stray
    BY <1>1, <1>3, <2>1, <2>2, <2>3 DEF OwnInv
  <2>4. CASE runAt[r] = "post"
    <3>1. Cancelled'
      BY <2>1, CancelledStays
    <3>2. StrayIsDue'
      BY <2>1, <2>4, <3>1 DEF StrayIsDue, OwnInv, OwnTurn, RunInv, RunnersType, Ended
    <3>3. QED
      BY <1>1, <2>2, <3>2 DEF OwnInv
  <2>5. QED
    BY <2>1, <2>3, <2>4
<1>11. CASE \/ StrayDropped \/ CancelTask \/ UNCHANGED allVars
            \/ \E n \in toClose : CloseNotify(n) /\ UNCHANGED runners
            \/ \E h \in Posts : PostHeld(h)
            \/ \E p \in Polls : PollHeld(p)
  <2>1. /\ UNCHANGED <<postLost, pending, runAt>>
        /\ stray' = NoResp \/ stray' = stray
    BY <1>11 DEF StrayDropped, CancelTask, Cancel, CloseNotify, PostHeld, AppendTurn, PollHeld,
                 PollWaits, PollWakes, allVars, runners, vars
  <2>2. QED
    BY <1>1, <1>2, <1>3, <1>4, <2>1 DEF OwnInv
<1>12. ASSUME NEW h \in Posts, PostAnswered(h) \/ PostBroken(h) PROVE OwnInv'
  <2>1. /\ UNCHANGED <<postLost, stray, pending>>
        /\ Told(h, [r \in Roles |-> AfterPost(r)]) \/ Told(h, All("failed"))
    BY <1>12 DEF PostAnswered, PostBroken, Finish, PostFails, SyncFails, Told
  <2>2. \A r \in Roles : Busy(r)' => Busy(r)
    BY <2>1 DEF Told, AfterPost, All
  <2>3. QED
    BY <1>1, <1>2, <1>3, <2>1, <2>2 DEF OwnInv
<1>13. ASSUME NEW p \in Polls, PollAnswered(p) PROVE OwnInv'
  <2>1. UNCHANGED <<postLost, stray>>
    BY <1>13 DEF PollAnswered, Told
  <2>2. CASE PollServe(p) /\ Told(p, All("run"))
    <3>1. /\ pending' = [turn |-> turnCount + 1, role |-> NextRole]
          /\ NextRole # NoRole /\ pollAs[p] \in {NoRole, NextRole}
          /\ pending # NoReq => pending.role = NextRole
      BY <2>2 DEF PollServe, Mine, OwnInv, PendingIsDue
    <3>2. pending' # NoReq /\ pending'.role = NextRole
      <4>1. [turn |-> turnCount + 1, role |-> NextRole] \in Requests
        BY NextRoleType DEF TypeOK, Requests
      <4>2. QED
        BY <3>1, <4>1, TurnsAssumption
    <3>3. \A r \in Roles : conn[r] = p => pollAs[p] = r /\ r = NextRole /\ runAt[r] = "polling"
      BY <3>1, TurnsAssumption, SquashAssumption DEF RunInv, Connected, RunnersType
    <3>4. \A r \in Roles : Busy(r)' => Busy(r) \/ conn[r] = p
      BY <2>2 DEF Told
    <3>5. OwnTurn'
      BY <2>1, <3>1, <3>2, <3>3, <3>4 DEF OwnInv, OwnTurn
    <3>6. StrayIsDue'
      <4>1. ASSUME ~postLost, stray # NoResp, NEW r \in Roles, pending'.role = r
            PROVE  runAt'[r] \in Ended
        BY <3>1, <3>2, <4>1, EndedStays DEF OwnInv, StrayIsDue
      <4>2. ASSUME ~postLost, stray # NoResp PROVE Cancelled'
        BY <4>2, CancelledStays DEF OwnInv, StrayIsDue
      <4>3. QED
        BY <2>1, <3>2, <4>1, <4>2 DEF StrayIsDue
    <3>7. QED
      BY <1>1, <3>5, <3>6 DEF OwnInv
  <2>3. CASE /\ PollTerminated(p) \/ PollExhausted(p) \/ PollTimesOut(p) \/ PollFails(p)
             /\ \E next \in {"done", "poll", "failed"} : Told(p, All(next))
    <3>1. pending' = pending
      BY <2>3 DEF PollTerminated, PollExhausted, PollTimesOut, PollFails
    <3>2. \A r \in Roles : Busy(r)' => Busy(r)
      BY <2>3 DEF Told, All
    <3>3. QED
      BY <1>1, <1>2, <1>3, <2>1, <3>1, <3>2 DEF OwnInv
  <2>4. QED
    BY <1>13, <2>2, <2>3 DEF PollAnswered, SessionGone, NoTurnYet
<1>14. QED
  BY <1>5, <1>6, <1>7, <1>8, <1>9, <1>10, <1>11, <1>12, <1>13, Zenon
     DEF SquashNext, Runner, Broker

(* A runner is done because the session is, because another runner failed,   *)
(* or because its own answer said so.                                        *)
LEMMA DoneNext ==
  ASSUME TypeOK, RunInv, DoneWhy, [SquashNext]_allVars PROVE DoneWhy'
<1> DEFINE Why(r) == terminal # Open \/ Cancelled \/ (work[r] # NoResp /\ work[r].done)
<1>1. terminal # Open => terminal' # Open
  BY SquashStep, EndStep
<1>2. ASSUME NEW r \in Roles, runAt[r] = "done" PROVE Why(r)'
  BY <1>1, <1>2, EndedStays, CancelledStays DEF DoneWhy, Ended
<1>3. ASSUME \A r \in Roles : runAt'[r] = "done" => runAt[r] = "done" \/ Why(r)'
      PROVE  DoneWhy'
  BY <1>2, <1>3 DEF DoneWhy
<1>4. CASE Launch
  BY <1>3, <1>4 DEF Launch
<1>5. ASSUME NEW r \in Roles,
             \/ PollNext(r) \/ AdapterFails(r) \/ (\E resp \in Responses : Adapt(r, resp))
             \/ PostTaken(r) \/ PostRefused(r) \/ PollGivenUp(r) \/ PostGivenUp(r)
      PROVE  DoneWhy'
  <2>1. \A s \in Roles : runAt'[s] = "done" => runAt[s] = "done"
    BY <1>5 DEF PollNext, AdapterFails, Adapt, PostTaken, PostRefused, PollGivenUp,
       PostGivenUp,
                RunInv, RunnersType
  <2>2. QED
    BY <1>3, <2>1
<1>6. ASSUME NEW r \in Roles, Quit(r) PROVE DoneWhy'
  BY <1>3, <1>6, CancelledStays DEF Quit
<1>7. CASE \/ StrayTaken \/ StrayDropped \/ CancelTask \/ UNCHANGED allVars
           \/ \E n \in toClose : CloseNotify(n) /\ UNCHANGED runners
           \/ \E h \in Posts : PostHeld(h)
           \/ \E p \in Polls : PollHeld(p)
  <2>1. UNCHANGED runAt
    BY <1>7 DEF StrayTaken, StrayDropped, CancelTask, PostHeld, PollHeld, allVars, runners
  <2>2. QED
    BY <1>3, <2>1
<1>8. ASSUME NEW h \in Posts, PostAnswered(h) PROVE DoneWhy'
  <2>1. ASSUME NEW r \in Roles, runAt'[r] = "done" PROVE runAt[r] = "done" \/ Why(r)'
    <3>1. CASE conn[r] # h
      BY <1>8, <2>1, <3>1 DEF PostAnswered, Told
    <3>2. CASE conn[r] = h
      <4>1. runAt[r] = "posting"
        BY <3>2, SquashAssumption DEF RunInv, Connected, RunnersType
      <4>2. work[r] \in Responses
        BY <4>1 DEF RunInv, HasWork
      <4>3. AfterPost(r) = "done" /\ work'[r] = work[r]
        BY <1>8, <2>1, <3>2 DEF PostAnswered, Told, RunInv, RunnersType
      <4>4. work[r].done
        BY <4>3 DEF AfterPost
      <4>5. QED
        BY <4>2, <4>3, <4>4, TurnsAssumption
    <3>3. QED
      BY <3>1, <3>2
  <2>2. QED
    BY <1>3, <2>1
<1>9. ASSUME NEW h \in Posts, PostBroken(h) PROVE DoneWhy'
  <2>1. \A r \in Roles : runAt'[r] = "done" => runAt[r] = "done"
    BY <1>9 DEF PostBroken, Told, All
  <2>2. QED
    BY <1>3, <2>1
<1>10. ASSUME NEW p \in Polls, PollAnswered(p) PROVE DoneWhy'
  <2>1. CASE PollTerminated(p) \/ PollExhausted(p)
    <3>1. terminal' # Open
      BY <2>1 DEF PollTerminated, PollExhausted, ends, Open, Budget
    <3>2. QED
      BY <1>3, <3>1
  <2>2. CASE \E next \in {"run", "poll", "failed"} : Told(p, All(next))
    <3>1. \A r \in Roles : runAt'[r] = "done" => runAt[r] = "done"
      BY <2>2 DEF Told, All
    <3>2. QED
      BY <1>3, <3>1
  <2>3. QED
    BY <1>10, <2>1, <2>2 DEF PollAnswered, NoTurnYet
<1>11. QED
  BY <1>4, <1>5, <1>6, <1>7, <1>8, <1>9, <1>10, Zenon DEF SquashNext, Runner, Broker
-----------------------------------------------------------------------------
(* The inductive invariant. *)
SquashInv == TypeOK /\ RunInv /\ OwnInv /\ DoneWhy

(* No runner has started at first. *)
LEMMA SquashInitInv ==
  SquashInit => RunInv /\ OwnInv /\ DoneWhy
<1> SUFFICES ASSUME SquashInit PROVE RunInv /\ OwnInv /\ DoneWhy
  OBVIOUS
<1>1. RunnersType
  BY DEF SquashInit, RunnersType
<1>2. Connected /\ HasWork /\ NotBegun
  BY DEF SquashInit, Connected, HasWork, NotBegun
<1>3. OwnInv
  BY DEF SquashInit, Init, OwnInv, PendingIsDue, OwnTurn, StrayIsDue
<1>4. DoneWhy
  BY DEF SquashInit, DoneWhy
<1>5. QED
  BY <1>1, <1>2, <1>3, <1>4 DEF RunInv

(* squash as a client: its runners, with the broker, do nothing to a session *)
(* that module Turns does not allow, so every theorem about Turns is one     *)
(* about the session of a squash run.                                        *)
THEOREM SquashPlaysTurns ==
  SquashSpec => Spec
<1>1. SquashInit => Init /\ RunInv
  BY SquashInitInv DEF SquashInit
<1>2. RunInv /\ TypeOK /\ [SquashNext]_allVars => RunInv' /\ [Next]_vars
  BY RunNext, SquashStep
<1>3. TypeOK /\ RequestTaken /\ [Next]_vars => TypeOK' /\ RequestTaken'
  BY TypeNext, TakenNext DEF TInv
<1>4. Init => TypeOK /\ RequestTaken
  BY InitInv DEF IInv, TInv
<1>5. QED
  BY <1>1, <1>2, <1>3, <1>4, PTL DEF SquashSpec, Spec

(* SquashInv holds in every state of a squash run. *)
THEOREM SquashInvariance ==
  SquashSpec => []SquashInv
<1>1. SquashInit => RunInv /\ OwnInv /\ DoneWhy
  BY SquashInitInv
<1>2. TypeOK /\ RunInv /\ OwnInv /\ DoneWhy /\ [SquashNext]_allVars
        => RunInv' /\ OwnInv' /\ DoneWhy'
  BY RunNext, OwnNext, DoneNext
<1>3. TypeOK /\ RunInv /\ OwnInv /\ DoneWhy => SquashInv
  BY DEF SquashInv
<1>4. QED
  BY <1>1, <1>2, <1>3, SquashPlaysTurns, TypeCorrect, PTL DEF SquashSpec

(* Runners work only on the pending turn of their own role, so that one      *)
(* adapter at a time has the repository and its answer is recorded for its   *)
(* role, whatever polls time out and are answered late; until a post times   *)
(* out.                                                                      *)
THEOREM RunnersKeepTurns ==
  SquashSpec => []OwnTurn
<1>1. SquashInv => OwnTurn
  BY DEF SquashInv, OwnInv
<1>2. QED
  BY <1>1, SquashInvariance, PTL

(* When RunSquash reports success the session has ended, or a runner's own   *)
(* answer said done.                                                         *)
THEOREM SuccessMeansEnd ==
  SquashSpec => []SuccessIsEnd
<1>1. SquashInv => SuccessIsEnd
  <2> SUFFICES ASSUME SquashInv, \A r \in Roles : runAt[r] = "done"
               PROVE  terminal # Open \/ \E r \in Roles : work[r] # NoResp /\ work[r].done
    BY DEF SuccessIsEnd
  <2>1. PICK r \in Roles : TRUE
    BY TurnsAssumption DEF Roles
  <2>2. ~Cancelled
    BY DEF Cancelled
  <2>3. QED
    BY <2>1, <2>2 DEF SquashInv, DoneWhy
<1>2. QED
  BY <1>1, SquashInvariance, PTL
=============================================================================
