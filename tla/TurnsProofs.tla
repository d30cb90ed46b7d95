---------------------------- MODULE TurnsProofs -----------------------------
(***************************************************************************)
(* Proofs about Turns, for any handlers, roles, routing, exit conditions,  *)
(* budgets, responses and faults.                                          *)
(*                                                                         *)
(* handlePostTurn looks only at what is pending, so what it may do is      *)
(* known from what PollServe has checked before: IInv says what a pending  *)
(* request still guarantees when it is taken, and that every turn in the   *)
(* log or on its way there has been counted.                               *)
(***************************************************************************)
EXTENDS Turns, FiniteSetTheorems, WellFoundedInduction, TLAPS

(* A pending request is for the turn after the last one counted, within the  *)
(* budget.                                                                   *)
PendingIsNext ==
  pending # NoReq => pending.turn = turnCount + 1 /\ turnCount < MaxTurns

(* A handler that records a turn has the request it took. *)
RequestTaken == \A h \in Posts : postAt[h] = "append" => postReq[h] \in Requests

(* What is recorded, or is being recorded, has been counted. *)
RecordedCounted ==
  /\ \A i \in 1..Len(log) : log[i].turn <= turnCount
  /\ \A h \in Posts : postAt[h] = "append" => postReq[h].turn <= turnCount

(* A request that is pending when the session ends is the only one to come. *)
LastIsPending == terminal # Open /\ pending # NoReq => turnCount <= endedAt

(* The inductive invariant. *)
TInv     == TypeOK /\ RequestTaken
CountInv == PendingIsNext /\ WithinBudget
LogInv   == RecordedCounted /\ TurnsDistinct
EndInv   == LateTurnsBounded /\ LastIsPending
SubsInv  == SubsOpen /\ EndReleasesSubs
IInv     == TInv /\ CountInv /\ LogInv /\ EndInv /\ SubsInv
-----------------------------------------------------------------------------
(* roundRobin always names a role of the preset. *)
LEMMA RoundRobinType ==
  ASSUME NEW turn \in Int PROVE roundRobin(turn) \in Roles
<1>1. Len(RoleIDs) \in Nat /\ Len(RoleIDs) > 0
  BY TurnsAssumption
<1>2. ((turn - 1) % Len(RoleIDs)) + 1 \in 1..Len(RoleIDs)
  <2> DEFINE n == Len(RoleIDs)
  <2>1. (turn - 1) % n \in 0..(n - 1)
    BY <1>1
  <2>2. QED
    BY <1>1, <2>1
<1>3. QED
  BY <1>2 DEF roundRobin, Roles

(* Router.Next names a role of the preset or fails. *)
LEMMA NextRoleType ==
  ASSUME TypeOK PROVE NextRole \in Roles \cup {NoRole}
<1>1. slot \in Int
  BY DEF TypeOK, slot
<1>2. roundRobin(slot) \in Roles
  BY <1>1, RoundRobinType
<1>3. QED
  BY <1>2 DEF NextRole, Asked

(* A verdict is a reason. *)
LEMMA VerdictType ==
  Verdicts \subseteq Reasons
<1>1. ASSUME NEW i \in 1..Len(ExitWhen) PROVE ExitWhen[i] \in Reasons
  BY TurnsAssumption DEF Reasons
<1>2. Open \in Reasons
  BY DEF Reasons
<1>3. ASSUME NEW late \in BOOLEAN, NEW stuck \in BOOLEAN
      PROVE  Evaluate(late, stuck) \subseteq Reasons
  BY <1>1, <1>2, Zenon DEF Evaluate
<1>4. QED
  BY <1>2, <1>3 DEF Verdicts, Evaluated

(* Offer puts an update into channels of updates. *)
LEMMA OfferType ==
  ASSUME TypeOK, NEW reason \in Reasons, NEW final \in BOOLEAN
  PROVE  Offer([reason |-> reason, final |-> final]) \in [Subs -> Seq(Updates)]
<1>1. [reason |-> reason, final |-> final] \in Updates
  BY DEF Updates
<1>2. ASSUME NEW u \in Updates PROVE Offer(u) \in [Subs -> Seq(Updates)]
  BY <1>2 DEF Offer, TypeOK
<1>3. QED
  BY <1>1, <1>2

(* The types of a session and its handlers. *)
LEMMA TypeNext ==
  TInv /\ [Next]_vars => TypeOK'
<1> SUFFICES ASSUME TypeOK, RequestTaken, [Next]_vars PROVE TypeOK'
  BY DEF TInv
<1> USE TurnsAssumption
<1>1. ASSUME NEW by \in {"rest", "a2a"}, Create(by) PROVE TypeOK'
  BY <1>1 DEF Create, TypeOK, ends, wakes, polls, posts, subs
<1>2. ASSUME NEW p \in Polls, NEW r \in Roles \cup {NoRole}, PollStart(p, r) PROVE TypeOK'
  BY <1>2 DEF PollStart, TypeOK, session, ends, wakes, posts, subs
<1>3. ASSUME NEW p \in Polls, PollReturns(p),
             UNCHANGED <<session, ends, wakes, pending, log, posts, subs, panics>>
      PROVE  TypeOK'
  BY <1>3 DEF PollReturns, TypeOK, session, ends, wakes, posts, subs
<1>4. ASSUME NEW p \in Polls, PollExhausted(p) PROVE TypeOK'
  BY <1>4 DEF PollExhausted, PollReturns, TypeOK, Reasons, session, wakes, posts, subs
<1>5. ASSUME NEW p \in Polls, PollServe(p) PROVE TypeOK'
  <2>1. [turn |-> turnCount + 1, role |-> NextRole] \in Requests
    BY NextRoleType DEF TypeOK, Requests
  <2>2. QED
    BY <1>5, <2>1 DEF PollServe, PollReturns, TypeOK, session, ends, wakes, posts, subs
<1>6. ASSUME NEW p \in Polls, PollPanics(p) PROVE TypeOK'
  BY <1>6 DEF PollPanics, PollReturns, TypeOK, session, ends, wakes, posts, subs
<1>7. ASSUME NEW p \in Polls, PollWaits(p) PROVE TypeOK'
  BY <1>7 DEF PollWaits, TypeOK, session, ends, wakes, posts, subs
<1>8. ASSUME NEW p \in Polls, PollWakes(p) PROVE TypeOK'
  BY <1>8 DEF PollWakes, TypeOK, session, ends, wakes, posts, subs
<1>9. ASSUME NEW h \in Posts, NEW resp \in Responses, PostTurn(h, resp) PROVE TypeOK'
  <2>1. pending \in Requests /\ resp.tokens \in Nat
    BY <1>9 DEF PostTurn, TypeOK
  <2>2. QED
    BY <1>9, <2>1 DEF PostTurn, Counted, TakePending, TypeOK, ends, wakes, polls, subs
<1>10. ASSUME NEW h \in Posts, AppendTurn(h) PROVE TypeOK'
  <2>1. Append(log, postReq[h]) \in Seq(Requests)
    BY <1>10 DEF AppendTurn, TypeOK, RequestTaken
  <2>2. QED
    BY <1>10, <2>1 DEF AppendTurn, Recorded, TypeOK, session, ends, wakes, polls, subs
<1>11. ASSUME NEW h \in Posts, PostFails(h) PROVE TypeOK'
  BY <1>11 DEF PostFails, TypeOK, session, ends, wakes, polls, subs
<1>12. ASSUME NEW h \in Posts, SyncFails(h) PROVE TypeOK'
  <2>1. Append(log, postReq[h]) \in Seq(Requests)
    BY <1>12 DEF SyncFails, TypeOK, RequestTaken
  <2>2. QED
    BY <1>12, <2>1 DEF SyncFails, Recorded, TypeOK, session, ends, wakes, polls, subs
<1>13. ASSUME NEW h \in Posts, Finish(h) PROVE TypeOK'
  <2>1. PICK verdict \in Verdicts :
          /\ terminal' = Ruled(verdict)
          /\ endedAt' = IF terminal = Open /\ verdict # Open THEN turnCount ELSE endedAt
          /\ subBuf' = Offer([reason |-> terminal', final |-> terminal' # Open])
          /\ IF terminal' # Open THEN Release ELSE UNCHANGED <<subClosed, a2aSubs>>
    BY <1>13 DEF Finish
  <2>2. terminal' \in Reasons /\ endedAt' \in Nat
    BY <2>1, VerdictType DEF Ruled, TypeOK
  <2>3. subBuf' \in [Subs -> Seq(Updates)]
    BY <2>1, <2>2, OfferType
  <2>4. a2aSubs' \subseteq Subs /\ subClosed' \subseteq Subs
    BY <2>1 DEF Release, TypeOK
  <2>5. QED
    BY <1>13, <2>2, <2>3, <2>4 DEF Finish, Renew, TypeOK, session, polls
<1>14. ASSUME NEW n \in toClose, CloseNotify(n) PROVE TypeOK'
  BY <1>14 DEF CloseNotify, TypeOK, session, ends, polls, posts, subs
<1>15. ASSUME Cancel PROVE TypeOK'
  <2>1. Canceled \in Reasons
    BY DEF Reasons
  <2>2. subBuf' \in [Subs -> Seq(Updates)]
    BY <1>15, <2>1, OfferType DEF Cancel
  <2>3. a2aSubs' \subseteq Subs /\ subClosed' \subseteq Subs
    BY <1>15 DEF Cancel, Release, TypeOK
  <2>4. notify' \in Nat /\ toClose' \subseteq Nat
    BY <1>15 DEF Cancel, Renew, TypeOK
  <2>5. terminal' \in Reasons /\ endedAt' \in Nat
    BY <1>15, <2>1 DEF Cancel, TypeOK
  <2>6. UNCHANGED <<session, pending, log, polls, posts, subAt, panics>>
    BY <1>15 DEF Cancel
  <2>7. QED
    BY <2>2, <2>3, <2>4, <2>5, <2>6 DEF TypeOK, session, polls, posts
<1>16. ASSUME NEW c \in Subs, Subscribe(c) PROVE TypeOK'
  BY <1>16 DEF Subscribe, TypeOK, session, ends, wakes, polls, posts
<1>17. ASSUME NEW c \in Subs, SubEnds(c) PROVE TypeOK'
  BY <1>17 DEF SubEnds, TypeOK, session, ends, wakes, polls, posts
<1>18. ASSUME NEW c \in Subs, SubLeaves(c) PROVE TypeOK'
  BY <1>18 DEF SubLeaves, TypeOK, session, ends, wakes, polls, posts
<1>19. ASSUME NEW c \in Subs, SubReceives(c) PROVE TypeOK'
  <2>1. Tail(subBuf[c]) \in Seq(Updates)
    BY <1>19 DEF SubReceives, TypeOK
  <2>2. QED
    BY <1>19, <2>1 DEF SubReceives, TypeOK, session, ends, wakes, polls, posts
<1>20. CASE UNCHANGED vars
  BY <1>20 DEF vars, TypeOK, session, ends, wakes, polls, posts, subs
<1>21. QED
  BY <1>1, <1>2, <1>3, <1>4, <1>5, <1>6, <1>7, <1>8, <1>9, <1>10, <1>11,
     <1>12, <1>13, <1>14, <1>15, <1>16, <1>17, <1>18, <1>19, <1>20
     DEF Next, handleCreateSession, handleA2ASend, PollTerminated, PollFails, PollTimesOut
-----------------------------------------------------------------------------
\* What the other invariants look at, but for the subscribers.
core == <<turnCount, pending, log, posts, ends>>

(* Only seven actions touch what the invariants of turns look at. *)
LEMMA CoreSteps ==
  ASSUME [Next]_vars
  PROVE  \/ UNCHANGED core
         \/ \E p \in Polls : PollExhausted(p) \/ PollServe(p)
         \/ \E h \in Posts, resp \in Responses : PostTurn(h, resp)
         \/ \E h \in Posts : AppendTurn(h) \/ PostFails(h) \/ SyncFails(h) \/ Finish(h)
         \/ Cancel
<1>1. ASSUME NEW by \in {"rest", "a2a"}, Create(by) PROVE UNCHANGED core
  BY <1>1 DEF Create, core
<1>2. ASSUME NEW p \in Polls, NEW r \in Roles \cup {NoRole}, PollStart(p, r)
      PROVE  UNCHANGED core
  BY <1>2 DEF PollStart, core, session
<1>3. ASSUME NEW p \in Polls,
             \/ PollTerminated(p) \/ PollFails(p) \/ PollPanics(p)
             \/ PollWaits(p) \/ PollWakes(p) \/ PollTimesOut(p)
      PROVE  UNCHANGED core
  BY <1>3 DEF PollTerminated, PollFails, PollPanics, PollWaits, PollWakes, PollTimesOut,
              core, session
<1>4. ASSUME NEW n \in toClose, CloseNotify(n) PROVE UNCHANGED core
  BY <1>4 DEF CloseNotify, core, session
<1>5. ASSUME NEW c \in Subs,
             Subscribe(c) \/ SubReceives(c) \/ SubEnds(c) \/ SubLeaves(c)
      PROVE  UNCHANGED core
  BY <1>5 DEF Subscribe, SubReceives, SubEnds, SubLeaves, core, session
<1>6. CASE UNCHANGED vars
  BY <1>6 DEF vars, core, session
<1>7. QED
  BY <1>1, <1>2, <1>3, <1>4, <1>5, <1>6 DEF Next, handleCreateSession, handleA2ASend

(* What a handler that records has taken stays a request. *)
LEMMA TakenNext ==
  ASSUME TInv, [Next]_vars PROVE RequestTaken'
<1>1. CASE UNCHANGED core
  BY <1>1 DEF core, posts, TInv, RequestTaken
<1>2. ASSUME NEW p \in Polls, PollExhausted(p) \/ PollServe(p) PROVE RequestTaken'
  BY <1>2 DEF PollExhausted, PollServe, posts, TInv, RequestTaken
<1>3. ASSUME NEW h \in Posts, NEW resp \in Responses, PostTurn(h, resp) PROVE RequestTaken'
  BY <1>3 DEF PostTurn, Counted, TInv, TypeOK, RequestTaken
<1>4. ASSUME NEW h \in Posts, AppendTurn(h) \/ PostFails(h) \/ SyncFails(h)
      PROVE  RequestTaken'
  BY <1>4 DEF AppendTurn, PostFails, SyncFails, TInv, TypeOK, RequestTaken
<1>5. ASSUME NEW h \in Posts, Finish(h) PROVE RequestTaken'
  BY <1>5 DEF Finish, TInv, TypeOK, RequestTaken
<1>6. CASE Cancel
  BY <1>6 DEF Cancel, posts, TInv, RequestTaken
<1>7. QED
  BY <1>1, <1>2, <1>3, <1>4, <1>5, <1>6, CoreSteps

(* PollServe checks the budget and PostTurn relies on it. *)
LEMMA CountNext ==
  ASSUME TInv, CountInv, [Next]_vars PROVE CountInv'
<1> USE TurnsAssumption DEF TInv, TypeOK, CountInv, PendingIsNext, WithinBudget
<1>1. CASE UNCHANGED core
  BY <1>1 DEF core
<1>2. ASSUME NEW p \in Polls, PollExhausted(p) PROVE CountInv'
  BY <1>2 DEF PollExhausted, session
<1>3. ASSUME NEW p \in Polls, PollServe(p) PROVE CountInv'
  BY <1>3 DEF PollServe, Playing, IsExhausted, NoTurnsLeft, session
<1>4. ASSUME NEW h \in Posts, NEW resp \in Responses, PostTurn(h, resp) PROVE CountInv'
  BY <1>4 DEF PostTurn, Counted, TakePending
<1>5. ASSUME NEW h \in Posts, AppendTurn(h) \/ PostFails(h) \/ SyncFails(h) \/ Finish(h)
      PROVE  CountInv'
  BY <1>5 DEF AppendTurn, PostFails, SyncFails, Finish, session
<1>6. CASE Cancel
  BY <1>6 DEF Cancel, session
<1>7. QED
  BY <1>1, <1>2, <1>3, <1>4, <1>5, <1>6, CoreSteps

(* A session that ended takes at most the request that was pending then. *)
LEMMA EndNext ==
  ASSUME TInv, CountInv, EndInv, [Next]_vars PROVE EndInv'
<1> USE DEF TInv, TypeOK, EndInv, LateTurnsBounded, LastIsPending
<1>1. CASE UNCHANGED core
  BY <1>1 DEF core, ends
<1>2. ASSUME NEW p \in Polls, PollExhausted(p) PROVE EndInv'
  BY <1>2 DEF PollExhausted, session
<1>3. ASSUME NEW p \in Polls, PollServe(p) PROVE EndInv'
  BY <1>3 DEF PollServe, Playing, session, ends
<1>4. ASSUME NEW h \in Posts, NEW resp \in Responses, PostTurn(h, resp) PROVE EndInv'
  BY <1>4 DEF PostTurn, Counted, TakePending, ends
<1>5. ASSUME NEW h \in Posts, AppendTurn(h) \/ PostFails(h) \/ SyncFails(h)
      PROVE  EndInv'
  BY <1>5 DEF AppendTurn, PostFails, SyncFails, session, ends
<1>6. ASSUME NEW h \in Posts, Finish(h) PROVE EndInv'
  BY <1>6 DEF Finish, Ruled, session
<1>7. CASE Cancel
  BY <1>7 DEF Cancel, session
<1>8. QED
  BY <1>1, <1>2, <1>3, <1>4, <1>5, <1>6, <1>7, CoreSteps

(* Turns in the log, or on the way there, are numbers. *)
LEMMA TurnNumbers ==
  ASSUME TInv
  PROVE  /\ \A i \in 1..Len(log) : log[i].turn \in Nat
         /\ \A k \in Posts : postAt[k] = "append" => postReq[k].turn \in Nat
<1>1. \A r \in Requests : r.turn \in Nat
  BY DEF Requests
<1>2. /\ \A i \in 1..Len(log) : log[i] \in Requests
      /\ \A k \in Posts : postAt[k] = "append" => postReq[k] \in Requests
  BY DEF TInv, TypeOK, RequestTaken
<1>3. QED
  BY <1>1, <1>2

(* A turn that goes into the log is one that was counted before and is not   *)
(* there yet.                                                                *)
LEMMA RecordKeeps ==
  ASSUME TInv, LogInv, NEW h \in Posts, postAt[h] = "append", Recorded(h),
         turnCount' = turnCount,
         \/ postAt' = [postAt EXCEPT ![h] = "replay"]
         \/ postAt' = [postAt EXCEPT ![h] = "idle"],
         postReq' = [postReq EXCEPT ![h] = NoReq]
  PROVE  LogInv'
<1>1. \A i \in 1..Len(log') :
        \/ i \in 1..Len(log) /\ log'[i] = log[i]
        \/ i = Len(log) + 1 /\ log'[i] = postReq[h]
  <2>1. log \in Seq(Requests) /\ postReq[h] \in Requests /\ log' = Append(log, postReq[h])
    BY DEF Recorded, TInv, TypeOK, RequestTaken
  <2>2. QED
    BY <2>1
<1>2. \A k \in Posts : postAt'[k] = "append" =>
        postAt[k] = "append" /\ postReq'[k] = postReq[k] /\ k # h
  BY DEF TInv, TypeOK
<1>3. RecordedCounted'
  BY <1>1, <1>2 DEF LogInv, RecordedCounted
<1>4. ASSUME NEW i \in 1..Len(log'), NEW j \in 1..Len(log'), log'[i].turn = log'[j].turn
      PROVE  i = j
  <2>1. \A a, b \in 1..Len(log) : log[a].turn = log[b].turn => a = b
    BY DEF LogInv, TurnsDistinct
  <2>2. \A a \in 1..Len(log) : log[a].turn # postReq[h].turn
    BY DEF LogInv, TurnsDistinct
  <2>3. CASE i \in 1..Len(log) /\ log'[i] = log[i]
    <3>1. ~(log'[j] = postReq[h])
      BY <1>4, <2>2, <2>3
    <3>2. j \in 1..Len(log) /\ log'[j] = log[j]
      BY <1>1, <3>1, Zenon
    <3>3. log[i].turn = log[j].turn
      BY <1>4, <2>3, <3>2
    <3>4. QED
      BY <2>1, <2>3, <3>2, <3>3, Zenon
  <2>4. CASE i = Len(log) + 1 /\ log'[i] = postReq[h]
    <3>1. ASSUME j \in 1..Len(log), log'[j] = log[j] PROVE FALSE
      <4>1. log[j].turn = postReq[h].turn
        BY <1>4, <2>4, <3>1
      <4>2. QED
        BY <2>2, <3>1, <4>1, Zenon
    <3>2. j = Len(log) + 1
      BY <1>1, <3>1, Zenon
    <3>3. QED
      BY <2>4, <3>2, Zenon
  <2>5. QED
    BY <1>1, <2>3, <2>4, Zenon
<1>5. ASSUME NEW k \in Posts, postAt'[k] = "append"
      PROVE  /\ \A i \in 1..Len(log') : log'[i].turn # postReq'[k].turn
             /\ \A l \in Posts : postAt'[l] = "append" /\ postReq'[l].turn = postReq'[k].turn => l = k
  <2>1. postAt[k] = "append" /\ postReq'[k] = postReq[k] /\ k # h
    BY <1>2, <1>5
  <2>2. /\ \A i \in 1..Len(log) : log[i].turn # postReq[k].turn
        /\ postReq[h].turn # postReq[k].turn
    BY <2>1 DEF LogInv, TurnsDistinct
  <2>3. \A i \in 1..Len(log') : log'[i].turn # postReq'[k].turn
    <3>1. ASSUME NEW i \in 1..Len(log') PROVE log'[i].turn # postReq'[k].turn
      <4>1. CASE i \in 1..Len(log) /\ log'[i] = log[i]
        BY <2>1, <2>2, <4>1
      <4>2. CASE i = Len(log) + 1 /\ log'[i] = postReq[h]
        BY <2>1, <2>2, <4>2
      <4>3. QED
        BY <1>1, <4>1, <4>2, Zenon
    <3>2. QED
      BY <3>1
  <2>4. ASSUME NEW l \in Posts, postAt'[l] = "append", postReq'[l].turn = postReq'[k].turn
        PROVE  l = k
    <3>1. postAt[l] = "append" /\ postReq'[l] = postReq[l]
      BY <1>2, <2>4
    <3>2. postReq[l].turn = postReq[k].turn
      BY <2>1, <2>4, <3>1
    <3>3. QED
      BY <2>1, <3>1, <3>2 DEF LogInv, TurnsDistinct
  <2>5. QED
    BY <2>3, <2>4
<1>6. QED
  BY <1>3, <1>4, <1>5 DEF LogInv, TurnsDistinct

(* No turn is recorded twice. *)
LEMMA LogNext ==
  ASSUME TInv, CountInv, LogInv, [Next]_vars PROVE LogInv'
<1>1. CASE UNCHANGED core
  BY <1>1 DEF core, posts, LogInv, RecordedCounted, TurnsDistinct
<1>2. ASSUME NEW p \in Polls, PollExhausted(p) \/ PollServe(p) PROVE LogInv'
  BY <1>2 DEF PollExhausted, PollServe, session, posts, LogInv, RecordedCounted, TurnsDistinct
<1>3. ASSUME NEW h \in Posts, NEW resp \in Responses, PostTurn(h, resp) PROVE LogInv'
  <2>1. /\ pending \in Requests /\ pending.turn = turnCount + 1
        /\ turnCount' = turnCount + 1 /\ log' = log
        /\ postReq' = [postReq EXCEPT ![h] = pending]
        /\ postAt' = [postAt EXCEPT ![h] = "append"] /\ postAt[h] = "idle"
    BY <1>3 DEF PostTurn, Counted, CountInv, PendingIsNext, TInv, TypeOK
  <2>2. /\ \A k \in Posts : postAt'[k] = "append" =>
             \/ k = h /\ postReq'[k] = pending
             \/ k # h /\ postAt[k] = "append" /\ postReq'[k] = postReq[k]
        /\ turnCount \in Nat
    BY <2>1 DEF TInv, TypeOK
  <2>3. RecordedCounted'
    <3>1. ASSUME NEW i \in 1..Len(log') PROVE log'[i].turn <= turnCount'
      BY <2>1, <2>2, TurnNumbers DEF LogInv, RecordedCounted
    <3>2. ASSUME NEW k \in Posts, postAt'[k] = "append" PROVE postReq'[k].turn <= turnCount'
      BY <2>1, <2>2, <3>2, TurnNumbers DEF LogInv, RecordedCounted
    <3>3. QED
      BY <3>1, <3>2 DEF RecordedCounted
  <2>4. TurnsDistinct'
    <3>1. /\ \A i \in 1..Len(log) : log[i].turn # pending.turn
          /\ \A k \in Posts : postAt[k] = "append" => postReq[k].turn # pending.turn
      BY <2>1, <2>2, TurnNumbers DEF LogInv, RecordedCounted
    <3>2. ASSUME NEW k \in Posts, postAt'[k] = "append", NEW i \in 1..Len(log')
          PROVE  log'[i].turn # postReq'[k].turn
      BY <2>1, <2>2, <3>1, <3>2 DEF LogInv, TurnsDistinct
    <3>3. ASSUME NEW k \in Posts, postAt'[k] = "append", NEW l \in Posts, postAt'[l] = "append",
                 postReq'[l].turn = postReq'[k].turn
          PROVE  l = k
      BY <2>2, <3>1, <3>3 DEF LogInv, TurnsDistinct
    <3>4. \A i, j \in 1..Len(log') : log'[i].turn = log'[j].turn => i = j
      BY <2>1 DEF LogInv, TurnsDistinct
    <3>5. QED
      BY <3>2, <3>3, <3>4, Zenon DEF TurnsDistinct
  <2>5. QED
    BY <2>3, <2>4 DEF LogInv
<1>4. ASSUME NEW h \in Posts, AppendTurn(h) \/ SyncFails(h) PROVE LogInv'
  BY <1>4, RecordKeeps DEF AppendTurn, SyncFails, session
<1>5. ASSUME NEW h \in Posts, PostFails(h) \/ Finish(h) PROVE LogInv'
  <2>1. /\ turnCount' = turnCount /\ log' = log
        /\ \A k \in Posts : postAt'[k] = "append" =>
             postAt[k] = "append" /\ postReq'[k] = postReq[k]
    BY <1>5 DEF PostFails, Finish, session, TInv, TypeOK
  <2>2. QED
    BY <2>1 DEF LogInv, RecordedCounted, TurnsDistinct
<1>6. CASE Cancel
  BY <1>6 DEF Cancel, session, posts, LogInv, RecordedCounted, TurnsDistinct
<1>7. QED
  BY <1>1, <1>2, <1>3, <1>4, <1>5, <1>6, CoreSteps

(* Only Finish and Cancel end a session that has subscribers and tell them,  *)
(* and a channel is closed by whoever takes it out of the list.              *)
LEMMA SubsNext ==
  ASSUME TInv, SubsInv, [Next]_vars PROVE SubsInv'
<1> USE DEF TInv, TypeOK, SubsInv, SubsOpen, EndReleasesSubs
<1>1. CASE UNCHANGED <<subs, ends>>
  BY <1>1 DEF subs, ends
<1>2. ASSUME NEW p \in Polls, PollExhausted(p) PROVE SubsInv'
  BY <1>2 DEF PollExhausted, subs
<1>3. ASSUME NEW h \in Posts, Finish(h) PROVE SubsInv'
  BY <1>3 DEF Finish, Release
<1>4. CASE Cancel
  BY <1>4 DEF Cancel, Release
<1>5. ASSUME NEW c \in Subs, Subscribe(c) PROVE SubsInv'
  BY <1>5 DEF Subscribe, ends
<1>6. ASSUME NEW c \in Subs, SubLeaves(c) PROVE SubsInv'
  BY <1>6 DEF SubLeaves, ends
<1>7. ASSUME NEW c \in Subs, SubReceives(c) \/ SubEnds(c) PROVE SubsInv'
  BY <1>7 DEF SubReceives, SubEnds, ends
<1>8. ASSUME NEW p \in Polls,
             \/ \E r \in Roles \cup {NoRole} : PollStart(p, r)
             \/ PollTerminated(p) \/ PollFails(p) \/ PollServe(p) \/ PollPanics(p)
             \/ PollWaits(p) \/ PollWakes(p) \/ PollTimesOut(p)
      PROVE  UNCHANGED <<subs, ends>>
  BY <1>8 DEF PollStart, PollTerminated, PollFails, PollServe, PollPanics, PollWaits,
              PollWakes, PollTimesOut
<1>9. ASSUME NEW h \in Posts,
             \/ \E resp \in Responses : PostTurn(h, resp)
             \/ AppendTurn(h) \/ PostFails(h) \/ SyncFails(h)
      PROVE  UNCHANGED <<subs, ends>>
  BY <1>9 DEF PostTurn, AppendTurn, PostFails, SyncFails
<1>10. ASSUME \/ handleCreateSession \/ handleA2ASend
              \/ \E n \in toClose : CloseNotify(n)
       PROVE  UNCHANGED <<subs, ends>>
  BY <1>10 DEF handleCreateSession, handleA2ASend, Create, CloseNotify
<1>11. CASE UNCHANGED vars
  BY <1>1, <1>11 DEF vars
<1>12. QED
  BY <1>1, <1>2, <1>3, <1>4, <1>5, <1>6, <1>7, <1>8, <1>9, <1>10, <1>11, Zenon DEF Next
-----------------------------------------------------------------------------
(* The inductive invariant holds of a broker that has made no session yet. *)
LEMMA InitInv ==
  Init => IInv
<1> SUFFICES ASSUME Init PROVE IInv
  OBVIOUS
<1>1. TInv
  <2>1. Open \in Reasons
    BY DEF Reasons
  <2>2. QED
    BY <2>1 DEF Init, TInv, TypeOK, RequestTaken
<1>2. CountInv /\ EndInv
  BY TurnsAssumption DEF Init, CountInv, PendingIsNext, WithinBudget, EndInv, LateTurnsBounded,
                         LastIsPending
<1>3. LogInv
  BY DEF Init, LogInv, RecordedCounted, TurnsDistinct
<1>4. SubsInv
  BY DEF Init, SubsInv, SubsOpen, EndReleasesSubs
<1>5. QED
  BY <1>1, <1>2, <1>3, <1>4 DEF IInv

(* Every step of every handler keeps it. *)
LEMMA Inductive ==
  IInv /\ [Next]_vars => IInv'
BY TypeNext, TakenNext, CountNext, EndNext, LogNext, SubsNext DEF IInv, TInv

(* IInv holds in every reachable state. *)
THEOREM Invariance ==
  Spec => []IInv
BY InitInv, Inductive, PTL DEF Spec

(* The session's record and the handlers' locals have their types whatever   *)
(* the preset, the runners and the clients do: router.Next gives a role of   *)
(* the preset, Evaluate a reason.                                            *)
THEOREM TypeCorrect ==
  Spec => []TypeOK
<1>1. IInv => TypeOK
  BY DEF IInv, TInv
<1>2. QED
  BY <1>1, Invariance, PTL

(* However many runners poll and post, and although handlePostTurn looks at  *)
(* neither the budget nor the session's end, no more turns are counted than  *)
(* the preset's budget has, and at most one after the end.                   *)
THEOREM BudgetKept ==
  Spec => []TurnsBounded
<1>1. IInv => TurnsBounded
  BY DEF IInv, CountInv, EndInv, TurnsBounded
<1>2. QED
  BY <1>1, Invariance, PTL

(* A turn gets into log.jsonl at most once, with any number of runners that  *)
(* were given it and of posts for it, and with failing writes.               *)
THEOREM RecordedOnce ==
  Spec => []TurnsDistinct
<1>1. IInv => TurnsDistinct
  BY DEF IInv, LogInv
<1>2. QED
  BY <1>1, Invariance, PTL

(* No event is sent on a closed channel, and no channel is closed twice, by  *)
(* handlePostTurn and handleA2ACancel; and a session that is ended by an     *)
(* exit condition or by CancelTask has told every subscriber.                *)
THEOREM SubscribersReleased ==
  Spec => []SubsReleased
<1>1. IInv => SubsReleased
  BY DEF IInv, SubsInv, SubsReleased
<1>2. QED
  BY <1>1, Invariance, PTL

(* No step revives an ended session or makes a request pending for it. *)
LEMMA EndStep ==
  ASSUME [Next]_vars, terminal # Open
  PROVE  terminal' # Open /\ pending' \in {pending, NoReq}
<1>1. CASE UNCHANGED core
  BY <1>1 DEF core, ends
<1>2. ASSUME NEW p \in Polls, PollExhausted(p) \/ PollServe(p) PROVE FALSE
  BY <1>2 DEF PollExhausted, PollServe, Playing
<1>3. ASSUME NEW h \in Posts, NEW resp \in Responses, PostTurn(h, resp)
      PROVE  terminal' # Open /\ pending' \in {pending, NoReq}
  BY <1>3 DEF PostTurn, TakePending, ends
<1>4. ASSUME NEW h \in Posts, AppendTurn(h) \/ PostFails(h) \/ SyncFails(h)
      PROVE  terminal' # Open /\ pending' \in {pending, NoReq}
  BY <1>4 DEF AppendTurn, PostFails, SyncFails, ends
<1>5. ASSUME NEW h \in Posts, Finish(h)
      PROVE  terminal' # Open /\ pending' \in {pending, NoReq}
  BY <1>5 DEF Finish, Ruled
<1>6. CASE Cancel
  BY <1>6 DEF Cancel
<1>7. QED
  BY <1>1, <1>2, <1>3, <1>4, <1>5, <1>6, CoreSteps

(* An ended session stays ended and hands out no turn: not even the second   *)
(* half of a post, which began before the end, revives it.                   *)
THEOREM EndKept ==
  Spec => EndIsFinal
<1>1. [Next]_vars =>
        [terminal # Open => terminal' # Open /\ pending' \in {pending, NoReq}]_vars
  BY EndStep
<1>2. QED
  BY <1>1, PTL DEF Spec, EndIsFinal
-----------------------------------------------------------------------------
(* A poll waits on a notify channel that exists already. *)
WaitsOnMade == \A p \in Polls : pollOn[p] <= notify

WakeInv == WaitsOnMade /\ NoSleepingRole

(* While a post is under way nothing is claimed of those who wait. *)
LEMMA PostingIsNotQuiet ==
  ASSUME TypeOK, NEW h \in Posts, NEW at \in {"append", "replay"},
         postAt' = [postAt EXCEPT ![h] = at]
  PROVE  ~Quiet'
BY DEF TypeOK, Quiet

(* Without faults a post that has begun ends in Finish, which replaces the   *)
(* channel; so does Cancel.  Whoever waits on the one they made has looked   *)
(* at the session since.                                                     *)
LEMMA WakeNext ==
  ASSUME Faults = {}, TypeOK, TypeOK', WakeInv, [Next]_vars
  PROVE  WakeInv'
<1> USE DEF WakeInv
<1>1. ASSUME NEW p \in Polls, PollReturns(p),
             UNCHANGED <<session, wakes, posts>>,
             terminal' = terminal \/ IsExhausted
      PROVE  WakeInv'
  <2>1. WaitsOnMade'
    BY <1>1 DEF PollReturns, WaitsOnMade, wakes, TypeOK
  <2>2. ASSUME Quiet', NEW q \in Polls, pollAt'[q] = "wait", pollOn'[q] = notify'
        PROVE  (terminal = Open /\ ~IsExhausted /\ ~Mine(q))'
    <3>1. Quiet /\ pollAt[q] = "wait" /\ pollOn[q] = notify /\ pollAs'[q] = pollAs[q]
      BY <1>1, <2>2 DEF PollReturns, Quiet, posts, wakes, TypeOK
    <3>2. terminal = Open /\ ~IsExhausted /\ ~Mine(q)
      BY <3>1 DEF NoSleepingRole
    <3>3. QED
      BY <1>1, <3>1, <3>2 DEF IsExhausted, NoTurnsLeft, NoTokensLeft, Mine, NextRole, Blocked,
                              Asked, slot, session
  <2>3. QED
    BY <2>1, <2>2 DEF NoSleepingRole
<1>2. ASSUME NEW p \in Polls, PollWaits(p) PROVE WakeInv'
  <2>1. WaitsOnMade'
    BY <1>2 DEF PollWaits, WaitsOnMade, wakes, TypeOK
  <2>2. ASSUME Quiet', NEW q \in Polls, pollAt'[q] = "wait", pollOn'[q] = notify'
        PROVE  (terminal = Open /\ ~IsExhausted /\ ~Mine(q))'
    <3>1. terminal = Open /\ ~IsExhausted /\ ~Mine(q)
      <4>1. CASE q = p
        BY <1>2, <4>1 DEF PollWaits, Playing
      <4>2. CASE q # p
        <5>1. Quiet /\ pollAt[q] = "wait" /\ pollOn[q] = notify
          BY <1>2, <2>2, <4>2 DEF PollWaits, Quiet, posts, wakes, TypeOK
        <5>2. QED
          BY <5>1 DEF NoSleepingRole
      <4>3. QED
        BY <4>1, <4>2
    <3>2. QED
      BY <1>2, <3>1 DEF PollWaits, IsExhausted, NoTurnsLeft, NoTokensLeft, Mine, NextRole,
                        Blocked, Asked, slot, session, ends
  <2>3. QED
    BY <2>1, <2>2 DEF NoSleepingRole
<1>3. ASSUME NEW p \in Polls, \/ \E r \in Roles \cup {NoRole} : PollStart(p, r)
                              \/ PollWakes(p)
      PROVE  WakeInv'
  <2>1. /\ UNCHANGED <<session, ends, wakes, posts>>
        /\ pollAt'[p] # "wait" /\ pollOn'[p] \in {pollOn[p], 0}
        /\ \A q \in Polls \ {p} :
             pollAt'[q] = pollAt[q] /\ pollOn'[q] = pollOn[q] /\ pollAs'[q] = pollAs[q]
    BY <1>3 DEF PollStart, PollWakes, TypeOK
  <2>2. WaitsOnMade'
    BY <2>1, SMTT(30) DEF WaitsOnMade, wakes, TypeOK
  <2>3. ASSUME Quiet', NEW q \in Polls, pollAt'[q] = "wait", pollOn'[q] = notify'
        PROVE  (terminal = Open /\ ~IsExhausted /\ ~Mine(q))'
    <3>1. /\ Quiet /\ pollAt[q] = "wait" /\ pollOn[q] = notify /\ pollAs'[q] = pollAs[q]
      BY <2>1, <2>3 DEF Quiet, posts, wakes
    <3>2. terminal = Open /\ ~IsExhausted /\ ~Mine(q)
      BY <3>1 DEF NoSleepingRole
    <3>3. QED
      BY <2>1, <3>1, <3>2 DEF IsExhausted, NoTurnsLeft, NoTokensLeft, Mine, NextRole, Blocked,
                              Asked, slot, session, ends
  <2>4. QED
    BY <2>2, <2>3 DEF NoSleepingRole
<1>4. ASSUME NEW h \in Posts, \/ \E resp \in Responses : PostTurn(h, resp)
                              \/ AppendTurn(h)
      PROVE  WakeInv'
  <2>1. ~Quiet' /\ UNCHANGED <<wakes, polls>>
    BY <1>4, PostingIsNotQuiet DEF PostTurn, Counted, AppendTurn
  <2>2. QED
    BY <2>1 DEF NoSleepingRole, WaitsOnMade, wakes, polls
<1>5. ASSUME Renew, UNCHANGED polls PROVE WakeInv'
  <2>1. \A p \in Polls : pollOn'[p] <= notify /\ notify' = notify + 1
    BY <1>5 DEF WaitsOnMade, Renew, polls
  <2>2. \A p \in Polls : pollOn'[p] <= notify' /\ pollOn'[p] # notify'
    BY <2>1 DEF TypeOK
  <2>3. QED
    BY <2>2 DEF NoSleepingRole, WaitsOnMade
<1>6. ASSUME UNCHANGED <<turnCount, used, dryRounds, lastResp, ends, notify, polls, posts>>
      PROVE  WakeInv'
  BY <1>6 DEF NoSleepingRole, WaitsOnMade, Quiet, IsExhausted, NoTurnsLeft, NoTokensLeft, Mine,
              NextRole, Blocked, Asked, slot, ends, polls, posts
<1>7. ASSUME NEW p \in Polls,
             \/ PollTerminated(p) \/ PollExhausted(p) \/ PollFails(p)
             \/ PollServe(p) \/ PollPanics(p) \/ PollTimesOut(p)
      PROVE  WakeInv'
  BY <1>1, <1>7 DEF PollTerminated, PollExhausted, PollFails, PollServe, PollPanics,
                    PollTimesOut, ends
<1>8. ASSUME NEW h \in Posts, PostFails(h) \/ SyncFails(h) \/ Finish(h) PROVE WakeInv'
  BY <1>5, <1>8 DEF PostFails, SyncFails, Finish
<1>9. CASE Cancel
  BY <1>5, <1>9 DEF Cancel
<1>10. CASE \/ handleCreateSession \/ handleA2ASend
            \/ \E n \in toClose : CloseNotify(n)
            \/ \E c \in Subs : Subscribe(c) \/ SubReceives(c) \/ SubEnds(c) \/ SubLeaves(c)
  BY <1>6, <1>10 DEF handleCreateSession, handleA2ASend, Create, CloseNotify, Subscribe,
                     SubReceives, SubEnds, SubLeaves, session, wakes
<1>11. CASE UNCHANGED vars
  BY <1>6, <1>11 DEF vars, session, wakes
<1>12. QED
  BY <1>2, <1>3, <1>4, <1>7, <1>8, <1>9, <1>10, <1>11, Zenon DEF Next

(* Without faults no wake-up is lost between the post or the cancellation    *)
(* that changes whose turn it is and the close of the channel they replace:  *)
(* whatever the number of runners, the preset and the routing, a poll sleeps *)
(* on the current channel only while another role's turn is due in a session *)
(* that goes on.                                                             *)
THEOREM NobodySleeps ==
  ASSUME Faults = {} PROVE Spec => []NoSleepingRole
<1>1. Init => WakeInv
  BY DEF Init, WakeInv, WaitsOnMade, NoSleepingRole
<1>2. IInv /\ IInv' /\ WakeInv /\ [Next]_vars => WakeInv'
  BY WakeNext DEF IInv, TInv
<1>3. WakeInv => NoSleepingRole
  BY DEF WakeInv
<1>4. QED
  BY <1>1, <1>2, <1>3, Invariance, PTL DEF Spec
-----------------------------------------------------------------------------
(* The posts that have counted a turn and not recorded it yet. *)
recording == {h \in Posts : postAt[h] = "append"}

(* Every turn counted is in the log or on its way there. *)
AllAccounted ==
  IsFiniteSet(recording) /\ Len(log) + Cardinality(recording) = turnCount

(* Without faults the only way out of the append is into the log. *)
LEMMA AccountNext ==
  ASSUME Faults = {}, TypeOK, RequestTaken, AllAccounted, [Next]_vars
  PROVE  AllAccounted'
<1> USE DEF AllAccounted
<1>1. ASSUME turnCount' = turnCount, log' = log, recording' = recording PROVE AllAccounted'
  BY <1>1
<1>2. CASE UNCHANGED core
  BY <1>1, <1>2 DEF core, posts, recording
<1>3. ASSUME NEW p \in Polls, PollExhausted(p) \/ PollServe(p) PROVE AllAccounted'
  BY <1>1, <1>3 DEF PollExhausted, PollServe, session, posts, recording
<1>4. ASSUME NEW h \in Posts, NEW resp \in Responses, PostTurn(h, resp) PROVE AllAccounted'
  <2>1. /\ recording' = recording \cup {h} /\ h \notin recording
        /\ turnCount' = turnCount + 1 /\ log' = log
    BY <1>4 DEF PostTurn, Counted, recording, TypeOK
  <2>2. IsFiniteSet(recording') /\ Cardinality(recording') = Cardinality(recording) + 1
    BY <2>1, FS_AddElement
  <2>3. Cardinality(recording) \in Nat /\ Len(log) \in Nat
    BY FS_CardinalityType DEF TypeOK
  <2>4. QED
    BY <2>1, <2>2, <2>3
<1>5. ASSUME NEW h \in Posts, AppendTurn(h) PROVE AllAccounted'
  <2>1. /\ recording' = recording \ {h} /\ h \in recording
        /\ turnCount' = turnCount /\ log' = Append(log, postReq[h])
    BY <1>5 DEF AppendTurn, Recorded, recording, session, TypeOK
  <2>2. IsFiniteSet(recording') /\ Cardinality(recording') = Cardinality(recording) - 1
    BY <2>1, FS_RemoveElement
  <2>3. Cardinality(recording) \in Nat /\ Len(log) \in Nat
    BY FS_CardinalityType DEF TypeOK
  <2>4. Len(log') = Len(log) + 1
    BY <1>5, <2>1 DEF AppendTurn, TypeOK, RequestTaken
  <2>5. QED
    BY <2>1, <2>2, <2>3, <2>4
<1>6. ASSUME NEW h \in Posts, PostFails(h) \/ SyncFails(h) \/ Finish(h) PROVE AllAccounted'
  <2>1. Finish(h)
    BY <1>6 DEF PostFails, SyncFails
  <2>2. QED
    BY <1>1, <2>1 DEF Finish, recording, session, TypeOK
<1>7. CASE Cancel
  BY <1>1, <1>7 DEF Cancel, recording, session, posts
<1>8. QED
  BY <1>2, <1>3, <1>4, <1>5, <1>6, <1>7, CoreSteps

(* Without faults log.jsonl has every turn that was counted, once nobody is  *)
(* recording, whatever the order in which posts that overlap get there.      *)
THEOREM NothingUnlogged ==
  ASSUME Faults = {} PROVE Spec => []EveryTurnLogged
<1>1. Init => AllAccounted
  <2>1. Init => recording = {} /\ Len(log) = 0 /\ turnCount = 0
    BY DEF Init, recording
  <2>2. QED
    BY <2>1, FS_EmptySet DEF AllAccounted
<1>2. IInv /\ AllAccounted /\ [Next]_vars => AllAccounted'
  BY AccountNext DEF IInv, TInv
<1>3. IInv /\ AllAccounted => EveryTurnLogged
  <2> SUFFICES ASSUME IInv, AllAccounted, Quiet PROVE Len(log) = turnCount
    BY DEF EveryTurnLogged
  <2>1. recording = {}
    BY DEF Quiet, recording
  <2>2. Cardinality(recording) = 0 /\ Len(log) \in Nat
    BY <2>1, FS_EmptySet DEF IInv, TInv, TypeOK
  <2>3. QED
    BY <2>2 DEF AllAccounted
<1>4. QED
  BY <1>1, <1>2, <1>3, Invariance, PTL DEF Spec
-----------------------------------------------------------------------------
(* The preset lists turns_exhausted, and no condition before it needs a      *)
(* shell, which the broker refuses to start.                                 *)
TurnsListed ==
  \E i \in 1..Len(ExitWhen) :
    ExitWhen[i] = "turns_exhausted" /\ \A j \in 1..(i - 1) : ExitWhen[j] \notin Shell

(* A set of numbers that is not empty has a least one. *)
LEMMA LeastNat ==
  ASSUME NEW S \in SUBSET Nat, S # {}
  PROVE  \E x \in S : \A y \in S : x <= y
<1> DEFINE R == OpToRel(<, Nat)
<1>1. \E x \in S : \A y \in S : ~(<<y, x>> \in R)
  BY NatLessThanWellFounded, WFMin, Zenon
<1>2. \A x, y \in Nat : y < x => <<y, x>> \in R
  BY Zenon DEF OpToRel
<1> HIDE DEF R
<1>3. PICK x \in S : \A y \in S : ~(<<y, x>> \in R)
  BY <1>1
<1>4. ASSUME NEW y \in S PROVE ~(y < x)
  BY <1>2, <1>3, Zenon
<1>5. \A y \in S : x <= y
  BY <1>4
<1>6. QED
  BY <1>5

(* Evaluate gives a reason as soon as no turn is left: turns_exhausted or a  *)
(* condition listed before it.                                               *)
LEMMA ExhaustedIsRuled ==
  ASSUME TurnsListed, NoTurnsLeft, NEW late \in BOOLEAN, NEW stuck \in BOOLEAN
  PROVE  Evaluate(late, stuck) \subseteq Conditions
<1> DEFINE Hit(i) == Matches(ExitWhen[i], late, stuck)
           hits   == {i \in 1..Len(ExitWhen) : Hit(i)}
           first  == {i \in 1..Len(ExitWhen) :
                        Hit(i) /\ \A j \in 1..(i - 1) : ExitWhen[j] \notin Shell /\ ~Hit(j)}
<1>1. PICK n \in 1..Len(ExitWhen) :
        ExitWhen[n] = "turns_exhausted" /\ \A j \in 1..(n - 1) : ExitWhen[j] \notin Shell
  BY DEF TurnsListed
<1>2. Hit(n)
  BY <1>1 DEF Matches
<1>3. Len(ExitWhen) \in Nat /\ \A i \in 1..Len(ExitWhen) : ExitWhen[i] \in Conditions
  BY TurnsAssumption
<1> HIDE DEF Hit
<1>4. hits \in SUBSET Nat /\ n \in hits
  BY <1>2, <1>3
<1> HIDE DEF hits
<1>5. PICK m \in hits : \A i \in hits : m <= i
  BY <1>4, LeastNat
<1>6. m \in 1..Len(ExitWhen) /\ Hit(m) /\ m <= n
  BY <1>4, <1>5 DEF hits
<1>7. \A j \in 1..(m - 1) : j \in 1..(n - 1) /\ j \notin hits /\ j \in 1..Len(ExitWhen)
  BY <1>3, <1>4, <1>5, <1>6
<1>8. m \in first
  BY <1>1, <1>6, <1>7 DEF hits
<1>9. Evaluate(late, stuck) = IF first = {} THEN {Open} ELSE {ExitWhen[i] : i \in first}
  BY Zenon DEF Evaluate, Hit
<1>10. first \subseteq 1..Len(ExitWhen)
  OBVIOUS
<1> HIDE DEF first
<1>11. QED
  BY <1>3, <1>8, <1>9, <1>10

(* A session counts no turn before it is made. *)
UnmadeIsNew == made = "none" => turnCount = 0 /\ pending = NoReq

EndsInv == UnmadeIsNew /\ ExhaustionEnds

(* The post that takes the last turn ends the session when it evaluates the  *)
(* exit conditions, also one that a poll had ended on its tokens before.     *)
LEMMA EndsNext ==
  ASSUME Faults = {}, MaxTurns > 0, TurnsListed, TypeOK, EndsInv, [Next]_vars
  PROVE  EndsInv'
<1> USE TurnsAssumption DEF EndsInv, UnmadeIsNew, ExhaustionEnds, TypeOK
<1>1. ASSUME NEW by \in {"rest", "a2a"}, Create(by) PROVE EndsInv'
  BY <1>1 DEF Create
<1>2. ASSUME UNCHANGED <<made, core>> PROVE EndsInv'
  BY <1>2 DEF core, Quiet, posts, ends
<1>3. ASSUME NEW p \in Polls, PollExhausted(p) PROVE EndsInv'
  BY <1>3 DEF PollExhausted, Quiet, session, posts, Open, Budget
<1>4. ASSUME NEW p \in Polls, PollServe(p) PROVE EndsInv'
  BY <1>4 DEF PollServe, Quiet, session, posts, ends
<1>5. ASSUME NEW h \in Posts, NEW resp \in Responses, PostTurn(h, resp) PROVE EndsInv'
  <2>1. ~Quiet'
    BY <1>5, PostingIsNotQuiet DEF PostTurn, Counted
  <2>2. made # "none" /\ made' = made
    BY <1>5 DEF PostTurn, Counted
  <2>3. QED
    BY <2>1, <2>2
<1>6. ASSUME NEW h \in Posts, AppendTurn(h) PROVE EndsInv'
  <2>1. ~Quiet'
    BY <1>6, PostingIsNotQuiet DEF AppendTurn
  <2>2. QED
    BY <1>6, <2>1 DEF AppendTurn, session
<1>7. ASSUME NEW h \in Posts, Finish(h) PROVE EndsInv'
  <2>1. UNCHANGED <<session, pending>>
    BY <1>7 DEF Finish
  <2>2. ASSUME turnCount >= MaxTurns PROVE terminal' \notin {Open, Budget}
    <3>1. \A late, stuck \in BOOLEAN : Evaluate(late, stuck) \subseteq Conditions
      BY <2>2, ExhaustedIsRuled DEF NoTurnsLeft
    <3>2. Verdicts \subseteq Conditions
      BY <3>1 DEF Verdicts, Evaluated
    <3>3. Open \notin Conditions /\ Budget \notin Conditions
      BY DEF Open, Budget, Conditions, Shell
    <3>4. QED
      BY <1>7, <3>2, <3>3 DEF Finish, Ruled
  <2>3. QED
    BY <2>1, <2>2 DEF session
<1>8. CASE Cancel
  BY <1>8 DEF Cancel, session, Open, Budget, Canceled
<1>9. ASSUME NEW p \in Polls,
             \/ \E r \in Roles \cup {NoRole} : PollStart(p, r)
             \/ PollTerminated(p) \/ PollFails(p) \/ PollPanics(p)
             \/ PollWaits(p) \/ PollWakes(p) \/ PollTimesOut(p)
      PROVE  EndsInv'
  <2>1. UNCHANGED <<made, core>>
    BY <1>9 DEF PollStart, PollTerminated, PollFails, PollPanics, PollWaits, PollWakes,
                PollTimesOut, core, session
  <2>2. QED
    BY <1>2, <2>1
<1>10. CASE \/ \E n \in toClose : CloseNotify(n)
            \/ \E c \in Subs : Subscribe(c) \/ SubReceives(c) \/ SubEnds(c) \/ SubLeaves(c)
  <2>1. UNCHANGED <<made, core>>
    BY <1>10 DEF CloseNotify, Subscribe, SubReceives, SubEnds, SubLeaves, core, session
  <2>2. QED
    BY <1>2, <2>1
<1>11. CASE UNCHANGED vars
  <2>1. UNCHANGED <<made, core>>
    BY <1>11 DEF vars, core, session
  <2>2. QED
    BY <1>2, <2>1
<1>12. ASSUME NEW h \in Posts, PostFails(h) \/ SyncFails(h) PROVE FALSE
  BY <1>12 DEF PostFails, SyncFails
<1>13. QED
  BY <1>1, <1>3, <1>4, <1>5, <1>6, <1>7, <1>8, <1>9, <1>10, <1>11, <1>12, Zenon
     DEF Next, handleCreateSession, handleA2ASend

(* Without faults a preset with turns in its budget that lists               *)
(* turns_exhausted before every shell condition ends its session with the    *)
(* last turn, by an exit condition or a cancellation: never is it left open, *)
(* nor to a poll that finds the budget exhausted and tells nobody.           *)
THEOREM LastTurnEnds ==
  ASSUME Faults = {}, MaxTurns > 0, TurnsListed
  PROVE  Spec => []ExhaustionEnds
<1>1. Init => EndsInv
  BY DEF Init, EndsInv, UnmadeIsNew, ExhaustionEnds
<1>2. IInv /\ EndsInv /\ [Next]_vars => EndsInv'
  BY EndsNext DEF IInv, TInv
<1>3. EndsInv => ExhaustionEnds
  BY DEF EndsInv
<1>4. QED
  BY <1>1, <1>2, <1>3, Invariance, PTL DEF Spec
=============================================================================
