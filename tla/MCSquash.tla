------------------------------ MODULE MCSquash ------------------------------
(* Instances of Squash for TLC. *)
EXTENDS Squash, TLC

CONSTANTS a, b, reviewer, p1, p2, p3, h1, h2

Resp(eval, done, handoff, fresh, tokens) ==
  [eval |-> eval, done |-> done, handoff |-> handoff, fresh |-> fresh, tokens |-> tokens]

TwoRoles == <<a, b>>
Answers  == {Resp("uncertain", FALSE, NoRole, TRUE, 1),   \* works
             Resp("blocked", FALSE, NoRole, FALSE, 0),    \* and there is no reviewer
             Resp("uncertain", TRUE, NoRole, TRUE, 0),    \* is done
             Resp("confident", TRUE, NoRole, TRUE, 0)}    \* approves

FakeDemo == <<"turns_exhausted", "reviewer_approved", "deadline_passed">>
=============================================================================
