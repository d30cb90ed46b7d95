------------------------------- MODULE MCTurns ------------------------------
(* Instances of Turns for TLC. *)
EXTENDS Turns, TLC

CONSTANTS a, b, reviewer, p1, p2, h1, h2, c1

Resp(eval, done, handoff, fresh, tokens) ==
  [eval |-> eval, done |-> done, handoff |-> handoff, fresh |-> fresh, tokens |-> tokens]

Works    == Resp("uncertain", FALSE, NoRole, TRUE, 1)
Idles    == Resp("uncertain", FALSE, NoRole, FALSE, 0)
HandsToA == Resp("uncertain", FALSE, a, TRUE, 1)
Blocks   == Resp("blocked", FALSE, NoRole, FALSE, 0)
Approves == Resp("confident", TRUE, NoRole, TRUE, 0)

TwoRoles   == <<a, b>>
TwoPolls   == {p1, p2}
TwoPosts   == {h1, h2}
OnePoll    == {p1}
OnePost    == {h1}
OneSub     == {c1}
NoSubs     == {}

Talk       == {Works, HandsToA, Blocks, Approves}
Busy       == {Idles, Works, HandsToA}

\* fake-demo's conditions, and others that no preset combines.
FakeDemo   == <<"turns_exhausted", "reviewer_approved", "deadline_passed">>
Guarded    == <<"reviewer_approved", "dry_rounds", "tokens_exhausted", "turns_exhausted">>

AllFaults  == {"client", "disk"}
NoFaults   == {}
Symmetry   == Permutations(TwoPolls) \cup Permutations(TwoPosts)
=============================================================================
