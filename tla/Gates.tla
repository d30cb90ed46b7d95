------------------------------- MODULE Gates --------------------------------
(***************************************************************************)
(* The gate pipeline that a step of a cycle runs: preflight, audit, the    *)
(* cycle's local gates, claim, philosophy, polish and commit.  The gates   *)
(* look at one working tree, one after the other, while an agent edits it, *)
(* commits or changes the branch.                                          *)
(*                                                                         *)
(* A change is a model value.  A broken change makes every command fail    *)
(* that is run while it is in the tree; a flawed one makes the scanners    *)
(* report one violation.  The daemon's step is modelled: a gate that fails *)
(* ends the step and writes no cycle_halted, so the next step may come     *)
(* (module Cycle has the states and ledger entries around it).             *)
(***************************************************************************)
EXTENDS Integers, Sequences, FiniteSets

CONSTANTS
  Changes,       \* edits, each made at most once
  Broken,        \* those that make the commands fail,
  Flawed,        \* those the scanners object to,
  Untracked,     \* those that are new files: git diff does not show them until committed
  LocalGates,    \* how many local gates the cycle has
  Overridden,    \* audit_cmd or polish_test_cmd is set
  MaxClaims      \* violations an agent reports in its turns

ASSUME GatesAssumption ==
  /\ Broken \subseteq Changes /\ Flawed \subseteq Changes /\ Untracked \subseteq Changes
  /\ LocalGates \in Nat /\ Overridden \in BOOLEAN /\ MaxClaims \in Nat

VARIABLES
  branch,        \* the branch that is checked out
  committed,     \* what is committed on each branch
  dirty,         \* what is changed in the tree and not committed,
  staged,        \* what of that is in the index
  made,          \* the changes made so far
  baseline,      \* BaselineSHA: what was committed then, in a sequence; <<>> if unset
  scanned,       \* ViolationsFound: how many the scanners reported,
  claimed,       \* and how many an agent reported since
  gate,          \* the next gate, by its place in the pipeline; 0 between steps
  conventional,  \* the goal of this step has a conventional prefix
  claims,        \* how often an agent reported a violation
  switched,      \* history: the branch was changed since this step's preflight read it
  tested,        \* history: this step's polish gate has passed,
  lateEdits,     \* history: and what was edited since
  landed         \* history: what this step committed: change, branch, and the two above

gatesVars == <<branch, committed, dirty, staged, made, baseline, scanned, claimed, gate,
               conventional, claims, switched, tested, lateEdits, landed>>
repoVars == <<branch, committed, dirty, staged, made>>
stateVars == <<baseline, scanned, claimed>>
historyVars == <<switched, tested, lateEdits, landed>>

Branches == {"feat", "main"}
Tree == committed[branch] \cup dirty

(* StandardPipeline; pipelineForState returns it when a command is           *)
(* overridden, and otherwise inserts the local gates after the audit gate of *)
(* the server's own pipeline.                                                *)
Locals == [i \in 1..LocalGates |-> "local"]
StandardPipeline ==
  <<"preflight", "status", "head", "audit">> \o Locals
    \o <<"claim", "philosophy", "polish", "add", "commit">>

Inserted(base) ==
  LET after == CHOOSE i \in 1..Len(base) : base[i] = "audit"
  IN  SubSeq(base, 1, after) \o Locals \o SubSeq(base, after + 1, Len(base))

(* Mutant of Bare: the commit comes before the last tests. *)
BareSwapped ==
  <<"preflight", "status", "head", "audit", "claim", "philosophy", "add", "commit",
    "polish">>

Bare ==
  <<"preflight", "status", "head", "audit", "claim", "philosophy", "polish", "add",
    "commit">>
Pipeline == IF Overridden THEN StandardPipeline ELSE Inserted(Bare)

At(name) == gate > 0 /\ Pipeline[gate] = name
Pass == gate' = IF gate = Len(Pipeline) THEN 0 ELSE gate + 1
Ends == gate' = 0

-----------------------------------------------------------------------------
GatesInit ==
  /\ branch = "feat" /\ committed = [b \in Branches |-> {}]
  /\ dirty = {} /\ staged = {} /\ made = {}
  /\ baseline = <<>> /\ scanned = 0 /\ claimed = 0
  /\ gate = 0 /\ conventional = FALSE /\ claims = 0
  /\ switched = FALSE /\ tested = FALSE /\ lateEdits = {} /\ landed = {}

(* handleStepCycle: a step with a goal. *)
StepBegins ==
  /\ gate = 0 /\ gate' = 1 /\ conventional' \in BOOLEAN
  /\ switched' = FALSE /\ tested' = FALSE /\ lateEdits' = {} /\ landed' = {}
  /\ UNCHANGED <<repoVars, stateVars, claims>>

(* Pipeline.Execute at a GateFailure that has nothing to do with the tree: a  *)
(* command that cannot be run, or the step's deadline.                        *)
GateErrs ==
  /\ gate > 0 /\ Ends
  /\ UNCHANGED <<repoVars, stateVars, conventional, claims, historyVars>>

(* PreflightGate: the branch.  (sshAuthCheck only warns; a goal there is.)    *)
PreflightBranch ==
  /\ At("preflight")
  /\ \/ branch = "main" /\ Ends
     \/ branch # "main" /\ Pass
  /\ switched' = FALSE
  /\ UNCHANGED <<repoVars, stateVars, conventional, claims, tested, lateEdits, landed>>

(* PreflightGate: the tree is clean; *)
PreflightTree ==
  /\ At("status")
  /\ \/ dirty # {} /\ Ends
     \/ dirty = {} /\ Pass
  /\ UNCHANGED <<repoVars, stateVars, conventional, claims, historyVars>>

(* and what is committed by now; the first one records it as the baseline. *)
PreflightHead ==
  /\ At("head") /\ Pass
  /\ baseline' = (IF baseline = <<>> THEN <<committed[branch]>> ELSE baseline)
  /\ UNCHANGED <<repoVars, scanned, claimed, conventional, claims, historyVars>>

(* runShellGate, for the audit gate and for every local gate. *)
CommandGate ==
  /\ At("audit") \/ At("local")
  /\ \/ Tree \cap Broken # {} /\ Ends
     \/ Tree \cap Broken = {} /\ Pass
  /\ UNCHANGED <<repoVars, stateVars, conventional, claims, historyVars>>

(* ClaimGate: the commands of the claims are run; the scanners' violations   *)
(* have none.                                                                *)
ClaimGate ==
  /\ At("claim")
  /\ Pass \/ (claimed > 0 /\ Ends)
  /\ UNCHANGED <<repoVars, stateVars, conventional, claims, historyVars>>

(* gitDiffSince: what differs from the baseline, new files only once they    *)
(* are committed; and how many violations the scanners find in it.           *)
Diff == (committed[branch] \cup (dirty \ Untracked)) \ baseline[1]
Violations == Cardinality(Diff \cap Flawed)

(* PhilosophyGate: a warning, unless violations were recorded and there are  *)
(* more now; what is found replaces what was recorded.                       *)
Drifts == scanned + claimed > 0 /\ Violations > scanned + claimed

PhilosophyGate ==
  /\ At("philosophy")
  /\ \/ Drifts /\ Ends /\ UNCHANGED <<scanned, claimed>>
     \/ ~Drifts /\ Pass /\ scanned' = Violations /\ claimed' = 0
  /\ UNCHANGED <<repoVars, baseline, conventional, claims, historyVars>>

(* PolishGate: the tests, and the goal's prefix. *)
PolishGate ==
  /\ At("polish")
  /\ \/ (Tree \cap Broken # {} \/ ~conventional) /\ Ends
        /\ UNCHANGED tested
     \/ Tree \cap Broken = {} /\ conventional /\ Pass /\ tested' = TRUE
  /\ UNCHANGED <<repoVars, stateVars, conventional, claims, switched, lateEdits, landed>>

(* CommitGate: git add -A, *)
CommitAdd ==
  /\ At("add") /\ Pass /\ staged' = dirty
  /\ UNCHANGED <<branch, committed, dirty, made, stateVars, conventional, claims, historyVars>>

(* ... and git commit.  With nothing staged git says "nothing to commit"      *)
(* when the tree is clean, and something else when it is not.                 *)
CommitGate ==
  /\ At("commit")
  /\ \/ /\ staged # {} /\ Pass
        /\ committed' = [committed EXCEPT ![branch] = @ \cup staged]
        /\ dirty' = dirty \ staged /\ staged' = {}
        /\ landed' =
             {[change |-> c, on |-> branch, switched |-> switched, late |-> c \in lateEdits] :
                c \in staged}
     \/ staged = {} /\ dirty = {} /\ Pass /\ UNCHANGED <<committed, dirty, staged, landed>>
     \/ staged = {} /\ dirty # {} /\ Ends /\ UNCHANGED <<committed, dirty, staged, landed>>
  /\ UNCHANGED <<branch, made, stateVars, conventional, claims, switched, tested, lateEdits>>

-----------------------------------------------------------------------------
(* The agent: it edits, takes a change back, commits, changes the branch,      *)
(* or reports a violation at the end of a turn (applyResponse; not while a  *)
(* step runs, which writes the whole state).                                 *)
Edit(c) ==
  /\ c \notin made /\ made' = made \cup {c} /\ dirty' = dirty \cup {c}
  /\ lateEdits' = IF tested THEN lateEdits \cup {c} ELSE lateEdits
  /\ UNCHANGED <<branch, committed, staged, stateVars, gate, conventional, claims,
                 switched, tested, landed>>

TakeBack(c) ==
  /\ c \in Tree /\ dirty' = dirty \ {c} /\ staged' = staged \ {c}
  /\ committed' = [committed EXCEPT ![branch] = @ \ {c}]
  /\ UNCHANGED <<branch, made, stateVars, gate, conventional, claims, historyVars>>

AgentCommits ==
  /\ dirty # {} /\ committed' = [committed EXCEPT ![branch] = @ \cup dirty]
  /\ dirty' = {} /\ staged' = {}
  /\ UNCHANGED <<branch, made, stateVars, gate, conventional, claims, historyVars>>

Switch(b) ==
  /\ b # branch /\ branch' = b /\ switched' = TRUE
  /\ UNCHANGED <<committed, dirty, staged, made, stateVars, gate, conventional, claims,
                 tested, lateEdits, landed>>

Reports ==
  /\ gate = 0 /\ claims < MaxClaims /\ claims' = claims + 1 /\ claimed' = claimed + 1
  /\ UNCHANGED <<repoVars, baseline, scanned, gate, conventional, historyVars>>

GatesNext ==
  \/ StepBegins \/ GateErrs \/ PreflightBranch \/ PreflightTree \/ PreflightHead
  \/ CommandGate
  \/ ClaimGate \/ PhilosophyGate \/ PolishGate \/ CommitAdd \/ CommitGate
  \/ \E c \in Changes : Edit(c) \/ TakeBack(c)
  \/ AgentCommits \/ (\E b \in Branches : Switch(b)) \/ Reports

GatesSpec == GatesInit /\ [][GatesNext]_gatesVars

-----------------------------------------------------------------------------
(* CommitsVouched: what the pipeline commits is safe to have committed.  It   *)
(* lands on main only if the branch was changed after preflight looked at it, *)
(* and a change that breaks the tests is in it only if it was made after the  *)
(* step's tests ran.  The commit comes at the end of the longest stretch of   *)
(* the step, and every gate before it looks at another moment of the tree.    *)
CommitsVouched ==
  \A l \in landed : /\ l.on = "main" => l.switched
                    /\ l.change \in Broken => l.late
=============================================================================
