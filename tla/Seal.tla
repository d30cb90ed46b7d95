------------------------------- MODULE Seal -------------------------------
(***************************************************************************)
(* What the reviver guard of autonomous cycles promises: a halt seals the  *)
(* cycle.  Work is let in only while the cycle is not sealed, and only work *)
(* that was let in can lift the seal again, by passing every gate.         *)
(***************************************************************************)
CONSTANT Workers

VARIABLES
  sealed,     \* the cycle is sealed by a halt
  admitted    \* the workers that have passed the guard and not ended

sealVars == <<sealed, admitted>>

SealInit == sealed = FALSE /\ admitted = {}

Admit(w) == ~sealed /\ admitted' = admitted \cup {w} /\ UNCHANGED sealed

(* Workers end, or die with their process. *)
Leave == admitted' \subseteq admitted /\ UNCHANGED sealed

(* Anybody may halt a cycle. *)
Close == sealed' = TRUE /\ UNCHANGED admitted

(* Only work that was let in can show that the gates are green. *)
Lift == admitted # {} /\ sealed' = FALSE /\ UNCHANGED admitted

SealNext == (\E w \in Workers : Admit(w)) \/ Leave \/ Close \/ Lift

SealSpec == SealInit /\ [][SealNext]_sealVars
=============================================================================
