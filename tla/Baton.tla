------------------------------- MODULE Baton -------------------------------
(***************************************************************************)
(* What a rally session promises its participants, without connections,    *)
(* channels or handlers: there is one baton; it is handed from its holder  *)
(* to somebody else, one turn at a time; once the session is over nobody   *)
(* holds it any more and no turn is ever taken again.                      *)
(***************************************************************************)
EXTENDS Naturals

CONSTANTS
  Names,     \* the participant names
  Nobody     \* the holder of a baton nobody holds

VARIABLES
  phase,     \* "absent", "idle", "play" or "over"
  holder,    \* who holds the baton
  turn       \* how many turns have begun

batonVars == <<phase, holder, turn>>

BatonInit == phase = "absent" /\ holder = Nobody /\ turn = 0

(* The session is opened, with nobody's turn begun or with p's. *)
Open ==
  /\ phase = "absent"
  /\ \/ phase' = "idle" /\ UNCHANGED <<holder, turn>>
     \/ \E p \in Names : phase' = "play" /\ holder' = p /\ turn' = 1

(* The first turn of an idle session. *)
Serve(p) ==
  /\ phase = "idle"
  /\ phase' = "play" /\ holder' = p /\ turn' = 1

(* The holder p hands the baton to somebody else, and the next turn begins. *)
Pass(p, q) ==
  /\ phase = "play" /\ holder = p /\ p # q
  /\ holder' = q /\ turn' = turn + 1
  /\ UNCHANGED phase

(* The session is over. *)
Stop ==
  /\ phase \in {"idle", "play"}
  /\ phase' = "over" /\ holder' = Nobody
  /\ UNCHANGED turn

BatonNext ==
  \/ Open
  \/ \E p \in Names : Serve(p)
  \/ \E p, q \in Names : Pass(p, q)
  \/ Stop

BatonSpec == BatonInit /\ [][BatonNext]_batonVars
=============================================================================
