------------------------------ MODULE MCRally ------------------------------
(* Instances of Rally for TLC. *)
EXTENDS Rally, TLC

CONSTANTS a, b, d, c1, c2, c3

MCConns == {c1, c2, c3}
TwoConns == {c1, c2}

\* Two participants and a stranger, with the lists createRallySession refuses.
PairNames    == {a, b, d}
PairRequests == {<<a, b>>, <<a>>, <<a, a>>, <<a, b, a>>}

Symmetry == Permutations(MCConns)
=============================================================================
