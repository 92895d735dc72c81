-------------------------- MODULE MCSessionManager --------------------------
(* One project whose sessions follow each other.                              *)
EXTENDS SessionManager

CONSTANT P

AllOfOne == [s \in Sessions |-> P]
OneProject == {P}
=============================================================================
