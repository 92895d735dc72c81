--------------------------- MODULE MCContinuity ---------------------------
\* One project with two processes: one works on and off, the other joins it or
\* takes its place.
EXTENDS Continuity, TLC

CONSTANTS p1, p2, proj
OneHome == [p \in {p1, p2} |-> proj]
TwoStops == (p1 :> 2) @@ (p2 :> 0)
OneStop == (p1 :> 1) @@ (p2 :> 0)
=============================================================================
