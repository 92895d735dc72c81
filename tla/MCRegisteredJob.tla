-------------------------- MODULE MCRegisteredJob --------------------------
(* Instances of RegisteredJob for TLC.                                        *)
EXTENDS RegisteredJob, TLC

CONSTANTS r1, r2, w1, w2, w3

\* Two wrappers were started for the first run, one for the second.
TwiceAndOnce == w1 :> r1 @@ w2 :> r1 @@ w3 :> r2
=============================================================================
