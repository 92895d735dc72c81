------------------------- MODULE MCExternalDelivery -------------------------
(* Instances of ExternalDelivery for TLC: one project, every event for it.    *)
EXTENDS ExternalDelivery, TLC

CONSTANT Project

OneTarget == {Project}
AllToProject == [e \in Events |-> Project]
AllAtProject == [p \in Pids |-> Project]

\* Processes are interchangeable while they belong to the same project.
PidSymmetry == Permutations(Pids)
=============================================================================
