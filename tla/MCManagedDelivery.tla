------------------------- MODULE MCManagedDelivery -------------------------
(* Instances of ManagedDelivery for TLC: the control alone, or with a project. *)
EXTENDS ManagedDelivery

CONSTANT Project

JustControl == {Control}
ProjectAndControl == {Project, Control}
AllToControl == [e \in Events |-> Control]
ControlThenProject == [e \in Events |-> IF e = 1 THEN Control ELSE Project]
AllOfControl == [s \in Sessions |-> Control]
=============================================================================
