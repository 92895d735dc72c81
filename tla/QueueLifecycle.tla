--------------------------- MODULE QueueLifecycle ---------------------------
(* The life of a run in the GPU queue as everybody outside the queue root     *)
(* relies on it (README.md, "Optional GPU queue"): a run directory moves      *)
(* pending -> running -> done | failed, a signal file shows that its place is *)
(* final, and its command is executed at most once.                           *)
EXTENDS Naturals

CONSTANT Runs

VARIABLES place,   \* the state directory that holds the run
          shown,   \* the runs whose directory has its signal file
          execs    \* how often its command was started

Places == {"absent", "pending", "running", "done", "failed"}
Verdicts == {"done", "failed"}

vars == <<place, shown, execs>>

Init == /\ place = [r \in Runs |-> "absent"]
        /\ shown = {}
        /\ execs = [r \in Runs |-> 0]

\* A run enters a directory without the directory's signal.
Enter(r, p) == /\ place' = [place EXCEPT ![r] = p]
               /\ shown' = shown \ {r}
               /\ UNCHANGED execs

Submit(r) == place[r] = "absent" /\ Enter(r, "pending")

Start(r) == place[r] = "pending" /\ r \in shown /\ Enter(r, "running")

Execute(r) == /\ place[r] = "running" /\ execs[r] = 0
              /\ execs' = [execs EXCEPT ![r] = 1]
              /\ UNCHANGED <<place, shown>>

\* A run that was never executed can only have failed.
Finish(r, v) == /\ place[r] = "running"
                /\ v = "done" => execs[r] = 1
                /\ Enter(r, v)

Publish(r) == /\ place[r] # "absent" /\ r \notin shown
              /\ shown' = shown \union {r}
              /\ UNCHANGED <<place, execs>>

Next == \E r \in Runs :
            \/ Submit(r) \/ Start(r) \/ Execute(r) \/ Publish(r)
            \/ \E v \in Verdicts : Finish(r, v)

Spec == Init /\ [][Next]_vars
=============================================================================
