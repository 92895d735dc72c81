---------------------------- MODULE JobLifecycle ----------------------------
(* The lifecycle of a registered job (README.md, "FIRM Job Registry"):        *)
(* pending -> running -> done | failed | cancelled, where intermediate states *)
(* need not have been observed, and the announcement of its result.           *)
CONSTANT Runs

VARIABLES state,      \* the registered state
          announced   \* the verdict that was announced, if any

States == {"pending", "running", "done", "failed", "cancelled"}
Final == {"done", "failed", "cancelled"}

vars == <<state, announced>>

Init == /\ state = [r \in Runs |-> "unknown"]
        /\ announced = [r \in Runs |-> "none"]

\* A final state stays; a running job does not become pending again.
MayBecome(s, t) == s \notin Final /\ (s = "running" => t # "pending")

Observe(r, t) == /\ MayBecome(state[r], t)
                 /\ state' = [state EXCEPT ![r] = t]
                 /\ UNCHANGED announced

\* The result of a finished job is announced once, as what the job ended.
Announce(r) == /\ state[r] \in {"done", "failed"} /\ announced[r] = "none"
               /\ announced' = [announced EXCEPT ![r] = state[r]]
               /\ UNCHANGED state

Next == \E r \in Runs : Announce(r) \/ \E t \in States : Observe(r, t)

Spec == Init /\ [][Next]_vars
=============================================================================
