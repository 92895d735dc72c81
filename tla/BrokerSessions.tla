--------------------------- MODULE BrokerSessions ---------------------------
(* What the broker promises to its clients about the managed sessions it      *)
(* keeps: the states a session goes through and which requests it accepts in  *)
(* each.  The web process relies on no more; SessionManager implements it.    *)
CONSTANTS Sessions, ProjectOf

VARIABLES
    up,      \* the broker runs
    status,  \* of a session; LIMITED is waiting for the provider, ENDED is over
    boot,    \* whether its project prompt was typed
    retry    \* sessions that asked for a login after it was

vars == <<up, status, boot, retry>>

Active == {"RUNNING", "WAITING_INPUT", "LIMITED"}
Statuses == {"none", "STOPPING", "ENDED"} \union Active
Boots == {"DISABLED", "PENDING", "SENT"}

TypeOK == /\ up \in BOOLEAN
          /\ status \in [Sessions -> Statuses]
          /\ boot \in [Sessions -> Boots]
          /\ retry \subseteq Sessions

Init == /\ up = TRUE
        /\ status = [s \in Sessions |-> "none"]
        /\ boot = [s \in Sessions |-> "DISABLED"]
        /\ retry = {}

To(s, state) == status' = [status EXCEPT ![s] = state]
Running(s) == up /\ status[s] \in Active
HasSession(p) == \E s \in Sessions : ProjectOf[s] = p /\ status[s] \in Active

Start(s, bootstrap) ==
    /\ up /\ status[s] = "none" /\ ~HasSession(ProjectOf[s])
    /\ To(s, "RUNNING")
    /\ boot' = [boot EXCEPT ![s] = IF bootstrap THEN "PENDING" ELSE "DISABLED"]
    /\ UNCHANGED <<up, retry>>

\* A session that could not be started, or that was starting when the broker ended.
Stillborn(s) ==
    /\ up /\ status[s] = "none"
    /\ To(s, "ENDED")
    /\ \E b \in {"DISABLED", "PENDING"} : boot' = [boot EXCEPT ![s] = b]
    /\ UNCHANGED retry

StartFails(s) == Stillborn(s) /\ UNCHANGED up

Input(s) == Running(s) /\ To(s, "RUNNING") /\ UNCHANGED <<up, boot, retry>>

Bootstrap(s) ==
    /\ Running(s) /\ (boot[s] = "SENT" => s \in retry)
    /\ To(s, "RUNNING")
    /\ boot' = [boot EXCEPT ![s] = "SENT"]
    /\ retry' = retry \ {s}
    /\ UNCHANGED up

\* The broker types a pending prompt of its own accord.
Greet(s) ==
    /\ Running(s) /\ boot[s] = "PENDING"
    /\ To(s, "RUNNING")
    /\ boot' = [boot EXCEPT ![s] = "SENT"]
    /\ UNCHANGED <<up, retry>>

Stop(s) == Running(s) /\ To(s, "STOPPING") /\ UNCHANGED <<up, boot, retry>>

\* Output: a turn, a notice of the provider (also of a session that is being
\* stopped), or a missing login.
Output(s) ==
    /\ up /\ status[s] \in Active \union {"STOPPING"}
    /\ \/ To(s, "LIMITED")
       \/ To(s, IF status[s] = "STOPPING" THEN "STOPPING" ELSE "RUNNING")
    /\ \/ UNCHANGED retry
       \/ boot[s] = "SENT" /\ retry' = retry \union {s}
    /\ UNCHANGED <<up, boot>>

\* Silence at a prompt or a question, or the end of a provider limit.
Wait(s) ==
    /\ up /\ status[s] \in {"RUNNING", "LIMITED"}
    /\ To(s, "WAITING_INPUT")
    /\ UNCHANGED <<up, boot, retry>>

Exit(s) ==
    /\ up /\ status[s] \in Active \union {"STOPPING"}
    /\ To(s, "ENDED")
    /\ UNCHANGED <<up, boot, retry>>

\* The broker ends, maybe while it starts a session.
Crash == /\ up' = FALSE
         /\ \/ up /\ UNCHANGED <<status, boot, retry>>
            \/ \E s \in Sessions : Stillborn(s)

Restart ==
    /\ ~up /\ up' = TRUE
    /\ status' = [s \in Sessions |-> IF status[s] = "none" THEN "none" ELSE "ENDED"]
    /\ UNCHANGED <<boot, retry>>

\* What sessions do by themselves.
Claude(s) == Greet(s) \/ Output(s) \/ Wait(s) \/ Exit(s)

Next == \/ Crash \/ Restart
        \/ \E s \in Sessions :
               \/ \E bootstrap \in BOOLEAN : Start(s, bootstrap)
               \/ StartFails(s) \/ Input(s) \/ Bootstrap(s) \/ Stop(s) \/ Claude(s)

Spec == Init /\ [][Next]_vars
=============================================================================
