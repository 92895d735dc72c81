--------------------------- MODULE RegisteredJob ---------------------------
(* Jobs that run under scripts/run-registered-job.sh: the wrapper registers   *)
(* the run, reports its own process as the one that runs it, executes the     *)
(* command and reports the end, each with a POST of scripts/firm-job.js to    *)
(* the web process (src/server.js), which decides by src/job-registry.js.     *)
(*                                                                            *)
(* A request is served in one synchronous step; its answer is lost when the   *)
(* web process is killed first.  The pid, start token and fingerprint of a    *)
(* wrapper are one identity, the wrapper itself.                              *)
EXTENDS Naturals, FiniteSets

CONSTANTS
    Runs,
    Wrappers,    \* processes of run-registered-job.sh
    NoWrapper,
    RunOf,       \* the run id a wrapper was started with
    Faults,      \* which of FaultKinds may occur
    MaxFaults

FaultKinds == {"web", "kill", "term", "cancel"}

ASSUME RunOfAssumption == RunOf \in [Wrappers -> Runs]
ASSUME NoWrapperAssumption == NoWrapper \notin Wrappers
ASSUME FaultsAssumption == Faults \subseteq FaultKinds /\ MaxFaults \in Nat

VARIABLES
    up,        \* the web process runs
    \* the table jobs
    state, owner,
    \* wrappers: position, pending request and its answer, their command and
    \* the exit code at hand when they end ("stale": a zero of another command)
    step, call, command, code,
    beats,     \* wrappers with a heartbeat request under way
    faults

jobs == <<state, owner>>
wrappers == <<step, call, command, code>>
vars == <<up, jobs, wrappers, beats, faults>>

Active == {"pending", "running"}
Terminal == {"done", "failed", "cancelled"}
Ended == {"succeeded", "failed"}
Over == {"gone", "killed"}
Steps == {"new", "register", "start", "execute", "finish"} \union Over

TypeOK ==
    /\ up \in BOOLEAN
    /\ state \in [Runs -> {"unknown"} \union Active \union Terminal]
    /\ owner \in [Runs -> Wrappers \union {NoWrapper}]
    /\ step \in [Wrappers -> Steps]
    /\ call \in [Wrappers -> {"none", "sent", "ok", "error"}]
    /\ command \in [Wrappers -> {"none", "running"} \union Ended]
    /\ code \in [Wrappers -> {"none", "zero", "nonzero", "stale"}]
    /\ beats \subseteq Wrappers
    /\ faults \in Nat

Init ==
    /\ up = TRUE
    /\ state = [r \in Runs |-> "unknown"]
    /\ owner = [r \in Runs |-> NoWrapper]
    /\ step = [w \in Wrappers |-> "new"]
    /\ call = [w \in Wrappers |-> "none"]
    /\ command = [w \in Wrappers |-> "none"]
    /\ code = [w \in Wrappers |-> "none"]
    /\ beats = {} /\ faults = 0

-----------------------------------------------------------------------------
(* JobRegistry.update: the transition table and the bound identity.           *)

\* Variant: a final state can be left by whoever owns the job.
OnlyForward(s, t) == s # "unknown" /\ (s = "running" => t # "pending")

MayBecome(s, t) == CASE s = "pending" -> TRUE
                     [] s = "running" -> t # "pending"
                     [] OTHER -> s = t /\ s # "unknown"

\* No identity is bound yet, or it is this one.
Owns(r, w) == owner[r] \in {NoWrapper, w}

Accepts(w, t) == MayBecome(state[RunOf[w]], t) /\ Owns(RunOf[w], w)

Update(w, t) == /\ state' = [state EXCEPT ![RunOf[w]] = t]
                /\ owner' = [owner EXCEPT ![RunOf[w]] = w]

Answer(w, a) == call' = [call EXCEPT ![w] = a]

-----------------------------------------------------------------------------
(* Requests.                                                                  *)

\* A step of a wrapper that is waiting for nothing sends a request.
Sends(w, from, to) ==
    /\ step[w] = from /\ call[w] = "none"
    /\ step' = [step EXCEPT ![w] = to]
    /\ Answer(w, "sent")
    /\ UNCHANGED <<up, jobs, command, code, beats, faults>>

SendRegister(w) == Sends(w, "new", "register")

Served(w, s) == up /\ step[w] = s /\ call[w] = "sent"

\* register returns the job there is, or inserts a pending one.
ServeRegister(w) ==
    /\ Served(w, "register")
    /\ state' = [state EXCEPT ![RunOf[w]] = IF @ = "unknown" THEN "pending" ELSE @]
    /\ Answer(w, "ok")
    /\ UNCHANGED <<up, owner, step, command, code, beats, faults>>

ServeStart(w) ==
    /\ Served(w, "start")
    /\ IF Accepts(w, "running") THEN Update(w, "running") /\ Answer(w, "ok")
                                ELSE UNCHANGED jobs /\ Answer(w, "error")
    /\ UNCHANGED <<up, step, command, code, beats, faults>>

\* Variant: a wrapper reports success whatever its command returned.
AlwaysDone(w) == "done"

Outcome(w) == IF code[w] = "nonzero" THEN "failed" ELSE "done"

ServeFinish(w) ==
    /\ Served(w, "finish")
    /\ IF Accepts(w, Outcome(w)) THEN Update(w, Outcome(w)) /\ Answer(w, "ok")
                                 ELSE UNCHANGED jobs /\ Answer(w, "error")
    /\ UNCHANGED <<up, step, command, code, beats, faults>>

\* Nobody listens on the port.
ConnectionFails(w) ==
    /\ ~up /\ call[w] = "sent"
    /\ Answer(w, "error")
    /\ UNCHANGED <<up, jobs, step, command, code, beats, faults>>

-----------------------------------------------------------------------------
(* The wrapper.  Under set -e a failed register or start ends it.             *)

Registered(w) ==
    /\ step[w] = "register" /\ call[w] = "ok"
    /\ step' = [step EXCEPT ![w] = "start"]
    /\ Answer(w, "sent")
    /\ UNCHANGED <<up, jobs, command, code, beats, faults>>

\* Variant: the command is executed whatever the answer is.
ExecuteAnyway(w) ==
    /\ step[w] = "start" /\ call[w] \in {"ok", "error"}
    /\ step' = [step EXCEPT ![w] = "execute"]
    /\ command' = [command EXCEPT ![w] = "running"]
    /\ Answer(w, "none")
    /\ UNCHANGED <<up, jobs, code, beats, faults>>

Execute(w) ==
    /\ step[w] = "start" /\ call[w] = "ok"
    /\ step' = [step EXCEPT ![w] = "execute"]
    /\ command' = [command EXCEPT ![w] = "running"]
    /\ Answer(w, "none")
    /\ UNCHANGED <<up, jobs, code, beats, faults>>

GiveUp(w) ==
    /\ step[w] \in {"register", "start"} /\ call[w] = "error"
    /\ step' = [step EXCEPT ![w] = "gone"]
    /\ Answer(w, "none")
    /\ UNCHANGED <<up, jobs, command, code, beats, faults>>

\* The command exits or is ended by the maximal runtime.
CommandEnds(w) ==
    /\ step[w] = "execute" /\ command[w] = "running"
    /\ \E end \in Ended : command' = [command EXCEPT ![w] = end]
    /\ UNCHANGED <<up, jobs, step, call, code, beats, faults>>

\* Variant: the wrapper does not report the end.
FinishSilently(w) ==
    /\ step[w] = "execute" /\ command[w] \in Ended
    /\ step' = [step EXCEPT ![w] = "gone"]
    /\ UNCHANGED <<up, jobs, call, command, code, beats, faults>>

\* The EXIT trap, with the exit code at hand.
Finishes(w, c) ==
    /\ step[w] = "execute"
    /\ step' = [step EXCEPT ![w] = "finish"]
    /\ code' = [code EXCEPT ![w] = c]
    /\ Answer(w, "sent")
    /\ UNCHANGED <<up, jobs, command, beats>>

Finish(w) ==
    /\ command[w] \in Ended
    /\ Finishes(w, IF command[w] = "succeeded" THEN "zero" ELSE "nonzero")
    /\ UNCHANGED faults

\* "|| true": the wrapper ends whatever became of its report.
Exit(w) ==
    /\ step[w] = "finish" /\ call[w] \in {"ok", "error"}
    /\ step' = [step EXCEPT ![w] = "gone"]
    /\ Answer(w, "none")
    /\ UNCHANGED <<up, jobs, command, code, beats, faults>>

\* The heartbeat helper; its requests may be late.
Heartbeat(w) ==
    /\ step[w] = "execute" /\ command[w] = "running" /\ w \notin beats
    /\ beats' = beats \union {w}
    /\ UNCHANGED <<up, jobs, wrappers, faults>>

ServeHeartbeat(w) ==
    /\ w \in beats
    /\ beats' = beats \ {w}
    /\ IF up /\ Accepts(w, "running") THEN Update(w, "running") ELSE UNCHANGED jobs
    /\ UNCHANGED <<up, wrappers, faults>>

-----------------------------------------------------------------------------
(* Faults.  The command of a wrapper that is killed or terminated goes on.     *)

Fault(kind) == kind \in Faults /\ faults < MaxFaults /\ faults' = faults + 1

WebCrash ==
    /\ Fault("web") /\ up
    /\ up' = FALSE
    /\ call' = [w \in Wrappers |-> IF call[w] \in {"sent", "ok"} THEN "error" ELSE call[w]]
    /\ beats' = {}
    /\ UNCHANGED <<jobs, step, command, code>>

WebRestart ==
    /\ ~up /\ up' = TRUE
    /\ UNCHANGED <<jobs, wrappers, beats, faults>>

KillWrapper(w) ==
    /\ Fault("kill") /\ step[w] \notin {"new"} \union Over
    /\ step' = [step EXCEPT ![w] = "killed"]
    /\ Answer(w, "none")
    /\ UNCHANGED <<up, jobs, command, code, beats>>

\* SIGTERM and SIGHUP run the trap while "wait" has not returned: the exit code
\* it sees is the zero of the command before "wait", which is "set +e".
Terminate(w) == Fault("term") /\ Finishes(w, "stale")

OrphanEnds(w) ==
    /\ step[w] \in {"finish"} \union Over /\ command[w] = "running"
    /\ \E end \in Ended : command' = [command EXCEPT ![w] = end]
    /\ UNCHANGED <<up, jobs, step, call, code, beats, faults>>

\* A request without an identity cancels an active job; no process is ended.
CancelJob(r) ==
    /\ Fault("cancel") /\ up
    /\ state[r] \in Active
    /\ state' = [state EXCEPT ![r] = "cancelled"]
    /\ UNCHANGED <<up, owner, wrappers, beats>>

-----------------------------------------------------------------------------
Wrapper(w) ==
    \/ SendRegister(w) \/ ServeRegister(w) \/ Registered(w)
    \/ ServeStart(w) \/ Execute(w) \/ GiveUp(w) \/ CommandEnds(w)
    \/ Finish(w) \/ ServeFinish(w) \/ Exit(w) \/ ConnectionFails(w)
    \/ Heartbeat(w) \/ ServeHeartbeat(w) \/ OrphanEnds(w)

Next == \/ WebCrash \/ WebRestart
        \/ \E w \in Wrappers : Wrapper(w) \/ KillWrapper(w) \/ Terminate(w)
        \/ \E r \in Runs : CancelJob(r)

Spec == Init /\ [][Next]_vars

(* Requests are served and wrappers run on; a command ends (its runtime is    *)
(* bounded), however often its heartbeat is sent.                             *)
Fairness ==
    /\ WF_vars(WebRestart)
    /\ \A w \in Wrappers :
           /\ WF_vars(ServeRegister(w) \/ ServeStart(w) \/ ServeFinish(w) \/ ConnectionFails(w))
           /\ WF_vars(Registered(w) \/ Execute(w) \/ GiveUp(w) \/ CommandEnds(w))
           /\ WF_vars(Finish(w) \/ Exit(w))

FairSpec == Spec /\ Fairness

-----------------------------------------------------------------------------
(* Properties.                                                                *)

Lifecycle == INSTANCE JobLifecycle WITH announced <- [r \in Runs |-> "none"]

\* Whatever order requests arrive in, late heartbeats and repeated wrappers
\* included, a job goes forward and stays what it ended as.
ImplementsLifecycle == Lifecycle!Spec

\* Of all wrappers started with one run id, at most one executes its command.
ExecutedOnce ==
    \A v, w \in Wrappers :
        RunOf[v] = RunOf[w] /\ command[v] # "none" /\ command[w] # "none" => v = w

\* A job is done only if the command of its bound process exited with zero.
DoneIsTrue ==
    \A r \in Runs : state[r] = "done" =>
        owner[r] \in Wrappers /\ command[owner[r]] = "succeeded"

\* A job is done only if its bound process reports the exit code of its command,
\* and that is zero, or the process was terminated before it had one.
DoneIsEarned ==
    \A r \in Runs : state[r] = "done" =>
        /\ owner[r] \in Wrappers
        /\ command[owner[r]] = "succeeded" \/ code[owner[r]] = "stale"

\* The process that a job is bound to is never replaced.
OwnerStays ==
    [][\A r \in Runs : owner[r] # NoWrapper => owner'[r] = owner[r]]_vars

\* While the web process stays up a command that ends under its wrapper is
\* recorded as ended, whoever cancels the job, terminates or repeats a wrapper,
\* unless the wrapper is killed.
EndIsRecorded ==
    []up => \A w \in Wrappers :
        (command[w] \in Ended /\ step[w] = "execute")
        ~> (state[RunOf[w]] \in Terminal \/ step[w] = "killed")
=============================================================================
