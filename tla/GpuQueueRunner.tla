--------------------------- MODULE GpuQueueRunner ---------------------------
(* The executor of the GPU queue: scripts/firm-gpu-queue-runner.sh, with the  *)
(* submission of scripts/submit-gpu-request.sh and the --ensure call that     *)
(* collectGpuQueue (src/gpu-queue.js) makes before every poll.                *)
(*                                                                            *)
(* A run is a directory; mv and rename are atomic, everything between two     *)
(* file operations is a step.  A service loop (--serve) scans the queue, a    *)
(* launcher (--launch) executes one run and finalizes it.  Under "set -e" a   *)
(* file operation on a directory that has moved ends the service loop.        *)
(* GPU selection is abstracted to whether it finds room.                      *)
EXTENDS Integers, FiniteSets

CONSTANTS
    Runs,        \* run directories
    NoRun,
    Loops,       \* identities (pid, start ticks) of --serve processes
    NoLoop,
    Requests,    \* may a request be submitted complete, incomplete?
    Exits,       \* may a command succeed, fail?
    Reports,     \* may a command write its own RESULT.md?
    Faults,      \* which of FaultKinds may occur
    MaxFaults,   \* bound on the number of kills
    MaxEnsures   \* bound on --ensure calls between their check and their start

FaultKinds == {"kill_loop", "kill_launcher", "reboot"}

ASSUME NoRunAssumption == NoRun \notin Runs
ASSUME NoLoopAssumption == NoLoop \notin Loops
ASSUME InputsAssumption == /\ Requests \subseteq BOOLEAN
                           /\ Exits \subseteq {"zero", "nonzero"}
                           /\ Reports \in BOOLEAN
ASSUME FaultsAssumption == Faults \subseteq FaultKinds
ASSUME BoundsAssumption == MaxFaults \in Nat /\ MaxEnsures \in Nat

Places == {"absent", "pending", "running", "done", "failed"}
Verdicts == {"done", "failed"}
Signals == {"submitted", "started", "ready"}
LoopStates == {"off", "top", "recover", "probe", "manifest", "result", "move", "ready",
               "dispatch", "admit", "touch", "spawn"}
Finalizing == {"manifest", "result", "move"}
LauncherStates == {"none", "starting", "identified", "executing", "ended", "manifested",
                   "reported", "moved", "gone", "killed"}
LauncherAlive == LauncherStates \ {"none", "gone", "killed"}

VARIABLES
    \* the queue root
    place,      \* the state directory that holds the run directory
    signals,    \* signal files in the run directory
    complete,   \* REQUEST.md and command.sh pass validate_request
    status,     \* status.json: none, a HOLD disposition, or a launch identity
    manifest,   \* terminal.json
    result,     \* RESULT.md: none, written by the command ("own") or a verdict
    heartbeat,  \* the process named in .firm-runner-heartbeat.json
    \* the service loops
    ensures,    \* --ensure calls that found no live runner and will start one
    loop, todo, cur,
    \* the launcher of a run and its command
    launcher, command, code,
    \* history variables
    execs,      \* how often the command of a run was started
    faults

queue == <<place, signals, complete, status, manifest, result>>
service == <<heartbeat, ensures, loop, todo, cur>>
launch == <<launcher, command, code, execs>>
vars == <<queue, service, launch, faults>>

TypeOK ==
    /\ place \in [Runs -> Places]
    /\ signals \in [Runs -> SUBSET Signals]
    /\ complete \in [Runs -> BOOLEAN]
    /\ status \in [Runs -> {"none", "hold", "launch"}]
    /\ manifest \in [Runs -> {"none"} \union Verdicts]
    /\ result \in [Runs -> {"none", "own"} \union Verdicts]
    /\ heartbeat \in Loops \union {NoLoop}
    /\ ensures \in Nat
    /\ loop \in [Loops -> LoopStates]
    /\ todo \in [Loops -> SUBSET Runs]
    /\ cur \in [Loops -> Runs \union {NoRun}]
    /\ launcher \in [Runs -> LauncherStates]
    /\ command \in [Runs -> {"none", "running", "ended"}]
    /\ code \in [Runs -> {"none", "zero", "nonzero"}]
    /\ execs \in [Runs -> Nat]
    /\ faults \in Nat

Init ==
    /\ place = [r \in Runs |-> "absent"]
    /\ signals = [r \in Runs |-> {}]
    /\ complete = [r \in Runs |-> FALSE]
    /\ status = [r \in Runs |-> "none"]
    /\ manifest = [r \in Runs |-> "none"]
    /\ result = [r \in Runs |-> "none"]
    /\ heartbeat = NoLoop /\ ensures = 0
    /\ loop = [l \in Loops |-> "off"]
    /\ todo = [l \in Loops |-> {}]
    /\ cur = [l \in Loops |-> NoRun]
    /\ launcher = [r \in Runs |-> "none"]
    /\ command = [r \in Runs |-> "none"]
    /\ code = [r \in Runs |-> "none"]
    /\ execs = [r \in Runs |-> 0]
    /\ faults = 0

-----------------------------------------------------------------------------
(* File operations on a run directory, and the bookkeeping of a loop.         *)

MoveTo(r, p) == /\ place' = [place EXCEPT ![r] = p]
                /\ UNCHANGED <<signals, complete, status, manifest, result>>

Touch(r, s) == /\ signals' = [signals EXCEPT ![r] = @ \union {s}]
               /\ UNCHANGED <<place, complete, status, manifest, result>>

WriteStatus(r, s) == /\ status' = [status EXCEPT ![r] = s]
                     /\ UNCHANGED <<place, signals, complete, manifest, result>>

WriteManifest(r, v) == /\ manifest' = [manifest EXCEPT ![r] = v]
                       /\ UNCHANGED <<place, signals, complete, status, result>>

\* RESULT.md, unless there is one.
WriteResult(r, v) == /\ result' = [result EXCEPT ![r] = IF @ = "none" THEN v ELSE @]
                     /\ UNCHANGED <<place, signals, complete, status, manifest>>

\* Loop l goes to state s with the directories t still to visit, working on r.
Goes(l, s, t, r) == /\ loop' = [loop EXCEPT ![l] = s]
                    /\ todo' = [todo EXCEPT ![l] = t]
                    /\ cur' = [cur EXCEPT ![l] = r]
                    /\ UNCHANGED <<ensures, launch, faults>>

Stays(l, s) == Goes(l, s, todo[l], cur[l])

Leaves(l, s) == Goes(l, s, todo[l], NoRun)

Takes(l, s, r) == Goes(l, s, todo[l] \ {r}, r)

Skips(l, r) == Goes(l, loop[l], todo[l] \ {r}, NoRun)

-----------------------------------------------------------------------------
(* Submission: mv of the prepared directory into pending/, then the signal.   *)
(* The project completes a request that was put on HOLD.                      *)

Submit(r) ==
    /\ place[r] = "absent"
    /\ place' = [place EXCEPT ![r] = "pending"]
    /\ \E c \in Requests : complete' = [complete EXCEPT ![r] = c]
    /\ UNCHANGED <<signals, status, manifest, result, service, launch, faults>>

PublishRequest(r) ==
    /\ place[r] = "pending" /\ "submitted" \notin signals[r]
    /\ Touch(r, "submitted")
    /\ UNCHANGED <<service, launch, faults>>

Repair(r) ==
    /\ place[r] = "pending" /\ ~complete[r]
    /\ complete' = [complete EXCEPT ![r] = TRUE]
    /\ UNCHANGED <<place, signals, status, manifest, result, service, launch, faults>>

-----------------------------------------------------------------------------
(* ensure_service: check the heartbeat, then start a loop, whose identity is  *)
(* not the one the heartbeat names.                                           *)

EnsureCheck ==
    /\ heartbeat \in Loops => loop[heartbeat] = "off"
    /\ ensures < MaxEnsures
    /\ ensures' = ensures + 1
    /\ UNCHANGED <<queue, heartbeat, loop, todo, cur, launch, faults>>

StartLoop(l) ==
    /\ ensures > 0 /\ loop[l] = "off" /\ l # heartbeat
    /\ ensures' = ensures - 1
    /\ loop' = [loop EXCEPT ![l] = "top"]
    /\ UNCHANGED <<queue, heartbeat, todo, cur, launch, faults>>

-----------------------------------------------------------------------------
(* A pass of serve: heartbeat, recover_owned_orphans, dispatch_pending.       *)

Beat(l) ==
    /\ loop[l] = "top"
    /\ heartbeat' = l
    /\ Goes(l, "recover", {r \in Runs : place[r] = "running"}, NoRun)
    /\ UNCHANGED queue

Identified(r) == place[r] = "running" /\ status[r] = "launch"

RecoverSkip(l, r) ==
    /\ loop[l] = "recover" /\ r \in todo[l] /\ ~Identified(r)
    /\ Skips(l, r)
    /\ UNCHANGED <<queue, heartbeat>>

RecoverTake(l, r) ==
    /\ loop[l] = "recover" /\ r \in todo[l] /\ Identified(r)
    /\ Takes(l, "probe", r)
    /\ UNCHANGED <<queue, heartbeat>>

\* Variants: a launcher is taken for dead once its command has ended; or the pid
\* alone is compared, and another process has it now.
LauncherBusy(r) == launcher[r] \in {"starting", "identified", "executing"}
LauncherPidLives(r) == launcher[r] \in LauncherAlive \union {"killed"}

\* pid_start_ticks of the recorded pid equals the recorded ticks.
LauncherLives(r) == launcher[r] \in LauncherAlive

ProbeAlive(l) ==
    /\ loop[l] = "probe" /\ LauncherLives(cur[l])
    /\ Leaves(l, "recover")
    /\ UNCHANGED <<queue, heartbeat>>

ProbeDead(l) ==
    /\ loop[l] = "probe" /\ ~LauncherLives(cur[l])
    /\ place[cur[l]] = "running"
    /\ Stays(l, "manifest")
    /\ UNCHANGED <<queue, heartbeat>>

\* set -e: the directory moved away under the loop.
LoopDies(l) ==
    /\ \/ loop[l] \in Finalizing \union {"probe"} /\ place[cur[l]] # "running"
       \/ loop[l] = "admit" /\ place[cur[l]] # "pending"
    /\ Goes(l, "off", {}, NoRun)
    /\ UNCHANGED <<queue, heartbeat>>

\* finalize_run of an orphan, with exit code 125: terminal.json, RESULT.md, mv,
\* .ready.
Recovers(l, s) == loop[l] = s /\ place[cur[l]] = "running" /\ UNCHANGED heartbeat

RecoverManifest(l) ==
    Recovers(l, "manifest") /\ WriteManifest(cur[l], "failed") /\ Stays(l, "result")

RecoverResult(l) ==
    Recovers(l, "result") /\ WriteResult(cur[l], "failed") /\ Stays(l, "move")

RecoverMove(l) ==
    Recovers(l, "move") /\ MoveTo(cur[l], "failed") /\ Stays(l, "ready")

RecoverReady(l) ==
    /\ loop[l] = "ready"
    /\ Touch(cur[l], "ready") /\ Leaves(l, "recover")
    /\ UNCHANGED heartbeat

StartDispatch(l) ==
    /\ loop[l] = "recover" /\ todo[l] = {}
    /\ Goes(l, "dispatch", {r \in Runs : place[r] = "pending"}, NoRun)
    /\ UNCHANGED <<queue, heartbeat>>

\* Variant: a directory without .submitted is dispatched too.
InPending(r) == place[r] = "pending"

Submitted(r) == place[r] = "pending" /\ "submitted" \in signals[r]

DispatchSkip(l, r) ==
    /\ loop[l] = "dispatch" /\ r \in todo[l] /\ ~Submitted(r)
    /\ Skips(l, r)
    /\ UNCHANGED <<queue, heartbeat>>

DispatchTake(l, r) ==
    /\ loop[l] = "dispatch" /\ r \in todo[l] /\ Submitted(r)
    /\ Takes(l, "admit", r)
    /\ UNCHANGED <<queue, heartbeat>>

Admits(l, c) == /\ loop[l] = "admit"
                /\ place[cur[l]] = "pending" /\ complete[cur[l]] = c
                /\ UNCHANGED heartbeat

\* validate_request failed: record a HOLD disposition.
AdmitHold(l) ==
    Admits(l, FALSE) /\ WriteStatus(cur[l], "hold") /\ Leaves(l, "dispatch")

\* select_gpus found no room.
AdmitNoGpu(l) == Admits(l, TRUE) /\ UNCHANGED queue /\ Leaves(l, "dispatch")

AdmitMove(l) == Admits(l, TRUE) /\ MoveTo(cur[l], "running") /\ Stays(l, "touch")

TouchStarted(l) ==
    /\ loop[l] = "touch"
    /\ Touch(cur[l], "started") /\ Stays(l, "spawn")
    /\ UNCHANGED heartbeat

\* nohup --launch &
Spawn(l) ==
    /\ loop[l] = "spawn"
    /\ launcher' = [launcher EXCEPT ![cur[l]] = "starting"]
    /\ cur' = [cur EXCEPT ![l] = NoRun]
    /\ loop' = [loop EXCEPT ![l] = "dispatch"]
    /\ UNCHANGED <<queue, heartbeat, ensures, todo, command, code, execs, faults>>

\* sleep POLL_SEC
EndPass(l) ==
    /\ loop[l] = "dispatch" /\ todo[l] = {}
    /\ Stays(l, "top")
    /\ UNCHANGED <<queue, heartbeat>>

-----------------------------------------------------------------------------
(* launch_run: record the identity, execute the command, finalize.            *)

\* Launcher step that leaves the command and the loops alone.
Advance(r, from, to) ==
    /\ launcher[r] = from
    /\ launcher' = [launcher EXCEPT ![r] = to]
    /\ UNCHANGED <<command, code, execs, service, faults>>

\* Variant: the exit code is lost.
VerdictLost(r) == IF code[r] = "none" THEN "failed" ELSE "done"

Verdict(r) == IF code[r] = "zero" THEN "done" ELSE "failed"

Identify(r) == Advance(r, "starting", "identified") /\ WriteStatus(r, "launch")

Execute(r) ==
    /\ launcher[r] = "identified"
    /\ launcher' = [launcher EXCEPT ![r] = "executing"]
    /\ command' = [command EXCEPT ![r] = "running"]
    /\ execs' = [execs EXCEPT ![r] = @ + 1]
    /\ UNCHANGED <<queue, service, code, faults>>

\* The command writes a RESULT.md of its own, also when it has lost its launcher.
Report(r) ==
    /\ Reports /\ command[r] = "running"
    /\ result' = [result EXCEPT ![r] = "own"]
    /\ UNCHANGED <<place, signals, complete, status, manifest, service, launch, faults>>

CommandEnds(r) ==
    /\ launcher[r] = "executing"
    /\ launcher' = [launcher EXCEPT ![r] = "ended"]
    /\ command' = [command EXCEPT ![r] = "ended"]
    /\ \E c \in Exits : code' = [code EXCEPT ![r] = c]
    /\ UNCHANGED <<queue, service, execs, faults>>

LaunchManifest(r) ==
    place[r] = "running" /\ Advance(r, "ended", "manifested") /\ WriteManifest(r, Verdict(r))

LaunchResult(r) ==
    place[r] = "running" /\ Advance(r, "manifested", "reported") /\ WriteResult(r, Verdict(r))

LaunchMove(r) ==
    place[r] = "running" /\ Advance(r, "reported", "moved") /\ MoveTo(r, Verdict(r))

\* Variant: the directory is moved, and nobody is told.
LaunchSilent(r) == Advance(r, "moved", "gone") /\ UNCHANGED queue

LaunchReady(r) == Advance(r, "moved", "gone") /\ Touch(r, "ready")

-----------------------------------------------------------------------------
(* Kills: a loop; a launcher, whose command goes on without it; the container *)
(* with every process in it.  Files remain.                                   *)

Fault(kind) == kind \in Faults /\ faults < MaxFaults /\ faults' = faults + 1

KillLoop(l) ==
    /\ Fault("kill_loop") /\ loop[l] # "off"
    /\ loop' = [loop EXCEPT ![l] = "off"]
    /\ todo' = [todo EXCEPT ![l] = {}]
    /\ cur' = [cur EXCEPT ![l] = NoRun]
    /\ UNCHANGED <<queue, heartbeat, ensures, launch>>

KillLauncher(r) ==
    /\ Fault("kill_launcher") /\ launcher[r] \in LauncherAlive
    /\ launcher' = [launcher EXCEPT ![r] = "killed"]
    /\ UNCHANGED <<queue, service, command, code, execs>>

OrphanEnds(r) ==
    /\ launcher[r] = "killed" /\ command[r] = "running"
    /\ command' = [command EXCEPT ![r] = "ended"]
    /\ UNCHANGED <<queue, service, launcher, code, execs, faults>>

Reboot ==
    /\ Fault("reboot")
    /\ ensures' = 0
    /\ loop' = [l \in Loops |-> "off"]
    /\ todo' = [l \in Loops |-> {}]
    /\ cur' = [l \in Loops |-> NoRun]
    /\ launcher' = [r \in Runs |-> IF launcher[r] \in LauncherAlive
                                   THEN "killed" ELSE launcher[r]]
    /\ command' = [r \in Runs |-> IF command[r] = "running" THEN "ended" ELSE command[r]]
    /\ UNCHANGED <<queue, heartbeat, code, execs>>

-----------------------------------------------------------------------------
Serve(l) ==
    \/ Beat(l) \/ ProbeAlive(l) \/ ProbeDead(l) \/ LoopDies(l)
    \/ RecoverManifest(l) \/ RecoverResult(l) \/ RecoverMove(l) \/ RecoverReady(l)
    \/ StartDispatch(l) \/ AdmitHold(l) \/ AdmitNoGpu(l) \/ AdmitMove(l)
    \/ TouchStarted(l) \/ Spawn(l) \/ EndPass(l)
    \/ \E r \in Runs : \/ RecoverSkip(l, r) \/ RecoverTake(l, r)
                       \/ DispatchSkip(l, r) \/ DispatchTake(l, r)

Launch(r) ==
    \/ Identify(r) \/ Execute(r) \/ CommandEnds(r)
    \/ LaunchManifest(r) \/ LaunchResult(r) \/ LaunchMove(r) \/ LaunchReady(r)

Next ==
    \/ EnsureCheck \/ Reboot
    \/ \E l \in Loops : StartLoop(l) \/ Serve(l) \/ KillLoop(l)
    \/ \E r \in Runs : \/ Submit(r) \/ PublishRequest(r) \/ Repair(r)
                       \/ Launch(r) \/ Report(r) \/ KillLauncher(r) \/ OrphanEnds(r)

Spec == Init /\ [][Next]_vars

(* FIRM calls --ensure before every poll; processes run on; a request that is *)
(* considered again and again finds a GPU in the end.                         *)
Fairness ==
    /\ WF_vars(EnsureCheck)
    /\ WF_vars(\E l \in Loops : StartLoop(l))
    /\ \A l \in Loops : WF_vars(Serve(l))
    /\ \A r \in Runs : /\ WF_vars(Launch(r))
                       /\ SF_vars(\E l \in Loops : cur[l] = r /\ AdmitMove(l))

FairSpec == Spec /\ Fairness

-----------------------------------------------------------------------------
(* Properties.                                                                *)

SignalOf(p) == CASE p = "pending" -> "submitted"
                 [] p = "running" -> "started"
                 [] OTHER -> "ready"

Lifecycle == INSTANCE QueueLifecycle WITH
    shown <- {r \in Runs : SignalOf(place[r]) \in signals[r]}

\* The runner implements the lifecycle everybody else relies on: directories
\* only move forward, a signal never precedes the move it announces, and a
\* command is executed at most once, although several service loops may run at
\* the same time and any process may be killed.
ImplementsLifecycle == Lifecycle!Spec

\* terminal.json of a finished run names the directory the run is in: no orphan
\* recovery overwrites the verdict of a launcher that still lives.
ManifestMatches ==
    \A r \in Runs : place[r] \in Verdicts => manifest[r] = place[r]

\* A run in done/ was executed and its command exited with zero.
DoneIsTrue ==
    \A r \in Runs : place[r] = "done" =>
        execs[r] = 1 /\ command[r] = "ended" /\ code[r] = "zero"

\* A finished run has a RESULT.md, and it tells another verdict than the
\* directory only when the launcher was killed between the two.
ResultAgrees ==
    \A r \in Runs : place[r] \in Verdicts =>
        /\ result[r] # "none"
        /\ result[r] \in Verdicts => result[r] = place[r] \/ launcher[r] = "killed"

\* What .ready has announced is final: the run stays where it is, with the
\* manifest it has, and nothing but a command that lost its launcher still changes
\* its RESULT.md.
AnnouncedIsFinal ==
    [][\A r \in Runs : "ready" \in signals[r] =>
          /\ UNCHANGED <<place[r], manifest[r]>>
          /\ result'[r] = result[r] \/ launcher[r] = "killed"]_vars

\* A command that was started can be traced: its identity is on record as long
\* as the run is in running/.
IdentityFirst ==
    \A r \in Runs : execs[r] > 0 => status[r] = "launch"

\* While nothing is killed every complete and submitted request ends with a
\* .ready signal, although a service loop dies whenever a directory moves under
\* it and is only replaced by the next --ensure.
RequestsEnd ==
    [](faults = 0) => \A r \in Runs :
        (Submitted(r) /\ complete[r]) ~> ("ready" \in signals[r])

\* A run whose launcher was killed after recording its identity is failed by
\* the orphan recovery, or had already been moved.
RecordedOrphansFail ==
    \A r \in Runs :
        (place[r] = "running" /\ status[r] = "launch" /\ launcher[r] = "killed")
        ~> place[r] = "failed"

\* Every run whose launcher was killed leaves running/.  Not one that was killed
\* before its identity was recorded: see Known behaviours in the README.
OrphansLeaveRunning ==
    \A r \in Runs :
        (place[r] = "running" /\ launcher[r] = "killed") ~> place[r] # "running"
=============================================================================
