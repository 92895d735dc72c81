------------------------ MODULE GpuQueueRunnerProofs ------------------------
(* Proofs about GpuQueueRunner: type correctness, the safety invariants and   *)
(* the refinement of QueueLifecycle, for every set of runs and loops and any  *)
(* number of faults.                                                          *)
EXTENDS GpuQueueRunner, TLAPS

(* The inductive invariant.  A run passes through stages; the place of its    *)
(* directory and the stage of its launcher determine each other.              *)

Unlaunched == {"none", "starting"}
Unmoved == LauncherAlive \ {"moved"}

\* Where the directory may be at each stage of the launcher.
Stage(r) ==
    /\ place[r] = "absent" => signals[r] = {}
    /\ place[r] \in {"absent", "pending"} =>
           launcher[r] = "none" /\ signals[r] \subseteq {"submitted"}
    /\ launcher[r] \in Unmoved => place[r] = "running"
    /\ launcher[r] \in {"moved", "gone"} => place[r] = Verdict(r)

\* The identity is on record before the command starts, which it does once.
Executed(r) ==
    /\ launcher[r] \in Unlaunched => status[r] # "launch"
    /\ launcher[r] \notin Unlaunched \union {"killed"} => status[r] = "launch"
    /\ launcher[r] \in Unlaunched \union {"identified"} =>
           execs[r] = 0 /\ command[r] = "none"
    /\ launcher[r] = "executing" => execs[r] = 1 /\ command[r] = "running"
    /\ launcher[r] \in {"ended", "manifested", "reported", "moved", "gone"} =>
           execs[r] = 1 /\ command[r] = "ended" /\ code[r] # "none"
    /\ execs[r] \in {0, 1}
    /\ execs[r] = 1 => status[r] = "launch"

\* terminal.json and RESULT.md agree with the launcher and with the directory.
Reported(r) ==
    /\ launcher[r] \in {"manifested", "reported"} => manifest[r] = Verdict(r)
    /\ launcher[r] \in Unlaunched \union {"identified"} => result[r] = "none"
    /\ launcher[r] \in {"executing", "ended", "manifested"} => result[r] \in {"none", "own"}
    /\ launcher[r] = "reported" => result[r] \in {"own", Verdict(r)}
    /\ place[r] \in Verdicts => manifest[r] = place[r] /\ result[r] # "none"
    /\ "ready" \in signals[r] => place[r] \in Verdicts
    /\ place[r] = "done" => execs[r] = 1 /\ command[r] = "ended" /\ code[r] = "zero"
    /\ place[r] \in Verdicts /\ result[r] \in Verdicts =>
           result[r] = place[r] \/ launcher[r] = "killed"

Lawful(r) == Stage(r) /\ Executed(r) /\ Reported(r)

\* What a loop knows of the run it works on.
Handles(l) ==
    LET r == cur[l]
    IN  /\ loop[l] \in {"probe", "manifest", "result", "move", "ready",
                        "admit", "touch", "spawn"} => r \in Runs
        /\ loop[l] = "probe" => status[r] = "launch"
        /\ loop[l] \in Finalizing \union {"ready"} => launcher[r] \in {"killed", "gone"}
        /\ loop[l] \in {"result", "move"} /\ place[r] = "running" => manifest[r] = "failed"
        /\ loop[l] = "move" /\ place[r] = "running" => result[r] # "none"
        /\ loop[l] = "ready" => place[r] \in Verdicts
        /\ loop[l] = "admit" => "submitted" \in signals[r]
        /\ loop[l] \in {"touch", "spawn"} => place[r] = "running" /\ launcher[r] = "none"

\* No two loops launch the same run.
Exclusive ==
    \A l, m \in Loops :
        /\ loop[l] \in {"touch", "spawn"} /\ loop[m] \in {"touch", "spawn"}
        /\ cur[l] = cur[m]
        => l = m

IInv == /\ TypeOK
        /\ \A r \in Runs : Lawful(r)
        /\ \A l \in Loops : Handles(l)
        /\ Exclusive
-----------------------------------------------------------------------------
(* Type correctness.                                                          *)

\* Every step keeps the types.
LEMMA TypesPreserved == TypeOK /\ [Next]_vars => TypeOK'
<1> SUFFICES ASSUME TypeOK, [Next]_vars PROVE TypeOK'
  OBVIOUS
<1> USE InputsAssumption, BoundsAssumption
    DEF TypeOK, queue, service, launch, Places, Verdicts, Signals, LoopStates,
        LauncherStates,
        LauncherAlive
<1>1. CASE EnsureCheck
  BY <1>1 DEF EnsureCheck
<1>2. CASE Reboot
  BY <1>2 DEF Reboot, Fault
<1>3. ASSUME NEW l \in Loops, StartLoop(l) \/ Serve(l) \/ KillLoop(l) PROVE TypeOK'
  <2>1. CASE StartLoop(l)
    BY <2>1 DEF StartLoop
  <2>2. CASE KillLoop(l)
    BY <2>2 DEF KillLoop, Fault
  <2>3. CASE Beat(l)
    BY <2>3 DEF Beat, Goes
  <2>4. CASE ProbeAlive(l)
    BY <2>4 DEF ProbeAlive, Leaves, Goes
  <2>5. CASE ProbeDead(l)
    BY <2>5 DEF ProbeDead, Stays, Goes
  <2>6. CASE LoopDies(l)
    BY <2>6 DEF LoopDies, Goes
  <2>7. CASE RecoverManifest(l)
    BY <2>7 DEF RecoverManifest, Recovers, WriteManifest, Stays, Goes
  <2>8. CASE RecoverResult(l)
    BY <2>8 DEF RecoverResult, Recovers, WriteResult, Stays, Goes
  <2>9. CASE RecoverMove(l)
    BY <2>9 DEF RecoverMove, Recovers, MoveTo, Stays, Goes
  <2>10. CASE RecoverReady(l)
    BY <2>10 DEF RecoverReady, Touch, Leaves, Goes
  <2>11. CASE StartDispatch(l)
    BY <2>11 DEF StartDispatch, Goes
  <2>12. CASE AdmitHold(l)
    BY <2>12 DEF AdmitHold, Admits, WriteStatus, Leaves, Goes
  <2>13. CASE AdmitNoGpu(l)
    BY <2>13 DEF AdmitNoGpu, Admits, Leaves, Goes
  <2>14. CASE AdmitMove(l)
    BY <2>14 DEF AdmitMove, Admits, MoveTo, Stays, Goes
  <2>15. CASE TouchStarted(l)
    BY <2>15 DEF TouchStarted, Touch, Stays, Goes
  <2>16. CASE Spawn(l)
    BY <2>16 DEF Spawn
  <2>17. CASE EndPass(l)
    BY <2>17 DEF EndPass, Stays, Goes
  <2>18. ASSUME NEW r \in Runs, RecoverSkip(l, r) PROVE TypeOK'
    BY <2>18 DEF RecoverSkip, Skips, Goes
  <2>19. ASSUME NEW r \in Runs, RecoverTake(l, r) PROVE TypeOK'
    BY <2>19 DEF RecoverTake, Takes, Goes
  <2>20. ASSUME NEW r \in Runs, DispatchSkip(l, r) PROVE TypeOK'
    BY <2>20 DEF DispatchSkip, Skips, Goes
  <2>21. ASSUME NEW r \in Runs, DispatchTake(l, r) PROVE TypeOK'
    BY <2>21 DEF DispatchTake, Takes, Goes
  <2>. QED
    BY <1>3, <2>1, <2>2, <2>3, <2>4, <2>5, <2>6, <2>7, <2>8, <2>9, <2>10, <2>11, <2>12,
        <2>13, <2>14, <2>15, <2>16, <2>17, <2>18, <2>19, <2>20, <2>21 DEF Serve
<1>4. ASSUME NEW r \in Runs,
             \/ Submit(r) \/ PublishRequest(r) \/ Repair(r)
             \/ Launch(r) \/ Report(r) \/ KillLauncher(r) \/ OrphanEnds(r)
      PROVE TypeOK'
  <2>1. CASE Submit(r)
    BY <2>1 DEF Submit
  <2>2. CASE PublishRequest(r)
    BY <2>2 DEF PublishRequest, Touch
  <2>3. CASE Repair(r)
    BY <2>3 DEF Repair
  <2>4. CASE Identify(r)
    BY <2>4 DEF Identify, Advance, WriteStatus
  <2>5. CASE Execute(r)
    BY <2>5 DEF Execute
  <2>6. CASE CommandEnds(r)
    BY <2>6 DEF CommandEnds
  <2>7. CASE LaunchManifest(r)
    BY <2>7 DEF LaunchManifest, Advance, WriteManifest, Verdict
  <2>8. CASE LaunchResult(r)
    BY <2>8 DEF LaunchResult, Advance, WriteResult, Verdict
  <2>9. CASE LaunchMove(r)
    BY <2>9 DEF LaunchMove, Advance, MoveTo, Verdict
  <2>10. CASE LaunchReady(r)
    BY <2>10 DEF LaunchReady, Advance, Touch
  <2>11. CASE KillLauncher(r)
    BY <2>11 DEF KillLauncher, Fault
  <2>12. CASE OrphanEnds(r)
    BY <2>12 DEF OrphanEnds
  <2>13. CASE Report(r)
    BY <2>13 DEF Report, launch
  <2>. QED
    BY <1>4, <2>1, <2>2, <2>3, <2>4, <2>5, <2>6, <2>7, <2>8, <2>9, <2>10, <2>11,
        <2>12, <2>13 DEF Launch
<1>5. CASE UNCHANGED vars
  BY <1>5 DEF vars
<1>. QED
  BY <1>1, <1>2, <1>3, <1>4, <1>5 DEF Next

-----------------------------------------------------------------------------
(* The invariant is inductive.                                               *)

\* A loop that touches no file and no launcher keeps the invariant if it knows
\* what its next step needs and is not about to launch.
LEMMA LoopMovesOn ==
    ASSUME IInv, TypeOK', NEW l \in Loops, UNCHANGED <<queue, launch>>,
           \A m \in Loops \ {l} : loop'[m] = loop[m] /\ cur'[m] = cur[m],
           loop'[l] \notin {"touch", "spawn"}, Handles(l)'
    PROVE  IInv'
<1>1. ASSUME NEW r \in Runs PROVE Lawful(r)'
  BY DEF IInv, Lawful, Stage, Executed, Reported, Verdict, queue, launch
<1>2. ASSUME NEW m \in Loops, m # l PROVE Handles(m)'
  BY <1>2 DEF IInv, Handles, queue, launch
<1>3. Exclusive'
  BY DEF IInv, Exclusive
<1>. QED
  BY <1>1, <1>2, <1>3 DEF IInv

\* The loop steps that change no file and start no launcher.
LEMMA QuietSteps ==
    ASSUME IInv, TypeOK', NEW l \in Loops,
           \/ StartLoop(l) \/ KillLoop(l) \/ Beat(l) \/ ProbeAlive(l) \/ ProbeDead(l)
           \/ LoopDies(l) \/ StartDispatch(l) \/ AdmitNoGpu(l) \/ EndPass(l)
           \/ \E r \in Runs : \/ RecoverSkip(l, r)
                             \/ RecoverTake(l, r)
                             \/ DispatchSkip(l, r)
                             \/ DispatchTake(l, r)
    PROVE  IInv'
<1>1. CASE StartLoop(l)
  <2>1. Handles(l)'
    BY <1>1 DEF IInv, Lawful, Stage, Executed, Reported, Handles, StartLoop, queue,
        launch, TypeOK, Unlaunched, Unmoved, LauncherAlive, LauncherStates,
        Verdicts, Verdict, Places, Signals, Finalizing
  <2>. QED
    BY <1>1, <2>1, LoopMovesOn DEF StartLoop, Finalizing, IInv, TypeOK, queue, launch
<1>2. CASE KillLoop(l)
  <2>1. Handles(l)'
    BY <1>2 DEF IInv, Lawful, Stage, Executed, Reported, Handles, KillLoop, Fault, queue,
        launch, TypeOK, Unlaunched, Unmoved, LauncherAlive, LauncherStates,
        Verdicts, Verdict, Places, Signals, Finalizing
  <2>. QED
    BY <1>2, <2>1, LoopMovesOn DEF KillLoop, Fault, Finalizing, IInv, TypeOK, queue, launch
<1>3. CASE Beat(l)
  <2>1. Handles(l)'
    BY <1>3 DEF IInv, Lawful, Stage, Executed, Reported, Handles, Beat, Goes, queue,
        launch, TypeOK, Unlaunched, Unmoved, LauncherAlive, LauncherStates,
        Verdicts, Verdict, Places, Signals, Finalizing
  <2>. QED
    BY <1>3, <2>1, LoopMovesOn DEF Beat, Goes, Finalizing, IInv, TypeOK, queue, launch
<1>4. CASE ProbeAlive(l)
  <2>1. Handles(l)'
    BY <1>4 DEF IInv, Lawful, Stage, Executed, Reported, Handles, ProbeAlive, Leaves,
        Goes, queue, launch, TypeOK, Unlaunched, Unmoved, LauncherAlive,
        LauncherStates, Verdicts, Verdict, Places, Signals, Finalizing
  <2>. QED
    BY <1>4, <2>1, LoopMovesOn DEF ProbeAlive, Leaves, Goes, Finalizing, IInv, TypeOK,
        queue, launch
<1>5. CASE ProbeDead(l)
  <2>1. Handles(l)'
    BY <1>5 DEF IInv, Lawful, Stage, Executed, Reported, Handles, ProbeDead, Stays, Goes,
        LauncherLives, queue, launch, TypeOK, Unlaunched, Unmoved,
        LauncherAlive, LauncherStates, Verdicts, Verdict, Places, Signals, Finalizing
  <2>. QED
    BY <1>5, <2>1, LoopMovesOn DEF ProbeDead, Stays, Goes, Finalizing, IInv, TypeOK,
        queue, launch
<1>6. CASE LoopDies(l)
  <2>1. Handles(l)'
    BY <1>6 DEF IInv, Lawful, Stage, Executed, Reported, Handles, LoopDies, Goes, queue,
        launch, TypeOK, Unlaunched, Unmoved, LauncherAlive, LauncherStates,
        Verdicts, Verdict, Places, Signals, Finalizing
  <2>. QED
    BY <1>6, <2>1, LoopMovesOn DEF LoopDies, Goes, Finalizing, IInv, TypeOK, queue, launch
<1>7. CASE StartDispatch(l)
  <2>1. Handles(l)'
    BY <1>7 DEF IInv, Lawful, Stage, Executed, Reported, Handles, StartDispatch, Goes,
        queue, launch, TypeOK, Unlaunched, Unmoved, LauncherAlive,
        LauncherStates, Verdicts, Verdict, Places, Signals, Finalizing
  <2>. QED
    BY <1>7, <2>1, LoopMovesOn DEF StartDispatch, Goes, Finalizing, IInv, TypeOK, queue,
        launch
<1>8. CASE AdmitNoGpu(l)
  <2>1. Handles(l)'
    BY <1>8 DEF IInv, Lawful, Stage, Executed, Reported, Handles, AdmitNoGpu, Admits,
        Leaves, Goes, queue, launch, TypeOK, Unlaunched, Unmoved,
        LauncherAlive, LauncherStates, Verdicts, Verdict, Places, Signals, Finalizing
  <2>. QED
    BY <1>8, <2>1, LoopMovesOn DEF AdmitNoGpu, Admits, Leaves, Goes, Finalizing, IInv,
        TypeOK, queue, launch
<1>9. CASE EndPass(l)
  <2>1. Handles(l)'
    BY <1>9 DEF IInv, Lawful, Stage, Executed, Reported, Handles, EndPass, Stays, Goes,
        queue, launch, TypeOK, Unlaunched, Unmoved, LauncherAlive,
        LauncherStates, Verdicts, Verdict, Places, Signals, Finalizing
  <2>. QED
    BY <1>9, <2>1, LoopMovesOn DEF EndPass, Stays, Goes, Finalizing, IInv, TypeOK, queue,
        launch
<1>10. ASSUME NEW r \in Runs, RecoverSkip(l, r) PROVE IInv'
  <2>1. Handles(l)'
    BY <1>10 DEF IInv, Lawful, Stage, Executed, Reported, Handles, RecoverSkip, Skips,
        Goes, queue, launch, TypeOK, Unlaunched, Unmoved, LauncherAlive,
        LauncherStates, Verdicts, Verdict, Places, Signals, Finalizing
  <2>. QED
    BY <1>10, <2>1, LoopMovesOn DEF RecoverSkip, Skips, Goes, Finalizing, IInv, TypeOK,
        queue, launch
<1>11. ASSUME NEW r \in Runs, RecoverTake(l, r) PROVE IInv'
  <2>1. Handles(l)'
    BY <1>11 DEF IInv, Lawful, Stage, Executed, Reported, Handles, RecoverTake, Takes,
        Goes, Identified, queue, launch, TypeOK, Unlaunched, Unmoved,
        LauncherAlive, LauncherStates, Verdicts, Verdict, Places, Signals, Finalizing
  <2>. QED
    BY <1>11, <2>1, LoopMovesOn DEF RecoverTake, Takes, Goes, Identified, Finalizing,
        IInv, TypeOK, queue, launch
<1>12. ASSUME NEW r \in Runs, DispatchSkip(l, r) PROVE IInv'
  <2>1. Handles(l)'
    BY <1>12 DEF IInv, Lawful, Stage, Executed, Reported, Handles, DispatchSkip, Skips,
        Goes, queue, launch, TypeOK, Unlaunched, Unmoved, LauncherAlive,
        LauncherStates, Verdicts, Verdict, Places, Signals, Finalizing
  <2>. QED
    BY <1>12, <2>1, LoopMovesOn DEF DispatchSkip, Skips, Goes, Finalizing, IInv, TypeOK,
        queue, launch
<1>13. ASSUME NEW r \in Runs, DispatchTake(l, r) PROVE IInv'
  <2>1. Handles(l)'
    BY <1>13 DEF IInv, Lawful, Stage, Executed, Reported, Handles, DispatchTake, Takes,
        Goes, Submitted, queue, launch, TypeOK, Unlaunched, Unmoved,
        LauncherAlive, LauncherStates, Verdicts, Verdict, Places, Signals, Finalizing
  <2>. QED
    BY <1>13, <2>1, LoopMovesOn DEF DispatchTake, Takes, Goes, Submitted, Finalizing,
        IInv, TypeOK, queue, launch
<1>. QED
  BY <1>1, <1>2, <1>3, <1>4, <1>5, <1>6, <1>7, <1>8, <1>9, <1>10, <1>11, <1>12, <1>13

\* RecoverManifest keeps the invariant.
LEMMA RecoverManifestKeeps ==
    ASSUME IInv, TypeOK', NEW l \in Loops, RecoverManifest(l)
    PROVE  IInv'
<1>1. cur[l] \in Runs /\ Handles(l) /\ Lawful(cur[l])
  BY DEF IInv, Handles, RecoverManifest, Recovers, WriteManifest, Stays, Goes
<1>2. ASSUME NEW r \in Runs PROVE Lawful(r)'
  BY <1>1 DEF IInv, Lawful, Stage, Executed, Reported, Handles, RecoverManifest, Recovers,
      WriteManifest, Stays, Goes, queue, launch, TypeOK, Unlaunched, Unmoved,
      LauncherAlive, LauncherStates, Verdicts, Verdict, Places, Signals, Finalizing
<1>3. ASSUME NEW m \in Loops PROVE Handles(m)'
  BY <1>1 DEF IInv, Lawful, Stage, Executed, Reported, Handles, RecoverManifest, Recovers,
      WriteManifest, Stays, Goes, Exclusive, queue, launch, TypeOK,
      Unlaunched, Unmoved, LauncherAlive, LauncherStates, Verdicts, Verdict, Places, Signals,
      Finalizing
<1>4. Exclusive'
  BY <1>1 DEF IInv, Exclusive, Handles, Lawful, Stage, Executed, Reported,
      RecoverManifest, Recovers, WriteManifest, Stays, Goes, TypeOK, Unlaunched,
      Unmoved, LauncherAlive, LauncherStates, Verdicts, Verdict, Places,
      Signals, Finalizing
<1>. QED
  BY <1>2, <1>3, <1>4 DEF IInv

\* RecoverResult keeps the invariant.
LEMMA RecoverResultKeeps ==
    ASSUME IInv, TypeOK', NEW l \in Loops, RecoverResult(l)
    PROVE  IInv'
<1>1. cur[l] \in Runs /\ Handles(l) /\ Lawful(cur[l])
  BY DEF IInv, Handles, RecoverResult, Recovers, WriteResult, Stays, Goes
<1>2. ASSUME NEW r \in Runs PROVE Lawful(r)'
  BY <1>1 DEF IInv, Lawful, Stage, Executed, Reported, Handles, RecoverResult, Recovers,
      WriteResult, Stays, Goes, queue, launch, TypeOK, Unlaunched, Unmoved,
      LauncherAlive, LauncherStates, Verdicts, Verdict, Places, Signals, Finalizing
<1>3. ASSUME NEW m \in Loops PROVE Handles(m)'
  BY <1>1 DEF IInv, Lawful, Stage, Executed, Reported, Handles, RecoverResult, Recovers,
      WriteResult, Stays, Goes, Exclusive, queue, launch, TypeOK,
      Unlaunched, Unmoved, LauncherAlive, LauncherStates, Verdicts, Verdict, Places, Signals,
      Finalizing
<1>4. Exclusive'
  BY <1>1 DEF IInv, Exclusive, Handles, Lawful, Stage, Executed, Reported, RecoverResult,
      Recovers, WriteResult, Stays, Goes, TypeOK, Unlaunched, Unmoved,
      LauncherAlive, LauncherStates, Verdicts, Verdict, Places, Signals, Finalizing
<1>. QED
  BY <1>2, <1>3, <1>4 DEF IInv

\* RecoverMove keeps the invariant.
LEMMA RecoverMoveKeeps ==
    ASSUME IInv, TypeOK', NEW l \in Loops, RecoverMove(l)
    PROVE  IInv'
<1>1. cur[l] \in Runs /\ Handles(l) /\ Lawful(cur[l])
  BY DEF IInv, Handles, RecoverMove, Recovers, MoveTo, Stays, Goes
<1>2. ASSUME NEW r \in Runs PROVE Lawful(r)'
  BY <1>1 DEF IInv, Lawful, Stage, Executed, Reported, Handles, RecoverMove, Recovers,
      MoveTo, Stays, Goes, queue, launch, TypeOK, Unlaunched, Unmoved,
      LauncherAlive, LauncherStates, Verdicts, Verdict, Places, Signals, Finalizing
<1>3. ASSUME NEW m \in Loops PROVE Handles(m)'
  BY <1>1 DEF IInv, Lawful, Stage, Executed, Reported, Handles, RecoverMove, Recovers,
      MoveTo, Stays, Goes, Exclusive, queue, launch, TypeOK,
      Unlaunched, Unmoved, LauncherAlive, LauncherStates, Verdicts, Verdict, Places, Signals,
      Finalizing
<1>4. Exclusive'
  BY <1>1 DEF IInv, Exclusive, Handles, Lawful, Stage, Executed, Reported, RecoverMove,
      Recovers, MoveTo, Stays, Goes, TypeOK, Unlaunched, Unmoved,
      LauncherAlive, LauncherStates, Verdicts, Verdict, Places, Signals, Finalizing
<1>. QED
  BY <1>2, <1>3, <1>4 DEF IInv

\* RecoverReady keeps the invariant.
LEMMA RecoverReadyKeeps ==
    ASSUME IInv, TypeOK', NEW l \in Loops, RecoverReady(l)
    PROVE  IInv'
<1>1. cur[l] \in Runs /\ Handles(l) /\ Lawful(cur[l])
  BY DEF IInv, Handles, RecoverReady, Touch, Leaves, Goes
<1>2. ASSUME NEW r \in Runs PROVE Lawful(r)'
  BY <1>1 DEF IInv, Lawful, Stage, Executed, Reported, Handles, RecoverReady, Touch,
      Leaves, Goes, queue, launch, TypeOK, Unlaunched, Unmoved, LauncherAlive,
      LauncherStates, Verdicts, Verdict, Places, Signals, Finalizing
<1>3. ASSUME NEW m \in Loops PROVE Handles(m)'
  BY <1>1 DEF IInv, Lawful, Stage, Executed, Reported, Handles, RecoverReady, Touch,
      Leaves, Goes, Exclusive, queue, launch, TypeOK, Unlaunched, Unmoved,
      LauncherAlive, LauncherStates, Verdicts, Verdict, Places, Signals, Finalizing
<1>4. Exclusive'
  BY <1>1 DEF IInv, Exclusive, Handles, Lawful, Stage, Executed, Reported, RecoverReady,
      Touch, Leaves, Goes, TypeOK, Unlaunched, Unmoved, LauncherAlive,
      LauncherStates, Verdicts, Verdict, Places, Signals, Finalizing
<1>. QED
  BY <1>2, <1>3, <1>4 DEF IInv

\* AdmitHold keeps the invariant.
LEMMA AdmitHoldKeeps ==
    ASSUME IInv, TypeOK', NEW l \in Loops, AdmitHold(l)
    PROVE  IInv'
<1>1. cur[l] \in Runs /\ Handles(l) /\ Lawful(cur[l])
  BY DEF IInv, Handles, AdmitHold, Admits, WriteStatus, Leaves, Goes
<1>2. ASSUME NEW r \in Runs PROVE Lawful(r)'
  BY <1>1 DEF IInv, Lawful, Stage, Executed, Reported, Handles, AdmitHold, Admits,
      WriteStatus, Leaves, Goes, queue, launch, TypeOK, Unlaunched, Unmoved,
      LauncherAlive, LauncherStates, Verdicts, Verdict, Places, Signals, Finalizing
<1>3. ASSUME NEW m \in Loops PROVE Handles(m)'
  BY <1>1 DEF IInv, Lawful, Stage, Executed, Reported, Handles, AdmitHold, Admits,
      WriteStatus, Leaves, Goes, Exclusive, queue, launch, TypeOK,
      Unlaunched, Unmoved, LauncherAlive, LauncherStates, Verdicts, Verdict, Places, Signals,
      Finalizing
<1>4. Exclusive'
  BY <1>1 DEF IInv, Exclusive, Handles, Lawful, Stage, Executed, Reported, AdmitHold,
      Admits, WriteStatus, Leaves, Goes, TypeOK, Unlaunched, Unmoved,
      LauncherAlive, LauncherStates, Verdicts, Verdict, Places, Signals, Finalizing
<1>. QED
  BY <1>2, <1>3, <1>4 DEF IInv

\* AdmitMove keeps the invariant.
LEMMA AdmitMoveKeeps ==
    ASSUME IInv, TypeOK', NEW l \in Loops, AdmitMove(l)
    PROVE  IInv'
<1>1. cur[l] \in Runs /\ Handles(l) /\ Lawful(cur[l])
  BY DEF IInv, Handles, AdmitMove, Admits, MoveTo, Stays, Goes
<1>2. ASSUME NEW r \in Runs PROVE Lawful(r)'
  BY <1>1 DEF IInv, Lawful, Stage, Executed, Reported, Handles, AdmitMove, Admits, MoveTo,
      Stays, Goes, queue, launch, TypeOK, Unlaunched, Unmoved, LauncherAlive,
      LauncherStates, Verdicts, Verdict, Places, Signals, Finalizing
<1>3. ASSUME NEW m \in Loops PROVE Handles(m)'
  BY <1>1 DEF IInv, Lawful, Stage, Executed, Reported, Handles, AdmitMove, Admits, MoveTo,
      Stays, Goes, Exclusive, queue, launch, TypeOK, Unlaunched, Unmoved,
      LauncherAlive, LauncherStates, Verdicts, Verdict, Places, Signals, Finalizing
<1>4. Exclusive'
  BY <1>1 DEF IInv, Exclusive, Handles, Lawful, Stage, Executed, Reported, AdmitMove,
      Admits, MoveTo, Stays, Goes, TypeOK, Unlaunched, Unmoved, LauncherAlive,
      LauncherStates, Verdicts, Verdict, Places, Signals, Finalizing
<1>. QED
  BY <1>2, <1>3, <1>4 DEF IInv

\* TouchStarted keeps the invariant.
LEMMA TouchStartedKeeps ==
    ASSUME IInv, TypeOK', NEW l \in Loops, TouchStarted(l)
    PROVE  IInv'
<1>1. cur[l] \in Runs /\ Handles(l) /\ Lawful(cur[l])
  BY DEF IInv, Handles, TouchStarted, Touch, Stays, Goes
<1>2. ASSUME NEW r \in Runs PROVE Lawful(r)'
  BY <1>1 DEF IInv, Lawful, Stage, Executed, Reported, Handles, TouchStarted, Touch,
      Stays, Goes, queue, launch, TypeOK, Unlaunched, Unmoved, LauncherAlive,
      LauncherStates, Verdicts, Verdict, Places, Signals, Finalizing
<1>3. ASSUME NEW m \in Loops PROVE Handles(m)'
  BY <1>1 DEF IInv, Lawful, Stage, Executed, Reported, Handles, TouchStarted, Touch,
      Stays, Goes, Exclusive, queue, launch, TypeOK, Unlaunched, Unmoved,
      LauncherAlive, LauncherStates, Verdicts, Verdict, Places, Signals, Finalizing
<1>4. Exclusive'
  BY <1>1 DEF IInv, Exclusive, Handles, Lawful, Stage, Executed, Reported, TouchStarted,
      Touch, Stays, Goes, TypeOK, Unlaunched, Unmoved, LauncherAlive,
      LauncherStates, Verdicts, Verdict, Places, Signals, Finalizing
<1>. QED
  BY <1>2, <1>3, <1>4 DEF IInv

\* Spawn keeps the invariant.
LEMMA SpawnKeeps ==
    ASSUME IInv, TypeOK', NEW l \in Loops, Spawn(l)
    PROVE  IInv'
<1>1. cur[l] \in Runs /\ Handles(l) /\ Lawful(cur[l])
  BY DEF IInv, Handles, Spawn
<1>2. ASSUME NEW r \in Runs PROVE Lawful(r)'
  BY <1>1 DEF IInv, Lawful, Stage, Executed, Reported, Handles, Spawn, queue, launch,
      TypeOK, Unlaunched, Unmoved, LauncherAlive, LauncherStates, Verdicts,
      Verdict, Places, Signals, Finalizing
<1>3. ASSUME NEW m \in Loops PROVE Handles(m)'
  BY <1>1 DEF IInv, Lawful, Stage, Executed, Reported, Handles, Spawn, Exclusive, queue,
      launch, TypeOK, Unlaunched, Unmoved, LauncherAlive, LauncherStates,
      Verdicts, Verdict, Places, Signals, Finalizing
<1>4. Exclusive'
  BY <1>1 DEF IInv, Exclusive, Handles, Lawful, Stage, Executed, Reported, Spawn, TypeOK,
      Unlaunched, Unmoved, LauncherAlive, LauncherStates, Verdicts, Verdict,
      Places, Signals, Finalizing
<1>. QED
  BY <1>2, <1>3, <1>4 DEF IInv

\* Submit keeps the invariant.
LEMMA SubmitKeeps ==
    ASSUME IInv, TypeOK', NEW r \in Runs, Submit(r)
    PROVE  IInv'
<1>1. Lawful(r)
  BY DEF IInv
<1>2. ASSUME NEW q \in Runs PROVE Lawful(q)'
  BY <1>1, InputsAssumption DEF IInv, Lawful, Stage, Executed, Reported, Submit, queue,
      service, launch, TypeOK, Unlaunched, Unmoved, LauncherAlive,
      LauncherStates, Verdicts, Verdict, Places, Signals, Finalizing
<1>3. ASSUME NEW m \in Loops PROVE Handles(m)'
  BY <1>1 DEF IInv, Lawful, Stage, Executed, Reported, Handles, Submit, queue, service,
      launch, TypeOK, Unlaunched, Unmoved, LauncherAlive, LauncherStates,
      Verdicts, Verdict, Places, Signals, Finalizing
<1>4. Exclusive'
  BY <1>1 DEF IInv, Exclusive, Submit, service
<1>. QED
  BY <1>2, <1>3, <1>4 DEF IInv

\* PublishRequest keeps the invariant.
LEMMA PublishRequestKeeps ==
    ASSUME IInv, TypeOK', NEW r \in Runs, PublishRequest(r)
    PROVE  IInv'
<1>1. Lawful(r)
  BY DEF IInv
<1>2. ASSUME NEW q \in Runs PROVE Lawful(q)'
  BY <1>1, InputsAssumption DEF IInv, Lawful, Stage, Executed, Reported, PublishRequest,
      Touch, queue, service, launch, TypeOK, Unlaunched, Unmoved,
      LauncherAlive, LauncherStates, Verdicts, Verdict, Places, Signals, Finalizing
<1>3. ASSUME NEW m \in Loops PROVE Handles(m)'
  BY <1>1 DEF IInv, Lawful, Stage, Executed, Reported, Handles, PublishRequest, Touch,
      queue, service, launch, TypeOK, Unlaunched, Unmoved, LauncherAlive,
      LauncherStates, Verdicts, Verdict, Places, Signals, Finalizing
<1>4. Exclusive'
  BY <1>1 DEF IInv, Exclusive, PublishRequest, Touch, service
<1>. QED
  BY <1>2, <1>3, <1>4 DEF IInv

\* Repair keeps the invariant.
LEMMA RepairKeeps ==
    ASSUME IInv, TypeOK', NEW r \in Runs, Repair(r)
    PROVE  IInv'
<1>1. Lawful(r)
  BY DEF IInv
<1>2. ASSUME NEW q \in Runs PROVE Lawful(q)'
  BY <1>1, InputsAssumption DEF IInv, Lawful, Stage, Executed, Reported, Repair, queue,
      service, launch, TypeOK, Unlaunched, Unmoved, LauncherAlive,
      LauncherStates, Verdicts, Verdict, Places, Signals, Finalizing
<1>3. ASSUME NEW m \in Loops PROVE Handles(m)'
  BY <1>1 DEF IInv, Lawful, Stage, Executed, Reported, Handles, Repair, queue, service,
      launch, TypeOK, Unlaunched, Unmoved, LauncherAlive, LauncherStates,
      Verdicts, Verdict, Places, Signals, Finalizing
<1>4. Exclusive'
  BY <1>1 DEF IInv, Exclusive, Repair, service
<1>. QED
  BY <1>2, <1>3, <1>4 DEF IInv

\* Identify keeps the invariant.
LEMMA IdentifyKeeps ==
    ASSUME IInv, TypeOK', NEW r \in Runs, Identify(r)
    PROVE  IInv'
<1>1. Lawful(r)
  BY DEF IInv
<1>2. ASSUME NEW q \in Runs PROVE Lawful(q)'
  BY <1>1, InputsAssumption DEF IInv, Lawful, Stage, Executed, Reported, Identify,
      Advance, WriteStatus, queue, service, launch, TypeOK,
      Unlaunched, Unmoved, LauncherAlive, LauncherStates, Verdicts, Verdict, Places, Signals,
      Finalizing
<1>3. ASSUME NEW m \in Loops PROVE Handles(m)'
  BY <1>1 DEF IInv, Lawful, Stage, Executed, Reported, Handles, Identify, Advance,
      WriteStatus, queue, service, launch, TypeOK, Unlaunched, Unmoved,
      LauncherAlive, LauncherStates, Verdicts, Verdict, Places, Signals, Finalizing
<1>4. Exclusive'
  BY <1>1 DEF IInv, Exclusive, Identify, Advance, WriteStatus, service
<1>. QED
  BY <1>2, <1>3, <1>4 DEF IInv

\* Execute keeps the invariant.
LEMMA ExecuteKeeps ==
    ASSUME IInv, TypeOK', NEW r \in Runs, Execute(r)
    PROVE  IInv'
<1>1. Lawful(r)
  BY DEF IInv
<1>2. ASSUME NEW q \in Runs PROVE Lawful(q)'
  BY <1>1, InputsAssumption DEF IInv, Lawful, Stage, Executed, Reported, Execute, queue,
      service, launch, TypeOK, Unlaunched, Unmoved, LauncherAlive,
      LauncherStates, Verdicts, Verdict, Places, Signals, Finalizing
<1>3. ASSUME NEW m \in Loops PROVE Handles(m)'
  BY <1>1 DEF IInv, Lawful, Stage, Executed, Reported, Handles, Execute, queue, service,
      launch, TypeOK, Unlaunched, Unmoved, LauncherAlive, LauncherStates,
      Verdicts, Verdict, Places, Signals, Finalizing
<1>4. Exclusive'
  BY <1>1 DEF IInv, Exclusive, Execute, service
<1>. QED
  BY <1>2, <1>3, <1>4 DEF IInv

\* CommandEnds keeps the invariant.
LEMMA CommandEndsKeeps ==
    ASSUME IInv, TypeOK', NEW r \in Runs, CommandEnds(r)
    PROVE  IInv'
<1>1. Lawful(r)
  BY DEF IInv
<1>2. ASSUME NEW q \in Runs PROVE Lawful(q)'
  BY <1>1, InputsAssumption DEF IInv, Lawful, Stage, Executed, Reported, CommandEnds,
      queue, service, launch, TypeOK, Unlaunched, Unmoved, LauncherAlive,
      LauncherStates, Verdicts, Verdict, Places, Signals, Finalizing
<1>3. ASSUME NEW m \in Loops PROVE Handles(m)'
  BY <1>1 DEF IInv, Lawful, Stage, Executed, Reported, Handles, CommandEnds, queue,
      service, launch, TypeOK, Unlaunched, Unmoved, LauncherAlive,
      LauncherStates, Verdicts, Verdict, Places, Signals, Finalizing
<1>4. Exclusive'
  BY <1>1 DEF IInv, Exclusive, CommandEnds, service
<1>. QED
  BY <1>2, <1>3, <1>4 DEF IInv

\* LaunchManifest keeps the invariant.
LEMMA LaunchManifestKeeps ==
    ASSUME IInv, TypeOK', NEW r \in Runs, LaunchManifest(r)
    PROVE  IInv'
<1>1. Lawful(r)
  BY DEF IInv
<1>2. ASSUME NEW q \in Runs PROVE Lawful(q)'
  BY <1>1, InputsAssumption DEF IInv, Lawful, Stage, Executed, Reported, LaunchManifest,
      Advance, WriteManifest, queue, service, launch, TypeOK,
      Unlaunched, Unmoved, LauncherAlive, LauncherStates, Verdicts, Verdict, Places, Signals,
      Finalizing
<1>3. ASSUME NEW m \in Loops PROVE Handles(m)'
  BY <1>1 DEF IInv, Lawful, Stage, Executed, Reported, Handles, LaunchManifest, Advance,
      WriteManifest, queue, service, launch, TypeOK, Unlaunched, Unmoved,
      LauncherAlive, LauncherStates, Verdicts, Verdict, Places, Signals, Finalizing
<1>4. Exclusive'
  BY <1>1 DEF IInv, Exclusive, LaunchManifest, Advance, WriteManifest, service
<1>. QED
  BY <1>2, <1>3, <1>4 DEF IInv

\* LaunchResult keeps the invariant.
LEMMA LaunchResultKeeps ==
    ASSUME IInv, TypeOK', NEW r \in Runs, LaunchResult(r)
    PROVE  IInv'
<1>1. Lawful(r)
  BY DEF IInv
<1>2. ASSUME NEW q \in Runs PROVE Lawful(q)'
  BY <1>1, InputsAssumption DEF IInv, Lawful, Stage, Executed, Reported, LaunchResult,
      Advance, WriteResult, queue, service, launch, TypeOK,
      Unlaunched, Unmoved, LauncherAlive, LauncherStates, Verdicts, Verdict, Places, Signals,
      Finalizing
<1>3. ASSUME NEW m \in Loops PROVE Handles(m)'
  BY <1>1 DEF IInv, Lawful, Stage, Executed, Reported, Handles, LaunchResult, Advance,
      WriteResult, queue, service, launch, TypeOK, Unlaunched, Unmoved,
      LauncherAlive, LauncherStates, Verdicts, Verdict, Places, Signals, Finalizing
<1>4. Exclusive'
  BY <1>1 DEF IInv, Exclusive, LaunchResult, Advance, WriteResult, service
<1>. QED
  BY <1>2, <1>3, <1>4 DEF IInv

\* LaunchMove keeps the invariant.
LEMMA LaunchMoveKeeps ==
    ASSUME IInv, TypeOK', NEW r \in Runs, LaunchMove(r)
    PROVE  IInv'
<1>1. Lawful(r)
  BY DEF IInv
<1>2. ASSUME NEW q \in Runs PROVE Lawful(q)'
  BY <1>1, InputsAssumption DEF IInv, Lawful, Stage, Executed, Reported, LaunchMove,
      Advance, MoveTo, queue, service, launch, TypeOK, Unlaunched, Unmoved,
      LauncherAlive, LauncherStates, Verdicts, Verdict, Places, Signals, Finalizing
<1>3. ASSUME NEW m \in Loops PROVE Handles(m)'
  BY <1>1 DEF IInv, Lawful, Stage, Executed, Reported, Handles, LaunchMove, Advance,
      MoveTo, queue, service, launch, TypeOK, Unlaunched, Unmoved,
      LauncherAlive, LauncherStates, Verdicts, Verdict, Places, Signals, Finalizing
<1>4. Exclusive'
  BY <1>1 DEF IInv, Exclusive, LaunchMove, Advance, MoveTo, service
<1>. QED
  BY <1>2, <1>3, <1>4 DEF IInv

\* LaunchReady keeps the invariant.
LEMMA LaunchReadyKeeps ==
    ASSUME IInv, TypeOK', NEW r \in Runs, LaunchReady(r)
    PROVE  IInv'
<1>1. Lawful(r)
  BY DEF IInv
<1>2. ASSUME NEW q \in Runs PROVE Lawful(q)'
  BY <1>1, InputsAssumption DEF IInv, Lawful, Stage, Executed, Reported, LaunchReady,
      Advance, Touch, queue, service, launch, TypeOK, Unlaunched, Unmoved,
      LauncherAlive, LauncherStates, Verdicts, Verdict, Places, Signals, Finalizing
<1>3. ASSUME NEW m \in Loops PROVE Handles(m)'
  BY <1>1 DEF IInv, Lawful, Stage, Executed, Reported, Handles, LaunchReady, Advance,
      Touch, queue, service, launch, TypeOK, Unlaunched, Unmoved,
      LauncherAlive, LauncherStates, Verdicts, Verdict, Places, Signals, Finalizing
<1>4. Exclusive'
  BY <1>1 DEF IInv, Exclusive, LaunchReady, Advance, Touch, service
<1>. QED
  BY <1>2, <1>3, <1>4 DEF IInv

\* KillLauncher keeps the invariant.
LEMMA KillLauncherKeeps ==
    ASSUME IInv, TypeOK', NEW r \in Runs, KillLauncher(r)
    PROVE  IInv'
<1>1. Lawful(r)
  BY DEF IInv
<1>2. ASSUME NEW q \in Runs PROVE Lawful(q)'
  BY <1>1, InputsAssumption DEF IInv, Lawful, Stage, Executed, Reported, KillLauncher,
      Fault, queue, service, launch, TypeOK, Unlaunched, Unmoved,
      LauncherAlive, LauncherStates, Verdicts, Verdict, Places, Signals, Finalizing
<1>3. ASSUME NEW m \in Loops PROVE Handles(m)'
  BY <1>1 DEF IInv, Lawful, Stage, Executed, Reported, Handles, KillLauncher, Fault,
      queue, service, launch, TypeOK, Unlaunched, Unmoved, LauncherAlive,
      LauncherStates, Verdicts, Verdict, Places, Signals, Finalizing
<1>4. Exclusive'
  BY <1>1 DEF IInv, Exclusive, KillLauncher, Fault, service
<1>. QED
  BY <1>2, <1>3, <1>4 DEF IInv

\* Report keeps the invariant.
LEMMA ReportKeeps ==
    ASSUME IInv, TypeOK', NEW r \in Runs, Report(r)
    PROVE  IInv'
<1>1. Lawful(r)
  BY DEF IInv
<1>2. ASSUME NEW q \in Runs PROVE Lawful(q)'
  BY <1>1, InputsAssumption DEF IInv, Lawful, Stage, Executed, Reported, Report,
      queue, service, launch, TypeOK, Unlaunched, Unmoved, LauncherAlive,
      LauncherStates, Verdicts, Verdict, Places, Signals, Finalizing
<1>3. ASSUME NEW m \in Loops PROVE Handles(m)'
  BY <1>1 DEF IInv, Lawful, Stage, Executed, Reported, Handles, Report, queue,
      service, launch, TypeOK, Unlaunched, Unmoved, LauncherAlive,
      LauncherStates, Verdicts, Verdict, Places, Signals, Finalizing
<1>4. Exclusive'
  BY <1>1 DEF IInv, Exclusive, Report, service
<1>. QED
  BY <1>2, <1>3, <1>4 DEF IInv

\* OrphanEnds keeps the invariant.
LEMMA OrphanEndsKeeps ==
    ASSUME IInv, TypeOK', NEW r \in Runs, OrphanEnds(r)
    PROVE  IInv'
<1>1. Lawful(r)
  BY DEF IInv
<1>2. ASSUME NEW q \in Runs PROVE Lawful(q)'
  BY <1>1, InputsAssumption DEF IInv, Lawful, Stage, Executed, Reported, OrphanEnds,
      queue, service, launch, TypeOK, Unlaunched, Unmoved, LauncherAlive,
      LauncherStates, Verdicts, Verdict, Places, Signals, Finalizing
<1>3. ASSUME NEW m \in Loops PROVE Handles(m)'
  BY <1>1 DEF IInv, Lawful, Stage, Executed, Reported, Handles, OrphanEnds, queue,
      service, launch, TypeOK, Unlaunched, Unmoved, LauncherAlive,
      LauncherStates, Verdicts, Verdict, Places, Signals, Finalizing
<1>4. Exclusive'
  BY <1>1 DEF IInv, Exclusive, OrphanEnds, service
<1>. QED
  BY <1>2, <1>3, <1>4 DEF IInv

\* Reboot keeps the invariant.
LEMMA RebootKeeps ==
    ASSUME IInv, TypeOK', Reboot
    PROVE  IInv'
<1>1. ASSUME NEW r \in Runs PROVE Lawful(r)'
  BY DEF IInv, Lawful, Stage, Executed, Reported, Reboot, Fault, queue, TypeOK,
      Unlaunched, Unmoved, LauncherAlive, LauncherStates, Verdicts, Verdict,
      Places, Signals, Finalizing
<1>2. ASSUME NEW m \in Loops PROVE Handles(m)'
  BY DEF Handles, Reboot, Fault, Finalizing
<1>3. Exclusive'
  BY DEF Exclusive, Reboot, Fault
<1>. QED
  BY <1>1, <1>2, <1>3 DEF IInv

-----------------------------------------------------------------------------
(* The theorems.                                                              *)

\* Initially nothing is in the queue and nobody runs.
LEMMA InvInit == Init => IInv
BY InputsAssumption, BoundsAssumption
   DEF Init, IInv, TypeOK, Lawful, Stage, Executed, Reported, Handles, Exclusive,
       Unlaunched,
       Unmoved, LauncherAlive, LauncherStates, LoopStates, Finalizing, Places,
       Verdicts, Signals

\* Every step keeps the invariant.
LEMMA InvPreserved == IInv /\ [Next]_vars => IInv'
<1> SUFFICES ASSUME IInv, [Next]_vars PROVE IInv'
  OBVIOUS
<1>1. TypeOK'
  BY TypesPreserved DEF IInv
<1>2. CASE EnsureCheck \/ UNCHANGED vars
  BY <1>1, <1>2 DEF EnsureCheck, vars, queue, service, launch, IInv, Lawful, Stage,
      Executed,
     Reported, Verdict, Handles, Exclusive
<1>3. CASE Reboot
  BY <1>1, <1>3, RebootKeeps
<1>4. ASSUME NEW l \in Loops, StartLoop(l) \/ Serve(l) \/ KillLoop(l) PROVE IInv'
  <2>1. CASE RecoverManifest(l) \/ RecoverResult(l) \/ RecoverMove(l) \/ RecoverReady(l)
             \/ AdmitHold(l) \/ AdmitMove(l) \/ TouchStarted(l) \/ Spawn(l)
    BY <1>1, <2>1, RecoverManifestKeeps, RecoverResultKeeps, RecoverMoveKeeps,
        RecoverReadyKeeps, AdmitHoldKeeps, AdmitMoveKeeps, TouchStartedKeeps, SpawnKeeps
  <2>2. CASE StartLoop(l) \/ KillLoop(l) \/ Beat(l) \/ ProbeAlive(l) \/ ProbeDead(l)
             \/ LoopDies(l) \/ StartDispatch(l) \/ AdmitNoGpu(l) \/ EndPass(l)
    BY <1>1, <2>2, QuietSteps
  <2>3. CASE \E r \in Runs : \/ RecoverSkip(l, r)
                             \/ RecoverTake(l, r)
                             \/ DispatchSkip(l, r)
                             \/ DispatchTake(l, r)
    BY <1>1, <2>3, QuietSteps
  <2>. QED
    BY <1>4, <2>1, <2>2, <2>3 DEF Serve
<1>5. ASSUME NEW r \in Runs,
             \/ Submit(r) \/ PublishRequest(r) \/ Repair(r)
             \/ Launch(r) \/ Report(r) \/ KillLauncher(r) \/ OrphanEnds(r)
      PROVE  IInv'
  BY <1>1, <1>5, SubmitKeeps, PublishRequestKeeps, RepairKeeps, IdentifyKeeps,
      ExecuteKeeps, CommandEndsKeeps, LaunchManifestKeeps, LaunchResultKeeps,
      LaunchMoveKeeps, LaunchReadyKeeps, KillLauncherKeeps, OrphanEndsKeeps, ReportKeeps DEF Launch
<1>. QED
  BY <1>2, <1>3, <1>4, <1>5 DEF Next

\* The invariant holds throughout.
THEOREM Invariant == Spec => []IInv
<1>. QED
  BY InvInit, InvPreserved, PTL DEF Spec

\* The types are right in every state.
THEOREM TypeCorrect == Spec => []TypeOK
<1>1. IInv => TypeOK
  BY DEF IInv
<1>. QED
  BY <1>1, Invariant, PTL

\* terminal.json of a finished run names the directory that finalize_run moved
\* it to, whoever finalized it and however often.
THEOREM ManifestsMatch == Spec => []ManifestMatches
<1>1. IInv => ManifestMatches
  BY DEF IInv, Lawful, Reported, ManifestMatches
<1>. QED
  BY <1>1, Invariant, PTL

\* done/ holds only runs whose command was started once and exited with zero.
THEOREM DoneIsEarned == Spec => []DoneIsTrue
<1>1. IInv => DoneIsTrue
  BY DEF IInv, Lawful, Reported, DoneIsTrue
<1>. QED
  BY <1>1, Invariant, PTL

\* A finished run has a RESULT.md, which disagrees with the directory only after
\* the launcher was killed.
THEOREM ResultsAgree == Spec => []ResultAgrees
<1>1. IInv => ResultAgrees
  BY DEF IInv, Lawful, Reported, ResultAgrees
<1>. QED
  BY <1>1, Invariant, PTL

\* Nothing recovers, finalizes or moves a run that has been announced: the loops
\* and launchers that still handle it find it where it no longer is.
THEOREM AnnouncedStays == Spec => AnnouncedIsFinal
<1>1. ASSUME IInv, [Next]_vars, NEW r \in Runs, "ready" \in signals[r]
      PROVE  /\ UNCHANGED <<place[r], manifest[r]>>
             /\ result'[r] = result[r] \/ launcher[r] = "killed"
  <2>1. /\ place[r] \in Verdicts
        /\ command[r] = "running" => launcher[r] = "killed"
    BY <1>1 DEF IInv, Lawful, Stage, Executed, Reported, TypeOK, Unlaunched, LauncherStates,
                LauncherAlive, Unmoved, Verdicts
  <2> USE <1>1, <2>1 DEF IInv, TypeOK, Verdicts, queue, Goes
  <2>2. ASSUME NEW l \in Loops, Serve(l)
        PROVE  UNCHANGED <<place[r], manifest[r], result[r]>>
    <3>1. CASE RecoverManifest(l) \/ RecoverResult(l) \/ RecoverMove(l)
      BY <3>1 DEF RecoverManifest, RecoverResult, RecoverMove, Recovers, WriteManifest,
                  WriteResult, MoveTo
    <3>2. CASE AdmitHold(l) \/ AdmitMove(l)
      BY <3>2 DEF AdmitHold, AdmitMove, Admits, WriteStatus, MoveTo
    <3>3. CASE TouchStarted(l) \/ RecoverReady(l) \/ Spawn(l)
      BY <3>3 DEF TouchStarted, RecoverReady, Spawn, Touch
    <3>4. CASE UNCHANGED queue
      BY <3>4
    <3> QED
      BY <2>2, <3>1, <3>2, <3>3, <3>4
         DEF Serve, Beat, ProbeAlive, ProbeDead, LoopDies, StartDispatch, AdmitNoGpu, EndPass,
             RecoverSkip, RecoverTake, DispatchSkip, DispatchTake
  <2>3. ASSUME NEW q \in Runs, Launch(q)
        PROVE  UNCHANGED <<place[r], manifest[r], result[r]>>
    BY <2>3 DEF Launch, Identify, Execute, CommandEnds, LaunchManifest, LaunchResult,
                LaunchMove, LaunchReady, WriteStatus, WriteManifest, WriteResult, MoveTo, Touch
  <2>4. ASSUME NEW q \in Runs, Submit(q) \/ PublishRequest(q) \/ Repair(q)
        PROVE  UNCHANGED <<place[r], manifest[r], result[r]>>
    BY <2>4 DEF Submit, PublishRequest, Repair, Touch
  <2>5. ASSUME NEW q \in Runs, Report(q)
        PROVE  /\ UNCHANGED <<place[r], manifest[r]>>
               /\ result'[r] = result[r] \/ launcher[r] = "killed"
    BY <2>5 DEF Report
  <2>6. CASE \/ EnsureCheck \/ Reboot \/ UNCHANGED vars
             \/ \E l \in Loops : StartLoop(l) \/ KillLoop(l)
             \/ \E q \in Runs : KillLauncher(q) \/ OrphanEnds(q)
    BY <2>6 DEF EnsureCheck, Reboot, vars, StartLoop, KillLoop, KillLauncher, OrphanEnds
  <2> QED
    BY <2>2, <2>3, <2>4, <2>5, <2>6 DEF Next
<1>2. IInv /\ [Next]_vars =>
          \A r \in Runs : "ready" \in signals[r] =>
             /\ UNCHANGED <<place[r], manifest[r]>>
             /\ result'[r] = result[r] \/ launcher[r] = "killed"
  BY <1>1
<1>. QED
  BY <1>2, Invariant, PTL DEF Spec, AnnouncedIsFinal

\* launch_run records an identity before it executes the command.
THEOREM IdentityIsFirst == Spec => []IdentityFirst
<1>1. IInv => IdentityFirst
  <2> SUFFICES ASSUME IInv, NEW r \in Runs, execs[r] > 0 PROVE status[r] = "launch"
    BY DEF IdentityFirst
  <2>. QED
    BY DEF IInv, Lawful, Executed
<1>. QED
  BY <1>1, Invariant, PTL

-----------------------------------------------------------------------------
(* The runner implements QueueLifecycle.                                      *)

\* The empty queue is the initial state of the lifecycle.
LEMMA LifecycleInit == Init => Lifecycle!Init
BY DEF Init, Lifecycle!Init

\* A directory that moves on enters its new place without that place's signal.
LEMMA MovesEnter ==
    ASSUME TypeOK, NEW r \in Runs, NEW p \in Places, SignalOf(p) \notin signals[r],
           place' = [place EXCEPT ![r] = p], signals' = signals, execs' = execs
    PROVE  Lifecycle!Enter(r, p)
BY DEF Lifecycle!Enter, TypeOK, SignalOf, Places

\* A touch of the signal of the place where the run is publishes that place, or
\* changes nothing.
LEMMA TouchPublishes ==
    ASSUME TypeOK, NEW r \in Runs, Touch(r, SignalOf(place[r])), place[r] # "absent",
           execs' = execs
    PROVE  Lifecycle!Publish(r) \/ UNCHANGED Lifecycle!vars
<1>1. CASE SignalOf(place[r]) \in signals[r]
  <2>1. signals' = signals
    BY <1>1 DEF Touch, TypeOK
  <2>. QED
    BY <2>1 DEF Lifecycle!vars, Touch, SignalOf
<1>2. CASE SignalOf(place[r]) \notin signals[r]
  BY <1>2 DEF Lifecycle!Publish, Touch, TypeOK, SignalOf
<1>. QED
  BY <1>1, <1>2

\* Each step of the runner is a step of the lifecycle or changes nothing of it.
LEMMA LifecycleStep == IInv /\ [Next]_vars => [Lifecycle!Next]_(Lifecycle!vars)
<1> SUFFICES ASSUME IInv, [Next]_vars, ~UNCHANGED Lifecycle!vars PROVE Lifecycle!Next
  OBVIOUS
<1>1. ~UNCHANGED <<place, signals, execs>>
  BY DEF Lifecycle!vars, SignalOf
<1>2. TypeOK
  BY DEF IInv
<1>3. ASSUME NEW l \in Loops, StartLoop(l) \/ Serve(l) \/ KillLoop(l) PROVE Lifecycle!Next
  <2>1. CASE AdmitMove(l)
    <3>1. PICK q \in Runs : q = cur[l] /\ place[q] = "pending" /\ signals[q] \subseteq {"submitted"}
                              /\ "submitted" \in signals[q]
      BY <2>1 DEF IInv, AdmitMove, Admits, Handles, Lawful, Stage
    <3>2. Lifecycle!Enter(q, "running")
      BY <1>2, <2>1, <3>1, MovesEnter
         DEF AdmitMove, MoveTo, Stays, Goes, launch, SignalOf, Places
    <3>. QED
      BY <3>1, <3>2 DEF Lifecycle!Next, Lifecycle!Start, SignalOf
  <2>2. CASE TouchStarted(l)
    <3>1. PICK q \in Runs : q = cur[l] /\ place[q] = "running"
      BY <2>2 DEF IInv, TouchStarted, Handles
    <3>2. Lifecycle!Publish(q)
      BY <1>2, <2>2, <3>1, TouchPublishes DEF TouchStarted, Stays, Goes, launch, SignalOf
    <3>. QED
      BY <3>1, <3>2 DEF Lifecycle!Next
  <2>3. CASE RecoverMove(l)
    <3>1. PICK q \in Runs : q = cur[l] /\ place[q] = "running" /\ "ready" \notin signals[q]
      BY <2>3 DEF IInv, RecoverMove, Recovers, Handles, Lawful, Reported, Finalizing,
          Verdicts
    <3>2. Lifecycle!Enter(q, "failed")
      BY <1>2, <2>3, <3>1, MovesEnter
         DEF RecoverMove, MoveTo, Stays, Goes, launch, SignalOf, Places
    <3>. QED
      BY <3>1, <3>2 DEF Lifecycle!Next, Lifecycle!Finish, Lifecycle!Verdicts
  <2>4. CASE RecoverReady(l)
    <3>1. PICK q \in Runs : q = cur[l] /\ place[q] \in Verdicts
      BY <2>4 DEF IInv, RecoverReady, Handles
    <3>2. Lifecycle!Publish(q)
      BY <1>2, <2>4, <3>1, TouchPublishes
         DEF RecoverReady, Leaves, Goes, launch, SignalOf, Verdicts
    <3>. QED
      BY <3>1, <3>2 DEF Lifecycle!Next
  <2>. QED
    BY <1>1, <1>3, <2>1, <2>2, <2>3, <2>4
       DEF Serve, StartLoop, KillLoop, Beat, ProbeAlive, ProbeDead, LoopDies,
           StartDispatch, AdmitNoGpu, EndPass, RecoverSkip, RecoverTake, DispatchSkip,
           DispatchTake, RecoverManifest, RecoverResult, AdmitHold, Spawn,
           Recovers, Admits, WriteManifest, WriteResult, WriteStatus, Fault, Skips, Takes,
           Leaves, Stays, Goes, queue, launch
<1>4. ASSUME NEW r \in Runs,
             \/ Submit(r) \/ PublishRequest(r) \/ Repair(r)
             \/ Launch(r) \/ Report(r) \/ KillLauncher(r) \/ OrphanEnds(r)
      PROVE  Lifecycle!Next
  <2>1. CASE Submit(r)
    <3>1. signals[r] = {}
      BY <2>1 DEF IInv, Submit, Lawful, Stage
    <3>2. Lifecycle!Enter(r, "pending")
      BY <1>2, <2>1, <3>1, MovesEnter DEF Submit, SignalOf, Places, launch
    <3>. QED
      BY <2>1, <3>2 DEF Submit, Lifecycle!Next, Lifecycle!Submit
  <2>2. CASE PublishRequest(r)
    <3>1. Lifecycle!Publish(r)
      BY <1>2, <2>2, TouchPublishes DEF PublishRequest, launch, SignalOf
    <3>. QED
      BY <3>1 DEF Lifecycle!Next
  <2>3. CASE Execute(r)
    <3>1. place[r] = "running" /\ execs[r] = 0
      BY <2>3 DEF IInv, Execute, Lawful, Stage, Executed, Unmoved, Unlaunched,
          LauncherAlive,
                  LauncherStates
    <3>2. Lifecycle!Execute(r)
      BY <1>2, <2>3, <3>1 DEF Execute, Lifecycle!Execute, queue, TypeOK
    <3>. QED
      BY <3>2 DEF Lifecycle!Next
  <2>4. CASE LaunchMove(r)
    <3>1. "ready" \notin signals[r] /\ execs[r] = 1
      BY <2>4 DEF IInv, LaunchMove, Advance, Lawful, Executed, Reported, Verdicts
    <3>2. PICK v \in Verdicts : v = Verdict(r)
      BY DEF Verdict, Verdicts
    <3>3. Lifecycle!Enter(r, v)
      <4>1. place' = [place EXCEPT ![r] = v] /\ signals' = signals /\ execs' = execs
        BY <2>4, <3>2 DEF LaunchMove, Advance, MoveTo
      <4>. QED
        BY <1>2, <3>1, <3>2, <4>1, MovesEnter DEF SignalOf, Places, Verdicts
    <3>. QED
      BY <2>4, <3>1, <3>3
         DEF LaunchMove, Lifecycle!Next, Lifecycle!Finish, Lifecycle!Verdicts, Verdicts
  <2>5. CASE LaunchReady(r)
    <3>1. place[r] \in Verdicts
      BY <2>5 DEF IInv, LaunchReady, Advance, Lawful, Stage, Verdict, Verdicts
    <3>2. Lifecycle!Publish(r)
      BY <1>2, <2>5, <3>1, TouchPublishes DEF LaunchReady, Advance, SignalOf, Verdicts
    <3>. QED
      BY <3>2 DEF Lifecycle!Next
  <2>. QED
    BY <1>1, <1>4, <2>1, <2>2, <2>3, <2>4, <2>5
       DEF Launch, Repair, Identify, CommandEnds, LaunchManifest, LaunchResult,
           KillLauncher, OrphanEnds, Report,
           Advance, WriteManifest, WriteResult, WriteStatus, Fault, queue, launch
<1>5. CASE EnsureCheck \/ Reboot \/ UNCHANGED vars
  BY <1>1, <1>5 DEF EnsureCheck, Reboot, Fault, vars, queue, launch
<1>. QED
  BY <1>3, <1>4, <1>5 DEF Next

\* The runner implements the lifecycle that its readers rely on: directories move
\* forward only, signals come after the move they announce, and no command is
\* executed twice.
THEOREM Implements == Spec => ImplementsLifecycle
<1>. QED
  BY Invariant, LifecycleInit, LifecycleStep, PTL DEF Spec, ImplementsLifecycle,
      Lifecycle!Spec

=============================================================================
