------------------------ MODULE RegisteredJobProofs ------------------------
(* Proofs about RegisteredJob, for every set of runs and wrappers and any     *)
(* number of faults: one process runs a job, what it reports is true unless   *)
(* it is terminated, and jobs follow JobLifecycle.                            *)
EXTENDS RegisteredJob, TLAPS

(* The inductive invariant.                                                   *)

\* A job is bound to a process that was started for it, and only the bound
\* process has executed a command.
Bound ==
    /\ \A r \in Runs : owner[r] \in Wrappers => RunOf[owner[r]] = r
    /\ \A w \in Wrappers :
           (step[w] = "start" /\ call[w] = "ok") \/ command[w] # "none"
               => owner[RunOf[w]] = w

\* Where a wrapper may be with its command.
Placed ==
    \A w \in Wrappers :
        /\ step[w] \in {"new", "register", "start"} => command[w] = "none"
        /\ step[w] \in {"execute", "finish"} => command[w] # "none"
        /\ w \in beats => command[w] # "none"
        /\ step[w] \notin {"finish"} \union Over => code[w] = "none"

\* A zero that is not stale is the exit code of the command.
Earned ==
    /\ \A w \in Wrappers :
           /\ step[w] = "finish" => code[w] # "none"
           /\ step[w] = "finish" /\ code[w] = "zero" => command[w] = "succeeded"
    /\ DoneIsEarned

IInv == TypeOK /\ Bound /\ Placed /\ Earned
-----------------------------------------------------------------------------
USE RunOfAssumption, NoWrapperAssumption, FaultsAssumption

\* Every step keeps the types.
LEMMA TypesPreserved == TypeOK /\ [Next]_vars => TypeOK'
<1> SUFFICES ASSUME TypeOK, [Next]_vars PROVE TypeOK'
  OBVIOUS
<1> USE DEF TypeOK, Active, Terminal, Ended, Steps, Over, Fault, Answer, jobs, wrappers
<1>1. ASSUME NEW w \in Wrappers, Wrapper(w) PROVE TypeOK'
  <2>1. CASE SendRegister(w)
    BY <2>1 DEF SendRegister, Sends
  <2>2. CASE ServeRegister(w)
    BY <2>2 DEF ServeRegister, Served
  <2>3. CASE ServeStart(w) \/ ServeFinish(w) \/ ServeHeartbeat(w)
    BY <2>3 DEF ServeStart, ServeFinish, ServeHeartbeat, Served, Update, Outcome
  <2>4. CASE Registered(w) \/ Execute(w) \/ GiveUp(w) \/ Exit(w)
    BY <2>4 DEF Registered, Execute, GiveUp, Exit
  <2>5. CASE Finish(w)
    BY <2>5 DEF Finish, Finishes
  <2>6. CASE CommandEnds(w) \/ OrphanEnds(w) \/ ConnectionFails(w) \/ Heartbeat(w)
    BY <2>6 DEF CommandEnds, OrphanEnds, ConnectionFails, Heartbeat
  <2>. QED
    BY <1>1, <2>1, <2>2, <2>3, <2>4, <2>5, <2>6 DEF Wrapper
<1>2. ASSUME NEW w \in Wrappers, KillWrapper(w) \/ Terminate(w) PROVE TypeOK'
  BY <1>2 DEF KillWrapper, Terminate, Finishes
<1>3. ASSUME NEW r \in Runs, CancelJob(r) PROVE TypeOK'
  BY <1>3 DEF CancelJob
<1>4. CASE WebCrash
  <2>1. call' \in [Wrappers -> {"none", "sent", "ok", "error"}]
    BY <1>4 DEF WebCrash
  <2>2. up' \in BOOLEAN
    BY <1>4, Zenon DEF WebCrash
  <2>3. beats' \subseteq Wrappers
    BY <1>4 DEF WebCrash
  <2>4. faults' \in Nat
    BY <1>4 DEF WebCrash
  <2>5. UNCHANGED <<jobs, step, command, code>>
    BY <1>4 DEF WebCrash
  <2>. QED
    BY <2>1, <2>2, <2>3, <2>4, <2>5
<1>5. CASE WebRestart \/ UNCHANGED vars
  BY <1>5 DEF WebRestart, vars
<1>. QED
  BY <1>1, <1>2, <1>3, <1>4, <1>5 DEF Next

\* Initially nothing is registered and no wrapper has begun.
LEMMA InitInvariant == Init => IInv
  BY DEF Init, IInv, TypeOK, Bound, Placed, Earned, DoneIsEarned, Active, Terminal,
         Ended, Steps, Over

\* An accepted report comes from the bound process and leaves it bound.
LEMMA AcceptedBinds ==
  ASSUME TypeOK, Bound, NEW w \in Wrappers, NEW t \in Active \union Terminal,
         Accepts(w, t), Update(w, t)
  PROVE  /\ owner'[RunOf[w]] = w
         /\ \A r \in Runs : r # RunOf[w] => owner'[r] = owner[r]
         /\ \A r \in Runs : owner[r] # NoWrapper => owner'[r] = owner[r]
         /\ \A r \in Runs : state'[r] = IF r = RunOf[w] THEN t ELSE state[r]
  BY DEF Accepts, Owns, Update, TypeOK

\* Who is bound stays bound.
LEMMA OwnedStays ==
  ASSUME TypeOK, Bound, [Next]_vars
  PROVE  \A r \in Runs : owner[r] # NoWrapper => owner'[r] = owner[r]
<1>1. ASSUME NEW w \in Wrappers, ServeStart(w) \/ ServeFinish(w) \/ ServeHeartbeat(w)
      PROVE  \A r \in Runs : owner[r] # NoWrapper => owner'[r] = owner[r]
  BY <1>1 DEF ServeStart, ServeFinish, ServeHeartbeat, Accepts, Owns, Update, TypeOK, jobs
<1>2. CASE UNCHANGED owner
  BY <1>2
<1>. QED
  BY <1>1, <1>2 DEF Next, Wrapper, SendRegister, Sends, ServeRegister, Registered, Execute,
     GiveUp, CommandEnds, Finish, Finishes, Exit, ConnectionFails, Heartbeat, OrphanEnds,
     KillWrapper, Terminate, WebCrash, WebRestart, CancelJob, jobs, wrappers, vars

\* Requests are answered to whoever is bound.
LEMMA BoundPreserved == IInv /\ [Next]_vars => Bound'
<1> SUFFICES ASSUME TypeOK, Bound, Placed, [Next]_vars PROVE Bound'
  BY DEF IInv
<1> USE DEF Active, Terminal, Ended, Steps, Over, Fault, Answer, jobs, wrappers
<1>1. ASSUME NEW w \in Wrappers, ServeStart(w) \/ ServeFinish(w) \/ ServeHeartbeat(w)
      PROVE  Bound'
  <2>1. ASSUME NEW t \in Active \union Terminal, Accepts(w, t), Update(w, t),
               command' = command, step' = step,
               \A v \in Wrappers : v # w => call'[v] = call[v]
        PROVE  Bound'
    BY <2>1, AcceptedBinds DEF Bound, TypeOK
  <2>2. ASSUME UNCHANGED <<jobs, command, step>>,
               \A v \in Wrappers : call'[v] = "ok" => call[v] = "ok" \/ step[v] = "finish"
        PROVE  Bound'
    BY <2>2 DEF Bound, TypeOK
  <2>3. CASE ServeStart(w)
    BY <2>1, <2>2, <2>3 DEF ServeStart, TypeOK, Served
  <2>4. CASE ServeFinish(w)
    <3>1. Outcome(w) \in Active \union Terminal
      BY DEF Outcome
    <3>. QED
      BY <2>1, <2>2, <2>4, <3>1 DEF ServeFinish, TypeOK, Served
  <2>5. CASE ServeHeartbeat(w)
    BY <2>1, <2>2, <2>5 DEF ServeHeartbeat, TypeOK
  <2>. QED
    BY <1>1, <2>3, <2>4, <2>5
<1>2. ASSUME NEW w \in Wrappers, Wrapper(w) \/ KillWrapper(w) \/ Terminate(w),
             ~(ServeStart(w) \/ ServeFinish(w) \/ ServeHeartbeat(w))
      PROVE  Bound'
  <2>1. owner' = owner
    BY <1>2 DEF Wrapper, SendRegister, Sends, ServeRegister, Registered, Execute, GiveUp,
        CommandEnds, Finish, Finishes, Exit, ConnectionFails, Heartbeat, OrphanEnds,
        KillWrapper, Terminate
  <2>2. \A v \in Wrappers : v # w => step'[v] = step[v] /\ call'[v] = call[v]
                                     /\ command'[v] = command[v]
    BY <1>2 DEF TypeOK, Wrapper, SendRegister, Sends, ServeRegister, Registered, Execute,
        GiveUp, CommandEnds, Finish, Finishes, Exit, ConnectionFails, Heartbeat,
        OrphanEnds, KillWrapper, Terminate
  <2>3. (step'[w] = "start" /\ call'[w] = "ok") \/ command'[w] # "none"
          => (step[w] = "start" /\ call[w] = "ok") \/ command[w] # "none"
    BY <1>2 DEF TypeOK, Placed, Wrapper, SendRegister, Sends, ServeRegister, Registered,
        Execute, GiveUp, CommandEnds, Finish, Finishes, Exit, ConnectionFails, Heartbeat,
        OrphanEnds, KillWrapper, Terminate, Served
  <2>. QED
    BY <2>1, <2>2, <2>3 DEF Bound
<1>3. ASSUME NEW r \in Runs, CancelJob(r) PROVE Bound'
  BY <1>3 DEF CancelJob, Bound
<1>4. CASE WebCrash \/ WebRestart \/ UNCHANGED vars
  BY <1>4 DEF WebCrash, WebRestart, vars, Bound, TypeOK
<1>. QED
  BY <1>1, <1>2, <1>3, <1>4 DEF Next

\* A wrapper has a command once it is told that the job is its own.
LEMMA PlacedPreserved == IInv /\ [Next]_vars => Placed'
<1> SUFFICES ASSUME TypeOK, Placed, [Next]_vars PROVE Placed'
  BY DEF IInv
<1> USE DEF TypeOK, Placed, Ended, Steps, Over, Fault, Answer, jobs, wrappers
<1>1. ASSUME NEW w \in Wrappers, Wrapper(w) \/ KillWrapper(w) \/ Terminate(w)
      PROVE  Placed'
  <2>1. \A v \in Wrappers : v # w => step'[v] = step[v] /\ command'[v] = command[v]
                                     /\ (v \in beats' => v \in beats)
                                     /\ code'[v] = code[v]
    BY <1>1 DEF Wrapper, SendRegister, Sends, ServeRegister, ServeStart, ServeFinish,
        ServeHeartbeat, Registered, Execute, GiveUp, CommandEnds, Finish, Finishes, Exit,
        ConnectionFails, Heartbeat, OrphanEnds, KillWrapper, Terminate
  <2>2. /\ step'[w] \in {"new", "register", "start"} => command'[w] = "none"
        /\ step'[w] \in {"execute", "finish"} => command'[w] # "none"
        /\ w \in beats' => command'[w] # "none"
        /\ step'[w] \notin {"finish"} \union Over => code'[w] = "none"
    BY <1>1 DEF Wrapper, SendRegister, Sends, ServeRegister, ServeStart, ServeFinish,
        ServeHeartbeat, Registered, Execute, GiveUp, CommandEnds, Finish, Finishes, Exit,
        ConnectionFails, Heartbeat, OrphanEnds, KillWrapper, Terminate
  <2>. QED
    BY <2>1, <2>2
<1>2. CASE WebCrash \/ WebRestart \/ UNCHANGED vars \/ \E r \in Runs : CancelJob(r)
  BY <1>2 DEF WebCrash, WebRestart, CancelJob, vars
<1>. QED
  BY <1>1, <1>2 DEF Next

\* What became of a command changes no more, and a code is kept once it is there.
LEMMA EarnedPreserved == IInv /\ [Next]_vars => Earned'
<1> SUFFICES ASSUME TypeOK, Bound, Placed, Earned, [Next]_vars PROVE Earned'
  BY DEF IInv
<1>1. \A w \in Wrappers : /\ command[w] \in Ended => command'[w] = command[w]
                          /\ code[w] = "stale" => code'[w] = "stale"
  BY DEF TypeOK, Placed, Over, Ended, Next, Wrapper, SendRegister, Sends, ServeRegister,
         ServeStart, ServeFinish, ServeHeartbeat, Registered, Execute, GiveUp, CommandEnds,
         Finish, Finishes, Exit, ConnectionFails, Heartbeat, OrphanEnds, KillWrapper,
         Terminate, WebCrash, WebRestart, CancelJob, jobs, wrappers, vars
<1>2. \A w \in Wrappers :
          step'[w] = "finish" /\ code'[w] = "zero" => command'[w] = "succeeded"
  <2> SUFFICES ASSUME NEW w \in Wrappers, step'[w] = "finish", code'[w] = "zero"
               PROVE  command'[w] = "succeeded"
    OBVIOUS
  <2>1. CASE step[w] = "finish" /\ code[w] = "zero"
    BY <1>1, <2>1 DEF Earned, Ended
  <2>2. CASE ~(step[w] = "finish" /\ code[w] = "zero")
    <3>1. Finish(w)
      BY <2>2 DEF TypeOK, Steps, Over, Next, Wrapper, SendRegister, Sends, ServeRegister,
         ServeStart, ServeFinish, ServeHeartbeat, Registered, Execute, GiveUp,
         CommandEnds, Finish, Finishes, Exit, ConnectionFails, Heartbeat, OrphanEnds,
         KillWrapper, Terminate, WebCrash, WebRestart, CancelJob, Fault, jobs, wrappers,
         vars
    <3>. QED
      BY <3>1 DEF Finish, Finishes, TypeOK
  <2>. QED
    BY <2>1, <2>2
<1>3. DoneIsEarned'
  <2> SUFFICES ASSUME NEW r \in Runs, state'[r] = "done"
               PROVE  /\ owner'[r] \in Wrappers
                      /\ command'[owner'[r]] = "succeeded" \/ code'[owner'[r]] = "stale"
    BY DEF DoneIsEarned
  <2>1. CASE state[r] = "done"
    <3>1. /\ owner[r] \in Wrappers
          /\ command[owner[r]] = "succeeded" \/ code[owner[r]] = "stale"
      BY <2>1 DEF Earned, DoneIsEarned
    <3>2. owner'[r] = owner[r]
      BY <3>1, OwnedStays
    <3>. QED
      BY <1>1, <3>1, <3>2 DEF Ended
  <2>2. CASE state[r] # "done"
    <3>1. PICK w \in Wrappers : ServeFinish(w) /\ r = RunOf[w] /\ Update(w, "done")
                                 /\ Outcome(w) = "done"
      BY <2>2 DEF TypeOK, Active, Terminal, Next, Wrapper, SendRegister, Sends,
         ServeRegister, ServeStart, ServeFinish, ServeHeartbeat, Registered, Execute,
         GiveUp, CommandEnds, Finish, Finishes, Exit, ConnectionFails, Heartbeat,
         OrphanEnds, KillWrapper, Terminate, WebCrash, WebRestart, CancelJob, Update,
         jobs, wrappers, vars
    <3>2. owner'[r] = w
      BY <3>1 DEF Update, TypeOK
    <3>3. command[w] = "succeeded" \/ code[w] = "stale"
      BY <3>1 DEF Earned, Outcome, ServeFinish, Served, TypeOK
    <3>. QED
      BY <1>1, <3>2, <3>3 DEF Ended
  <2>. QED
    BY <2>1, <2>2
<1>4. \A w \in Wrappers : step'[w] = "finish" => code'[w] # "none"
  BY DEF TypeOK, Earned, Next, Wrapper, SendRegister, Sends, ServeRegister,
         ServeStart, ServeFinish, ServeHeartbeat, Registered, Execute, GiveUp,
         CommandEnds, Finish, Finishes, Exit, ConnectionFails, Heartbeat, OrphanEnds,
         KillWrapper, Terminate, WebCrash, WebRestart, CancelJob, jobs, wrappers, vars
<1>. QED
  BY <1>2, <1>3, <1>4 DEF Earned

\* The invariant holds in every state of every behaviour.
THEOREM Invariant == Spec => []IInv
<1>1. IInv /\ [Next]_vars => IInv'
  BY TypesPreserved, BoundPreserved, PlacedPreserved, EarnedPreserved DEF IInv
<1>. QED
  BY <1>1, InitInvariant, PTL DEF Spec
-----------------------------------------------------------------------------
(* What follows from it.                                                      *)

\* Every variable has its type.
THEOREM TypeCorrect == Spec => []TypeOK
<1>1. IInv => TypeOK
  BY DEF IInv
<1>. QED
  BY <1>1, Invariant, PTL

\* However many wrappers are started with one run id, and whatever is lost,
\* killed or repeated, one of them at most executes its command.
THEOREM OneExecutes == Spec => []ExecutedOnce
<1>1. IInv => ExecutedOnce
  BY DEF IInv, Bound, ExecutedOnce
<1>. QED
  BY <1>1, Invariant, PTL

\* The process a job is bound to is never replaced, killed or not.
THEOREM OwnerIsFixed == Spec => OwnerStays
<1>1. IInv /\ [Next]_vars =>
          [\A r \in Runs : owner[r] # NoWrapper => owner'[r] = owner[r]]_vars
  BY OwnedStays DEF IInv
<1>. QED
  BY <1>1, Invariant, PTL DEF Spec, OwnerStays

\* A job that is done is one whose command succeeded, unless the wrapper was
\* terminated by a signal that its trap survives.
THEOREM SuccessIsEarned == Spec => []DoneIsEarned
<1>1. IInv => DoneIsEarned
  BY DEF IInv, Earned
<1>. QED
  BY <1>1, Invariant, PTL
-----------------------------------------------------------------------------
(* The refinement of JobLifecycle.                                            *)

\* Each step is a step of the lifecycle or leaves every job as it is.
LEMMA LifecycleStep == IInv /\ [Next]_vars => [Lifecycle!Next]_(Lifecycle!vars)
<1> SUFFICES ASSUME TypeOK, [Next]_vars, state' # state PROVE Lifecycle!Next
  BY DEF IInv, Lifecycle!vars
<1>1. PICK r \in Runs, t \in Active \union Terminal :
          /\ state' = [state EXCEPT ![r] = t]
          /\ state[r] \notin Terminal
          /\ state[r] = "running" => t # "pending"
  BY DEF TypeOK, Active, Terminal, Next, Wrapper, SendRegister, Sends, ServeRegister,
         ServeStart, ServeFinish, ServeHeartbeat, Registered, Execute, GiveUp, CommandEnds,
         Finish, Finishes, Exit, ConnectionFails, Heartbeat, OrphanEnds, KillWrapper,
         Terminate, WebCrash, WebRestart, CancelJob, Accepts, MayBecome, Update, Outcome,
         jobs, wrappers, vars
<1>2. Lifecycle!Observe(r, t)
  BY <1>1 DEF Lifecycle!Observe, Lifecycle!MayBecome, Lifecycle!Final, Terminal
<1>. QED
  BY <1>2 DEF Lifecycle!Next, Lifecycle!States, Active, Terminal

\* Wrappers, the web process and their faults only ever move a job along its
\* lifecycle.
THEOREM Implements == Spec => ImplementsLifecycle
<1>1. Init => Lifecycle!Init
  BY DEF Init, Lifecycle!Init
<1>. QED
  BY <1>1, Invariant, LifecycleStep, PTL DEF Spec, ImplementsLifecycle, Lifecycle!Spec
=============================================================================
