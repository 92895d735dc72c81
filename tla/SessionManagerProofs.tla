------------------------ MODULE SessionManagerProofs ------------------------
(* Proofs about SessionManager, for any number of sessions and projects and   *)
(* without a bound on what Claude writes and on how often the broker dies.    *)
EXTENDS SessionManager, TLAPS

\* What the broker holds of a session while it runs is what its status says,
\* and nothing while it does not run.
Attached ==
    /\ ~up => creating = NoSession /\ terminal = {}
    /\ creating # NoSession => up /\ status[creating] = "CREATING"
    /\ up => \A s \in Sessions :
           /\ status[s] = "CREATING" => creating = s
           /\ (status[s] \in Active \union {"STOPPING"}) <=> s \in terminal

\* A prompt that may be written now has a login notice to show for it, unless it
\* is the first.
Earned ==
    \A s \in Sessions :
        /\ status[s] = "none" => boot[s] = "DISABLED"
        /\ boot[s] # "SENT" => typed[s] = 0
        /\ s \in retry => boot[s] = "SENT" /\ typed[s] <= logins[s]
        /\ "login" \in recent[s] => typed[s] <= logins[s]
        /\ typed[s] <= 1 + logins[s]

\* While a session starts no other one of its project is active.
Alone ==
    creating # NoSession =>
        \A t \in Sessions :
            ProjectOf[t] = ProjectOf[creating] => status[t] \notin Active

\* A session that is being created has not got its prompt.
Unsent == \A s \in Sessions : status[s] = "CREATING" => boot[s] # "SENT"

IInv == TypeOK /\ Attached /\ Earned /\ Alone /\ OneActive /\ Unsent
-----------------------------------------------------------------------------
(* Type correctness.                                                          *)

\* The manager tells apart a provider notice and everything else.
LEMMA ClassIsSettled ==
    ASSUME NEW tail, NEW k, NEW class \in Classes(tail, k)
    PROVE  class \in Notices \union {"RUNNING"}
  BY DEF Classes

\* Every step keeps the types.
LEMMA TypesPreserved == TypeOK /\ [Next]_vars => TypeOK'
<1> SUFFICES ASSUME TypeOK, [Next]_vars PROVE TypeOK'
  OBVIOUS
<1> USE DEF TypeOK, Open, Active, Ended, Put, All, Event, disk, timers, world, history
<1>1. CASE Crash
  <2>1. up' \in BOOLEAN /\ creating' \in Sessions \union {NoSession}
    BY <1>1 DEF Crash
  <2>2. recent' \in [Sessions -> SUBSET Words] /\ submits' \in [Sessions -> Nat]
    BY <1>1 DEF Crash
  <2>3. events' \in Nat
    BY <1>1 DEF Crash
  <2> QED  BY <1>1, <2>1, <2>2, <2>3 DEF Crash
<1>2. CASE Restart
  <2>1. \A s \in Sessions : Restored(status[s]) \in {"none"} \union Open \union Ended
    BY DEF Restored
  <2>2. status' \in [Sessions -> {"none"} \union Open \union Ended]
    BY <1>2, <2>1 DEF Restart
  <2> QED  BY <1>2, <2>2 DEF Restart
<1>3. ASSUME NEW s \in Sessions, NEW bootstrap \in BOOLEAN, Create(s, bootstrap)
      PROVE  TypeOK'
  BY <1>3 DEF Create, Idle
<1>4. ASSUME NEW s \in Sessions, Spawn(s) \/ SpawnFails(s) PROVE TypeOK'
  BY <1>4 DEF Spawn, SpawnFails
<1>5. ASSUME NEW s \in Sessions, NEW k \in Chunks, Output(s, k) PROVE TypeOK'
  <2>1. PICK tail \in Tails(s, k) : \E class \in Classes(tail, k) :
           /\ recent' = [recent EXCEPT ![s] = tail]
           /\ retry' = Put(retry, s, NeedsRetry(s, tail))
           /\ prompt' = Put(prompt, s, ShowsPrompt(s, k, tail))
           /\ status' = [status EXCEPT ![s] = After(s, class)]
           /\ limitTimer' = Put(limitTimer, s, class = "RATE_LIMITED")
           /\ stateTimer' = Put(stateTimer, s, class = "RUNNING")
           /\ revived' = Put(revived, s, Revives(s, class))
    BY <1>5 DEF Output
  <2>2. PICK class \in Classes(tail, k) :
           /\ recent' = [recent EXCEPT ![s] = tail]
           /\ retry' = Put(retry, s, NeedsRetry(s, tail))
           /\ prompt' = Put(prompt, s, ShowsPrompt(s, k, tail))
           /\ status' = [status EXCEPT ![s] = After(s, class)]
           /\ limitTimer' = Put(limitTimer, s, class = "RATE_LIMITED")
           /\ stateTimer' = Put(stateTimer, s, class = "RUNNING")
           /\ revived' = Put(revived, s, Revives(s, class))
    BY <2>1
  <2>3. tail \in SUBSET Words
    BY <1>5 DEF Tails
  <2>4. After(s, class) \in Open
    BY ClassIsSettled, <2>2 DEF After
  <2>5. logins' \in [Sessions -> Nat]
    <3> USE <1>5 DEF Output
    <3>1. CASE k = "login"
      BY <3>1
    <3>2. CASE k # "login"
      BY <3>2
    <3> QED  BY <3>1, <3>2
  <2>6. UNCHANGED <<up, creating, boot, terminal, submits, draft, typed>> /\ events' \in Nat
    BY <1>5 DEF Output
  <2>7. /\ retry' \subseteq Sessions /\ prompt' \subseteq Sessions
        /\ limitTimer' \subseteq Sessions /\ stateTimer' \subseteq Sessions
        /\ revived' \subseteq Sessions
    BY <2>2
  <2>8. recent' \in [Sessions -> SUBSET Words]
    BY <2>2, <2>3
  <2>9. status' \in [Sessions -> {"none"} \union Open \union Ended]
    BY <2>2, <2>4
  <2> QED  BY <2>5, <2>6, <2>7, <2>8, <2>9
<1>6. ASSUME NEW s \in Sessions, NEW what, NEW form, Type(s, what, form)
      PROVE  /\ draft' \subseteq Sessions /\ prompt' \subseteq Sessions
             /\ submits' \in [Sessions -> Nat]
             /\ stateTimer' \subseteq Sessions /\ limitTimer' \subseteq Sessions
             /\ recent' \in [Sessions -> SUBSET Words]
             /\ status' \in [Sessions -> {"none"} \union Open \union Ended]
  BY <1>6 DEF Type
<1>7. ASSUME NEW s \in Sessions, NEW form \in Forms, Input(s, form) PROVE TypeOK'
  BY <1>7, <1>6 DEF Input
<1>8. ASSUME NEW s \in Sessions, Bootstrap(s) PROVE TypeOK'
  BY <1>8, <1>6 DEF Bootstrap, SendBootstrap
<1>9. ASSUME NEW s \in Sessions, Interrupt(s) \/ Stop(s) PROVE TypeOK'
  BY <1>9 DEF Interrupt, Stop
<1>10. ASSUME NEW s \in Sessions, SubmitTimer(s) PROVE TypeOK'
  BY <1>10 DEF SubmitTimer
<1>11. ASSUME NEW s \in Sessions, PromptObserved(s) \/ NothingObserved(s) PROVE TypeOK'
  BY <1>11 DEF PromptObserved, NothingObserved
<1>12. ASSUME NEW s \in Sessions, ReadyObserved(s) PROVE TypeOK'
  BY <1>12, <1>6 DEF ReadyObserved, SendBootstrap
<1>13. ASSUME NEW s \in Sessions, LimitElapsed(s) PROVE TypeOK'
  BY <1>13 DEF LimitElapsed, Words, Notices
<1>14. ASSUME NEW s \in Sessions, Exit(s) PROVE TypeOK'
  BY <1>14 DEF Exit
<1>15. CASE UNCHANGED vars
  BY <1>15 DEF vars
<1> QED
  BY <1>1, <1>2, <1>3, <1>4, <1>5, <1>7, <1>8, <1>9, <1>10, <1>11, <1>12, <1>13, <1>14, <1>15
     DEF Next, Request, StateTimer
-----------------------------------------------------------------------------
(* Status and terminal.                                                       *)

\* What a chunk of output may do to a session: its status was active or
\* stopping, and is active, or still stopping.
LEMMA OutputKeepsAlive ==
    ASSUME TypeOK, Attached, NEW s \in Sessions, NEW k \in Chunks, Output(s, k)
    PROVE  /\ up /\ creating = NoSession /\ s \in terminal
           /\ status[s] \in Active \union {"STOPPING"}
           /\ \E tail \in Tails(s, k) : \E class \in Notices \union {"RUNNING"} :
                  /\ recent' = [recent EXCEPT ![s] = tail]
                  /\ retry' = Put(retry, s, NeedsRetry(s, tail))
                  /\ status' = [status EXCEPT ![s] = After(s, class)]
                  /\ After(s, class) \in Active \union {"STOPPING"}
                  /\ revived' = Put(revived, s, Revives(s, class))
           /\ logins' = [logins EXCEPT ![s] = IF k = "login" THEN @ + 1 ELSE @]
           /\ UNCHANGED <<up, creating, boot, terminal, typed>>
<1>1. up /\ creating = NoSession /\ s \in terminal
  BY DEF Output, Idle
<1>2. status[s] \in Active \union {"STOPPING"}
  BY <1>1 DEF Attached
<1>3. PICK tail \in Tails(s, k) : \E class \in Classes(tail, k) :
         /\ recent' = [recent EXCEPT ![s] = tail]
         /\ retry' = Put(retry, s, NeedsRetry(s, tail))
         /\ status' = [status EXCEPT ![s] = After(s, class)]
         /\ revived' = Put(revived, s, Revives(s, class))
  BY DEF Output
<1>4. PICK class \in Classes(tail, k) :
         /\ recent' = [recent EXCEPT ![s] = tail]
         /\ retry' = Put(retry, s, NeedsRetry(s, tail))
         /\ status' = [status EXCEPT ![s] = After(s, class)]
         /\ revived' = Put(revived, s, Revives(s, class))
  BY <1>3
<1>5. class \in Notices \union {"RUNNING"}
  BY ClassIsSettled
<1>6. After(s, class) \in Active \union {"STOPPING"}
  BY <1>5 DEF After, Active
<1>7. UNCHANGED <<up, creating, boot, terminal, typed>>
  BY DEF Output
<1>8. logins' = [logins EXCEPT ![s] = IF k = "login" THEN @ + 1 ELSE @]
  BY DEF Output
<1> QED
  BY <1>1, <1>2, <1>4, <1>5, <1>6, <1>7, <1>8

LEMMA AttachedPreserved == TypeOK /\ Attached /\ [Next]_vars => Attached'
<1> SUFFICES ASSUME TypeOK, Attached, [Next]_vars PROVE Attached'
  OBVIOUS
<1>0. NoSession \notin Sessions
  BY DEF NoSession, Sessions
<1> USE <1>0 DEF TypeOK, Attached, Active, disk
<1>1. CASE Crash
  BY <1>1 DEF Crash
<1>2. CASE Restart
  <2>1. \A s \in Sessions : status'[s] \in {"none"} \union Ended
    BY <1>2 DEF Restart, Restored, Open, Ended
  <2> QED  BY <1>2, <2>1 DEF Restart, Ended, Notices
<1>3. ASSUME NEW s \in Sessions, NEW bootstrap \in BOOLEAN, Create(s, bootstrap)
      PROVE  Attached'
  BY <1>3 DEF Create, Idle, Notices
<1>4. ASSUME NEW s \in Sessions, Spawn(s) PROVE Attached'
  BY <1>4 DEF Spawn, Notices
<1>5. ASSUME NEW s \in Sessions, SpawnFails(s) PROVE Attached'
  BY <1>5 DEF SpawnFails, Notices
<1>6. ASSUME NEW s \in Sessions, NEW k \in Chunks, Output(s, k) PROVE Attached'
  BY <1>6, OutputKeepsAlive DEF Notices
<1>7. ASSUME NEW s \in Sessions, status[s] \in Active, NEW what, NEW form,
             up, creating = NoSession,
             Type(s, what, form), UNCHANGED <<up, creating, terminal>>
      PROVE  Attached'
  BY <1>7 DEF Type, Notices
<1>8. ASSUME NEW s \in Sessions, NEW form \in Forms, Input(s, form) PROVE Attached'
  BY <1>8, <1>7 DEF Input, Running, Idle
<1>9. ASSUME NEW s \in Sessions, Bootstrap(s) PROVE Attached'
  BY <1>9, <1>7 DEF Bootstrap, SendBootstrap, Running, Idle
<1>10. ASSUME NEW s \in Sessions, Interrupt(s) PROVE Attached'
  BY <1>10 DEF Interrupt
<1>11. ASSUME NEW s \in Sessions, Stop(s) PROVE Attached'
  BY <1>11 DEF Stop, Running, Idle, Notices
<1>12. ASSUME NEW s \in Sessions, SubmitTimer(s) \/ NothingObserved(s) PROVE Attached'
  BY <1>12 DEF SubmitTimer, NothingObserved
<1>13. ASSUME NEW s \in Sessions, PromptObserved(s) PROVE Attached'
  BY <1>13 DEF PromptObserved, Sees, Idle, Notices
<1>14. ASSUME NEW s \in Sessions, ReadyObserved(s) PROVE Attached'
  BY <1>14, <1>7 DEF ReadyObserved, SendBootstrap, Sees, Idle
<1>15. ASSUME NEW s \in Sessions, LimitElapsed(s) PROVE Attached'
  BY <1>15 DEF LimitElapsed, Idle, Notices
<1>16. ASSUME NEW s \in Sessions, Exit(s) PROVE Attached'
  BY <1>16 DEF Exit, Idle, Notices
<1>17. CASE UNCHANGED vars
  BY <1>17 DEF vars
<1> QED
  BY <1>1, <1>2, <1>3, <1>4, <1>5, <1>6, <1>8, <1>9, <1>10, <1>11, <1>12, <1>13, <1>14, <1>15,
     <1>16, <1>17
     DEF Next, Request, StateTimer
-----------------------------------------------------------------------------
(* The project prompt.                                                        *)

\* A prompt that is sent was earned, and the retry it used is gone.
LEMMA SentIsEarned ==
    ASSUME TypeOK, Earned, NEW s \in Sessions, SendBootstrap(s),
           boot[s] = "SENT" => s \in retry,
           retry' = retry \ {s}, UNCHANGED logins, status[s] # "none"
    PROVE  Earned'
<1> USE DEF TypeOK, Earned
<1>1. /\ boot' = [boot EXCEPT ![s] = "SENT"]
      /\ typed' = [typed EXCEPT ![s] = @ + 1]
      /\ recent' = [recent EXCEPT ![s] = {}]
      /\ status' = [status EXCEPT ![s] = "RUNNING"]
  BY DEF SendBootstrap, Type
<1>2. typed[s] <= logins[s]
  <2>1. CASE boot[s] = "SENT"
    BY <2>1
  <2>2. CASE boot[s] # "SENT"
    BY <2>2
  <2> QED  BY <2>1, <2>2
<1> QED
  BY <1>1, <1>2

LEMMA EarnedPreserved == TypeOK /\ Attached /\ Earned /\ [Next]_vars => Earned'
<1> SUFFICES ASSUME TypeOK, Attached, Earned, [Next]_vars PROVE Earned'
  OBVIOUS
<1> USE DEF TypeOK, Earned, disk, history
<1>1. CASE Crash
  BY <1>1 DEF Crash, All
<1>2. CASE Restart
  <2>1. \A s \in Sessions : status'[s] = "none" => status[s] = "none"
    BY <1>2 DEF Restart, Restored
  <2> QED  BY <1>2, <2>1 DEF Restart
<1>3. ASSUME NEW s \in Sessions, NEW bootstrap \in BOOLEAN, Create(s, bootstrap)
      PROVE  Earned'
  BY <1>3 DEF Create
<1>4. ASSUME NEW s \in Sessions, Spawn(s) \/ SpawnFails(s) PROVE Earned'
  BY <1>4 DEF Spawn, SpawnFails
<1>5. ASSUME NEW s \in Sessions, NEW k \in Chunks, Output(s, k) PROVE Earned'
  <2>1. PICK tail \in Tails(s, k), class \in Notices \union {"RUNNING"} :
           /\ recent' = [recent EXCEPT ![s] = tail]
           /\ retry' = Put(retry, s, NeedsRetry(s, tail))
           /\ status' = [status EXCEPT ![s] = After(s, class)]
           /\ After(s, class) \in Active \union {"STOPPING"}
    BY <1>5, OutputKeepsAlive
  <2>2. /\ logins' = [logins EXCEPT ![s] = IF k = "login" THEN @ + 1 ELSE @]
        /\ UNCHANGED <<boot, typed>>
    BY <1>5, OutputKeepsAlive
  <2>3. /\ logins[s] <= logins'[s] /\ logins'[s] \in Nat
        /\ k = "login" => logins'[s] = logins[s] + 1
    BY <2>2
  <2>4. "login" \in tail => k = "login" \/ "login" \in recent[s]
    BY DEF Tails
  <2>5. "login" \in tail => typed[s] <= logins'[s]
    BY <2>3, <2>4
  <2>6. s \in retry' => boot[s] = "SENT" /\ typed[s] <= logins'[s]
    BY <2>1, <2>3, <2>5 DEF Put, NeedsRetry
  <2>7. status'[s] # "none" /\ recent'[s] = tail
    BY <2>1 DEF Active, Notices
  <2>8. \A t \in Sessions \ {s} :
           /\ status'[t] = status[t] /\ recent'[t] = recent[t] /\ logins'[t] = logins[t]
           /\ t \in retry' <=> t \in retry
    BY <2>1, <2>2 DEF Put
  <2>9. typed[s] <= 1 + logins'[s]
    BY <2>3
  <2> QED
    BY <2>2, <2>5, <2>6, <2>7, <2>8, <2>9
<1>6. ASSUME NEW s \in Sessions, NEW form \in Forms, Input(s, form) PROVE Earned'
  BY <1>6 DEF Input, Type
<1>7. ASSUME NEW s \in Sessions, Bootstrap(s) PROVE Earned'
  BY <1>7, SentIsEarned DEF Bootstrap, Running, Active, Notices
<1>8. ASSUME NEW s \in Sessions, ReadyObserved(s) PROVE Earned'
  <2>1. boot[s] = "PENDING" /\ s \notin retry /\ status[s] = "RUNNING"
    BY <1>8 DEF ReadyObserved, BootstrapDue, Sees
  <2>2. retry' = retry \ {s}
    BY <1>8, <2>1 DEF ReadyObserved
  <2> QED  BY <1>8, <2>1, <2>2, SentIsEarned DEF ReadyObserved
<1>9. ASSUME NEW s \in Sessions, Interrupt(s) \/ Stop(s) PROVE Earned'
  BY <1>9 DEF Interrupt, Stop
<1>10. ASSUME NEW s \in Sessions, SubmitTimer(s) \/ NothingObserved(s) PROVE Earned'
  BY <1>10 DEF SubmitTimer, NothingObserved
<1>11. ASSUME NEW s \in Sessions, PromptObserved(s) \/ LimitElapsed(s) PROVE Earned'
  <2>1. CASE PromptObserved(s)
    BY <2>1 DEF PromptObserved
  <2>2. CASE LimitElapsed(s)
    BY <2>2 DEF LimitElapsed
  <2> QED  BY <1>11, <2>1, <2>2
<1>12. ASSUME NEW s \in Sessions, Exit(s) PROVE Earned'
  BY <1>12 DEF Exit
<1>13. CASE UNCHANGED vars
  BY <1>13 DEF vars
<1> QED
  BY <1>1, <1>2, <1>3, <1>4, <1>5, <1>6, <1>7, <1>8, <1>9, <1>10, <1>11, <1>12, <1>13
     DEF Next, Request, StateTimer
-----------------------------------------------------------------------------
(* One active session of a project.                                           *)

\* Only three things make a session active: it is spawned, it was active, or a
\* notice takes it out of STOPPING.
LEMMA AloneTogether ==
    ASSUME TypeOK, Alone, OneActive, creating' = NoSession,
           revived \subseteq revived',
           \A s \in Sessions :
               status'[s] \in Active => status[s] \in Active \/ s \in revived'
    PROVE  Alone' /\ OneActive'
  BY DEF Alone, OneActive

LEMMA OneActivePreserved ==
    TypeOK /\ Attached /\ Alone /\ OneActive /\ [Next]_vars => Alone' /\ OneActive'
<1> SUFFICES ASSUME TypeOK, Attached, Alone, OneActive, [Next]_vars
             PROVE  Alone' /\ OneActive'
  OBVIOUS
<1>0. NoSession \notin Sessions
  BY DEF NoSession, Sessions
<1> USE <1>0 DEF TypeOK, disk, history
<1>1. CASE Crash
  BY <1>1, AloneTogether DEF Crash
<1>2. CASE Restart
  <2>1. creating' = NoSession /\ revived' = revived
    BY <1>2 DEF Restart, Attached
  <2>2. \A s \in Sessions : status'[s] \notin Active
    BY <1>2 DEF Restart, Restored, Open, Active, Ended, Notices
  <2> QED  BY <2>1, <2>2, AloneTogether
<1>3. ASSUME NEW s \in Sessions, NEW bootstrap \in BOOLEAN, Create(s, bootstrap)
      PROVE  Alone' /\ OneActive'
  <2>1. \A t \in Sessions : status'[t] \in Active => status[t] \in Active /\ t # s
    BY <1>3 DEF Create, Active, Notices
  <2>2. \A t \in Sessions : ProjectOf[t] = ProjectOf[s] => status[t] \notin Active
    BY <1>3 DEF Create, HasSession
  <2>3. creating' = s /\ revived' = revived
    BY <1>3 DEF Create
  <2> QED  BY <2>1, <2>2, <2>3 DEF Alone, OneActive
<1>4. ASSUME NEW s \in Sessions, Spawn(s) PROVE Alone' /\ OneActive'
  <2>1. \A t \in Sessions : ProjectOf[t] = ProjectOf[s] => status[t] \notin Active
    BY <1>4 DEF Spawn, Alone
  <2>2. \A t \in Sessions \ {s} : status'[t] = status[t]
    BY <1>4 DEF Spawn
  <2>3. creating' = NoSession /\ revived' = revived
    BY <1>4 DEF Spawn
  <2> QED  BY <2>1, <2>2, <2>3 DEF Alone, OneActive
<1>5. ASSUME NEW s \in Sessions, SpawnFails(s) PROVE Alone' /\ OneActive'
  BY <1>5, AloneTogether DEF SpawnFails, Active, Notices
<1>6. ASSUME NEW s \in Sessions, NEW k \in Chunks, Output(s, k) PROVE Alone' /\ OneActive'
  <2>1. /\ creating' = NoSession
        /\ status[s] \in Active \union {"STOPPING"}
    BY <1>6, OutputKeepsAlive
  <2>2. PICK tail \in Tails(s, k), class \in Notices \union {"RUNNING"} :
           /\ recent' = [recent EXCEPT ![s] = tail]
           /\ status' = [status EXCEPT ![s] = After(s, class)]
           /\ revived' = Put(revived, s, Revives(s, class))
    BY <1>6, OutputKeepsAlive
  <2>3. revived \subseteq revived'
    BY <2>2 DEF Put, Revives
  <2>4. status'[s] \in Active /\ status[s] = "STOPPING" => s \in revived'
    BY <2>2 DEF After, Put, Revives, Active, Notices
  <2>5. \A t \in Sessions \ {s} : status'[t] = status[t]
    BY <2>2
  <2> QED  BY <2>1, <2>3, <2>4, <2>5, AloneTogether
<1>7. ASSUME NEW s \in Sessions, status[s] \in Active, creating = NoSession,
             NEW what, NEW form, Type(s, what, form), UNCHANGED <<creating, revived>>
      PROVE  Alone' /\ OneActive'
  BY <1>7, AloneTogether DEF Type
<1>8. ASSUME NEW s \in Sessions, NEW form \in Forms, Input(s, form) PROVE Alone' /\ OneActive'
  BY <1>8, <1>7 DEF Input, Running, Idle
<1>9. ASSUME NEW s \in Sessions, Bootstrap(s) PROVE Alone' /\ OneActive'
  BY <1>9, <1>7 DEF Bootstrap, SendBootstrap, Running, Idle
<1>10. ASSUME NEW s \in Sessions, Interrupt(s) PROVE Alone' /\ OneActive'
  BY <1>10, AloneTogether DEF Interrupt, Running, Idle
<1>11. ASSUME NEW s \in Sessions, Stop(s) PROVE Alone' /\ OneActive'
  BY <1>11, AloneTogether DEF Stop, Running, Idle
<1>12. ASSUME NEW s \in Sessions, SubmitTimer(s) \/ NothingObserved(s)
       PROVE  Alone' /\ OneActive'
  BY <1>12, AloneTogether DEF SubmitTimer, NothingObserved, Idle
<1>13. ASSUME NEW s \in Sessions, PromptObserved(s) PROVE Alone' /\ OneActive'
  BY <1>13, AloneTogether DEF PromptObserved, Sees, Idle, Active
<1>14. ASSUME NEW s \in Sessions, ReadyObserved(s) PROVE Alone' /\ OneActive'
  BY <1>14, <1>7 DEF ReadyObserved, SendBootstrap, Sees, Idle, Active
<1>15. ASSUME NEW s \in Sessions, LimitElapsed(s) PROVE Alone' /\ OneActive'
  BY <1>15, AloneTogether DEF LimitElapsed, Idle, Active, Notices
<1>16. ASSUME NEW s \in Sessions, Exit(s) PROVE Alone' /\ OneActive'
  BY <1>16, AloneTogether DEF Exit, Idle, Active, Notices
<1>17. CASE UNCHANGED vars
  BY <1>17 DEF vars, Alone, OneActive
<1> QED
  BY <1>1, <1>2, <1>3, <1>4, <1>5, <1>6, <1>8, <1>9, <1>10, <1>11, <1>12, <1>13, <1>14, <1>15,
     <1>16, <1>17
     DEF Next, Request, StateTimer
-----------------------------------------------------------------------------
(* What a session that starts has got.                                        *)

LEMMA UnsentPreserved == TypeOK /\ Attached /\ Unsent /\ [Next]_vars => Unsent'
<1> SUFFICES ASSUME TypeOK, Attached, Unsent, [Next]_vars PROVE Unsent'
  OBVIOUS
<1> USE DEF TypeOK, Unsent, disk
<1>1. CASE Crash
  BY <1>1 DEF Crash
<1>2. CASE Restart
  BY <1>2 DEF Restart, Restored, Open
<1>3. ASSUME NEW s \in Sessions, NEW bootstrap \in BOOLEAN, Create(s, bootstrap)
      PROVE  Unsent'
  BY <1>3 DEF Create
<1>4. ASSUME NEW s \in Sessions, Spawn(s) \/ SpawnFails(s) PROVE Unsent'
  BY <1>4 DEF Spawn, SpawnFails
<1>5. ASSUME NEW s \in Sessions, NEW k \in Chunks, Output(s, k) PROVE Unsent'
  BY <1>5, OutputKeepsAlive DEF Active, Notices
<1>6. ASSUME NEW s \in Sessions, NEW form \in Forms, Input(s, form) PROVE Unsent'
  BY <1>6 DEF Input, Type
<1>7. ASSUME NEW s \in Sessions, Bootstrap(s) \/ ReadyObserved(s) PROVE Unsent'
  BY <1>7 DEF Bootstrap, ReadyObserved, SendBootstrap, Type
<1>8. ASSUME NEW s \in Sessions, Interrupt(s) \/ Stop(s) PROVE Unsent'
  BY <1>8 DEF Interrupt, Stop
<1>9. ASSUME NEW s \in Sessions, SubmitTimer(s) \/ NothingObserved(s) PROVE Unsent'
  BY <1>9 DEF SubmitTimer, NothingObserved
<1>10. ASSUME NEW s \in Sessions, PromptObserved(s) PROVE Unsent'
  BY <1>10 DEF PromptObserved
<1>11. ASSUME NEW s \in Sessions, LimitElapsed(s) PROVE Unsent'
  BY <1>11 DEF LimitElapsed
<1>12. ASSUME NEW s \in Sessions, Exit(s) PROVE Unsent'
  BY <1>12 DEF Exit
<1>13. CASE UNCHANGED vars
  BY <1>13 DEF vars
<1> QED
  BY <1>1, <1>2, <1>3, <1>4, <1>5, <1>6, <1>7, <1>8, <1>9, <1>10, <1>11, <1>12, <1>13
     DEF Next, Request, StateTimer
-----------------------------------------------------------------------------
(* The invariant, and what follows from it.                                   *)

THEOREM Invariance == Spec => []IInv
<1>1. Init => IInv
  BY DEF Init, All, IInv, TypeOK, Attached, Earned, Alone, OneActive, Unsent, Active, Notices
<1>2. IInv /\ [Next]_vars => IInv'
  BY TypesPreserved, AttachedPreserved, EarnedPreserved, OneActivePreserved, UnsentPreserved
     DEF IInv
<1> QED
  BY <1>1, <1>2, PTL DEF Spec

\* Every variable keeps its type, for any number of sessions.
THEOREM TypeCorrect == Spec => []TypeOK
  BY Invariance, PTL DEF IInv

\* A session is active or stopping exactly while the broker holds its terminal:
\* #running accepts a request only for a session that can be written to.
THEOREM StatusHasTerminal == Spec => []ActiveIsAttached
<1>1. IInv => ActiveIsAttached
  BY DEF IInv, Attached, ActiveIsAttached, Idle
<1> QED
  BY <1>1, Invariance, PTL

\* The project prompt is written once, and once more for a login notice.
THEOREM PromptIsEarned == Spec => []RetryIsEarned
<1>1. IInv => RetryIsEarned
  BY DEF IInv, Earned, RetryIsEarned
<1> QED
  BY <1>1, Invariance, PTL

\* start keeps the sessions of a project apart, except for revived ones.
THEOREM OneSessionOfProject == Spec => []OneActive
  BY Invariance, PTL DEF IInv

\* EXITED, FAILED and LOST are final, whatever callbacks, timers and restarts
\* come later.
THEOREM EndsAreFinal == Spec => EndIsFinal
<1>1. ASSUME IInv, [Next]_vars
      PROVE  \A s \in Sessions : status[s] \in Ended => status'[s] = status[s]
  <2> USE <1>1 DEF IInv, TypeOK, Attached, Active, Ended, Notices, disk
  <2>1. CASE Crash
    BY <2>1 DEF Crash
  <2>2. CASE Restart
    BY <2>2 DEF Restart, Restored, Open
  <2>3. ASSUME NEW s \in Sessions, NEW bootstrap \in BOOLEAN, Create(s, bootstrap)
        PROVE  \A t \in Sessions : status[t] \in Ended => status'[t] = status[t]
    BY <2>3 DEF Create
  <2>4. ASSUME NEW s \in Sessions, Spawn(s) \/ SpawnFails(s)
        PROVE  \A t \in Sessions : status[t] \in Ended => status'[t] = status[t]
    <3>1. s # NoSession
      BY DEF Sessions, NoSession
    <3>2. status[s] = "CREATING"
      BY <2>4, <3>1 DEF Spawn, SpawnFails
    <3> QED  BY <2>4, <3>2 DEF Spawn, SpawnFails
  <2>5. ASSUME NEW s \in Sessions, NEW k \in Chunks, Output(s, k)
        PROVE  \A t \in Sessions : status[t] \in Ended => status'[t] = status[t]
    BY <2>5, OutputKeepsAlive
  <2>6. ASSUME NEW s \in Sessions, NEW form \in Forms, Input(s, form)
        PROVE  \A t \in Sessions : status[t] \in Ended => status'[t] = status[t]
    BY <2>6 DEF Input, Type, Running
  <2>7. ASSUME NEW s \in Sessions, Bootstrap(s)
        PROVE  \A t \in Sessions : status[t] \in Ended => status'[t] = status[t]
    BY <2>7 DEF Bootstrap, SendBootstrap, Type, Running
  <2>8. ASSUME NEW s \in Sessions, Interrupt(s) \/ Stop(s)
        PROVE  \A t \in Sessions : status[t] \in Ended => status'[t] = status[t]
    BY <2>8 DEF Interrupt, Stop, Running
  <2>9. ASSUME NEW s \in Sessions, SubmitTimer(s) \/ NothingObserved(s)
        PROVE  \A t \in Sessions : status[t] \in Ended => status'[t] = status[t]
    BY <2>9 DEF SubmitTimer, NothingObserved
  <2>10. ASSUME NEW s \in Sessions, PromptObserved(s) \/ ReadyObserved(s)
         PROVE  \A t \in Sessions : status[t] \in Ended => status'[t] = status[t]
    BY <2>10 DEF PromptObserved, ReadyObserved, SendBootstrap, Type, Sees
  <2>11. ASSUME NEW s \in Sessions, LimitElapsed(s)
         PROVE  \A t \in Sessions : status[t] \in Ended => status'[t] = status[t]
    BY <2>11 DEF LimitElapsed
  <2>12. ASSUME NEW s \in Sessions, Exit(s)
         PROVE  \A t \in Sessions : status[t] \in Ended => status'[t] = status[t]
    BY <2>12 DEF Exit, Idle
  <2>13. CASE UNCHANGED vars
    BY <2>13 DEF vars
  <2> QED
    BY <1>1, <2>1, <2>2, <2>3, <2>4, <2>5, <2>6, <2>7, <2>8, <2>9, <2>10, <2>11, <2>12, <2>13
       DEF Next, Request, StateTimer
<1> QED
  BY <1>1, Invariance, PTL DEF Spec, EndIsFinal
-----------------------------------------------------------------------------
(* Timers.                                                                    *)

\* What the timers of an attached session are set for.  A prompt in sight is in
\* the tail; a notice in force is in the tail; and a pending project prompt is
\* watched for as long as the tail has a prompt and no notice.
Timed(s) ==
    /\ status[s] = "RATE_LIMITED" => s \in limitTimer
    /\ status[s] \in Notices => status[s] \in recent[s]
    /\ s \in prompt => "ready" \in recent[s]
    /\ s \in draft \ revived /\ status[s] # "STOPPING" => submits[s] > 0
    /\ boot[s] = "PENDING" /\ "ready" \in recent[s] /\ status[s] # "STOPPING" =>
           \/ recent[s] \intersect ({"past limit"} \union Notices) # {}
           \/ status[s] = "RUNNING" /\ s \in stateTimer

\* A session that has not been spawned has shown and been written nothing.
Blank(s) == s \notin prompt /\ s \notin draft /\ s \notin limitTimer /\ recent[s] = {}

Timing ==
    /\ \A s \in Sessions : status[s] \in {"none", "CREATING"} => Blank(s)
    /\ \A s \in terminal : Timed(s)

\* A chunk of output sets the timers that fit what it shows.
LEMMA OutputIsTimed ==
    ASSUME TypeOK, Attached, Timing, NEW s \in Sessions, NEW k \in Chunks, Output(s, k)
    PROVE  Timed(s)' /\ status'[s] \in Active \union {"STOPPING"}
<1> USE DEF TypeOK, disk
<1>1. PICK tail \in Tails(s, k) : \E class \in Classes(tail, k) :
         /\ recent' = [recent EXCEPT ![s] = tail]
         /\ prompt' = Put(prompt, s, ShowsPrompt(s, k, tail))
         /\ status' = [status EXCEPT ![s] = After(s, class)]
         /\ limitTimer' = Put(limitTimer, s, class = "RATE_LIMITED")
         /\ stateTimer' = Put(stateTimer, s, class = "RUNNING")
         /\ revived' = Put(revived, s, Revives(s, class))
  BY DEF Output
<1>2. PICK class \in Classes(tail, k) :
         /\ recent' = [recent EXCEPT ![s] = tail]
         /\ prompt' = Put(prompt, s, ShowsPrompt(s, k, tail))
         /\ status' = [status EXCEPT ![s] = After(s, class)]
         /\ limitTimer' = Put(limitTimer, s, class = "RATE_LIMITED")
         /\ stateTimer' = Put(stateTimer, s, class = "RUNNING")
         /\ revived' = Put(revived, s, Revives(s, class))
  BY <1>1
<1>3. /\ s \in terminal /\ Timed(s) /\ UNCHANGED <<boot, terminal, submits, draft>>
      /\ status[s] \in Active \union {"STOPPING"}
  BY DEF Output, Idle, Timing, Attached
<1>4. class = "RUNNING" \/ (class \in Notices /\ class \in tail)
  BY DEF Classes, Tails, Words
<1>5. /\ status'[s] = After(s, class) /\ recent'[s] = tail
      /\ s \in prompt' <=> ShowsPrompt(s, k, tail)
      /\ s \in limitTimer' <=> class = "RATE_LIMITED"
      /\ s \in stateTimer' <=> class = "RUNNING"
      /\ s \in revived' <=> Revives(s, class)
  BY <1>2 DEF Put
<1>6. ShowsPrompt(s, k, tail) => "ready" \in tail
  <2>1. k = "ready" => "ready" \in tail
    BY DEF Tails, Words
  <2>2. s \in prompt => "ready" \in recent[s]
    BY <1>3 DEF Timed
  <2> QED  BY <2>1, <2>2 DEF ShowsPrompt
<1>7. CASE class = "RUNNING"
  <2>1. status'[s] = IF status[s] = "STOPPING" THEN "STOPPING" ELSE "RUNNING"
    BY <1>5, <1>7 DEF After
  <2>2. s \in stateTimer' /\ (s \in revived' <=> s \in revived)
    BY <1>5, <1>7 DEF Revives, Notices
  <2>3. status[s] # "STOPPING" /\ s \in draft \ revived => submits[s] > 0
    BY <1>3 DEF Timed
  <2>4. Timed(s)'
    BY <1>3, <1>5, <1>6, <2>1, <2>2, <2>3 DEF Timed, Notices
  <2> QED  BY <2>1, <2>4 DEF Active
<1>8. CASE class \in Notices /\ class \in tail
  <2>1. status'[s] = class
    BY <1>5, <1>8 DEF After, Notices
  <2>2. s \notin revived' => s \notin revived /\ status[s] # "STOPPING"
    BY <1>5, <1>8 DEF Revives
  <2>3. s \in draft \ revived /\ status[s] # "STOPPING" => submits[s] > 0
    BY <1>3 DEF Timed
  <2>4. Timed(s)'
    BY <1>3, <1>5, <1>6, <1>8, <2>1, <2>2, <2>3 DEF Timed
  <2> QED  BY <1>8, <2>1, <2>4 DEF Active
<1> QED
  BY <1>4, <1>7, <1>8

\* What is typed clears the tail and the timers; a text that stays in the prompt
\* either was there with its Enter to come, or is long and has one set.
LEMMA TypingIsTimed ==
    ASSUME TypeOK, Attached, Timing, NEW s \in Sessions, up, status[s] \in Active,
           NEW what, NEW form \in Forms, what = "bootstrap" => form # "keys",
           Type(s, what, form), UNCHANGED <<terminal, revived>>,
           \A t \in Sessions \ {s} : boot'[t] = boot[t]
    PROVE  Timing'
<1> USE DEF TypeOK
<1>1. s \in terminal /\ Timed(s) /\ status[s] # "STOPPING"
  BY DEF Attached, Timing, Active, Notices
<1>2. status'[s] = "RUNNING" /\ recent'[s] = {} /\ s \notin prompt'
  BY DEF Type
<1>3. s \in draft' \ revived' => submits'[s] > 0
  <2>1. CASE form = "line"
    BY <2>1 DEF Type, Put
  <2>2. CASE form = "long"
    BY <2>2 DEF Type
  <2>3. CASE form = "keys"
    BY <1>1, <2>3 DEF Type, Put, Timed
  <2> QED  BY <2>1, <2>2, <2>3 DEF Forms
<1>4. Timed(s)'
  BY <1>2, <1>3 DEF Timed, Notices
<1>5. \A t \in Sessions \ {s} :
         /\ status'[t] = status[t] /\ recent'[t] = recent[t] /\ submits'[t] = submits[t]
         /\ t \in prompt' <=> t \in prompt
         /\ t \in draft' <=> t \in draft
         /\ t \in limitTimer' <=> t \in limitTimer
         /\ t \in stateTimer' <=> t \in stateTimer
  BY DEF Type, Put
<1>6. \A t \in terminal \ {s} : Timed(t)'
  BY <1>5 DEF Timing, Timed
<1> QED
  BY <1>2, <1>4, <1>5, <1>6 DEF Timing, Blank

\* Every step leaves the timers set for what waits.
LEMMA TimingPreserved == TypeOK /\ Attached /\ Timing /\ [Next]_vars => Timing'
<1> SUFFICES ASSUME TypeOK, Attached, Timing, [Next]_vars PROVE Timing'
  OBVIOUS
<1>0. NoSession \notin Sessions
  BY DEF NoSession, Sessions
<1> USE <1>0 DEF TypeOK, Timing, Blank, disk, timers, world, history
<1>1. CASE Crash
  BY <1>1 DEF Crash, All
<1>2. CASE Restart
  <2>1. terminal = {} /\ UNCHANGED <<terminal, recent, limitTimer, prompt, draft>>
    BY <1>2 DEF Restart, Attached
  <2>2. \A s \in Sessions : status'[s] \in {"none", "CREATING"} => status[s] = "none"
    BY <1>2 DEF Restart, Restored, Open
  <2> QED  BY <2>1, <2>2
<1>3. ASSUME NEW s \in Sessions, NEW bootstrap \in BOOLEAN, Create(s, bootstrap)
      PROVE  Timing'
  <2>1. s \notin terminal
    BY <1>3 DEF Create, Idle, Attached, Active, Notices
  <2>2. \A t \in terminal : Timed(t)'
    BY <1>3, <2>1 DEF Create, Timed
  <2>3. status[s] = "none" /\ UNCHANGED <<terminal, recent, limitTimer, prompt, draft>>
    BY <1>3 DEF Create
  <2>4. \A t \in Sessions \ {s} : status'[t] = status[t]
    BY <1>3 DEF Create
  <2> QED  BY <2>2, <2>3, <2>4
<1>4. ASSUME NEW s \in Sessions, Spawn(s) PROVE Timing'
  <2>1. status[s] = "CREATING" /\ status' = [status EXCEPT ![s] = "RUNNING"]
    BY <1>4 DEF Spawn, Attached
  <2>2. terminal' = terminal \union {s}
    BY <1>4 DEF Spawn
  <2>3. UNCHANGED <<boot, recent, prompt, draft, stateTimer, limitTimer, submits, revived>>
    BY <1>4 DEF Spawn
  <2>4. Timed(s)'
    BY <2>1, <2>3 DEF Timed, Notices
  <2>5. \A t \in terminal \ {s} : Timed(t)'
    BY <2>1, <2>3 DEF Timed
  <2> QED  BY <2>1, <2>2, <2>3, <2>4, <2>5
<1>5. ASSUME NEW s \in Sessions, SpawnFails(s) PROVE Timing'
  <2>1. s \notin terminal /\ terminal' = terminal
    BY <1>5 DEF SpawnFails, Attached, Active, Notices
  <2>2. /\ status' = [status EXCEPT ![s] = "FAILED"]
        /\ UNCHANGED <<boot, recent, prompt, draft, stateTimer, limitTimer, submits, revived>>
    BY <1>5 DEF SpawnFails
  <2>3. \A t \in terminal : Timed(t)'
    BY <2>1, <2>2 DEF Timed
  <2> QED  BY <2>1, <2>2, <2>3
<1>6. ASSUME NEW s \in Sessions, NEW k \in Chunks, Output(s, k) PROVE Timing'
  <2>1. Timed(s)' /\ status'[s] \in Active \union {"STOPPING"}
    BY <1>6, OutputIsTimed
  <2>2. /\ UNCHANGED <<boot, terminal, submits, draft>>
        /\ \A t \in Sessions \ {s} :
               /\ status'[t] = status[t] /\ recent'[t] = recent[t]
               /\ t \in prompt' <=> t \in prompt
               /\ t \in limitTimer' <=> t \in limitTimer
               /\ t \in stateTimer' <=> t \in stateTimer
               /\ t \in revived' <=> t \in revived
    BY <1>6 DEF Output, Put
  <2>3. \A t \in terminal \ {s} : Timed(t)'
    BY <2>2 DEF Timed
  <2> QED  BY <2>1, <2>2, <2>3 DEF Active, Notices
<1>7. ASSUME NEW s \in Sessions, NEW form \in Forms, Input(s, form) PROVE Timing'
  <2>1. status[s] \in Active /\ up
    BY <1>7 DEF Input, Running, Idle
  <2> QED  BY <1>7, <2>1, TypingIsTimed DEF Input
<1>8. ASSUME NEW s \in Sessions, Bootstrap(s) PROVE Timing'
  <2>1. status[s] \in Active /\ up
    BY <1>8 DEF Bootstrap, Running, Idle
  <2>2. PICK form \in Prompts : Type(s, "bootstrap", form)
    BY <1>8 DEF Bootstrap, SendBootstrap
  <2> QED  BY <1>8, <2>1, <2>2, TypingIsTimed DEF Bootstrap, SendBootstrap, Prompts, Forms
<1>9. ASSUME NEW s \in Sessions, ReadyObserved(s) PROVE Timing'
  <2>1. status[s] \in Active /\ up
    BY <1>9 DEF ReadyObserved, Sees, Idle, Active
  <2>2. PICK form \in Prompts : Type(s, "bootstrap", form)
    BY <1>9 DEF ReadyObserved, SendBootstrap
  <2> QED  BY <1>9, <2>1, <2>2, TypingIsTimed DEF ReadyObserved, SendBootstrap, Prompts, Forms
<1>10. ASSUME NEW s \in Sessions, Interrupt(s) PROVE Timing'
  <2>1. \A t \in terminal : Timed(t)'
    BY <1>10 DEF Interrupt, Timed
  <2> QED  BY <1>10, <2>1 DEF Interrupt
<1>11. ASSUME NEW s \in Sessions, Stop(s) PROVE Timing'
  <2>1. \A t \in terminal : Timed(t)'
    BY <1>11 DEF Stop, Timed, Notices
  <2> QED  BY <1>11, <2>1 DEF Stop
<1>12. ASSUME NEW s \in Sessions, SubmitTimer(s) PROVE Timing'
  <2>1. /\ submits[s] > 0 /\ submits' = [submits EXCEPT ![s] = @ - 1]
        /\ draft' = Put(draft, s, s \in draft /\ ~Enters(s))
        /\ prompt' = Put(prompt, s, s \in prompt /\ ~Enters(s))
        /\ UNCHANGED <<status, boot, terminal, recent, stateTimer, limitTimer, revived>>
    BY <1>12 DEF SubmitTimer
  <2>2. s \in terminal /\ status[s] # "STOPPING" => s \notin draft'
    <3>1. s \in terminal /\ status[s] # "STOPPING" => Enters(s)
      BY <1>12 DEF Attached, Enters, SubmitTimer, Idle
    <3> QED  BY <2>1, <3>1 DEF Put
  <2>3. prompt' \subseteq prompt /\ draft' \subseteq draft
    BY <2>1 DEF Put
  <2>4. \A t \in terminal \ {s} : Timed(t)'
    BY <2>1, <2>3 DEF Timed
  <2>5. s \in terminal => Timed(s)'
    BY <2>1, <2>2, <2>3 DEF Timed
  <2> QED  BY <2>1, <2>3, <2>4, <2>5
<1>13. ASSUME NEW s \in Sessions, PromptObserved(s) PROVE Timing'
  <2>1. \A t \in terminal : Timed(t)'
    BY <1>13 DEF PromptObserved, Timed, Sees, BootstrapDue, Notices
  <2> QED  BY <1>13, <2>1 DEF PromptObserved
<1>14. ASSUME NEW s \in Sessions, NothingObserved(s) PROVE Timing'
  <2>1. \A t \in terminal : Timed(t)'
    BY <1>14 DEF NothingObserved, Timed, Sees
  <2> QED  BY <1>14, <2>1 DEF NothingObserved
<1>15. ASSUME NEW s \in Sessions, LimitElapsed(s) PROVE Timing'
  <2>1. /\ limitTimer' = limitTimer \ {s}
        /\ status' = [status EXCEPT ![s] = IF @ = "RATE_LIMITED" THEN "WAITING_INPUT" ELSE @]
        /\ recent' = [recent EXCEPT ![s] = (@ \ {"RATE_LIMITED"}) \union {"past limit"}]
        /\ UNCHANGED <<boot, terminal, prompt, draft, stateTimer, submits, revived>>
    BY <1>15 DEF LimitElapsed
  <2>2. \A t \in terminal : Timed(t)'
    BY <2>1 DEF Timed, Notices
  <2>3. status[s] \notin {"none", "CREATING"}
    BY <1>15 DEF LimitElapsed
  <2> QED  BY <2>1, <2>2, <2>3
<1>16. ASSUME NEW s \in Sessions, Exit(s) PROVE Timing'
  <2>1. \A t \in terminal \ {s} : Timed(t)'
    BY <1>16 DEF Exit, Timed
  <2> QED  BY <1>16, <2>1 DEF Exit
<1>17. CASE UNCHANGED vars
  BY <1>17 DEF vars, Timed
<1> QED
  BY <1>1, <1>2, <1>3, <1>4, <1>5, <1>6, <1>7, <1>8, <1>9, <1>10, <1>11, <1>12, <1>13, <1>14,
     <1>15, <1>16, <1>17
     DEF Next, Request, StateTimer

\* The limit, the pending project prompt and the split Enter of a session have a
\* timer that is set: what the liveness properties of the runs rest on.
THEOREM WaitsAreTimed == Spec => []TimersAreSet
<1>1. Init => Timing
  BY DEF Init, All, Timing, Blank
<1>2. IInv /\ Timing => TimersAreSet
  <2> SUFFICES ASSUME IInv, Timing, Idle, NEW s \in Sessions
               PROVE  /\ status[s] = "RATE_LIMITED" => s \in limitTimer
                      /\ Asks(s) => s \in stateTimer /\ Sees(s) /\ BootstrapDue(s)
                      /\ s \in draft \ revived /\ status[s] \in Active =>
                             submits[s] > 0 /\ Enters(s)
    BY DEF TimersAreSet
  <2>1. status[s] \in Active => s \in terminal /\ Timed(s) /\ status[s] # "STOPPING"
    BY DEF IInv, Attached, Idle, Timing, Active, Notices
  <2>2. status[s] = "RATE_LIMITED" => s \in limitTimer
    BY <2>1 DEF Active, Notices, Timed
  <2>3. ASSUME Asks(s) PROVE s \in stateTimer /\ Sees(s) /\ BootstrapDue(s)
    <3>1. "ready" \in recent[s] /\ recent[s] \intersect ({"past limit"} \union Notices) = {}
      BY <2>1, <2>3 DEF Asks, Timed, Notices
    <3> QED  BY <2>1, <2>3, <3>1 DEF Asks, Timed, Sees, BootstrapDue
  <2>4. s \in draft \ revived /\ status[s] \in Active => submits[s] > 0 /\ Enters(s)
    BY <2>1 DEF Timed, Enters
  <2> QED  BY <2>2, <2>3, <2>4
<1>3. IInv /\ Timing /\ [Next]_vars => Timing'
  BY TimingPreserved DEF IInv
<1> QED
  BY <1>1, <1>2, <1>3, Invariance, PTL DEF Spec
-----------------------------------------------------------------------------
(* The sessions a client of the broker sees.                                  *)

ShownStatus == [s \in Sessions |-> Shown(s)]
ShownBoot == [s \in Sessions |-> IF Shown(s) = "none" THEN "DISABLED" ELSE boot[s]]
ShownStep == Broker!Next \/ UNCHANGED <<up, ShownStatus, ShownBoot, retry>>

\* What is shown for each status.
LEMMA ShownCases ==
    ASSUME TypeOK, NEW s \in Sessions
    PROVE  /\ status[s] \in Notices => Shown(s) = "LIMITED"
           /\ status[s] \in {"none", "RUNNING", "WAITING_INPUT", "STOPPING"} => Shown(s) = status[s]
           /\ status[s] \in Ended => Shown(s) = "ENDED"
           /\ status[s] = "CREATING" => Shown(s) = IF up THEN "none" ELSE "ENDED"
           /\ status[s] \in Active <=> Shown(s) \in Broker!Active
           /\ Shown(s) = "none" => status[s] \in {"none", "CREATING"}
<1> USE DEF TypeOK, Shown, Notices, Ended, Active, Open, Broker!Active
<1>1. CASE status[s] \in Notices
  BY <1>1
<1>2. CASE status[s] \in Ended
  BY <1>2
<1>3. CASE status[s] = "CREATING"
  BY <1>3
<1>4. CASE status[s] \in {"none", "RUNNING", "WAITING_INPUT", "STOPPING"}
  BY <1>4
<1> QED
  BY <1>1, <1>2, <1>3, <1>4

\* A step of one session changes what is shown of that session.
LEMMA ShownOfOne ==
    ASSUME TypeOK, TypeOK', NEW s \in Sessions, up' = up,
           \A t \in Sessions \ {s} : status'[t] = status[t] /\ boot'[t] = boot[t]
    PROVE  /\ ShownStatus' = [ShownStatus EXCEPT ![s] = Shown(s)']
           /\ Shown(s)' # "none" => ShownBoot' = [ShownBoot EXCEPT ![s] = boot'[s]]
           /\ boot'[s] = boot[s] /\ Shown(s) # "none" /\ Shown(s)' # "none" =>
                  ShownBoot' = ShownBoot
<1>1. \A t \in Sessions \ {s} : Shown(t)' = Shown(t)
  BY DEF Shown
<1> QED
  BY <1>1 DEF ShownStatus, ShownBoot

\* A step that leaves status, prompt and retry as they are shows nothing.
LEMMA NothingShown ==
    ASSUME UNCHANGED <<up, status, boot, retry>>
    PROVE  UNCHANGED <<up, ShownStatus, ShownBoot, retry>>
  BY DEF ShownStatus, ShownBoot, Shown

LEMMA ShownInit == Init => Broker!Init
<1> SUFFICES ASSUME Init PROVE Broker!Init
  OBVIOUS
<1>1. \A s \in Sessions : Shown(s) = "none"
  BY DEF Init, All, Shown, Notices, Ended
<1> QED
  BY <1>1 DEF Init, Broker!Init

\* Every step of the manager is one of the broker's promise, or shows nothing.
LEMMA StepIsShown == IInv /\ IInv' /\ [Next]_vars => ShownStep
<1> SUFFICES ASSUME IInv, IInv', [Next]_vars PROVE ShownStep
  OBVIOUS
<1>0. /\ TypeOK /\ TypeOK' /\ NoSession \notin Sessions
      /\ ShownStatus = [s \in Sessions |-> Shown(s)]
      /\ \A s \in Sessions : ShownStatus[s] = Shown(s)
      /\ \A s \in Sessions : Shown(s) # "none" => ShownBoot[s] = boot[s]
  BY DEF IInv, ShownStatus, ShownBoot, NoSession, Sessions
<1> USE <1>0
<1>1. CASE Crash
  <2>1. up /\ up' = FALSE /\ retry' = retry /\ status' = status /\ boot' = boot
    BY <1>1 DEF Crash, disk
  <2>2. CASE creating = NoSession
    <3>1. \A s \in Sessions : Shown(s)' = Shown(s)
      BY <2>1, <2>2 DEF IInv, Attached, Shown
    <3>2. ShownStatus' = ShownStatus /\ ShownBoot' = ShownBoot
      BY <2>1, <3>1 DEF ShownStatus, ShownBoot
    <3>3. Broker!Crash
      BY <2>1, <3>2 DEF ShownStatus, ShownBoot, Broker!Crash
    <3> QED
      BY <3>3 DEF ShownStep, Broker!Next
  <2>3. ASSUME NEW s \in Sessions, creating = s PROVE ShownStep
    <3>1. status[s] = "CREATING" /\ boot[s] \in {"DISABLED", "PENDING"}
      BY <2>3 DEF IInv, TypeOK, Attached, Unsent
    <3>2. Shown(s) = "none" /\ Shown(s)' = "ENDED"
      BY <2>1, <3>1 DEF Shown, Notices, Ended
    <3>3. \A t \in Sessions \ {s} : Shown(t)' = Shown(t)
      BY <2>1, <2>3 DEF IInv, Attached, Shown
    <3>4. /\ ShownStatus' = [ShownStatus EXCEPT ![s] = "ENDED"]
          /\ ShownBoot' = [ShownBoot EXCEPT ![s] = boot[s]]
      BY <2>1, <3>2, <3>3 DEF ShownStatus, ShownBoot
    <3>5. Broker!Stillborn(s)
      BY <2>1, <3>1, <3>2, <3>4 DEF ShownStatus, ShownBoot, Broker!Stillborn, Broker!To
    <3>6. Broker!Crash
      BY <2>1, <3>5 DEF Broker!Crash
    <3> QED
      BY <3>6 DEF ShownStep, Broker!Next
  <2> QED
    BY <2>2, <2>3 DEF TypeOK
<1>2. CASE Restart
  <2>1. ~up /\ up' /\ retry' = retry /\ boot' = boot
    BY <1>2 DEF Restart
  <2>2. \A s \in Sessions : status'[s] = Restored(status[s])
    BY <1>2 DEF Restart
  <2>3. \A s \in Sessions : Shown(s)' = IF Shown(s) = "none" THEN "none" ELSE "ENDED"
    BY <2>1, <2>2 DEF TypeOK, Shown, Restored, Open, Active, Ended, Notices
  <2>4. /\ ShownStatus' = [s \in Sessions |-> IF ShownStatus[s] = "none" THEN "none" ELSE "ENDED"]
        /\ ShownBoot' = ShownBoot
    BY <2>1, <2>3 DEF ShownStatus, ShownBoot
  <2> QED
    BY <2>1, <2>4 DEF ShownStep, ShownStatus, ShownBoot, Broker!Next, Broker!Restart
<1>3. ASSUME NEW s \in Sessions, NEW bootstrap \in BOOLEAN, Create(s, bootstrap)
      PROVE  ShownStep
  <2>1. /\ up' = up /\ up /\ retry' = retry /\ status[s] = "none" /\ status'[s] = "CREATING"
        /\ \A t \in Sessions \ {s} : status'[t] = status[t] /\ boot'[t] = boot[t]
        /\ boot[s] = "DISABLED"
    BY <1>3 DEF Create, Idle, IInv, TypeOK, Earned
  <2>2. Shown(s) = "none" /\ Shown(s)' = "none"
    BY <2>1 DEF Shown, Notices, Ended
  <2>3. \A t \in Sessions \ {s} : Shown(t)' = Shown(t)
    BY <2>1 DEF Shown
  <2> QED
    BY <2>1, <2>2, <2>3 DEF ShownStep, ShownStatus, ShownBoot
<1>4. ASSUME NEW s \in Sessions, Spawn(s) \/ SpawnFails(s) PROVE ShownStep
  <2>1. /\ up /\ up' = up /\ retry' = retry /\ boot' = boot /\ creating = s
        /\ status[s] = "CREATING"
        /\ \A t \in Sessions \ {s} : status'[t] = status[t]
    BY <1>4 DEF Spawn, SpawnFails, IInv, TypeOK, Attached
  <2>2. Shown(s) = "none" /\ boot[s] \in {"DISABLED", "PENDING"}
    BY <2>1 DEF IInv, TypeOK, Unsent, Shown, Notices, Ended
  <2>3. CASE Spawn(s)
    <3>1. Shown(s)' = "RUNNING"
      BY <2>3 DEF TypeOK, Spawn, Shown, Notices, Ended
    <3>2. /\ ShownStatus' = [ShownStatus EXCEPT ![s] = "RUNNING"]
          /\ ShownBoot' = [ShownBoot EXCEPT ![s] = boot[s]]
      BY <2>1, <3>1, ShownOfOne
    <3>3. ~Broker!HasSession(ProjectOf[s])
      BY <2>1, ShownCases DEF IInv, Alone, Broker!HasSession
    <3>4. \E bootstrap \in BOOLEAN : Broker!Start(s, bootstrap)
      <4>1. CASE boot[s] = "PENDING"
        <5>1. Broker!Start(s, TRUE)
          BY <2>1, <2>2, <3>2, <3>3, <4>1 DEF ShownStatus, ShownBoot, Broker!Start, Broker!To
        <5> QED  BY <5>1
      <4>2. CASE boot[s] = "DISABLED"
        <5>1. Broker!Start(s, FALSE)
          BY <2>1, <2>2, <3>2, <3>3, <4>2 DEF ShownStatus, ShownBoot, Broker!Start, Broker!To
        <5> QED  BY <5>1
      <4> QED  BY <2>2, <4>1, <4>2
    <3> QED
      BY <3>4 DEF ShownStep, Broker!Next
  <2>4. CASE SpawnFails(s)
    <3>1. Shown(s)' = "ENDED"
      BY <2>4 DEF TypeOK, SpawnFails, Shown, Notices, Ended
    <3>2. /\ ShownStatus' = [ShownStatus EXCEPT ![s] = "ENDED"]
          /\ ShownBoot' = [ShownBoot EXCEPT ![s] = boot[s]]
      BY <2>1, <3>1, ShownOfOne
    <3>3. Broker!Stillborn(s)
      BY <2>1, <2>2, <3>2 DEF ShownStatus, ShownBoot, Broker!Stillborn, Broker!To
    <3>4. Broker!StartFails(s)
      BY <2>1, <3>3 DEF Broker!StartFails
    <3> QED
      BY <3>4 DEF ShownStep, Broker!Next
  <2> QED  BY <1>4, <2>3, <2>4
<1>5. ASSUME NEW s \in Sessions, NEW k \in Chunks, Output(s, k) PROVE ShownStep
  <2>1. /\ up /\ up' = up /\ boot' = boot
        /\ status[s] \in Active \union {"STOPPING"}
    BY <1>5, OutputKeepsAlive DEF IInv
  <2>2. PICK tail \in Tails(s, k), class \in Notices \union {"RUNNING"} :
           /\ retry' = Put(retry, s, NeedsRetry(s, tail))
           /\ status' = [status EXCEPT ![s] = After(s, class)]
           /\ After(s, class) \in Active \union {"STOPPING"}
    BY <1>5, OutputKeepsAlive DEF IInv
  <2>3. Shown(s) \in Broker!Active \union {"STOPPING"}
    BY <2>1, ShownCases
  <2>4. \/ Shown(s)' = "LIMITED"
        \/ Shown(s)' = IF Shown(s) = "STOPPING" THEN "STOPPING" ELSE "RUNNING"
    <3>1. status'[s] = After(s, class)
      BY <2>2 DEF TypeOK
    <3>2. Shown(s) = "STOPPING" <=> status[s] = "STOPPING"
      BY <2>1 DEF TypeOK, Shown, Notices, Ended, Active
    <3> QED
      BY <3>1, <3>2, <2>1 DEF After, Shown, Notices, Ended
  <2>5. \/ retry' = retry
        \/ boot[s] = "SENT" /\ retry' = retry \union {s}
    BY <2>2 DEF Put, NeedsRetry, IInv, Earned
  <2>6. ShownStatus' = [ShownStatus EXCEPT ![s] = Shown(s)'] /\ ShownBoot' = ShownBoot
    BY <2>1, <2>2, <2>3, <2>4, ShownOfOne DEF TypeOK, Broker!Active
  <2>7. ShownBoot[s] = boot[s]
    BY <2>3 DEF Broker!Active
  <2>8. Broker!Output(s)
    BY <2>1, <2>3, <2>4, <2>5, <2>6, <2>7
       DEF ShownStatus, ShownBoot, Broker!Output, Broker!To
  <2> QED
    BY <2>8 DEF ShownStep, Broker!Next, Broker!Claude
<1>6. ASSUME NEW s \in Sessions, status[s] \in Active, up, up' = up, NEW v,
             status' = [status EXCEPT ![s] = v], Shown(s)' # "none",
             \A t \in Sessions \ {s} : boot'[t] = boot[t]
      PROVE  /\ Broker!Running(s)
             /\ ShownStatus' = [ShownStatus EXCEPT ![s] = Shown(s)']
             /\ ShownBoot' = [ShownBoot EXCEPT ![s] = boot'[s]]
             /\ ShownBoot[s] = boot[s]
             /\ boot'[s] = boot[s] => ShownBoot' = ShownBoot
  <2>1. Shown(s) \in Broker!Active
    BY <1>6, ShownCases
  <2>2. Broker!Running(s)
    BY <1>6, <2>1 DEF Broker!Running
  <2> QED
    BY <1>6, <2>1, <2>2, ShownOfOne DEF TypeOK, Broker!Active
<1>7. ASSUME NEW s \in Sessions, NEW form \in Forms, Input(s, form) PROVE ShownStep
  <2>1. /\ status[s] \in Active /\ up /\ up' = up /\ boot' = boot /\ retry' = retry
        /\ status' = [status EXCEPT ![s] = "RUNNING"]
    BY <1>7 DEF Input, Type, Running, Idle
  <2>2. Shown(s)' = "RUNNING"
    BY <2>1 DEF TypeOK, Shown, Notices, Ended
  <2>3. Broker!Input(s)
    BY <2>1, <2>2, <1>6 DEF Broker!Input, Broker!To, ShownStatus, ShownBoot
  <2> QED
    BY <2>3 DEF ShownStep, Broker!Next
<1>8. ASSUME NEW s \in Sessions, Bootstrap(s) \/ ReadyObserved(s) PROVE ShownStep
  <2>1. /\ status[s] \in Active /\ up /\ up' = up
        /\ boot' = [boot EXCEPT ![s] = "SENT"]
        /\ status' = [status EXCEPT ![s] = "RUNNING"]
    BY <1>8
       DEF Bootstrap, ReadyObserved, SendBootstrap, Type, Running, Sees, Idle, Active
  <2>2. Shown(s)' = "RUNNING" /\ boot'[s] = "SENT"
    BY <2>1 DEF TypeOK, Shown, Notices, Ended
  <2>3. /\ Broker!Running(s) /\ ShownBoot[s] = boot[s]
        /\ ShownStatus' = [ShownStatus EXCEPT ![s] = "RUNNING"]
        /\ ShownBoot' = [ShownBoot EXCEPT ![s] = "SENT"]
    BY <2>1, <2>2, <1>6 DEF TypeOK
  <2>4. CASE Bootstrap(s)
    <3>1. Broker!Bootstrap(s)
      BY <2>1, <2>3, <2>4
         DEF Bootstrap, Broker!Bootstrap, Broker!To, ShownStatus, ShownBoot
    <3> QED  BY <3>1 DEF ShownStep, Broker!Next
  <2>5. CASE ReadyObserved(s)
    <3>1. boot[s] = "PENDING" /\ retry' = retry
      BY <2>5 DEF ReadyObserved, BootstrapDue
    <3>2. Broker!Greet(s)
      BY <2>1, <2>3, <3>1 DEF Broker!Greet, Broker!To, ShownStatus, ShownBoot
    <3> QED  BY <3>2 DEF ShownStep, Broker!Next, Broker!Claude
  <2> QED  BY <1>8, <2>4, <2>5
<1>9. ASSUME NEW s \in Sessions, Interrupt(s) PROVE ShownStep
  BY <1>9, NothingShown DEF Interrupt, disk, ShownStep
<1>10. ASSUME NEW s \in Sessions, Stop(s) PROVE ShownStep
  <2>1. /\ status[s] \in Active /\ up /\ up' = up /\ boot' = boot /\ retry' = retry
        /\ status' = [status EXCEPT ![s] = "STOPPING"]
    BY <1>10 DEF Stop, Running, Idle
  <2>2. Shown(s)' = "STOPPING"
    BY <2>1 DEF TypeOK, Shown, Notices, Ended
  <2>3. Broker!Stop(s)
    BY <2>1, <2>2, <1>6 DEF Broker!Stop, Broker!To, ShownStatus, ShownBoot
  <2> QED
    BY <2>3 DEF ShownStep, Broker!Next
<1>11. ASSUME NEW s \in Sessions, SubmitTimer(s) \/ NothingObserved(s) PROVE ShownStep
  BY <1>11, NothingShown DEF SubmitTimer, NothingObserved, disk, ShownStep
<1>12. ASSUME NEW s \in Sessions, PromptObserved(s) \/ LimitElapsed(s) PROVE ShownStep
  <2>1. up /\ up' = up /\ boot' = boot /\ retry' = retry
    BY <1>12 DEF PromptObserved, LimitElapsed, Idle
  <2>2. CASE status' = status
    BY <2>1, <2>2, NothingShown DEF ShownStep
  <2>3. CASE status' # status
    <3>1. /\ status[s] \in {"RUNNING", "RATE_LIMITED"}
          /\ status' = [status EXCEPT ![s] = "WAITING_INPUT"]
      <4>1. CASE PromptObserved(s)
        BY <4>1 DEF PromptObserved, Sees
      <4>2. CASE LimitElapsed(s)
        <5>1. status' = [status EXCEPT ![s] = IF @ = "RATE_LIMITED" THEN "WAITING_INPUT" ELSE @]
          BY <4>2 DEF LimitElapsed
        <5>2. status[s] = "RATE_LIMITED"
          BY <5>1, <2>3 DEF TypeOK
        <5> QED  BY <5>1, <5>2
      <4> QED  BY <1>12, <4>1, <4>2
    <3>2. Shown(s)' = "WAITING_INPUT" /\ Shown(s) \in {"RUNNING", "LIMITED"}
      BY <3>1 DEF TypeOK, Shown, Notices, Ended
    <3>3. status[s] \in Active
      BY <3>1 DEF Active, Notices
    <3>4. Broker!Wait(s)
      BY <2>1, <3>1, <3>2, <3>3, <1>6 DEF Broker!Wait, Broker!To, ShownStatus, ShownBoot
    <3> QED
      BY <3>4 DEF ShownStep, Broker!Next, Broker!Claude
  <2> QED  BY <2>2, <2>3
<1>13. ASSUME NEW s \in Sessions, Exit(s) PROVE ShownStep
  <2>1. /\ up /\ up' = up /\ boot' = boot /\ retry' = retry
        /\ status[s] \in Active \union {"STOPPING"}
        /\ status' = [status EXCEPT ![s] = "EXITED"]
    BY <1>13 DEF Exit, Idle, IInv, Attached
  <2>2. Shown(s)' = "ENDED" /\ Shown(s) \in Broker!Active \union {"STOPPING"}
    BY <2>1, ShownCases DEF TypeOK, Shown, Notices, Ended
  <2>3. ShownStatus' = [ShownStatus EXCEPT ![s] = "ENDED"] /\ ShownBoot' = ShownBoot
    BY <2>1, <2>2, ShownOfOne DEF TypeOK, Broker!Active
  <2>4. Broker!Exit(s)
    BY <2>1, <2>2, <2>3 DEF Broker!Exit, Broker!To, ShownStatus, ShownBoot
  <2> QED
    BY <2>4 DEF ShownStep, Broker!Next, Broker!Claude
<1>14. CASE UNCHANGED vars
  BY <1>14, NothingShown DEF vars, disk, ShownStep
<1> QED
  BY <1>1, <1>2, <1>3, <1>4, <1>5, <1>7, <1>8, <1>9, <1>10, <1>11, <1>12, <1>13, <1>14
     DEF Next, Request, StateTimer

\* The session manager keeps the promise that the web process relies on: its
\* callbacks, timers, starts and deaths show a client nothing else.
THEOREM ManagerKeepsPromise == Spec => ImplementsBroker
<1>1. IInv /\ IInv' /\ [Next]_vars => [Broker!Next]_(Broker!vars)
  BY StepIsShown DEF ShownStep, ShownStatus, ShownBoot, Broker!vars
<1> QED
  BY ShownInit, <1>1, Invariance, PTL DEF Spec, Broker!Spec, ImplementsBroker
=============================================================================
