--------------------------- MODULE SessionManager ---------------------------
(* Managed Claude sessions: the sessions the broker (src/broker.js) keeps for *)
(* src/session-manager.js, with the callbacks of their pseudo terminals, the  *)
(* three timers each of them may have, their bootstrap prompt and what is     *)
(* restored from state.json when the broker starts again.                     *)
(*                                                                            *)
(* The broker is one thread: a request, a callback or a timer is one step.    *)
(* Only a crash falls into one, and it matters only in start, which is two.   *)
(* Every other handler ends with #persist, so status is also what is on disk. *)
EXTENDS Naturals, FiniteSets

CONSTANTS
    NumSessions, \* sessions, numbered in the order of their starts
    Projects,    \* session targets of the configuration
    ProjectOf,   \* the target a session is started for
    MaxEvents    \* bound: chunks of output, inputs of people and broker deaths

Sessions == 1..NumSessions
NoSession == 0

ASSUME NumSessionsAssumption == NumSessions \in Nat
ASSUME ProjectAssumption == ProjectOf \in [Sessions -> Projects]
ASSUME BoundAssumption == MaxEvents \in Nat

Notices == {"RATE_LIMITED", "PROVIDER_TRANSIENT"}
Active == {"RUNNING", "WAITING_INPUT"} \union Notices
Open == {"CREATING", "STOPPING"} \union Active
Ended == {"EXITED", "FAILED", "LOST"}

\* What a chunk of output says, as far as the manager tells chunks apart: a
\* prompt that is ready, a question, a missing login, or a provider notice (of a
\* limit whose reset time is to come, or has passed).
Words == {"ready", "confirm", "login", "past limit"} \union Notices
Chunks == {"text", "ready", "confirm", "login"} \union Notices

\* Keys without Enter; a line with its Enter; more than 256 bytes, whose Enter
\* is written by a timer.
Forms == {"keys", "line", "long"}
Prompts == {"line", "long"}

VARIABLES
    up,          \* the broker runs
    creating,    \* the session whose start is not finished
    status,      \* also on disk, in state.json
    boot, retry, \* bootstrapStatus, bootstrapNeedsRetry
    \* memory only
    terminal,    \* sessions with a PTY handle and its callbacks
    recent,      \* the words in recentOutput, its last 4096 characters
    stateTimer, limitTimer,   \* sessions whose timer is set
    submits,     \* timers that will write an Enter
    \* Claude: sessions that show a prompt, that hold the bootstrap text in it
    prompt, draft,
    \* history: bootstrap prompts written, login notices, sessions that a
    \* notice took out of STOPPING, bounded events
    typed, logins, revived, events

disk == <<status, boot, retry>>
timers == <<stateTimer, limitTimer, submits>>
world == <<prompt, draft>>
history == <<typed, logins, revived>>
vars == <<up, creating, disk, terminal, recent, timers, world, history, events>>

TypeOK ==
    /\ up \in BOOLEAN
    /\ creating \in Sessions \union {NoSession}
    /\ status \in [Sessions -> {"none"} \union Open \union Ended]
    /\ boot \in [Sessions -> {"DISABLED", "PENDING", "SENT"}]
    /\ recent \in [Sessions -> SUBSET Words]
    /\ submits \in [Sessions -> Nat]
    /\ retry \subseteq Sessions /\ terminal \subseteq Sessions
    /\ stateTimer \subseteq Sessions /\ limitTimer \subseteq Sessions
    /\ prompt \subseteq Sessions /\ draft \subseteq Sessions
    /\ typed \in [Sessions -> Nat] /\ logins \in [Sessions -> Nat]
    /\ revived \subseteq Sessions
    /\ events \in Nat

All(v) == [s \in Sessions |-> v]

Init ==
    /\ up = TRUE /\ creating = NoSession
    /\ status = All("none") /\ boot = All("DISABLED") /\ retry = {}
    /\ terminal = {} /\ recent = All({})
    /\ stateTimer = {} /\ limitTimer = {} /\ submits = All(0)
    /\ prompt = {} /\ draft = {}
    /\ typed = All(0) /\ logins = All(0) /\ revived = {}
    /\ events = 0

\* The broker is between two handlers.
Idle == up /\ creating = NoSession

\* The set with or without s.
Put(set, s, isMember) == IF isMember THEN set \union {s} ELSE set \ {s}

Event == events < MaxEvents /\ events' = events + 1

Running(s) == Idle /\ status[s] \in Active

-----------------------------------------------------------------------------
(* start.                                                                     *)

\* Variant: only a session that runs a turn is in the way.
BusyWithTurn(p) == \E s \in Sessions : ProjectOf[s] = p /\ status[s] = "RUNNING"

HasSession(p) == \E s \in Sessions : ProjectOf[s] = p /\ status[s] \in Active

Create(s, bootstrap) ==
    /\ Idle
    /\ status[s] = "none" /\ \A t \in 1..(s - 1) : status[t] # "none"
    /\ ~HasSession(ProjectOf[s])
    /\ status' = [status EXCEPT ![s] = "CREATING"]
    /\ boot' = [boot EXCEPT ![s] = IF bootstrap THEN "PENDING" ELSE "DISABLED"]
    /\ creating' = s
    /\ UNCHANGED <<up, retry, terminal, recent, timers, world, history, events>>

Spawn(s) ==
    /\ up /\ creating = s
    /\ creating' = NoSession
    /\ status' = [status EXCEPT ![s] = "RUNNING"]
    /\ terminal' = terminal \union {s}
    /\ UNCHANGED <<up, boot, retry, recent, timers, world, history, events>>

SpawnFails(s) ==
    /\ up /\ creating = s
    /\ creating' = NoSession
    /\ status' = [status EXCEPT ![s] = "FAILED"]
    /\ UNCHANGED <<up, boot, retry, terminal, recent, timers, world, history, events>>

-----------------------------------------------------------------------------
(* #onData.                                                                   *)

\* What classifyItermTail may make of a tail whose last chunk says k; "RUNNING"
\* stands for every state #onData does not ask for.  A notice counts until Claude
\* makes progress, asks a question, or its reset time has passed.
Classes(tail, k) ==
    IF k \in Notices THEN {k} \union (IF "confirm" \in tail THEN {"RUNNING"} ELSE {})
                     ELSE {"RUNNING"} \union (tail \intersect Notices)

\* A chunk may push everything older out of the tail.
Tails(s, k) == {kept \union ({k} \intersect Words) : kept \in {recent[s], {}}}

\* The prompt stays in sight until a question, progress or a page of text.
ShowsPrompt(s, k, tail) ==
    \/ k = "ready"
    \/ k \in {"login"} \union Notices /\ recent[s] \subseteq tail /\ s \in prompt

\* Variant: output without a notice leaves the status alone.
AfterNotice(s, class) == IF class \in Notices THEN class ELSE status[s]

\* A notice is recorded whatever the status was, any other output unless the
\* session is stopping.
After(s, class) ==
    IF class = "RUNNING" /\ status[s] = "STOPPING" THEN "STOPPING" ELSE class

Revives(s, class) == s \in revived \/ (status[s] = "STOPPING" /\ class \in Notices)

NeedsRetry(s, tail) == IF "login" \in tail THEN boot[s] = "SENT" ELSE s \in retry

Output(s, k) ==
    /\ Idle /\ s \in terminal
    /\ Event
    /\ \E tail \in Tails(s, k) : \E class \in Classes(tail, k) :
           /\ recent' = [recent EXCEPT ![s] = tail]
           /\ retry' = Put(retry, s, NeedsRetry(s, tail))
           /\ prompt' = Put(prompt, s, ShowsPrompt(s, k, tail))
           /\ status' = [status EXCEPT ![s] = After(s, class)]
           /\ limitTimer' = Put(limitTimer, s, class = "RATE_LIMITED")
           /\ stateTimer' = Put(stateTimer, s, class = "RUNNING")
           /\ revived' = Put(revived, s, Revives(s, class))
    /\ logins' = [logins EXCEPT ![s] = IF k = "login" THEN @ + 1 ELSE @]
    /\ UNCHANGED <<up, creating, boot, terminal, submits, draft, typed>>

-----------------------------------------------------------------------------
(* #writeInput and #sendBootstrap.                                            *)

\* Claude draws again before it is known what it shows.
Type(s, what, form) ==
    /\ draft' = Put(draft, s, form # "line" /\ (s \in draft \/ what = "bootstrap"))
    /\ prompt' = prompt \ {s}
    /\ submits' = [submits EXCEPT ![s] = IF form = "long" THEN @ + 1 ELSE @]
    /\ stateTimer' = stateTimer \ {s}
    /\ limitTimer' = limitTimer \ {s}
    /\ recent' = [recent EXCEPT ![s] = {}]
    /\ status' = [status EXCEPT ![s] = "RUNNING"]

SendBootstrap(s) ==
    /\ boot' = [boot EXCEPT ![s] = "SENT"]
    /\ typed' = [typed EXCEPT ![s] = @ + 1]
    /\ \E form \in Prompts : Type(s, "bootstrap", form)

Input(s, form) ==
    /\ Running(s)
    /\ Event
    /\ Type(s, "input", form)
    /\ UNCHANGED <<up, creating, boot, retry, terminal, history>>

\* Variant: the retry that a login notice allows is not used up.
BootstrapAgain(s) ==
    /\ Running(s)
    /\ boot[s] = "SENT" => s \in retry
    /\ SendBootstrap(s)
    /\ UNCHANGED <<up, creating, retry, terminal, logins, revived, events>>

\* bootstrap, the request of a person.
Bootstrap(s) ==
    /\ Running(s)
    /\ boot[s] = "SENT" => s \in retry
    /\ retry' = retry \ {s}
    /\ SendBootstrap(s)
    /\ UNCHANGED <<up, creating, terminal, logins, revived, events>>

Interrupt(s) ==
    /\ Running(s)
    /\ draft' = draft \ {s}
    /\ prompt' = prompt \ {s}
    /\ UNCHANGED <<up, creating, disk, terminal, recent, timers, history, events>>

\* SIGTERM; the process ends when it wants to.
Stop(s) ==
    /\ Running(s)
    /\ status' = [status EXCEPT ![s] = "STOPPING"]
    /\ UNCHANGED <<up, creating, boot, retry, terminal, recent, timers, world, history, events>>

-----------------------------------------------------------------------------
(* Timers.  What they find may be another state than the one they were set    *)
(* for.                                                                       *)

\* Variant: the Enter is written only to a session that waits.
EntersIfWaiting(s) == status[s] = "WAITING_INPUT" /\ s \in terminal

Enters(s) == status[s] \in Active /\ s \in terminal

\* 75 ms after a long input.
SubmitTimer(s) ==
    /\ Idle /\ submits[s] > 0
    /\ submits' = [submits EXCEPT ![s] = @ - 1]
    /\ draft' = Put(draft, s, s \in draft /\ ~Enters(s))
    /\ prompt' = Put(prompt, s, s \in prompt /\ ~Enters(s))
    /\ UNCHANGED <<up, creating, disk, terminal, recent, stateTimer, limitTimer, history, events>>

\* Variant: the whole tail has to be the prompt.
SeesOnlyPrompt(s) == status[s] = "RUNNING" /\ recent[s] \in {{"ready"}, {"confirm"}}

Sees(s) == status[s] = "RUNNING" /\ recent[s] \intersect {"ready", "confirm"} # {}

BootstrapDue(s) == boot[s] = "PENDING" /\ "ready" \in recent[s]

\* 250 ms of silence, a prompt or a question in the tail.
PromptObserved(s) ==
    /\ Idle /\ s \in stateTimer /\ Sees(s) /\ ~BootstrapDue(s)
    /\ stateTimer' = stateTimer \ {s}
    /\ status' = [status EXCEPT ![s] = "WAITING_INPUT"]
    /\ UNCHANGED <<up, creating, boot, retry, terminal, recent, limitTimer, submits, world,
                   history, events>>

ReadyObserved(s) ==
    /\ Idle /\ s \in stateTimer /\ Sees(s) /\ BootstrapDue(s)
    /\ SendBootstrap(s)
    /\ UNCHANGED <<up, creating, retry, terminal, logins, revived, events>>

NothingObserved(s) ==
    /\ Idle /\ s \in stateTimer /\ ~Sees(s)
    /\ stateTimer' = stateTimer \ {s}
    /\ UNCHANGED <<up, creating, disk, terminal, recent, limitTimer, submits, world, history,
                   events>>

\* The reset time of the provider limit has passed.
LimitElapsed(s) ==
    /\ Idle /\ s \in limitTimer
    /\ limitTimer' = limitTimer \ {s}
    /\ status' = [status EXCEPT ![s] = IF @ = "RATE_LIMITED" THEN "WAITING_INPUT" ELSE @]
    /\ recent' = [recent EXCEPT ![s] = (@ \ {"RATE_LIMITED"}) \union {"past limit"}]
    /\ UNCHANGED <<up, creating, boot, retry, terminal, stateTimer, submits, world,
                   history, events>>

-----------------------------------------------------------------------------
(* Claude ends; the broker ends and starts again.                             *)

\* #onExit, which node-pty calls after the last #onData.
Exit(s) ==
    /\ Idle /\ s \in terminal
    /\ status' = [status EXCEPT ![s] = "EXITED"]
    /\ terminal' = terminal \ {s}
    /\ stateTimer' = stateTimer \ {s}
    /\ limitTimer' = limitTimer \ {s}
    /\ prompt' = prompt \ {s} /\ draft' = draft \ {s}
    /\ UNCHANGED <<up, creating, boot, retry, recent, submits, history, events>>

\* A kill, or a shutdown.
Crash ==
    /\ up /\ up' = FALSE
    /\ Event
    /\ creating' = NoSession
    /\ terminal' = {} /\ recent' = All({})
    /\ stateTimer' = {} /\ limitTimer' = {} /\ submits' = All(0)
    /\ UNCHANGED <<disk, world, history>>

\* Variant: a session goes on as it was saved.
AsSaved(saved) == IF saved \in {"CREATING", "STOPPING"} THEN "LOST" ELSE saved

Restored(saved) == IF saved \in Open THEN "LOST" ELSE saved

\* #restore.
Restart ==
    /\ ~up /\ up' = TRUE
    /\ status' = [s \in Sessions |-> Restored(status[s])]
    /\ UNCHANGED <<creating, boot, retry, terminal, recent, timers, world, history, events>>

-----------------------------------------------------------------------------
Request(s) ==
    \/ \E bootstrap \in BOOLEAN : Create(s, bootstrap)
    \/ \E form \in Forms : Input(s, form)
    \/ Bootstrap(s) \/ Interrupt(s) \/ Stop(s)

StateTimer(s) == PromptObserved(s) \/ ReadyObserved(s) \/ NothingObserved(s)

Next == \/ Crash \/ Restart
        \/ \E s \in Sessions :
               \/ Request(s) \/ Spawn(s) \/ SpawnFails(s)
               \/ \E k \in Chunks : Output(s, k)
               \/ StateTimer(s) \/ LimitElapsed(s) \/ SubmitTimer(s)
               \/ Exit(s)

Spec == Init /\ [][Next]_vars

(* The supervisor starts the broker again, a start goes on and timers run     *)
(* out.  Nothing is assumed of Claude or of people.                           *)
Fairness ==
    /\ WF_vars(Restart)
    /\ \A s \in Sessions :
           /\ WF_vars(Spawn(s) \/ SpawnFails(s))
           /\ WF_vars(StateTimer(s))
           /\ WF_vars(LimitElapsed(s))
           /\ WF_vars(SubmitTimer(s))

FairSpec == Spec /\ Fairness

-----------------------------------------------------------------------------
(* Properties.                                                                *)

\* Whatever timers, exits and restarts interleave, a session is taken for
\* active or stopping exactly while the broker holds its terminal, so that a
\* request it accepts has a terminal to act on.
ActiveIsAttached ==
    Idle => \A s \in Sessions :
                (status[s] \in Active \union {"STOPPING"}) <=> s \in terminal

\* The project prompt is written once, by the timer or a person, and once more
\* at most for every login notice.
RetryIsEarned == \A s \in Sessions : typed[s] <= 1 + logins[s]

\* Two sessions of one project are active only if a provider notice took one
\* of them back from stopping.
OneActive ==
    \A s, t \in Sessions :
        s # t /\ ProjectOf[s] = ProjectOf[t] /\ status[s] \in Active /\ status[t] \in Active =>
            s \in revived \/ t \in revived

\* A session that ended stays as it ended, through restarts and late timers.
EndIsFinal == [][\A s \in Sessions : status[s] \in Ended => status'[s] = status[s]]_vars

\* A prompt is in sight that the project prompt waits for, and no notice is.
Asks(s) ==
    /\ boot[s] = "PENDING" /\ status[s] \in Active
    /\ s \in prompt /\ recent[s] \subseteq {"ready", "confirm", "login"}

\* Nothing that waits for a timer waits without one, whatever callbacks and
\* requests have cleared and set in the meantime: a session under a limit has the
\* timer that ends it; one that asks for its project prompt has the timer that
\* types it, with the tail that timer looks for; and the Enter of a long prompt,
\* of a session that has not been through STOPPING, is still to come.
TimersAreSet ==
    Idle => \A s \in Sessions :
        /\ status[s] = "RATE_LIMITED" => s \in limitTimer
        /\ Asks(s) => s \in stateTimer /\ Sees(s) /\ BootstrapDue(s)
        /\ s \in draft \ revived /\ status[s] \in Active => submits[s] > 0 /\ Enters(s)

(* What a client is shown of a session: not that it is being created, and both *)
(* kinds of provider notice as one.                                           *)
Shown(s) ==
    IF status[s] \in Notices THEN "LIMITED"
    ELSE IF status[s] \in Ended \/ (status[s] = "CREATING" /\ ~up) THEN "ENDED"
    ELSE IF status[s] = "CREATING" THEN "none" ELSE status[s]

Broker == INSTANCE BrokerSessions WITH
              status <- [s \in Sessions |-> Shown(s)],
              boot <- [s \in Sessions |-> IF Shown(s) = "none" THEN "DISABLED" ELSE boot[s]]

\* Whatever callbacks, timers and crashes do, a client of the broker sees a
\* session that keeps to the states and the requests it relies on.
ImplementsBroker == Broker!Spec

\* A provider limit does not hold a session for ever.
LimitEnds ==
    \A s \in Sessions : (status[s] = "RATE_LIMITED") ~> (status[s] # "RATE_LIMITED")

\* A prompt without a provider notice in sight gets the pending project prompt,
\* unless something else happens to the session first.
BootstrapIsTyped == \A s \in Sessions : Asks(s) ~> ~Asks(s)

\* The Enter that was split from a project prompt follows, whatever the session
\* goes through in the meantime, unless it is stopped or ends.
BootstrapIsSubmitted ==
    \A s \in Sessions :
        (s \in draft \ revived) ~> (s \notin draft \/ status[s] \notin Active)
=============================================================================
