# Verification of FIRM Control Room

FIRM Control Room is a local Node.js web process that watches research projects, runs a
session broker for Claude Code, follows GPU jobs on a remote machine, and tells Claude what
happened by typing into terminals. This directory holds TLA+ models of its protocols, the
TLC configurations that check them on small instances, and TLAPS proofs for all instances.

Paths are given from the repository's root, which holds `src/`, `scripts/`, `test/`.
Everything below was translated from the code; documents and tests are quoted only where
they say something else than the code (section 5).

* [1. The system](#1-the-system)
* [2. Models](#2-models)
* [3. Runs, bounds and fairness](#3-runs-bounds-and-fairness)
* [4. Proofs](#4-proofs)
* [5. Findings and known behaviours](#5-findings-and-known-behaviours)
* [6. What the models leave out](#6-what-the-models-leave-out)
* [7. Plan](#7-plan)

## 1. The system

Four kinds of process run at the same time: the web process (`src/start.js`: server,
automation engine, collectors, SQLite store), the broker (`src/broker.js`: session manager and
PTYs, outlives the web process), the GPU queue runner on the remote machine (a bash service
loop and one launcher per run), and job wrappers (`scripts/run-registered-job.sh`). Claude
Code sessions run under the broker ("managed") or in iTerm terminals ("external"). The web
process is a single thread: an interleaving inside it happens only at an `await`, but it may
be killed between any two SQL statements.

The automation engine's cycle runs on a timer (`#cycle`): collect and ingest jobs, raise and
resolve events, reconcile the outbox, deliver pending events, watch sessions, ask the
continuity supervisor.

### Components

| component | state | operations | interacts with | what makes it hard | what makes it correct |
|---|---|---|---|---|---|
| External delivery (`automation-engine.js`, `store.js`) | `automation_events`, `message_outbox`; `deliveredTargets`, `externalDispatches`, the snapshot | raise, dismiss and resolve events; reconcile and deliver passes; Enter retries; restart quarantine | terminals, Claude's history, store | non-atomic protocol over a durable store and an unreadable terminal; stale snapshots; crashes between statements; a person at the keyboard | a text is typed once; ACK and DELIVERED are true; one message in flight; no event is forgotten |
| GPU queue runner (`scripts/firm-gpu-queue-runner.sh`, `submit-gpu-request.sh`) | run directories, signal files, manifests, heartbeat, pids | submit, `--ensure`, serve (recover, dispatch), launch, finalize | collector of the web process | several loops at once; kills and container restarts between any two file operations; pid reuse | directories move forward; one launch; verdict, manifest and signals agree; nothing is stranded |
| Job registry and queue sync (`job-registry.js`, `gpu-queue.js`, `automation-engine.js`) | `jobs`, `job_events`, events | scan, sync, infer disappearance, announce, cancel | runner, engine, store | a scan is not a snapshot; crashes between statements; bounded snapshots | never ahead of the queue; no false failure; results announced once and truly |
| Registered job wrappers (`scripts/run-registered-job.sh`, `firm-job.js`, `server.js`) | registered state and process identity; wrapper, child, HTTP calls | register, start, heartbeat, finish, cancel | job registry | lost answers, killed wrappers, traps, duplicate run ids | one process executes a job; what is recorded is what happened |
| Managed delivery (`automation-engine.js`, `broker-client.js`) | event statuses; in memory the list of sessions, the rows of the pass, `deliveredTargets`; no outbox row | deliver pass, approvals of people, control session, pending prompts; requests and their timeout | broker, `ExternalDelivery` | an event is typed, then marked; a request times out after 5 s while the broker still serves it; both processes may die in between; an approval runs beside the cycle | a text is typed again only for an answer that was lost; a mark is true; the control session comes back |
| Session manager (`session-manager.js`) | sessions (`CREATING` … `LOST`), output ring, timers (250 ms state timer, rate-limit timer, 75 ms submit timer), bootstrap state | start, input, bootstrap, interrupt, stop, restore | PTY, broker RPC | timers racing data and exit; restore after a broker restart; kill that never exits | a state always describes the process; bootstrap typed once; no timer acts on an ended session |
| Broker process and RPC (`broker.js`, `broker-rpc.js`, `broker-client.js`) | socket path | probe, unlink, listen, close; request/response, 5 s client timeout | session manager, web process | a path that a crash has left; two brokers that start at once; a late or lost answer | one control plane; the two processes find each other again |
| PTY backend (`pty-backend.js`) | child process | spawn, write, kill, resize | session manager | exit and data callbacks in any order | exit reported once |
| Continuity supervisor and resolver (`continuity-supervisor.js`, `continuity-resolver.js`) | event rows per episode; in-flight decisions, `firstReadyAt` | settle, decide once per episode, hold with `retry_at`, limit concurrency | engine, Claude CLI | a decision outlives the episode it was made for | one decision per episode; concurrency limit; holds are retried |
| Operational state and job waits (`session-state.js`, `job-wait.js`) | none | a pure order of decisions | jobs, events, messages | priority of contradictory facts | a wait needs a live job; blocked needs a cause |
| Session watchdog (`automation-engine.js`) | stall candidates, provider waits | observe, alert, one Enter per wait | external snapshot | stale observations | one alert per stall; `enter_only_once` |
| Scheduler session and monitor (`automation-engine.js`, `scheduler-monitor.js`) | none of its own | ensure, start for an event, watch | session manager | a start that times out and is served later | one scheduler session, and always one |
| Terminal classification (`iterm-status.js`) | none | text patterns | delivery, session manager | string processing | its verdicts are the screens of the models |
| Collectors and Claude history (`collectors.js`, `claude-history.js`) | bounded file tails | read processes, files, history | delivery | bounded tails | a marker found was submitted |
| GPU readiness and efficiency (`gpu-queue.js`) | none | validation of request fields | events | – | advisory only |
| Store (`store.js`) | SQLite tables | single statements | all | no transaction spans two of them | unique keys, statuses |
| Server and page (`server.js`, `public/app.js`) | none | HTTP routes | all | requests between awaits of the cycle | – |
| Start-up and configuration (`start.js`, `config.js`) | `brokerFailures` | start or await the broker, exit after three failed checks | broker, launchd | checks that race a broker's start | the web process serves with a broker in the end |
| Audit, evidence, maturity | none | evaluation of collected facts | store | – | – |
| Operational scripts | none | checks, deployment, housekeeping | all | – | – |

`PROJECT.json` lists the same components with their sources and status, and under `hazards`
every point of the code that is hard to test, at its line, with the properties that cover it
or the reason why none does yet.

## 2. Models

Eight modules model the components; four small ones say what five of them promise.

```
 AtMostOnce     <--refines-- ExternalDelivery  <-- ExternalDeliveryProofs
 QueueLifecycle <--refines-- GpuQueueRunner    <-- GpuQueueRunnerProofs
       ^ INSTANCE (its queue)
 JobLifecycle   <--refines-- JobRegistry       <-- JobRegistryProofs
 JobLifecycle   <--refines-- RegisteredJob     <-- RegisteredJobProofs
 BrokerSessions <--refines-- SessionManager    <-- SessionManagerProofs
       ^ INSTANCE (its broker)
                             ManagedDelivery   <-- ManagedDeliveryProofs
                             BrokerProcess     <-- BrokerProcessProofs
                             Continuity        <-- ContinuityProofs
```

`JobRegistry` takes the abstract `QueueLifecycle` as the remote queue it reads, and
`GpuQueueRunner` is shown to implement that lifecycle: what the registry is checked against is
what the runner is proved to do. In the same way `ManagedDelivery` drives the sessions of
`BrokerSessions`, and `SessionManager` is proved to implement them. The MC modules define the functions and symmetries that a cfg
cannot write down.

### ExternalDelivery

The protocol by which an event reaches a Claude Code session in an iTerm terminal.

| in the module | in the code |
|---|---|
| `event`, `box`, `boxPid`, `boxSeq`, `enters` | columns of `automation_events` and `message_outbox` (`src/store.js`) |
| `view` | `externalSnapshot` taken once per pass; every decision of a pass uses it, the world moves on |
| `served`, `dispatch`, `todo`, `wasHeld`, `retryable` | `deliveredTargets`, `externalDispatches`, and rows read before an `await` and used after it |
| `pc` | the position of the single cycle; HTTP requests (`Create`, `Dismiss`, `WithdrawMessage`) run only at an await (`Awaiting`) |
| `ReconcileVanished` … `RetryFailed` | `#reconcileExternalAcknowledgements` |
| `SkipServed` … `EventSent` | `#deliverPending`, `#sendExternalAcknowledged`, `#externalDispatchBlocked` |
| `Crash`, `Restart` | death of the process at any statement; `recoverAmbiguousOutboxMessages` at start |
| `screen`, `draft`, `folded`, `accepted`, `writer`, `moved` | what the terminal shows, the editable prompt, the history file of a process |
| `Fault(kind)`, `faults` | what may go wrong (`Faults`) and how often in all (`MaxFaults`): a crash, a swallowed Enter, an input error, a dead process, a truncated history, a dialog, a resolved or dismissed event, a person |
| `written`, `taken`, `cleared` | history variables: text typed, text submitted, condition ended |

Its promise, `AtMostOnce`: a text is typed at most once and acknowledged only after Claude
received it.

### GpuQueueRunner

Every file operation of `firm-gpu-queue-runner.sh` is a step. `place` is the state directory
that holds the run directory, `signals` its signal files, `status`, `manifest`, `result` its
`status.json`, `terminal.json` and `RESULT.md`. A service loop (`loop`) recovers orphans, then
dispatches; under `set -e` an operation on a directory that has moved ends it (`LoopDies`). A
launcher (`launcher`) records its identity, executes the command and finalizes the run. The command
may write a RESULT.md of its own while it runs (`Report`), also when its launcher was killed.
`EnsureCheck` and `StartLoop` are apart, because `--ensure` starts a loop after it has looked,
so two loops may run. Its promise, `QueueLifecycle`: directories only move forward, a signal
is published after the move, no command is executed twice.

### JobRegistry

The scan reads `pending`, `running`, `done`, `failed` in this order, one directory and one
signal at a time (`ListDirectory`, `CheckSignal`), while `QueueStep` moves runs. The
synchronisation then saves one job per statement, each followed by a row of `job_events`
(`AddJobEvent`) which a crash can lose; jobs that are missing from the scan are counted
(`MissFirst`) and failed the second time (`MissAgain`). `IngestItem` and `AnnounceResult` are
the engine's `#ingestQueue` and `#ingestJobs`. `LatestEnded` is the bounded list of finished
jobs in a snapshot. Its promise, `JobLifecycle`: finished jobs stay finished, and a verdict is
announced once and is that of the job.

### RegisteredJob

A wrapper sends one HTTP request after the other (`Sends`), the web process serves each in one
synchronous step (`ServeRegister`, `ServeStart`, `ServeFinish`, `ServeHeartbeat`), and the
answer may be lost (`ConnectionFails`). `Accepts` is the transition table and the identity
check of `JobRegistry.update`. `Terminate` is the EXIT trap that bash runs when SIGTERM or
SIGHUP ends the script during `wait`: the code it reports is that of the last command that
finished, a zero that says nothing of the job (`code = "stale"`), and the command itself goes on.
`KillWrapper` is SIGKILL, no trap.

### SessionManager

The sessions of the broker. One thread runs it, so a request (`Create`, `Input`, `Bootstrap`,
`Interrupt`, `Stop`), a callback of a terminal (`Output`, `Exit`) and a timer are one step each; a
start is two (`Create`, then `Spawn` or `SpawnFails`), because a crash between them leaves
CREATING in `state.json`. `status`, `boot` and `retry` are on disk as well as in memory, `Crash`
forgets the rest and `Restart` is `#restore`. The numbers of the sessions are the order of
their starts.

| in the module | in the code |
|---|---|
| `recent` | the words that matter in `recentOutput`, its last 4096 characters: a ready prompt, a question, a missing login, a provider notice with or without a reset time to come; new output may push the older ones out |
| `Classes` | what `classifyItermTail` may make of such a tail |
| `stateTimer` | the 250 ms of silence: `PromptObserved`, `ReadyObserved` (which types the bootstrap prompt), `NothingObserved` |
| `limitTimer` | the reset time of a provider limit: `LimitElapsed` |
| `submits` | Enters that long inputs split off for 75 ms later: `SubmitTimer` |
| `prompt`, `draft` | the terminal: it shows a ready prompt; it holds a bootstrap text that is not submitted |
| `typed`, `logins`, `revived` | history variables: bootstrap prompts written, login notices, sessions a notice took out of STOPPING |

Its promise, `BrokerSessions`, is what a client of the broker may rely on: the states of a session,
which requests it accepts in each, that a project has one active session when one starts, and that
nothing is active after a restart. `Shown` is the refinement mapping: of a session that was created
and not yet spawned a client sees nothing, and `LOST`, `ERROR` and `EXITED` are one state. The promise
lets the broker die in the middle of a start, and a stopping session come back when the provider
reports a limit, because the code does both.

### ManagedDelivery

The path to sessions that the broker runs. It has no outbox: the cycle types the text of an event
with an `input` request, and marks the event DELIVERED when the answer is there. The module holds
the whole cycle as far as it asks the broker something, in the order of `#cycle`: the control
session (`#ensurePersistentControls`), the pending project prompts (`#watchSessions`), the deliver
pass (`#deliverPending`, `#maybeStartControl`); and beside it the approvals of people (`deliver`).

| in the module | in the code |
|---|---|
| `Actors`, `pc`, `wire` | the cycle and each approval; the await at which it is; its request: sent, answered, refused |
| `view` | what its list said, as far as it asks (`acceptsManagedOperationalInput`, `bootstrapNeedsRetry`, an active control), and `externalSnapshot`, taken once in a cycle |
| `todo`, `rows`, `wasHeld`, `served` | the prompts that are due, rows read before an `await`, `deliveredTargets` |
| `ServeList` … `Refuse` | the broker serves a request in one step, as its single thread does (`broker-rpc.js`, `session-manager.js`) |
| `Timeout`, `Forsake` | `broker-client.js`: after five seconds, or when the connection breaks, the request has failed; it was served, will be, or never is |
| `late`, `lateStarts`, `lateBoots`, `ServeLateInput` … | requests that nobody waits for any more and the broker still serves |
| `ControlFound` … `AskControl` | the branches of the cycle after each answer |
| `outside` | the external sessions of a target: none, exactly one that takes input ("ready"), or others ("busy"): they hold the event, and keep the control from being started |
| `HandOver` | the one external session gets the event: sent, failed, or an earlier message is in the way; one step here, in detail in `ExternalDelivery` |
| `Approve`, `ApprovalSends`, `ApprovalTyped` | `deliver`; neither it nor the cycle looks at the event again after its awaits |
| `Session` | Claude; people at the page, who start and stop sessions and send the project prompt |
| `Terminal` | Claude Code in iTerm, which comes and goes (a fault) and takes input or not (at any time) |
| `WebDies`, `BrokerDies` | death of either process with requests on their way |
| `typed`, `lost`, `marked` | history variables: texts typed by an actor for an event, answers to inputs that the cycle never got, events it marked |

An approval runs only while the cycle awaits (`Awaiting`): the deliver pass holds the thread between
two events.

### BrokerProcess

How the two processes find each other. A broker probes the socket, unlinks its path, listens and
changes its mode, each a step; a signal makes it close, which takes the path away twice
(`Shutdown`, `UnlinkAgain`), whoever it leads to by then. `path` is nothing, a socket that a crash has
left (`Stale`), or the broker behind it. `FindBroker`, `WaitForBroker` and `BrokerWatch` are `start.js`:
the first question, the two hundred that follow, and the watch that ends the process after three
without an answer (`misses`). `LaunchBroker` and `LaunchWeb` are launchd. `auto` is
`brokerAutoStart`, off in production, where launchd alone starts brokers. `live` are the brokers
that have a control session; that one broker has no two is a matter of `SessionManager` (`OneActive`).

### Continuity

The review of research sessions that have stopped. An *episode* is a process and the latest event of
its history (`Reviews`); at most one event row of a kind exists for it (`event`).

| in the module | in the code |
|---|---|
| `event`, `option`, `waiting`, `ambiguous`, `boxed` | rows of `automation_events`, the option in the source of a choice, a `retry_at` still to come in the note of a request, the row that reports two sessions of one project; outbox rows of resumes |
| `Observe` | discovery, `#watchExternalStops`, `ContinuitySupervisor.observe` and the SELECT of `#deliverPending`, up to the first await of the deliver pass |
| `Ready`, `Eligible`, `Settled` | `deriveOperationalState` restricted to the states a review may begin in, `ELIGIBLE_STATES`, `settleMs` |
| `firstReady`, `suspect`, `inflight` | `firstReadyAt`, `externalUnknownCandidates`, the tasks of the resolver: all in memory, forgotten by `Crash` and `Shutdown` |
| `view`, `rows`, `served` | the snapshot, the rows selected and `deliveredTargets` of one pass |
| `Answer`, `Fails` | `#decide`: the answer of the resolver at any later await, or its failure |
| `ClaimChoice`, `PressKeys`, `MarkChoice`, `PressFails` | the branch of a choice in `#deliverPending`: SENT before the keys, DELIVERED after them |
| `SendResume`, `SendFails`, `CrashAmidSend` | the send of `ExternalDelivery`, here one step with its outcomes |
| `Shutdown`, `Close` | `close()`: running resolvers are killed, tasks that have not started theirs go on |
| `RetryDue`, `Settle`, `Stall`, `Quieten` | time: a mark is fresh until its action makes it old |
| `turn`, `screen`, `cursor`, `hidden`, `facts`, `quiet` | the history and the terminal of a process, and the evidence of work collected about it |
| `decided`, `excused`, `typed`, `pressed`, `picked` | history variables: decisions of an episode, those that a crash cut off from the end of their request, what was typed and picked |

It shares the events table and the outbox with `ExternalDelivery`, which models the typing of a
text in detail and gives this module the right to take it as one step.

## 3. Runs, bounds and fairness

Every run whose cfg says `Spec` checks safety only; `FairSpec` adds the fairness below. Deadlock is
checked everywhere but in the `MCWrapper*` runs and in `MCSessions`, where all wrappers or sessions may
have ended and nothing is left to do. The types of all variables are proved (`TypeCorrect`, for
every component), so the runs do not repeat them. The ten passing runs; the other two, with one
property each, are in section 5.

| run | instance | what it is in a position to reach | properties |
|---|---|---|---|
| `delivery_faults` | 2 events, 2 processes (symmetric), any three faults of all nine kinds | two messages to one process and to two; supersession; a crash and its quarantine in the middle of a retry; an event dismissed while it is delivered; a person who submits or deletes our draft; a marker that leaves the bounded tail | `OneInFlight`, `DeliveredIsTrue`, `TextLivesOnce`, `SupersededForCause`, `KeepsPromise` |
| `delivery_live` | 2 events, 1 process, two faults of crash and swallowed Enter | Enter retried, a crash between typing and recording | `EventuallySent`, `DeliveredWhileUp`, `EvidenceIsRecorded` |
| `runner` | 1 run, 2 loops, three kills or container restarts, any exit code and report | two loops over the same run, one killed at any step, a loop that dies because the other moved a directory; recovery killed and repeated at each of its steps | `ManifestMatches`, `DoneIsTrue`, `ResultAgrees`, `ImplementsLifecycle`, `RequestsEnd`, `RecordedOrphansFail` |
| `registry` | 1 run, two scans that meet it in transit, an outage, a crash | a crash between saving a job, its history and its event; a miss before, after and between verdicts | `NeverAhead`, `OneMissIsForgiven`, `ImplementsLifecycle`, `SubmissionsResolve`, `ResultsArrive` |
| `wrapper` | 2 wrappers of one run id and one of another, two faults of web restart, kill, termination, cancellation | the loser of a registration; a lost answer followed by a second wrapper; a job cancelled while its command runs | `ExecutedOnce`, `DoneIsEarned`, `ImplementsLifecycle`, `EndIsRecorded` |
| `sessions` | 2 sessions of one project, two chunks of output, inputs of people or broker deaths | a prompt, question, login notice or limit before and after every timer; a second session while the first one stops; a broker that dies between CREATING and RUNNING | `ActiveIsAttached`, `RetryIsEarned`, `OneActive`, `ImplementsBroker`, `LimitEnds`, `BootstrapIsTyped`, `BootstrapIsSubmitted` |
| `continuity` | 1 project, 2 processes (one with two stops, one that only joins or takes its place), menus of 2 options, a pool of 1, any one of ten faults | a decision that arrives after its episode has ended, a crash or shutdown at each await of a decision or delivery, a menu whose selection a person moves, a broker that does not list its sessions, an ambiguous project, a held request that is tried again | `DecidedOnce`, `ActedOnce`, `ChosenAsDecided`, `IdleIsServed` |
| `managed` | 2 events for the control session, 1 session, 1 approval, any one of nine faults | an input that times out and is served while the next cycle types the text again; an approval of the event the cycle is typing; a session that ends, is stopped or limited between the list and the input; an external session that takes the event, refuses it or is in the way; a death of either process with an input on its way | `TypedForCause`, `DeliveredIsTyped` |
| `managed_live` | an event for the control and one for a project without sessions, 2 control sessions that follow each other, any one of six faults (no stop, no dismissal, no external session) | a start that is served late; a control session that cannot be started, or ends while the cycle or a person sends its prompt | `ControlIsRestored`, `ReadyIsServed` |
| `broker` | 3 brokers at a time, 3 crashes, signals or late answers, with and without auto-start | a stale path; two brokers of which one takes the path of the other; a broker that closes after its successor listens; health checks that run out as a broker comes up | `OneControlPlane`, `ControlPlaneRecovers` |

**Why the bounds are enough.** Interactions in this code are between *two* messages to the
same process (supersession, one in flight), *two* loops over one run, a scan and *one* move,
*two* wrappers of one run id; a third actor only adds another interleaving of the same pair.
`delivery_faults` with two events already contains older/younger, same/other process. Two runs of the
queue share only the count of free GPUs, so `runner` has one run and spends its bound on kills. Two
stops of one process are two episodes, which is what a stale decision needs; its safety properties
were also explored with three faults and are proved for any number. Two runs in
the registry would meet only in the bounded list of finished jobs (`TerminalLimit`, 25 as in the
code, never full here), so one run shows every interleaving of its scan, its synchronisation and
its announcement. In `managed` every text needs one request, so one fault decides what becomes of it; two
events are what a pass needs to serve one and skip or hold another. Its sessions all belong to the
control because that target has the branches of every other one and those of `#maybeStartControl`
besides; an event of a project that has no session is in `managed_live`, which leaves stops,
dismissals and external sessions to `managed`: a stopped session ends as one that exits does,
an external session excuses `ControlIsRestored`, and a managed one that takes input comes before it. The safety properties are proved
for any number of faults. `broker` has three processes because one that closes, one that serves and one
that starts can all have to do with the same path. Counters are bounded in guards and named: `MaxFaults` (faults of all kinds
together, so that three of a kind and three different ones are both reached), `MaxEnsures` (calls
between looking and starting), `MaxOverlaps` (scans that meet a run in transit), `MaxOutages`,
`MaxCrashes`, `Sessions` (each is used for one start), `LastTurn` (stops of each process), `MaxEvents` (chunks, inputs and deaths of the broker; starts, bootstraps, stops,
exits and timers are not counted). The theorems of section 4 hold without any of these bounds. Symmetry is
used only in `delivery_faults`, for processes that no definition tells apart.

**Fairness.**

* *ExternalDelivery*: weak fairness of the engine as a whole (its cycle is driven by a timer and
  every await is bounded by a timeout), of a turn of Claude ending, and strong fairness of
  `RetryEnter`: the retry needs `enterRetryMs` to have passed *and* a cycle, so it is due again
  and again rather than continuously. Nothing is assumed of people, deaths, or errors.
* *GpuQueueRunner*: `collectGpuQueue` calls `--ensure` before each poll, hence weak fairness of
  `EnsureCheck` and of the start it leads to; processes run on; a request considered again
  and again eventually finds a GPU (strong fairness of `AdmitMove`, per run). No fairness of
  kills, submission or repair.
* *JobRegistry*: the cycle runs on; a poll is due again and again (strong, since other
  cycles may come between); whoever moves a directory touches its signal (weak; that is not
  granted to the run that is in transit when its mover is killed).
* *RegisteredJob*: the web process is restarted by its launch agent or the supervisor command;
  requests are served; wrappers run on and a command ends (its runtime is bounded by
  its experiment). Heartbeats are separate, so they cannot pass for progress.
* *SessionManager*: `start.js` and the launch agent start the broker again, a start goes on, timers run
  out. Every chunk of output sets the silence timer anew; that a terminal falls silent at last is the
  bound on chunks. The timer of a limit has an absolute deadline, which no output moves.
  Nothing is assumed of Claude (it may never answer, and never end) or of people.
* *Continuity*: the timer runs the cycle (weak, of all its steps together); the service manager starts a
  web process that ended, and one that closes does end; the resolver answers or times out
  (`timeoutMs`); time passes, so `retry_at` and `settleMs` are over at last. Nothing is assumed of
  what a terminal shows, of people, or of evidence going away.

* *ManagedDelivery*: the timer runs the cycle (weak, of all its steps together), the broker serves a
  request that somebody waits for, `start.js` and launchd start both processes again. A request that
  nobody waits for may stay unserved. Nothing is assumed of Claude, of people or of terminals.
* *BrokerProcess*: a process that runs goes on, the web process asks on (its timer), and launchd starts
  what has ended; in development a person starts the web process again.

**What the passing runs show.** The properties are described at their definitions; in short:

* *ExternalDelivery*: one message in flight per process (`OneInFlight`), truth of the ledger
  (`DeliveredIsTrue`), one text in one place (`TextLivesOnce`), supersession for a cause
  (`SupersededForCause`), `KeepsPromise`; an event is sent and delivered *while the
  web process stays up* (`EventuallySent`, `DeliveredWhileUp`), and what Claude received is
  acknowledged through crashes too (`EvidenceIsRecorded`). Without the condition the first two are
  false: see the UNCERTAIN, QUEUED and SENT rows of section 5.
* *GpuQueueRunner*: directory, manifest, report and signals agree and a reader sees them in the
  right order (`ManifestMatches`, `DoneIsTrue`, `ResultAgrees`); a run whose
  recorded launcher is dead is failed (`RecordedOrphansFail`), and while nothing is killed every
  complete request ends (`RequestsEnd`).
* *JobRegistry*: `NeverAhead`, results and submissions arrive (`ResultsArrive`,
  `SubmissionsResolve`) through an outage and a crash; a run that one scan met in transit is not
  failed (`OneMissIsForgiven`; with two it is, section 5).
* *RegisteredJob*: one process executes a job (`ExecutedOnce`); success is that of the bound process or the zero of
  its trap (`DoneIsEarned`; that the trap's zero is no success is `wrapper_terminated`); while the
  web process stays up every end under a wrapper that is not killed is recorded (`EndIsRecorded`).
* *SessionManager*: the status of a session says whether it has a terminal (`ActiveIsAttached`);
  the project prompt is typed (`BootstrapIsTyped`), once or once more per login notice
  (`RetryIsEarned`), and its split Enter follows (`BootstrapIsSubmitted`); limits end (`LimitEnds`). At most one session of a project
  is active (`OneActive`) unless a provider notice in the last output of a stopping session makes it
  active again (`src/session-manager.js:376`): `stop`, a new `start`, then the notice gives two. A
  client sees nothing but what `BrokerSessions` allows (`ImplementsBroker`).
* *ManagedDelivery*: the cycle types a text again only for an answer that it did not get, an approval
  types it once, and that is the whole of the repetition (`TypedForCause`); no refused, late or lost
  request makes an event DELIVERED that was not typed (`DeliveredIsTyped`). The control session comes
  back after every end (`ControlIsRestored`), and an event whose target takes input at last does not
  stay PENDING or HELD (`ReadyIsServed`).
* *BrokerProcess*: in production there are never two brokers with a control session, and a broker that
  listens is the one behind the path (`OneControlPlane`); after the last fault the web process serves with a broker it
  reaches, with and without auto-start (`ControlPlaneRecovers`).
* *Continuity*: an episode is decided once, and twice only if a crash falls between the event of a
  decision and the end of its request (`DecidedOnce`); it is acted upon once (`ActedOnce`); a menu
  gets the option that was decided for it, if it has that line (the code asks only for a number from 1),
  although the decision is older than the snapshot and the keys are later (`ChosenAsDecided`); an idle prompt is decided and the decision delivered or
  withdrawn through failures, ambiguity and restarts, unless an alert holds it back
  (`IdleIsServed`; that an alert may do so for ever is the finding `continuity_stuck`).

Every one of them is violated by at least one plausible mistake in a definition of the code
(`mutants` in `PROJECT.json`).

## 4. Proofs

`*Proofs.tla` are checked by `tlapm` to the last leaf, for every value of the constants under the
assumptions named in the modules: the null values are not members of the sets they stand beside,
bounds are naturals, fault kinds are known, `TargetOf`/`HomeOf`/`RunOf`/`ProjectOf` are functions. Nothing is
assumed of the number of events, processes, runs, loops, wrappers, sessions or brokers (but for one
finite set, below), or of how many faults occur.

Each module follows one argument: an inductive invariant `IInv`, one lemma per conjunct or part
with one step per action, and `Spec => []IInv`; the listed theorems follow from it. The
action properties and the refinements use `IInv` on every step. Where a theorem needs more than the
invariants of the runs do, a further invariant is proved inductive relative to `IInv`; it is named below.

Every safety property that a run checks is proved. Some theorems state properties that no run
lists. They were found to hold by TLC on the instances of section 3 before they were proved (each
can be checked again by adding its name to the cfg of its module), and here the theorem is the evidence.

**ExternalDeliveryProofs.** `IInv` adds to the safety invariants that the runs check:
`Typed` (inside a send or retry the cycle holds a real event and a real process), `Progress` (what
each control point knows of the row it works on: at `paste` the message is SENDING and nothing
was typed), `Ledger` (the status of a row bounds how often its text was typed), `Texts` (only
typed texts are in a prompt or a history) and `Evidence` (the snapshot holds only true markers,
however old it is). Without `Progress` and `Ledger` no property is inductive: "ACKED implies
received" rests on "typed once", which rests on what the cycle believes between two statements.
Proved: `TypeOK`, `OneInFlight`, `DeliveredIsTrue`, `TextLivesOnce`, `SupersededForCause`,
`KeepsPromise` (refinement of `AtMostOnce`); and, stated by no run, `SentIsTracked` (every SENT event has
a message that is reconciled or was acknowledged), `DismissalStands` (a dismissal is final, up to the
running pass), `MessagesAreFinal` (a message that is over stays what it is) and `OneLeftPerCrash`: of the
rows that a death left half done there are no more than faults, and without crashes none. The
last one counts: the set of half-done rows nobody has in hand grows only in a crash, and then by the row
in hand, because the rows a pass has read and not handled yet are as it read them, up to a dismissal (`Between`). It is the bound on what the QUEUED and SENT rows of section 5 cost.

**GpuQueueRunnerProofs.** `Stage` relates the place of a run to the stage of its launcher,
`Executed` and `Reported` the command, manifest, report and signals to that stage; `Handles` says
what a loop may believe of the run in its hands even if another loop moved it; `Exclusive` that no
two loops are about to launch one run, which holds only because `mv` is atomic and its loser
dies. Proved: `TypeOK`, `ManifestMatches`, `DoneIsTrue`, `ResultAgrees`, `ImplementsLifecycle`, and, stated
by no run, `IdentityFirst` (a command that was started has its identity on record) and
`AnnouncedIsFinal` (after `.ready` neither place nor manifest change, and RESULT.md only by a command that
outlived its launcher): a loop that still has the run in its hands finds it gone from where it looks.

**JobRegistryProofs.** `Reads` is the core: what a scan found was true once and, because the queue
only moves forward, is still a lower bound (`Past`). The rest (`Visits`, `Missed`, `Announced`,
`Recorded`) says what the engine relies on between two statements. Proved: `TypeOK`, `NeverAhead`,
`ImplementsLifecycle`, and `JournalComplete` (`job_events` tells the state of a job as long as the
process is not killed), which no run states.

`OneMissIsForgiven` is about whole scans and needs a second invariant, `ScanInv`. `Covered`: an active job
whose run the scan did not meet in transit is found, or the directory its run is in is still to be read.
`Overlooked`: so what is missing at the end was in transit. `Counted`: `overlaps` counts a scan from the
moment it meets the run and `misses` only when it has ended, so a first miss on record stands for one
overlap, and a scan that is about to add the second one has met the run itself: two.
Stated by no run: `OneEntryPerCrash` (a crash costs `job_events` one entry at most, because the next job
is saved only after the entry of the last) and `DoneWasExecuted` (what is done, or announced as done,
was executed exactly once), which needs of the queue no more than `QueueLifecycle` promises.

**RegisteredJobProofs.** `Bound`: only the process a job is bound to has executed a command;
`Placed`: where a wrapper can be with its command and its exit code; `Earned`: a job is done only
with a bound process that had a zero to report. Proved: `TypeOK`, `ExecutedOnce`,
`DoneIsEarned`, `ImplementsLifecycle`, and `OwnerStays` (a job never changes its owner), which no run
states, each for every kind and number of faults.

**SessionManagerProofs.** `Attached`: what the broker holds of a session follows from its status, and
while a start is under way nothing else happens; `Earned`: a prompt that may be typed now is the
first or has a login notice to show for it; `Alone`: while a session starts no other one of its
project is active. Without `Attached` nothing rules out that late output revives an ended session.
The refinement maps every step to the step of `BrokerSessions` that its session makes visible
(`StepIsShown`); it needs `Unsent`: only a session whose prompt was typed asks for a login again.
Proved: `TypeOK`, `ActiveIsAttached`, `RetryIsEarned`, `OneActive`, `ImplementsBroker` (refinement of
`BrokerSessions`), and, stated by no run, `EndIsFinal` (a session that has ended stays so) and
`TimersAreSet`. The last one is the safety half of `LimitEnds`, `BootstrapIsTyped` and
`BootstrapIsSubmitted`: what waits has a timer, and the timer will find what it looks for. Its invariant
`Timing` says that a notice in force and a prompt in sight are in the tail, so that no timer is
cleared without a reason the tail still shows.

**ManagedDeliveryProofs.** `Counted` is the core: the texts the cycle typed for an event, and those a
request of it may still type, are at most the answers it lost, plus one if an answer is there, plus
one if it marked the event. A timeout or a death moves a request from the second place to the third
or from "typed" to "lost" and keeps the sum; a mark follows an answer; and `Final` says that a
marked event is not typed again, so the last two are not both there. `CountedOnce` is the same for an
approval, which asks once. `Placed` gives every request its event and session, `Known` every answer
its text. Proved, for any number of events, sessions, approvals and faults: `TypeOK`, `TypedForCause`,
`DeliveredIsTyped`.

Stated by no run: `TextsPerFault` (the cycle types an event once, and once more per fault at most), from
`TypedForCause` and `Losses` (an answer is lost only by a fault); `MarkIsFinal`; `RightSession` (a text goes
to a session of its target, also when it is served late), made inductive by `Matched`; and the
action property `SettledStays`: a dismissal, delivery or handover is overwritten only by an actor that
had the event in hand, which is how far the stale rows of `src/automation-engine.js:863` reach.
`ImplementsSessions` shows the sessions that this model drives to be a behaviour of `BrokerSessions`;
`ImplementsBroker` shows the session manager to keep to the same module.

**BrokerProcessProofs.** Where launchd alone starts brokers, one runs at most; it alone has sessions
and listens, and the path leads to it from `listen` until it closes. Proved: `TypeOK`,
`OneControlPlane`, for any number of brokers and faults.

**ContinuityProofs.** `Requests` counts: the decisions of an episode are those a crash cut short, plus one
if its request is resolved, and what the resolver works on is not resolved. `Offers`: each decision makes
at most one deliverable event, so two events need two decisions. `Selected`: the rows the pass has
read and not handled yet are of events nothing was sent for, although the table may have changed since.
`Sending`: while keys are on their way their choice is SENT and belongs to the episode of the
snapshot. `Acted`: keys and texts once, each under its event. `DecidedOnce` needs `Requests`
because an answer is taken whatever the row says; `ActedOnce` needs `Selected`, because the pass acts on
what it read before its awaits. Proved: `TypeOK`, `DecidedOnce`, `ActedOnce`, `ChosenAsDecided`.

Stated by no run: `NothingIsReplayed` (what ended, was claimed or typed is not offered again), which needs
`Unclaimed`: no choice among the rows the pass still holds has been claimed; `OneForm` (an episode is
answered in one form, and in another one only after a crash amid a decision), which counts by `Formed`: at most
one form per decision; and `PoolIsBounded` (no more resolvers run than configured), the one place
where the number of processes must be finite (`PidsAssumption`).

**Only model-checked.** All liveness: fairness and ENABLED are beyond the prover. What can be proved of
it, that the step it waits for is due, is `TimersAreSet` for the sessions; for the other modules the
conditions of their fair actions are not stated as invariants. The two findings and the refuted properties
of section 5 are counterexamples of TLC.

## 5. Findings and known behaviours

**Findings.** Each is a run whose one property says what the repository says, and which TLC violates.

| run | what the code does | what is said |
|---|---|---|
| `wrapper_terminated` | SIGTERM or SIGHUP to the wrapper reports `done` while the command still runs (`scripts/run-registered-job.sh:27`) | `scripts/run-registered-job.sh:29`, `README.md:154` |
| `continuity_stuck` | the alert of a silent terminal is ended only through the suspect in memory; a restart forgets the suspect, the alert stays open and the state OUTPUT_STALLED keeps the idle prompt from every review (`src/automation-engine.js:414`, `src/session-state.js:82`) | `README.md:43`: "A stable, genuinely idle prompt gets one AI continuity decision" |

**Known behaviours.** The models show these too. The first four are stated as properties in
their modules; TLC refutes each when its name is added to the cfg named here.

| property | cfg | what the code does | what is said |
|---|---|---|---|
| `ExternalDelivery!UncertainDoesNotBlock` | `MCDeliveryLive.cfg`, as a PROPERTY | a crash while a message is SENDING leaves its event PENDING and the message UNCERTAIN; every later pass counts the target as served at that event, so its younger events are never sent (`src/automation-engine.js:1178`) | `test/session-state.test.js:102`: "an uncertain transport is quarantined and does not block the session" |
| `ExternalDelivery!RetriesOwnDraft` | `MCDeliveryFaults.cfg`, as an INVARIANT | a send that fails after its paste leaves a collapsed draft and a FAILED row; if the web process dies while the next message to this process is claimed, that one is UNCERTAIN, counts as the owner of the draft, and its Enter retry submits the older text (`src/automation-engine.js:674`) | the condition at lines 673-679 exists to exclude it |
| `JobRegistry!NoFalseFailure` | `MCRegistry.cfg`, as an INVARIANT | a run met between its move and its signal by two consecutive scans is failed for good (`src/job-registry.js:204`) | the comment at `src/job-registry.js:199-200` |
| `GpuQueueRunner!OrphansLeaveRunning` | `MCRunner.cfg`, as a PROPERTY | a launcher killed before it recorded its identity leaves its run in `running/` for ever (`scripts/firm-gpu-queue-runner.sh:192`) | the comment at lines 200-201: must not be "held as a fake running job" |

The others follow from the actions named:

* A crash between the INSERT of a message and its claim leaves the row QUEUED
  (`src/automation-engine.js:723`); the row then counts as the dispatch in flight of its own session
  (line 879), so it is never claimed. `OneLeftPerCrash` bounds the number of such rows.
* A crash between acknowledging a message and updating its event leaves the event SENT for good
  (`src/automation-engine.js:638` and 664), because only unacknowledged messages are reconciled.
* The end of a job is posted once and errors are ignored (`scripts/run-registered-job.sh:30`), so a
  restart of the web process can lose it and the job stays running; that is why `EndIsRecorded` is stated for a web process
  that stays up.
* A cycle looks at the 25 latest finished jobs only (`src/automation-engine.js:193`), so of more
  results that end between two cycles the oldest are never announced.
* When the timer of a provider limit makes a session WAITING_INPUT (`src/session-manager.js:366`), a
  project prompt that is still pending is not typed before Claude writes something, which is why
  `BootstrapIsTyped` speaks of a tail without a notice.
* A crash between the event of a decision and the end of its request
  (`src/continuity-supervisor.js:136` to 182) has the episode decided again, where `README.md:148`
  says "One session episode receives at most one decision"; `DecidedOnce` counts it.
* The text of an event for a managed session carries no marker and is not looked for in any history
  (`src/automation-engine.js:1138`): a timeout of the request, or a restart between the answer and
  the mark (line 1139), types it again, where `README.md:140` says "Every delivery has a durable unique
  marker and requires Claude-history acknowledgement, preventing restart-time replay".
  `TypedForCause` bounds it: once more per lost answer.
* An approval (line 1283) and the cycle may type one event each, because neither looks at its status
  after its awaits; the counts of `TypedForCause` are per actor for that reason. An event that a
  person dismisses while its input is on its way becomes DELIVERED; `SettledStays` shows that this
  is the only way.
* A command whose launcher was killed goes on and may write its RESULT.md after the recovery has failed
  the run and announced it (`scripts/firm-gpu-queue-runner.sh:202`), so the report of a failed run
  may tell of a success; `AnnouncedIsFinal` shows that nothing else changes an announced run.
* `authBlocked` (line 1155) counts sessions that have ended: one that ended asking for a login holds
  the events of a target that has no managed session, also where an external one would take them.
* A managed session is given an event in WAITING_INPUT, which it also reports at a question
  (lines 94-98), so the text may answer a confirmation.
* With `FIRM_BROKER_AUTOSTART` on, a web process that is started beside one that waits starts a second
  broker; the one that unlinks last takes the path, and the control session of the other runs on.
  `OneControlPlane` therefore speaks of production.

## 6. What the models leave out

* *ExternalDelivery*: the events of *Continuity*, clearing of acknowledged drafts
  (`#reconcileForegroundInteractions`, which `TextLivesOnce` shows to have nothing to clear), the provider-limit
  epoch (`lastRateLimitResetAt`), alert events, tty reuse, drafts typed by a person, and that a
  snapshot itself is read terminal by terminal.
* *GpuQueueRunner*: which GPU is chosen (only whether there is room), telemetry, the `cancelled/`
  directory, a run id submitted twice, pid reuse by a process with the same start ticks.
* *JobRegistry*: items of projects that are not configured, `cancelled/`, GPU jobs registered by
  the API before the queue shows them, clients that post another status than `cancelled` for a GPU run
  (the repository's own programs report on the jobs that they registered), readiness and efficiency events, ties of `finished_at`,
  directories that cannot be read.
* *RegisteredJob*: a job ended by hand with `firm-job.sh`, invalid settings (the wrapper exits before it
  registers anything), a process that reuses
  pid and start token.
* *SessionManager*: resize, the output ring and the transcripts, bootstrap files that are missing or too
  large, a chunk that says several things at once, and failures of the disk.
* *ManagedDelivery*: what happens to an event after `HandOver`, the events of *Continuity* and the alerts of the watchdog in the same cycle,
  `schedulerAutoStart` off, and the words of a note, by which alone `#holdEvent` decides whether to
  write again.
* *BrokerProcess*: the configuration that both processes read, the framing and size of messages, and
  what the requests do (`ManagedDelivery`, `SessionManager`).
* *Continuity*: sessions of the broker, the alerts of stalled progress and provider waits (their effect
  is the evidence "stalled"), which declared job ids match (evidence "job"), the prompt of the
  resolver and the schema of its answer, other events for the same target in the same pass, a pid
  that a later process gets, and the hold for a choice without coordinates
  (`src/automation-engine.js:1075`), which `iterm-status.js:268-272` never produces.
* Components with status `not_modelled` in `PROJECT.json`: pure evaluation (audit, evidence,
  maturity, readiness, terminal patterns), plain storage and rendering, and operational scripts
  have no behaviour of their own that a model checker reaches; the others are in the plan.

## 7. Plan

In order of weight; each step with its module, its promise, runs and theorems.

1. **OperationalState** – all of `session-state.js` and `job-wait.js` as operators over a session, its
   jobs, events and messages, checked against a declarative definition over all bounded inputs, then
   composed with `JobRegistry`: a wait ends when its job does.
2. **Watchdog** – the rest of it: stalled progress, provider waits and `enter_only_once` over the snapshot of
   `ExternalDelivery`.
3. **Composition** – `JobRegistry` over the detailed `GpuQueueRunner`, and `ManagedDelivery` over the
   detailed `SessionManager`, instead of their abstractions (one run each), to confirm the
   refinements from the reader's side.
4. **Readiness of GPU requests** – the runner's `validate_request` does not read the readiness fields
   that `config/GPU_SUBMISSION_READINESS.md:51` is about ("`NOT_READY`: ... do not launch"); to be
   stated as a property of the dispatch.
