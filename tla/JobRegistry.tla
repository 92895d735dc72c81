---------------------------- MODULE JobRegistry ----------------------------
(* GPU jobs in the registry: the remote collector (src/gpu-queue.js), the     *)
(* synchronisation (src/job-registry.js) and the events that the automation   *)
(* engine derives from both (src/automation-engine.js).                       *)
(*                                                                            *)
(* The queue goes through its lifecycle while the collector reads it, one     *)
(* directory and one signal file after the other.  The engine then runs       *)
(* synchronously up to its next await: nothing of this process interleaves,   *)
(* but it may be killed between two statements of the database.               *)
EXTENDS Naturals, Sequences, FiniteSets, Functions

CONSTANTS
    Runs,           \* run ids
    NoEntry,
    TerminalLimit,  \* finished jobs in a snapshot (25 in the code)
    MaxOverlaps,    \* bound on the scans that meet a run between its move and
                    \* the signal of its new place
    MaxOutages,     \* bound on the polls that fail
    MaxCrashes

ASSUME NoEntryAssumption ==
    NoEntry \notin Runs \X {"pending", "running", "done", "failed", "cancelled"}
ASSUME BoundsAssumption == /\ TerminalLimit \in Nat \ {0}
                           /\ MaxOverlaps \in Nat /\ MaxOutages \in Nat
                           /\ MaxCrashes \in Nat

VARIABLES
    place, shown, execs,      \* the queue
    \* the poll: directory being read, its entries, what was found
    at, listed, found,
    \* the engine: its position, items and jobs still to visit, the entry to add
    \* to job_events before it goes on
    pc, todo, missing, entry,
    \* the tables jobs, job_events and automation_events
    state,       \* jobs.state
    misses,      \* metadata.queueMissingObservations
    observed,    \* metadata.lifecycleObserved
    ended,       \* finished jobs, the latest last (finished_at)
    journal,     \* rows of job_events: a job and the state it reached (to_state)
    submitted,   \* GPU_REQUEST_SUBMITTED: none, open or resolved
    announced,   \* JOB_RESULT_READY: the verdict it announces
    \* history variables
    transit, overlaps, outages, crashes

queue == <<place, shown, execs>>
poll == <<at, listed, found>>
jobs == <<state, misses, observed, ended>>
events == <<submitted, announced>>
overlapping == <<transit, overlaps>>
vars == <<queue, poll, pc, todo, missing, entry, jobs, journal, events, overlapping, outages,
          crashes>>

Queue == INSTANCE QueueLifecycle

\* The order in which the collector reads the directories.
Stages == <<"pending", "running", "done", "failed">>
Active == {"pending", "running"}
Terminal == {"done", "failed", "cancelled"}
Entries == Runs \X (Active \union Terminal)
Items == Runs \X Range(Stages)

TypeOK ==
    /\ place \in [Runs -> Queue!Places] /\ shown \subseteq Runs
    /\ execs \in [Runs -> Nat]
    /\ at \in 1..4 /\ listed \subseteq Runs /\ found \subseteq Items
    /\ pc \in {"idle", "list", "check", "sync", "missing", "ingest", "controls", "announce",
               "down"}
    /\ todo \subseteq Items /\ missing \subseteq Runs
    /\ entry \in Entries \union {NoEntry}
    /\ state \in [Runs -> {"unknown"} \union Active \union Terminal]
    /\ misses \in [Runs -> 0..2] /\ observed \subseteq Runs
    /\ ended \in Seq(Runs)
    /\ journal \subseteq Entries
    /\ submitted \in [Runs -> {"none", "open", "resolved"}]
    /\ announced \in [Runs -> {"none", "done", "failed"}]
    /\ transit \subseteq Runs /\ overlaps \in [Runs -> Nat]
    /\ outages \in Nat /\ crashes \in Nat

Init ==
    /\ Queue!Init
    /\ at = 1 /\ listed = {} /\ found = {}
    /\ pc = "idle" /\ todo = {} /\ missing = {} /\ entry = NoEntry
    /\ state = [r \in Runs |-> "unknown"]
    /\ misses = [r \in Runs |-> 0]
    /\ observed = {} /\ ended = <<>> /\ journal = {}
    /\ submitted = [r \in Runs |-> "none"]
    /\ announced = [r \in Runs |-> "none"]
    /\ transit = {} /\ overlaps = [r \in Runs |-> 0]
    /\ outages = 0 /\ crashes = 0

-----------------------------------------------------------------------------
(* The queue moves on under the collector.  A run that is met between its     *)
(* move and its signal is in transit; the signal follows before the next      *)
(* poll unless the bound allows that the mover was killed.                    *)

Scanning == pc \in {"list", "check"}

Catches(S) == /\ \A r \in S : overlaps[r] < MaxOverlaps
              /\ transit' = transit \union S
              /\ overlaps' = [r \in Runs |-> IF r \in S THEN overlaps[r] + 1 ELSE overlaps[r]]

QueueStep ==
    /\ Queue!Next
    /\ Catches({r \in Runs \ transit : Scanning /\ place[r] # "absent" /\ place'[r] # place[r]})
    /\ UNCHANGED <<poll, pc, todo, missing, entry, jobs, journal, events, outages, crashes>>

-----------------------------------------------------------------------------
(* collectGpuQueue: the directories in order, and the signal of each entry.   *)

BeginPoll ==
    /\ pc = "idle" /\ entry = NoEntry
    /\ pc' = "list" /\ at' = 1 /\ found' = {}
    /\ LET inTransit == {r \in Runs \ shown : place[r] \notin {"absent", "pending"}}
       IN  /\ \A r \in inTransit : overlaps[r] < MaxOverlaps
           /\ transit' = inTransit
           /\ overlaps' = [r \in Runs |-> IF r \in inTransit THEN overlaps[r] + 1
                                                             ELSE overlaps[r]]
    /\ UNCHANGED <<queue, listed, todo, missing, entry, jobs, journal, events, outages, crashes>>

ListDirectory ==
    /\ pc = "list" /\ entry = NoEntry
    /\ listed' = {r \in Runs : place[r] = Stages[at]}
    /\ pc' = "check"
    /\ UNCHANGED <<queue, at, found, todo, missing, entry, jobs, journal, events, overlapping,
                   outages, crashes>>

\* The signal file is where the directory was listed.
Signalled(r) == place[r] = Stages[at] /\ r \in shown

CheckSignal(r) ==
    /\ pc = "check" /\ entry = NoEntry /\ r \in listed
    /\ listed' = listed \ {r}
    /\ found' = IF Signalled(r) THEN found \union {<<r, Stages[at]>>} ELSE found
    /\ UNCHANGED <<queue, at, pc, todo, missing, entry, jobs, journal, events, overlapping,
                   outages, crashes>>

NextDirectory ==
    /\ pc = "check" /\ entry = NoEntry /\ listed = {}
    /\ IF at < Len(Stages) THEN at' = at + 1 /\ pc' = "list" /\ UNCHANGED todo
                           ELSE pc' = "sync" /\ todo' = found /\ UNCHANGED at
    /\ UNCHANGED <<queue, listed, found, missing, entry, jobs, journal, events, overlapping,
                   outages, crashes>>

\* A cycle before the next poll is due.
CycleWithoutPoll ==
    /\ pc = "idle" /\ entry = NoEntry
    /\ pc' = "controls"
    /\ UNCHANGED <<queue, poll, todo, missing, entry, jobs, journal, events, overlapping,
                   outages, crashes>>

\* The snapshot is "unavailable": nothing is synchronised.
PollFails ==
    /\ Scanning /\ entry = NoEntry /\ outages < MaxOutages
    /\ outages' = outages + 1
    /\ pc' = "controls" /\ listed' = {}
    /\ UNCHANGED <<queue, at, found, todo, missing, entry, jobs, journal, events, overlapping,
                   crashes>>

-----------------------------------------------------------------------------
(* syncGpuQueue.                                                              *)

Rank(s) == CHOOSE i \in 1..Len(Stages) : Stages[i] = s

\* The items are visited in the order of the scan.
Turn(r, s) == /\ entry = NoEntry /\ <<r, s>> \in todo
              /\ \A i \in todo : Rank(s) <= Rank(i[2])

\* saveJob; the journal entry is the next statement.
Saves(r, s) == /\ state' = [state EXCEPT ![r] = s]
               /\ ended' = IF s \in Terminal THEN Append(ended, r) ELSE ended
               /\ entry' = <<r, s>>

\* Variant: whatever the queue shows is registered as running.
SyncRegisterRunning(r, s) ==
    /\ pc = "sync" /\ Turn(r, s) /\ state[r] = "unknown"
    /\ todo' = todo \ {<<r, s>>}
    /\ Saves(r, "running")
    /\ observed' = observed \union {r}
    /\ UNCHANGED <<queue, poll, pc, missing, misses, journal, events, overlapping, outages,
                   crashes>>

SyncRegister(r, s) ==
    /\ pc = "sync" /\ Turn(r, s) /\ state[r] = "unknown"
    /\ todo' = todo \ {<<r, s>>}
    /\ Saves(r, s)
    /\ observed' = IF s \in Active THEN observed \union {r} ELSE observed
    /\ UNCHANGED <<queue, poll, pc, missing, misses, journal, events, overlapping, outages,
                   crashes>>

\* Variant: finished jobs follow the queue too.
Tracks(r, s) == state[r] # "unknown"

\* A finished job only takes up what it already is.
Follows(r, s) == state[r] \in Active \/ state[r] = s

\* A listing of pending/ that is older than the job does not turn it back.
QueueState(r, s) == IF state[r] = "running" /\ s = "pending" THEN state[r] ELSE s

SyncSeen(r, s) ==
    /\ pc = "sync" /\ Turn(r, s) /\ state[r] # "unknown"
    /\ todo' = todo \ {<<r, s>>}
    /\ IF Follows(r, s) THEN misses' = [misses EXCEPT ![r] = 0]
                        ELSE UNCHANGED misses
    /\ IF Follows(r, s) /\ QueueState(r, s) # state[r]
       THEN Saves(r, QueueState(r, s))
       ELSE UNCHANGED <<state, ended, entry>>
    /\ UNCHANGED <<queue, poll, pc, missing, observed, journal, events, overlapping, outages,
                   crashes>>

\* addJobEvent, the statement after saveJob.
AddJobEvent ==
    /\ pc # "down" /\ entry # NoEntry
    /\ journal' = journal \union {entry}
    /\ entry' = NoEntry
    /\ UNCHANGED <<queue, poll, pc, todo, missing, jobs, events, overlapping, outages, crashes>>

Seen == {i[1] : i \in found}

\* Active jobs that the snapshot does not show.
FindMissing ==
    /\ pc = "sync" /\ entry = NoEntry /\ todo = {}
    /\ missing' = {r \in Runs \ Seen : state[r] \in Active}
    /\ pc' = "missing"
    /\ UNCHANGED <<queue, poll, todo, entry, jobs, journal, events, overlapping, outages,
                   crashes>>

\* Variant: one miss suffices.
OneMiss == 1

MissLimit == 2

MissFirst(r) ==
    /\ pc = "missing" /\ entry = NoEntry /\ r \in missing
    /\ misses[r] + 1 < MissLimit
    /\ missing' = missing \ {r}
    /\ misses' = [misses EXCEPT ![r] = @ + 1]
    /\ UNCHANGED <<queue, poll, pc, todo, entry, state, observed, ended, journal, events,
                   overlapping, outages, crashes>>

MissAgain(r) ==
    /\ pc = "missing" /\ entry = NoEntry /\ r \in missing
    /\ misses[r] + 1 >= MissLimit
    /\ missing' = missing \ {r}
    /\ misses' = [misses EXCEPT ![r] = @ + 1]
    /\ Saves(r, "failed")
    /\ UNCHANGED <<queue, poll, pc, todo, observed, journal, events, overlapping, outages,
                   crashes>>

-----------------------------------------------------------------------------
(* ingestQueue and ingestJobs.                                                *)

BeginIngest ==
    /\ pc = "missing" /\ entry = NoEntry /\ missing = {}
    /\ pc' = "ingest" /\ todo' = found
    /\ UNCHANGED <<queue, poll, missing, entry, jobs, journal, events, overlapping, outages,
                   crashes>>

\* Variant: only a running item resolves the event.
IngestUntilRunning(r, s) ==
    /\ pc = "ingest" /\ Turn(r, s)
    /\ todo' = todo \ {<<r, s>>}
    /\ submitted' = [submitted EXCEPT ![r] =
           CASE s = "pending" /\ @ = "none" -> "open"
             [] s = "running" /\ @ = "open" -> "resolved"
             [] OTHER -> @]
    /\ UNCHANGED <<queue, poll, pc, missing, entry, jobs, journal, announced, overlapping,
                   outages, crashes>>

\* A pending item opens its event, unless it exists; any other resolves it.
IngestItem(r, s) ==
    /\ pc = "ingest" /\ Turn(r, s)
    /\ todo' = todo \ {<<r, s>>}
    /\ submitted' = [submitted EXCEPT ![r] =
           CASE s = "pending" /\ @ = "none" -> "open"
             [] s # "pending" /\ @ = "open" -> "resolved"
             [] OTHER -> @]
    /\ UNCHANGED <<queue, poll, pc, missing, entry, jobs, journal, announced, overlapping,
                   outages, crashes>>

EndIngest ==
    /\ pc = "ingest" /\ todo = {}
    /\ pc' = "controls"
    /\ UNCHANGED <<queue, poll, todo, missing, entry, jobs, journal, events, overlapping,
                   outages, crashes>>

\* The finished jobs of a snapshot.
LatestEnded == {ended[i] : i \in {j \in 1..Len(ended) : j > Len(ended) - TerminalLimit}}

\* Variant: only success is a result.
Succeeded(r) == state[r] = "done" /\ r \in observed

\* Not cancelled, and seen before it finished.
Notifiable(r) == state[r] \in {"done", "failed"} /\ r \in observed

BeginAnnounce ==
    /\ pc = "controls" /\ entry = NoEntry
    /\ pc' = "announce"
    /\ missing' = {r \in LatestEnded : Notifiable(r)}
    /\ UNCHANGED <<queue, poll, todo, entry, jobs, journal, events, overlapping, outages,
                   crashes>>

\* The event key holds the state: a second event would be another row.
AnnounceResult(r) ==
    /\ pc = "announce" /\ r \in missing
    /\ missing' = missing \ {r}
    /\ announced' = [announced EXCEPT ![r] = state[r]]
    /\ UNCHANGED <<queue, poll, pc, todo, entry, jobs, journal, submitted, overlapping, outages,
                   crashes>>

EndCycle ==
    /\ pc = "announce" /\ missing = {}
    /\ pc' = "idle"
    /\ UNCHANGED <<queue, poll, todo, missing, entry, jobs, journal, events, overlapping,
                   outages, crashes>>

-----------------------------------------------------------------------------
(* POST /api/jobs/:runId/status is served at the engine's awaits.             *)

CancelJob(r) ==
    /\ pc \in {"idle", "list", "check", "controls"} /\ entry = NoEntry
    /\ state[r] \in Active
    /\ Saves(r, "cancelled")
    /\ UNCHANGED <<queue, poll, pc, todo, missing, misses, observed, journal, events,
                   overlapping, outages, crashes>>

(* A crash of the web process, at any statement, and its restart.             *)

Crash ==
    /\ pc # "down" /\ crashes < MaxCrashes
    /\ crashes' = crashes + 1
    /\ pc' = "down" /\ at' = 1 /\ listed' = {} /\ found' = {}
    /\ todo' = {} /\ missing' = {} /\ entry' = NoEntry
    /\ UNCHANGED <<queue, jobs, journal, events, overlapping, outages>>

Restart ==
    /\ pc = "down"
    /\ pc' = "idle"
    /\ UNCHANGED <<queue, poll, todo, missing, entry, jobs, journal, events, overlapping,
                   outages, crashes>>

-----------------------------------------------------------------------------
Cycle ==
    \/ ListDirectory \/ NextDirectory
    \/ AddJobEvent \/ FindMissing \/ BeginIngest \/ EndIngest
    \/ BeginAnnounce \/ EndCycle \/ Restart
    \/ \E r \in Runs : \/ CheckSignal(r) \/ MissFirst(r) \/ MissAgain(r) \/ AnnounceResult(r)
                       \/ \E s \in Range(Stages) :
                              SyncRegister(r, s) \/ SyncSeen(r, s) \/ IngestItem(r, s)

Next == \/ QueueStep \/ Cycle \/ BeginPoll \/ CycleWithoutPoll \/ PollFails \/ Crash
        \/ \E r \in Runs : CancelJob(r)

Spec == Init /\ [][Next]_vars

(* The engine's timer keeps running and a poll is due again and again; who    *)
(* moves a directory touches its signal.                                      *)
Fairness == /\ WF_vars(Cycle)
            /\ SF_vars(BeginPoll)
            /\ \A r \in Runs : WF_vars(QueueStep /\ Queue!Publish(r))

FairSpec == Spec /\ Fairness

-----------------------------------------------------------------------------
(* Properties.                                                                *)

Lifecycle == INSTANCE JobLifecycle

\* The registry implements the lifecycle it promises: whatever the queue shows
\* while it is read, and wherever the process is killed, a finished job stays
\* what it is and its result is announced at most once, as what the job ended.
ImplementsLifecycle == Lifecycle!Spec

\* A job is never ahead of its run: what the registry says was true of the queue.
NeverAhead ==
    \A r \in Runs :
        /\ state[r] \in Active => place[r] # "absent"
        /\ state[r] = "running" => place[r] # "pending"
        /\ state[r] = "done" => place[r] = "done"

\* No job is failed that did not fail: a run that is between two directories
\* when the collector reads them is not taken for lost.  It may be, if two scans
\* meet it there: see Known behaviours in the README.
NoFalseFailure ==
    \A r \in Runs : state[r] = "failed" => place[r] = "failed"

\* That holds of a run that no more than one scan meets between two directories:
\* neither a crash nor an outage makes up the second miss.
OneMissIsForgiven ==
    \A r \in Runs : overlaps[r] <= 1 /\ state[r] = "failed" => place[r] = "failed"

\* As long as the process is not killed, job_events tells every change of state.
JournalComplete ==
    \A r \in Runs : crashes = 0 /\ entry = NoEntry /\ state[r] # "unknown" =>
        <<r, state[r]>> \in journal

\* Jobs whose last change of state job_events does not tell and will not.
Untold == {r \in Runs : /\ state[r] # "unknown" /\ <<r, state[r]>> \notin journal
                        /\ entry # <<r, state[r]>>}

\* A crash costs the journal one entry at most: it is written by the statement
\* after the one that saves the job.
OneEntryPerCrash == IsFiniteSet(Untold) /\ Cardinality(Untold) <= crashes

\* A job that is done, or announced as done, is one whose command was executed,
\* and only once, whenever the collector read its directory.
DoneWasExecuted ==
    \A r \in Runs : state[r] = "done" \/ announced[r] = "done" =>
        place[r] = "done" /\ execs[r] = 1

\* The request for a GPU is withdrawn once the run has left pending/.
SubmissionsResolve ==
    \A r \in Runs :
        (submitted[r] = "open" /\ place[r] \in Queue!Verdicts) ~> (submitted[r] = "resolved")

\* The end of a run that was registered while it was active is announced, unless
\* the job was cancelled.
ResultsArrive ==
    \A r \in Runs :
        (r \in observed /\ place[r] \in Queue!Verdicts)
        ~> (announced[r] # "none" \/ state[r] = "cancelled")
=============================================================================
