----------------------------- MODULE Continuity -----------------------------
(* The continuity supervisor (src/continuity-supervisor.js): a research        *)
(* session that stops at a prompt or a menu with no work under way gets one    *)
(* decision of a short-lived resolver, and the engine types the resume text or *)
(* picks the menu option.  With it the parts of the engine's cycle it lives    *)
(* on: the watch for silent terminals, whose alerts hold decisions back, and   *)
(* the delivery of the decisions (src/automation-engine.js).                   *)
(*                                                                             *)
(* A review is a process at one stop of its turns: the episode.  Time is kept  *)
(* as "fresh" or "old" marks that a clock action turns over.  A resume travels *)
(* through the outbox, which ExternalDelivery models: here its send is a step. *)
(* The project's sessions all run in iTerm; none is managed by the broker.     *)
EXTENDS Integers, FiniteSets

CONSTANTS
    Projects,       \* configured projects
    Pids,           \* the external Claude processes that may ever run
    HomeOf,         \* the project a process was mapped to by its directory
    LastTurn,       \* bound on the turns each process ends, numbered from 1
    NumOptions,     \* lines of a menu
    MaxConcurrent,  \* config.continuity.maxConcurrent
    Evidence,       \* which of EvidenceKinds may be observed
    Faults,         \* which of FaultKinds may occur
    MaxFaults       \* bound on their number

EvidenceKinds == {"degraded", "delivery", "job", "lease", "stalled", "tool"}
\* A kill of the web process, a signal that closes it, a resolver that fails or
\* times out, an osascript error, a broker that does not answer, a screen that
\* shows nothing known, a person at the terminal or at the dashboard, a process
\* that ends, evidence of work.
FaultKinds == {"crash", "shutdown", "resolver", "keys", "broker", "noise", "human", "dismiss",
               "death", "evidence"}

ASSUME PidsAssumption == IsFiniteSet(Pids)
ASSUME HomeAssumption == HomeOf \in [Pids -> Projects]
ASSUME BoundsAssumption == /\ LastTurn \in [Pids -> Nat]
                           /\ NumOptions \in Nat \ {0} /\ MaxConcurrent \in Nat \ {0}
                           /\ MaxFaults \in Nat
ASSUME KindsAssumption == Evidence \subseteq EvidenceKinds /\ Faults \subseteq FaultKinds

Options == 1..NumOptions
\* The resolver's answer may name a line that the menu does not have.
Named == 1..(NumOptions + 1)
Reviews == UNION {{p} \X (0..LastTurn[p]) : p \in Pids}
Status == {"NONE", "PENDING", "HELD", "SENT", "DELIVERED", "RESOLVED", "DISMISSED"}
Open == {"PENDING", "HELD", "SENT"}
Listed == {"PENDING", "HELD"}
FinalIfDelivered == {"DELIVERED"}
FinalIfHeld == {"RESOLVED", "DELIVERED", "HELD"}
Final == {"RESOLVED", "DELIVERED"}
\* The events of an episode: the request, the decision in its three forms, the
\* report of an uncertain choice and the alert of a silent terminal.
Kinds == {"review", "resume", "choice", "owner", "uncertain", "alert"}
Deliverable == {"resume", "choice"}
Screens == {"WORKING", "WAITING_INPUT", "ROUTINE_CHOICE"}
NoReview == <<>>
NoSuspect == [turn |-> -1, old |-> FALSE, raised |-> FALSE]

VARIABLES
    \* durable: the automation_events table, and the outbox rows of resumes
    event,      \* status of the event of a kind for an episode
    option,     \* optionNumber of its choice event, 0 when there is none
    waiting,    \* reviews whose note names a retry_at still to come
    boxed,      \* resumes that have an outbox row
    ambiguous,  \* projects whose ambiguous-owner event exists
    \* memory of the web process
    pc,         \* where the engine's cycle is
    view,       \* externalSnapshot, kept while rows are left
    rows,       \* rows the deliver pass read and has not handled
    cur,        \* the episode whose menu it is sending keys to
    served,     \* deliveredTargets
    inflight,   \* reviews the resolver is working on
    firstReady, \* firstReadyAt: "none", or how long ago
    suspect,    \* externalUnknownCandidates: the silent tail under watch
    \* the world
    live, gone, \* processes that run, and that ended
    turn,       \* the episode of a process: its latest history event
    screen,     \* what its terminal shows
    hidden,     \* terminals that show nothing the classifier knows
    cursor,     \* the selected option of its menu
    facts,      \* evidence about it
    quiet,      \* processes whose last assistant text is older than settleMs
    \* history variables
    decided,    \* decisions taken for an episode
    excused,    \* crashes between a decision's event and the end of its request
    typed,      \* how often the resume text of an episode was typed
    pressed,    \* how often the keys of its choice were sent
    picked,     \* the option those keys entered, 0 for none
    faults

durable == <<event, option, waiting, boxed, ambiguous>>
memory == <<pc, view, rows, cur, served, inflight, firstReady, suspect>>
world == <<live, gone, turn, screen, hidden, cursor, facts, quiet>>
ghosts == <<decided, excused, typed, pressed, picked, faults>>
vars == <<durable, memory, world, ghosts>>

Shown(p) == IF p \in hidden THEN "UNKNOWN" ELSE screen[p]
EmptyView == [live |-> {}, turn |-> [p \in Pids |-> 0], shown |-> [p \in Pids |-> "UNKNOWN"],
              cursor |-> [p \in Pids |-> 1]]

TypeOK ==
    /\ event \in [Kinds -> [Reviews -> Status]]
    /\ option \in [Reviews -> {0} \union Named]
    /\ waiting \subseteq Reviews /\ boxed \subseteq Reviews
    /\ ambiguous \subseteq Projects
    /\ pc \in {"down", "closing", "idle", "deliver", "keys", "mark"}
    /\ view \in [live : SUBSET Pids, turn : [Pids -> Nat],
                 shown : [Pids -> Screens \union {"UNKNOWN"}], cursor : [Pids -> Options]]
    /\ rows \subseteq [kind : Deliverable, of : Reviews, held : BOOLEAN]
    /\ cur \in Reviews \union {NoReview}
    /\ served \subseteq Projects
    /\ inflight \subseteq Reviews
    /\ firstReady \in [Pids -> {"none", "fresh", "old"}]
    /\ suspect \in [Pids -> [turn : Nat \union {-1}, old : BOOLEAN, raised : BOOLEAN]]
    /\ live \subseteq Pids /\ gone \subseteq Pids /\ hidden \subseteq Pids
    /\ turn \in [Pids -> Nat] /\ \A p \in Pids : turn[p] =< LastTurn[p]
    /\ screen \in [Pids -> Screens]
    /\ cursor \in [Pids -> Options]
    /\ facts \in [Pids -> SUBSET Evidence]
    /\ quiet \subseteq Pids
    /\ decided \in [Reviews -> Nat] /\ excused \in [Reviews -> Nat]
    /\ typed \in [Reviews -> Nat] /\ pressed \in [Reviews -> Nat]
    /\ picked \in [Reviews -> 0..NumOptions]
    /\ faults \in Nat

Init ==
    /\ event = [k \in Kinds |-> [r \in Reviews |-> "NONE"]]
    /\ option = [r \in Reviews |-> 0]
    /\ waiting = {} /\ boxed = {} /\ ambiguous = {}
    /\ pc = "idle" /\ view = EmptyView /\ rows = {} /\ cur = NoReview
    /\ served = {} /\ inflight = {}
    /\ firstReady = [p \in Pids |-> "none"]
    /\ suspect = [p \in Pids |-> NoSuspect]
    /\ live = {} /\ gone = {} /\ hidden = {} /\ quiet = {}
    /\ turn = [p \in Pids |-> 0]
    /\ screen = [p \in Pids |-> "WORKING"]
    /\ cursor = [p \in Pids |-> 1]
    /\ facts = [p \in Pids |-> {}]
    /\ decided = [r \in Reviews |-> 0] /\ excused = [r \in Reviews |-> 0]
    /\ typed = [r \in Reviews |-> 0] /\ pressed = [r \in Reviews |-> 0]
    /\ picked = [r \in Reviews |-> 0]
    /\ faults = 0

Fault(kind) == kind \in Faults /\ faults < MaxFaults /\ faults' = faults + 1

\* INSERT OR IGNORE of a PENDING row.
Create(kind, r) ==
    [event EXCEPT ![kind][r] = IF @ = "NONE" THEN "PENDING" ELSE @]
SetStatus(kind, r, status) == [event EXCEPT ![kind][r] = status]
\* #resolveEvent: only an open event ends.
Resolve(kind, r) == [event EXCEPT ![kind][r] = IF @ \in Open THEN "RESOLVED" ELSE @]
\* The cycle awaits here, so handlers and the resolver's answers may run.
Awaits == pc \in {"idle", "deliver", "keys"}

-----------------------------------------------------------------------------
(* The engine's cycle.                                                       *)

\* #watchExternalStops: a terminal that stays UNKNOWN with the same tail is a
\* suspect, and an alert when it has been one for long; the alert of a suspect
\* that changed or went away ends.  Only a suspect in memory is looked up.
Silent(p) == p \in live /\ Shown(p) = "UNKNOWN"
SameTail(p) == Silent(p) /\ suspect[p].turn = turn[p]
Raises(p) == SameTail(p) /\ suspect[p].old /\ ~suspect[p].raised
Watched(p) ==
    IF SameTail(p) THEN [suspect[p] EXCEPT !.raised = @ \/ suspect[p].old]
    ELSE IF Silent(p) THEN [NoSuspect EXCEPT !.turn = turn[p]]
    ELSE NoSuspect
Alerts ==
    [r \in Reviews |->
        LET p == r[1]  old == event["alert"][r] IN
        IF suspect[p].turn = r[2] /\ ~SameTail(p) /\ old \in Open THEN "RESOLVED"
        ELSE IF suspect[p].turn = r[2] /\ Raises(p) /\ old = "NONE" THEN "PENDING"
        ELSE old]

\* deriveOperationalState and ELIGIBLE_STATES.  A menu overrules every other
\* reading; a construction lease overrules the alerts; a tool rules out both.
Alerted(t, alerts) == \E r \in Reviews : HomeOf[r[1]] = t /\ alerts[r] \in Open
Ready(shown, evidence, alerted) ==
    /\ "tool" \notin evidence
    /\ \/ shown = "ROUTINE_CHOICE"
       \/ /\ shown = "WAITING_INPUT"
          /\ evidence \intersect {"degraded", "delivery", "job"} = {}
          /\ "lease" \in evidence \/ ("stalled" \notin evidence /\ ~alerted)

\* The sessions of a project; more than one is ambiguous.
Candidates(t, sessions) == {p \in sessions : HomeOf[p] = t}
Sole(p) == Candidates(HomeOf[p], live) = {p}
Eligible(p) == Sole(p) /\ Ready(Shown(p), facts[p], Alerted(HomeOf[p], Alerts))
\* readyAt: the first sighting by this web process, or the last assistant text
\* if that is older.
Settled(p) == firstReady[p] = "old" \/ p \in quiet
Sighted(p) ==
    IF ~Sole(p) THEN firstReady[p]
    ELSE IF ~Eligible(p) THEN "none"
    ELSE IF firstReady[p] = "none" THEN "fresh" ELSE firstReady[p]
Requested == {<<p, turn[p]>> : p \in {q \in live : Eligible(q) /\ Settled(q)}}
Startable == {r \in Requested : event["review"][r] \notin Final
                                /\ r \notin waiting /\ r \notin inflight}
\* The projects are served in the order of the process list until the pool is full.
Admitted == LET free == MaxConcurrent - Cardinality(inflight)
                asked == Cardinality(Startable)
            IN  IF asked =< free THEN asked ELSE free

\* The rows the deliver pass selects.
Rows == {row \in [kind : Deliverable, of : Reviews, held : BOOLEAN] :
            /\ event[row.kind][row.of] \in Listed
            /\ row.held = (event[row.kind][row.of] = "HELD")}

\* Discovery, the watch pass, ContinuitySupervisor.observe and the SELECT of the
\* deliver pass.  What runs while the cycle awaits in between commutes with one
\* of them: the world is read by the discovery alone, the store and the marks by
\* the passes alone.  A crash between two sessions is a crash before a pass in
\* which the later ones were not seen yet.  Without rows the cycle is over; with
\* them it ends here as well if the broker does not list its sessions.  (When it
\* fails to do so before the passes, the cycle has not begun to observe.)
Observe ==
    /\ pc = "idle"
    /\ \E started \in SUBSET Startable :
        /\ Cardinality(started) = Admitted
        /\ inflight' = inflight \union started
    /\ suspect' = [p \in Pids |-> Watched(p)]
    /\ firstReady' = [p \in Pids |-> Sighted(p)]
    /\ event' = [event EXCEPT !["alert"] = Alerts,
                              !["review"] = [r \in Reviews |->
                                  IF r \in Requested /\ @[r] = "NONE" THEN "PENDING" ELSE @[r]]]
    /\ ambiguous' = ambiguous \union {t \in Projects : Cardinality(Candidates(t, live)) > 1}
    /\ \/ rows' = Rows /\ UNCHANGED faults
       \/ Rows # {} /\ rows' = {} /\ Fault("broker")
    /\ IF rows' = {} THEN UNCHANGED <<pc, view>>
       ELSE /\ pc' = "deliver"
            /\ view' = [live |-> live, turn |-> turn, shown |-> [p \in Pids |-> Shown(p)],
                        cursor |-> cursor]
    /\ UNCHANGED <<option, waiting, boxed, cur, served, world, decided, excused, typed, pressed,
                   picked>>

-----------------------------------------------------------------------------
(* The resolver (src/continuity-resolver.js) answers at any later time.      *)

\* #decide: the event of the decision, then the end of its request.  The row of
\* an earlier decision stays as it is.
DecisionEvents(kind, r, o) ==
    /\ event' = IF kind = "none" THEN SetStatus("review", r, "RESOLVED")
                ELSE [Create(kind, r) EXCEPT !["review"][r] = "RESOLVED"]
    /\ option' = IF kind = "choice" /\ event["choice"][r] = "NONE"
                 THEN [option EXCEPT ![r] = o] ELSE option
    /\ decided' = [decided EXCEPT ![r] = @ + 1]

\* The task leaves the pool however it ends.
Left(r) == inflight \ {r}

\* continue, choose, owner_required; wait and complete leave no event.
Outcomes == {"resume", "choice", "owner", "none"}

Answer(r) ==
    /\ r \in inflight
    /\ Awaits \/ pc = "closing"
    /\ \E kind \in Outcomes, o \in Named : DecisionEvents(kind, r, o)
    /\ inflight' = Left(r)
    /\ waiting' = waiting \ {r}
    /\ UNCHANGED <<boxed, ambiguous, pc, view, rows, cur, served, firstReady, suspect, world,
                   excused, typed, pressed, picked, faults>>

\* A timeout, a failed process or an invalid decision: another try is due later.
Fails(r) ==
    /\ r \in inflight
    /\ Awaits \/ pc = "closing"
    /\ Fault("resolver")
    /\ event' = SetStatus("review", r, "HELD")
    /\ waiting' = waiting \union {r}
    /\ inflight' = Left(r)
    /\ UNCHANGED <<option, boxed, ambiguous, pc, view, rows, cur, served, firstReady, suspect,
                   world, decided, excused, typed, pressed, picked>>

-----------------------------------------------------------------------------
(* The deliver pass.                                                         *)

\* Does the snapshot still show the episode at the given kind of stop?
Shows(r, stop) == /\ r[1] \in view.live
                  /\ view.turn[r[1]] = r[2]
                  /\ view.shown[r[1]] = stop
Of(row) == HomeOf[row.of[1]]
Done(row) == rows' = rows \ {row} /\ pc' = "deliver"

\* #holdEvent writes unless the row read was held for the same reason.
Hold(row) ==
    \/ event' = SetStatus(row.kind, row.of, "HELD")
    \/ row.held /\ UNCHANGED event

\* A row of a target served in this pass.
SkipServed(row) ==
    /\ Of(row) \in served
    /\ Done(row)
    /\ UNCHANGED <<durable, view, cur, served, inflight, firstReady, suspect, world, ghosts>>

\* Another episode, another screen or another process: the decision is stale.
\* No process at all: it is held.
Withdraw(row, stop) ==
    /\ Of(row) \notin served
    /\ ~Shows(row.of, stop)
    /\ IF Candidates(Of(row), view.live) # {} THEN event' = Resolve(row.kind, row.of) ELSE Hold(row)
    /\ Done(row)
    /\ UNCHANGED <<option, waiting, boxed, ambiguous, view, cur, served, inflight,
                   firstReady, suspect, world, ghosts>>

\* The choice is SENT before the keys, so that it can never be replayed.
ClaimChoice(row) ==
    /\ row.kind = "choice"
    /\ Of(row) \notin served
    /\ Shows(row.of, "ROUTINE_CHOICE")
    /\ event' = SetStatus("choice", row.of, "SENT")
    /\ rows' = rows \ {row} /\ cur' = row.of /\ pc' = "keys"
    /\ UNCHANGED <<option, waiting, boxed, ambiguous, view, served, inflight, firstReady,
                   suspect, world, ghosts>>

\* Variant: the arrows are counted from the first option.
LandingFromFirst(p, r) ==
    LET to == cursor[p] + option[r] - 1 IN
    IF to < 1 THEN 1 ELSE IF to > NumOptions THEN NumOptions ELSE to

\* selectItermChoice: arrows from the option seen to the option decided, then
\* Enter, to whatever the terminal shows by now.
Landing(p, r) ==
    LET to == cursor[p] + option[r] - view.cursor[p] IN
    IF to < 1 THEN 1 ELSE IF to > NumOptions THEN NumOptions ELSE to

Press(r) ==
    LET p == r[1] IN
    /\ p \in live
    /\ pressed' = [pressed EXCEPT ![r] = @ + 1]
    /\ \/ /\ screen[p] = "ROUTINE_CHOICE"
          /\ cursor' = [cursor EXCEPT ![p] = Landing(p, r)]
          /\ picked' = [picked EXCEPT ![r] = Landing(p, r)]
          /\ screen' = [screen EXCEPT ![p] = "WORKING"]
       \/ /\ screen[p] # "ROUTINE_CHOICE"
          /\ screen' \in {screen, [screen EXCEPT ![p] = "WORKING"]}
          /\ UNCHANGED <<cursor, picked>>

PressKeys ==
    /\ pc = "keys"
    /\ Press(cur)
    /\ pc' = "mark"
    /\ UNCHANGED <<durable, view, rows, cur, served, inflight, firstReady, suspect,
                   live, gone, turn, hidden, facts, quiet, decided, excused, typed, faults>>

MarkChoice ==
    /\ pc = "mark"
    /\ event' = SetStatus("choice", cur, "DELIVERED")
    /\ served' = served \union {HomeOf[cur[1]]}
    /\ cur' = NoReview /\ pc' = "deliver"
    /\ UNCHANGED <<option, waiting, boxed, ambiguous, view, rows, inflight, firstReady,
                   suspect, world, ghosts>>

\* The choice stays SENT and a person is told.
UncertainRetried(r) == [Create("uncertain", r) EXCEPT !["choice"][r] = "HELD"]
Uncertain(r) == [Create("uncertain", r) EXCEPT !["choice"][r] = "SENT"]

\* The adapter fails before, amid or after the keys.  A terminal that is gone
\* always fails.
PressFails ==
    /\ pc = "keys"
    /\ \/ /\ Fault("keys")
          /\ \/ Press(cur)
             \/ /\ cur[1] \in live /\ screen[cur[1]] = "ROUTINE_CHOICE"
                /\ pressed' = [pressed EXCEPT ![cur] = @ + 1]
                /\ \E o \in Options : cursor' = [cursor EXCEPT ![cur[1]] = o]
                /\ UNCHANGED <<screen, picked>>
             \/ UNCHANGED <<screen, cursor, picked, pressed>>
       \/ /\ cur[1] \notin live
          /\ UNCHANGED <<screen, cursor, picked, pressed, faults>>
    /\ event' = Uncertain(cur)
    /\ cur' = NoReview /\ pc' = "deliver"
    /\ UNCHANGED <<option, waiting, boxed, ambiguous, view, rows, served, inflight, firstReady,
                   suspect, live, gone, turn, hidden, facts, quiet, decided, excused, typed>>

\* #externalDispatchBlocked, or a resume whose outbox row exists already.
ResumeWaits(row) ==
    /\ row.kind = "resume"
    /\ Of(row) \notin served
    /\ Shows(row.of, "WAITING_INPUT")
    /\ \/ "delivery" \in facts[row.of[1]] /\ UNCHANGED served
       \/ row.of \in boxed /\ served' \in {served, served \union {Of(row)}}
    /\ Done(row)
    /\ UNCHANGED <<durable, view, cur, inflight, firstReady, suspect, world, ghosts>>

\* #sendExternalAcknowledged: the outbox row makes this the only attempt.
\* A terminal that still waits takes the text and works.
Type(r) ==
    /\ boxed' = boxed \union {r}
    /\ typed' = [typed EXCEPT ![r] = @ + 1]
    /\ screen' = [screen EXCEPT ![r[1]] = IF r[1] \in live /\ @ = "WAITING_INPUT"
                                          THEN "WORKING" ELSE @]

Sendable(row) ==
    /\ row.kind = "resume"
    /\ Of(row) \notin served
    /\ Shows(row.of, "WAITING_INPUT")
    /\ "delivery" \notin facts[row.of[1]] /\ row.of \notin boxed

SendResume(row) ==
    /\ Sendable(row)
    /\ row.of[1] \in live
    /\ Type(row.of)
    /\ event' = SetStatus("resume", row.of, "SENT")
    /\ served' = served \union {Of(row)}
    /\ Done(row)
    /\ UNCHANGED <<option, waiting, ambiguous, view, cur, inflight, firstReady, suspect, live,
                   gone, turn, hidden, cursor, facts, quiet, decided, excused, pressed, picked,
                   faults>>

NotTyped(r) == boxed' = boxed \union {r} /\ UNCHANGED <<typed, screen>>

\* The adapter fails before or after the text is in the prompt.
SendFails(row) ==
    /\ Sendable(row)
    /\ \/ Fault("keys") /\ (Type(row.of) \/ NotTyped(row.of))
       \/ row.of[1] \notin live /\ NotTyped(row.of) /\ UNCHANGED faults
    /\ event' = SetStatus("resume", row.of, "HELD")
    /\ Done(row)
    /\ UNCHANGED <<option, waiting, ambiguous, view, cur, served, inflight, firstReady, suspect,
                   live, gone, turn, hidden, cursor, facts, quiet, decided, excused, pressed,
                   picked>>

DeliverRow(row) ==
    /\ pc = "deliver"
    /\ \/ SkipServed(row)
       \/ row.kind = "choice" /\ Withdraw(row, "ROUTINE_CHOICE")
       \/ row.kind = "resume" /\ Withdraw(row, "WAITING_INPUT")
       \/ ClaimChoice(row)
       \/ ResumeWaits(row)
       \/ SendResume(row)
       \/ SendFails(row)

EndCycle ==
    /\ pc = "deliver" /\ rows = {}
    /\ pc' = "idle" /\ view' = EmptyView /\ served' = {}
    /\ UNCHANGED <<durable, rows, cur, inflight, firstReady, suspect, world, ghosts>>

Cycle == Observe \/ (\E row \in rows : DeliverRow(row))
         \/ PressKeys \/ MarkChoice \/ PressFails \/ EndCycle

-----------------------------------------------------------------------------
(* The end of the web process, and its next start by the service manager.    *)

Forget == /\ view' = EmptyView /\ rows' = {} /\ cur' = NoReview /\ served' = {}
          /\ firstReady' = [p \in Pids |-> "none"]
          /\ suspect' = [p \in Pids |-> NoSuspect]

Crash ==
    /\ pc # "down"
    /\ Fault("crash")
    /\ pc' = "down" /\ inflight' = {} /\ Forget
    /\ UNCHANGED <<durable, world, decided, excused, typed, pressed, picked>>

\* Between the event of a decision and the end of its request.
CrashAmidDecision(r) ==
    /\ r \in inflight
    /\ Awaits \/ pc = "closing"
    /\ Fault("crash")
    /\ \E kind \in Outcomes \ {"none"}, o \in Named :
        /\ event' = Create(kind, r)
        /\ option' = IF kind = "choice" /\ event["choice"][r] = "NONE"
                     THEN [option EXCEPT ![r] = o] ELSE option
    /\ decided' = [decided EXCEPT ![r] = @ + 1]
    /\ excused' = [excused EXCEPT ![r] = @ + 1]
    /\ pc' = "down" /\ inflight' = {} /\ Forget
    /\ UNCHANGED <<waiting, boxed, ambiguous, world, typed, pressed, picked>>

\* Between the outbox row of a resume and the status of its event.
CrashAmidSend(row) ==
    /\ pc = "deliver"
    /\ Sendable(row)
    /\ Fault("crash")
    /\ Type(row.of) \/ NotTyped(row.of)
    /\ pc' = "down" /\ inflight' = {} /\ Forget
    /\ UNCHANGED <<event, option, waiting, ambiguous, live, gone, turn, hidden, cursor, facts,
                   quiet, decided, excused, pressed, picked>>

\* close(): the resolver's running processes are killed, which their tasks
\* record as failures; a task that has not started its process yet goes on, and
\* the process ends when all tasks have.  A cycle under way is cut off here.
Shutdown ==
    /\ Awaits
    /\ Fault("shutdown")
    /\ \E killed \in SUBSET inflight :
        /\ event' = [event EXCEPT !["review"] =
                        [r \in Reviews |-> IF r \in killed THEN "HELD" ELSE @[r]]]
        /\ waiting' = waiting \union killed
        /\ inflight' = inflight \ killed
    /\ pc' = "closing" /\ Forget
    /\ UNCHANGED <<option, boxed, ambiguous, world, decided, excused, typed, pressed, picked>>

Close ==
    /\ pc = "closing" /\ inflight = {}
    /\ pc' = "down"
    /\ UNCHANGED <<durable, view, rows, cur, served, inflight, firstReady, suspect, world, ghosts>>

Restart ==
    /\ pc = "down"
    /\ pc' = "idle"
    /\ UNCHANGED <<durable, view, rows, cur, served, inflight, firstReady, suspect, world, ghosts>>

Stops == Crash \/ (\E r \in inflight : CrashAmidDecision(r))
         \/ (\E row \in rows : CrashAmidSend(row)) \/ Shutdown

-----------------------------------------------------------------------------
(* Dashboard, clocks and the world.                                          *)

\* POST dismiss: any pending or held event, whose note it replaces.
Dismiss(kind, r) ==
    /\ Awaits
    /\ event[kind][r] \in Listed
    /\ Fault("dismiss")
    /\ event' = SetStatus(kind, r, "DISMISSED")
    /\ waiting' = IF kind = "review" THEN waiting \ {r} ELSE waiting
    /\ UNCHANGED <<option, boxed, ambiguous, memory, world, decided, excused, typed, pressed,
                   picked>>

RetryDue(r) ==
    /\ r \in waiting
    /\ waiting' = waiting \ {r}
    /\ UNCHANGED <<event, option, boxed, ambiguous, memory, world, ghosts>>

Settle(p) ==
    /\ firstReady[p] = "fresh"
    /\ firstReady' = [firstReady EXCEPT ![p] = "old"]
    /\ UNCHANGED <<durable, pc, view, rows, cur, served, inflight, suspect, world, ghosts>>

Stall(p) ==
    /\ suspect[p] # NoSuspect /\ ~suspect[p].old
    /\ suspect' = [suspect EXCEPT ![p].old = TRUE]
    /\ UNCHANGED <<durable, pc, view, rows, cur, served, inflight, firstReady, world, ghosts>>

Quieten(p) ==
    /\ p \in live \ quiet /\ screen[p] # "WORKING"
    /\ quiet' = quiet \union {p}
    /\ UNCHANGED <<durable, memory, live, gone, turn, screen, hidden, cursor, facts, ghosts>>

\* A process is first seen at work on its first turn.
StartProcess(p) ==
    /\ p \notin live \union gone
    /\ live' = live \union {p}
    /\ UNCHANGED <<durable, memory, gone, turn, screen, hidden, cursor, facts, quiet, ghosts>>

EndProcess(p) ==
    /\ p \in live
    /\ Fault("death")
    /\ live' = live \ {p} /\ gone' = gone \union {p}
    /\ facts' = [facts EXCEPT ![p] = {}]
    /\ hidden' = hidden \ {p} /\ quiet' = quiet \ {p}
    /\ turn' = [turn EXCEPT ![p] = 0]
    /\ screen' = [screen EXCEPT ![p] = "WORKING"]
    /\ cursor' = [cursor EXCEPT ![p] = 1]
    /\ UNCHANGED <<durable, memory, decided, excused, typed, pressed,
                   picked>>

\* A turn ends with a message, at the prompt or at a menu.
EndTurn(p) ==
    /\ p \in live /\ screen[p] = "WORKING" /\ turn[p] < LastTurn[p]
    /\ turn' = [turn EXCEPT ![p] = @ + 1]
    /\ \E s \in {"WAITING_INPUT", "ROUTINE_CHOICE"} : screen' = [screen EXCEPT ![p] = s]
    /\ cursor' = [cursor EXCEPT ![p] = 1]
    /\ quiet' = quiet \ {p}
    /\ UNCHANGED <<durable, memory, live, gone, hidden, facts, ghosts>>

\* The history grows although the session has stopped: another episode.
Append(p) ==
    /\ p \in live /\ screen[p] # "WORKING" /\ turn[p] < LastTurn[p]
    /\ turn' = [turn EXCEPT ![p] = @ + 1]
    /\ UNCHANGED <<durable, memory, live, gone, screen, hidden, cursor, facts, quiet, ghosts>>

\* A person answers the prompt or the menu, or moves in the menu.
Person(p) ==
    /\ p \in live /\ screen[p] # "WORKING"
    /\ Fault("human")
    /\ \/ screen' = [screen EXCEPT ![p] = "WORKING"] /\ UNCHANGED cursor
       \/ /\ screen[p] = "ROUTINE_CHOICE"
          /\ \E o \in Options : cursor' = [cursor EXCEPT ![p] = o]
          /\ UNCHANGED screen
    /\ UNCHANGED <<durable, memory, live, gone, turn, hidden, facts, quiet, decided, excused,
                   typed, pressed, picked>>

Obscure(p) ==
    /\ p \in live \ hidden
    /\ Fault("noise")
    /\ hidden' = hidden \union {p}
    /\ UNCHANGED <<durable, memory, live, gone, turn, screen, cursor, facts, quiet, decided,
                   excused, typed, pressed, picked>>

Clear(p) ==
    /\ p \in hidden
    /\ hidden' = hidden \ {p}
    /\ UNCHANGED <<durable, memory, live, gone, turn, screen, cursor, facts, quiet, ghosts>>

\* A tool, a declared job, a lease, an unacknowledged message or an alert of
\* another kind comes and goes, or the history is unreadable for a while.
EvidenceComes(p) ==
    /\ p \in live
    /\ Fault("evidence")
    /\ \E f \in Evidence \ facts[p] : facts' = [facts EXCEPT ![p] = @ \union {f}]
    /\ UNCHANGED <<durable, memory, live, gone, turn, screen, hidden, cursor, quiet, decided,
                   excused, typed, pressed, picked>>

EvidenceGoes(p) ==
    /\ \E f \in facts[p] : facts' = [facts EXCEPT ![p] = @ \ {f}]
    /\ UNCHANGED <<durable, memory, live, gone, turn, screen, hidden, cursor, quiet, ghosts>>

World == \E p \in Pids : Settle(p) \/ Stall(p) \/ Quieten(p) \/ StartProcess(p)
            \/ EndProcess(p) \/ EndTurn(p) \/ Append(p) \/ Person(p) \/ Obscure(p)
            \/ Clear(p) \/ EvidenceComes(p) \/ EvidenceGoes(p)

Next == \/ Cycle
        \/ \E r \in Reviews : Answer(r) \/ Fails(r) \/ RetryDue(r)
        \/ \E kind \in Kinds, r \in Reviews : Dismiss(kind, r)
        \/ Stops \/ Close \/ Restart
        \/ World

Spec == Init /\ [][Next]_vars

\* The timer runs the cycle, the service manager restarts the process, the
\* resolver answers or times out, and time passes.
Fairness ==
    /\ WF_vars(Cycle)
    /\ WF_vars(Close \/ Restart)
    /\ WF_vars(\E r \in Reviews : Answer(r) \/ Fails(r))
    /\ WF_vars((\E r \in Reviews : RetryDue(r)) \/ (\E p \in Pids : Settle(p)))
FairSpec == Spec /\ Fairness

-----------------------------------------------------------------------------
(* Properties.                                                               *)

\* An episode receives at most one decision, through retries of the resolver,
\* dismissals, shutdowns and restarts, unless a crash falls between the event of
\* the decision and the end of its request (continuity-supervisor.js:136-154).
DecidedOnce == \A r \in Reviews : decided[r] =< 1 + excused[r]

\* The keys of a choice are sent once and the text of a resume typed once, after
\* any failure or restart, and an episode is acted upon in both ways only if
\* such a crash let it be decided twice.
ActedOnce ==
    \A r \in Reviews :
        /\ pressed[r] =< 1 /\ typed[r] =< 1
        /\ pressed[r] + typed[r] = 2 => excused[r] > 0

\* A menu nobody touched since the snapshot gets the option that was decided
\* for this very episode, if it has it, wherever its selection stood.
Untouched(p) == turn[p] = view.turn[p] /\ cursor[p] = view.cursor[p]
PicksAsDecided ==
    \A r \in Reviews : picked'[r] # picked[r] =>
        (Untouched(r[1]) => /\ option[r] \in Options => picked'[r] = option[r]
                            /\ turn[r[1]] = r[2])
ChosenAsDecided == [][PicksAsDecided]_vars

\* An episode is answered in one form, a text, an option or a call to its owner;
\* every other form needs another crash between the two statements of a decision.
Forms(r) == {kind \in {"resume", "choice", "owner"} : event[kind][r] # "NONE"}
OneForm == \A r \in Reviews : Cardinality(Forms(r)) =< 1 + excused[r]

\* A request that has ended stays so and is not decided again; a choice that was
\* claimed is never offered again, and a resume with an outbox row never typed
\* again, by a later cycle, a restart or a late answer of the resolver.
KeepsItsWord(r) ==
    /\ event["review"][r] = "RESOLVED" =>
           event'["review"][r] = "RESOLVED" /\ decided'[r] = decided[r]
    /\ event["choice"][r] = "SENT" => event'["choice"][r] \in {"SENT", "DELIVERED"}
    /\ event["choice"][r] = "DELIVERED" => event'["choice"][r] = "DELIVERED"
    /\ r \in boxed => r \in boxed' /\ typed'[r] = typed[r]
NothingIsReplayed == [][\A r \in Reviews : KeepsItsWord(r)]_vars

\* No more resolvers run than are configured, whatever ended and was started.
PoolIsBounded == Cardinality(inflight) =< MaxConcurrent

\* The prompt or menu of an episode at which continuity should act.
AtRest(r) ==
    LET p == r[1] IN
    /\ {q \in live : HomeOf[q] = HomeOf[p]} = {p}
    /\ turn[p] = r[2]
    /\ Ready(Shown(p), facts[p], FALSE)
Decided(r) == event["review"][r] = "RESOLVED"
\* A process at turn 0 is at work.
Stopped == {r \in Reviews : r[2] > 0}

\* README.md:43 "A stable, genuinely idle prompt gets one AI continuity decision".
IdlePromptIsDecided == \A r \in Stopped : AtRest(r) ~> (Decided(r) \/ ~AtRest(r))

\* Idle prompts and menus do not wait for ever: each is decided and the decision
\* carried out or withdrawn, unless an alert holds it back or an earlier delivery
\* occupies the process.  Failures of the resolver, a full pool, ambiguous
\* sessions, dismissals and crashes only delay it.
Pending(r) == event["choice"][r] \in Listed \/ (event["resume"][r] \in Listed /\ r \notin boxed)
IdleIsServed ==
    \A r \in Stopped :
        AtRest(r) ~> \/ ~AtRest(r) \/ (Decided(r) /\ ~Pending(r))
                     \/ Alerted(HomeOf[r[1]], event["alert"])
=============================================================================
