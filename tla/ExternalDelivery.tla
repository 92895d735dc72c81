-------------------------- MODULE ExternalDelivery --------------------------
(* Delivery of operational events to Claude Code sessions that run in iTerm   *)
(* terminals outside the broker: the automation_events and message_outbox     *)
(* tables (src/store.js), the reconcile and deliver passes of the engine's    *)
(* cycle (src/automation-engine.js) and the world they act on: terminals,     *)
(* their editable prompt and the Claude history.                              *)
(*                                                                            *)
(* Every SQL statement is a step of its own, so a crash can fall between any  *)
(* two; the HTTP handlers run only where the cycle awaits.  There are no      *)
(* managed sessions here (the engine prefers them when there are).            *)
EXTENDS Integers, FiniteSets

CONSTANTS
    NumEvents,   \* automation events, numbered by their row id
    Pids,        \* the external Claude processes that may ever run
    NoPid,       \* the null session_pid
    Targets,     \* configured projects
    TargetOf,    \* the target of an event
    HomeOf,      \* the project a process was mapped to by its directory
    Faults,      \* which of FaultKinds may occur
    MaxFaults    \* bound on their number

Events == 1..NumEvents
NoDraft == 0
\* What may disturb a delivery: a crash of the web process, an Enter that the
\* terminal swallows, an error of osascript, a process that ends, a history file
\* that outgrows its tail, a dialog, an event withdrawn or dismissed, a person.
FaultKinds == {"crash", "absorb", "input_error", "death", "rotate", "noise", "resolve",
               "dismiss", "human"}

ASSUME NumEventsAssumption == NumEvents \in Nat
ASSUME NoPidAssumption == NoPid \notin Pids
ASSUME TargetAssumption == TargetOf \in [Events -> Targets] /\ HomeOf \in [Pids -> Targets]
ASSUME FaultsAssumption == Faults \subseteq FaultKinds
ASSUME BoundsAssumption == MaxFaults \in Nat

EventStatus == {"NONE", "PENDING", "HELD", "SENT", "DELIVERED", "RESOLVED", "DISMISSED"}
BoxStatus == {"ABSENT", "QUEUED", "SENDING", "SENT_AWAITING_ACK", "UNCERTAIN",
              "ACKED", "FAILED", "SUPERSEDED"}
Unacknowledged == {"QUEUED", "SENDING", "SENT_AWAITING_ACK", "UNCERTAIN"}
Blocking == {"QUEUED", "SENDING", "SENT_AWAITING_ACK"}
Retryable == {"SENT_AWAITING_ACK", "UNCERTAIN"}
Open == {"PENDING", "HELD", "SENT"}
Listed == {"PENDING", "HELD"}
MaxEnters == 3

Screens == {"WAITING_INPUT", "WORKING", "OTHER"}
Control == {"down", "idle", "ingest", "resolve", "reconcile", "supersede",
            "resolve_older", "retry", "listing", "deliver", "claim", "paste",
            "enter", "mark", "event_sent"}

VARIABLES
    \* durable: src/store.js
    event,      \* status of an automation event, "NONE" before its INSERT
    box,        \* status of its outbox message, "ABSENT" before its INSERT
    boxPid,     \* session_pid of the message
    boxSeq,     \* id of the message: insertion order, 0 when absent
    enters,     \* enter_attempts
    \* memory of the web process
    pc,         \* where the cycle is
    cur,        \* the event the cycle is working on
    older,      \* the superseded message whose event is still to be resolved
    peer,       \* the session it is sending to
    todo,       \* rows of the running pass not yet handled
    wasHeld,    \* rows of the deliver pass read with status HELD
    retryable,  \* rows of the reconcile pass read with a retryable status
    served,     \* deliveredTargets
    dispatch,   \* externalDispatches
    view,       \* externalSnapshot
    \* the world
    live,       \* running Claude processes
    gone,       \* processes that ended
    screen,     \* what the terminal shows when no draft is in its prompt
    draft,      \* FIRM text in the editable prompt, not yet submitted
    folded,     \* terminals that show their draft as a collapsed paste
    accepted,   \* markers in the history file of a process
    writer,     \* the process whose history file is the newest of a project
    moved,      \* processes whose assistant spoke since the last dispatch
    \* history variables
    written,    \* how often the text of an event was typed into a terminal
    taken,      \* events whose text was ever submitted to Claude
    cleared,    \* events resolved because their condition ended
    faults

durable == <<event, box, boxPid, boxSeq, enters>>
memory == <<pc, cur, older, peer, todo, wasHeld, retryable, served, dispatch, view>>
world == <<live, gone, screen, draft, folded, accepted, writer, moved>>
ghosts == <<written, taken, cleared, faults>>
vars == <<durable, memory, world, ghosts>>

NoDispatch == [pid |-> NoPid, seen |-> FALSE]
EmptyView == [live |-> {}, screen |-> [p \in Pids |-> "OTHER"],
              draft |-> [p \in Pids |-> NoDraft], folded |-> {},
              marks |-> [p \in Pids |-> {}], moved |-> {}]

TypeOK ==
    /\ event \in [Events -> EventStatus]
    /\ box \in [Events -> BoxStatus]
    /\ boxPid \in [Events -> Pids \union {NoPid}]
    /\ boxSeq \in [Events -> Nat]
    /\ enters \in [Events -> Nat]
    /\ pc \in Control
    /\ cur \in Events \union {0}
    /\ older \in Events \union {0}
    /\ peer \in Pids \union {NoPid}
    /\ todo \subseteq Events /\ wasHeld \subseteq Events /\ retryable \subseteq Events
    /\ served \subseteq Targets
    /\ dispatch \in [Targets -> [pid : Pids \union {NoPid}, seen : BOOLEAN]]
    /\ view \in [live : SUBSET Pids, screen : [Pids -> Screens],
                 draft : [Pids -> Events \union {NoDraft}], folded : SUBSET Pids,
                 marks : [Pids -> SUBSET Events], moved : SUBSET Pids]
    /\ live \subseteq Pids /\ gone \subseteq Pids
    /\ screen \in [Pids -> Screens]
    /\ draft \in [Pids -> Events \union {NoDraft}]
    /\ folded \subseteq Pids /\ moved \subseteq Pids
    /\ accepted \in [Pids -> SUBSET Events]
    /\ writer \in [Targets -> Pids \union {NoPid}]
    /\ written \in [Events -> Nat]
    /\ taken \subseteq Events /\ cleared \subseteq Events
    /\ faults \in Nat

Init ==
    /\ event = [e \in Events |-> "NONE"]
    /\ box = [e \in Events |-> "ABSENT"]
    /\ boxPid = [e \in Events |-> NoPid]
    /\ boxSeq = [e \in Events |-> 0]
    /\ enters = [e \in Events |-> 0]
    /\ pc = "idle" /\ cur = 0 /\ older = 0 /\ peer = NoPid
    /\ todo = {} /\ wasHeld = {} /\ retryable = {} /\ served = {}
    /\ dispatch = [t \in Targets |-> NoDispatch]
    /\ view = EmptyView
    /\ live = {} /\ gone = {}
    /\ screen = [p \in Pids |-> "WAITING_INPUT"]
    /\ draft = [p \in Pids |-> NoDraft]
    /\ folded = {} /\ moved = {}
    /\ accepted = [p \in Pids |-> {}]
    /\ writer = [t \in Targets |-> NoPid]
    /\ written = [e \in Events |-> 0]
    /\ taken = {} /\ cleared = {} /\ faults = 0

Fault(kind) == kind \in Faults /\ faults < MaxFaults /\ faults' = faults + 1

-----------------------------------------------------------------------------
(* Where the cycle awaits, so that HTTP handlers and the continuity           *)
(* supervisor's resolver can run.                                             *)
Awaiting == pc \in {"idle", "ingest", "listing", "retry", "paste", "enter"}

\* createAutomationEvent: INSERT OR IGNORE by event key.
Create(e) ==
    /\ Awaiting
    /\ event[e] = "NONE"
    /\ event' = [event EXCEPT ![e] = "PENDING"]
    /\ UNCHANGED <<box, boxPid, boxSeq, enters, memory, world, ghosts>>

\* POST /api/automation-events/:id/dismiss
Dismiss(e) ==
    /\ Awaiting /\ Fault("dismiss")
    /\ event[e] \in Listed
    /\ event' = [event EXCEPT ![e] = "DISMISSED"]
    /\ UNCHANGED <<box, boxPid, boxSeq, enters, memory, world, written, taken, cleared>>

BeginCycle ==
    /\ pc = "idle"
    /\ pc' = "ingest"
    /\ view' = EmptyView
    /\ UNCHANGED <<durable, cur, older, peer, todo, wasHeld, retryable, served,
                   dispatch, world, ghosts>>

Resolvable(e) == event[e] \in Open

\* #resolveEvent, first statement: the condition behind the event has ended
\* (its job left the queue, its stall is over); its open message is withdrawn.
WithdrawMessage(e) ==
    /\ pc = "ingest" /\ Fault("resolve")
    /\ Resolvable(e)
    /\ box' = [box EXCEPT ![e] = IF @ \in Unacknowledged THEN "SUPERSEDED" ELSE @]
    /\ cleared' = cleared \union {e}
    /\ cur' = e /\ pc' = "resolve"
    /\ UNCHANGED <<event, boxPid, boxSeq, enters, older, peer, todo, wasHeld,
                   retryable, served, dispatch, view, world, written, taken>>

\* #resolveEvent, last statement.
ResolveEvent ==
    /\ pc = "resolve"
    /\ event' = [event EXCEPT ![cur] = "RESOLVED"]
    /\ cur' = 0 /\ pc' = "ingest"
    /\ UNCHANGED <<box, boxPid, boxSeq, enters, older, peer, todo, wasHeld,
                   retryable, served, dispatch, view, world, ghosts>>

-----------------------------------------------------------------------------
(* #watchExternalStops: take the snapshot the whole cycle uses, then          *)
(* #reconcileExternalOutbox over the unacknowledged messages, oldest first.   *)

Markers(p) == IF writer[HomeOf[p]] = NoPid THEN {} ELSE accepted[writer[HomeOf[p]]]

\* Variant: uncertain messages are not reconciled.
BlockingMessages == {e \in Events : box[e] \in Blocking}

\* listUnacknowledgedOutbox
UnacknowledgedMessages == {e \in Events : box[e] \in Unacknowledged}

Observe ==
    /\ pc = "ingest"
    /\ view' = [live |-> live, screen |-> screen, draft |-> draft, folded |-> folded,
                marks |-> [p \in Pids |-> Markers(p)], moved |-> moved]
    /\ todo' = UnacknowledgedMessages
    /\ retryable' = {e \in Events : box[e] \in Retryable}
    /\ pc' = "reconcile"
    /\ UNCHANGED <<durable, cur, older, peer, wasHeld, served, dispatch, world, ghosts>>

NextMessage(e) ==
    /\ pc = "reconcile"
    /\ e \in todo
    /\ \A m \in todo : boxSeq[e] <= boxSeq[m]

Visible(e) == boxPid[e] \in view.live

\* The target's process is no longer there.
ReconcileVanished(e) ==
    /\ NextMessage(e)
    /\ box[e] = "SENT_AWAITING_ACK" /\ ~Visible(e)
    /\ box' = [box EXCEPT ![e] = "UNCERTAIN"]
    /\ todo' = todo \ {e}
    /\ UNCHANGED <<event, boxPid, boxSeq, enters, pc, cur, older, peer, wasHeld,
                   retryable, served, dispatch, view, world, ghosts>>

\* Variant: a visible process counts as evidence.
HasProcess(e) == box[e] # "QUEUED" /\ Visible(e)

HasMarker(e) == box[e] # "QUEUED" /\ Visible(e) /\ e \in view.marks[boxPid[e]]

\* acknowledgeOutboxMessage
ReconcileAck(e) ==
    /\ NextMessage(e) /\ HasMarker(e)
    /\ box' = [box EXCEPT ![e] = "ACKED"]
    /\ todo' = todo \ {e}
    /\ cur' = e /\ pc' = "supersede"
    /\ UNCHANGED <<event, boxPid, boxSeq, enters, older, peer, wasHeld, retryable,
                   served, dispatch, view, world, ghosts>>

\* Variant: an older message to any process of the target.
OlderAnywhere(e) == {m \in Events : /\ box[m] \in Unacknowledged
                                    /\ boxSeq[m] < boxSeq[e]
                                    /\ TargetOf[m] = TargetOf[e]}

OlderThan(e) == {m \in Events : /\ box[m] \in Unacknowledged
                                /\ boxSeq[m] < boxSeq[e]
                                /\ TargetOf[m] = TargetOf[e]
                                /\ boxPid[m] = boxPid[e]}

\* An older message to the same process is superseded, then its event resolved.
SupersedeOlder(m) ==
    /\ pc = "supersede" /\ m \in OlderThan(cur)
    /\ box' = [box EXCEPT ![m] = "SUPERSEDED"]
    /\ older' = m /\ pc' = "resolve_older"
    /\ UNCHANGED <<event, boxPid, boxSeq, enters, cur, peer, todo, wasHeld, retryable,
                   served, dispatch, view, world, ghosts>>

ResolveOlder ==
    /\ pc = "resolve_older"
    /\ event' = [event EXCEPT ![older] = IF @ \in Open THEN "RESOLVED" ELSE @]
    /\ older' = 0 /\ pc' = "supersede"
    /\ UNCHANGED <<box, boxPid, boxSeq, enters, cur, peer, todo, wasHeld, retryable,
                   served, dispatch, view, world, ghosts>>

\* Variant: the event is not updated after its message.
FinishAckSilently ==
    /\ pc = "supersede" /\ OlderThan(cur) = {}
    /\ cur' = 0 /\ pc' = "reconcile"
    /\ UNCHANGED <<durable, older, peer, todo, wasHeld, retryable, served, dispatch, view,
                   world, ghosts>>

FinishAck ==
    /\ pc = "supersede" /\ OlderThan(cur) = {}
    /\ event' = [event EXCEPT ![cur] = "DELIVERED"]
    /\ cur' = 0 /\ pc' = "reconcile"
    /\ UNCHANGED <<box, boxPid, boxSeq, enters, older, peer, todo, wasHeld, retryable,
                   served, dispatch, view, world, ghosts>>

\* The draft in the prompt is this message: its marker is legible, or it is a
\* collapsed paste and no other message to the process awaits acknowledgement.
ShowsDraft(e) ==
    LET p == boxPid[e] IN
    /\ view.draft[p] # NoDraft
    /\ IF p \in view.folded
         THEN {m \in retryable : boxPid[m] = p /\ TargetOf[m] = TargetOf[e]} = {e}
         ELSE view.draft[p] = e

RetryDue(e) ==
    /\ NextMessage(e)
    /\ Visible(e) /\ ~HasMarker(e)
    /\ box[e] \in Retryable /\ ShowsDraft(e)
    /\ enters[e] < MaxEnters

\* Await externalSessionSubmit: an Enter-only retry.
RetryEnter(e) ==
    /\ RetryDue(e)
    /\ todo' = todo \ {e}
    /\ cur' = e /\ peer' = boxPid[e] /\ pc' = "retry"
    /\ UNCHANGED <<durable, older, wasHeld, retryable, served, dispatch, view, world, ghosts>>

\* Nothing to do for this message, or its Enter retry is not due yet.
ReconcileSkip(e) ==
    /\ NextMessage(e)
    /\ ~HasMarker(e)
    /\ Visible(e) \/ box[e] # "SENT_AWAITING_ACK"
    /\ todo' = todo \ {e}
    /\ UNCHANGED <<durable, pc, cur, older, peer, wasHeld, retryable, served, dispatch,
                   view, world, ghosts>>

(* What an Enter keypress on a terminal does: the draft is submitted to       *)
(* Claude, or the terminal swallows the key.                                  *)
Submitted(p) ==
    /\ accepted' = [accepted EXCEPT ![p] = @ \union {draft[p]}]
    /\ writer' = [writer EXCEPT ![HomeOf[p]] = p]
    /\ taken' = taken \union {draft[p]}
    /\ draft' = [draft EXCEPT ![p] = NoDraft]
    /\ folded' = folded \ {p}
    /\ screen' = [screen EXCEPT ![p] = "WORKING"]

Keypress(p) ==
    \/ /\ p \in live /\ draft[p] # NoDraft
       /\ Submitted(p)
       /\ UNCHANGED faults
    \/ /\ p \in live /\ draft[p] # NoDraft
       /\ Fault("absorb")
       /\ UNCHANGED <<accepted, writer, taken, draft, folded, screen>>
    \/ /\ p \in live => draft[p] = NoDraft
       /\ UNCHANGED <<accepted, writer, taken, draft, folded, screen, faults>>

\* recordOutboxEnterRetry after the keypress returned.
RetryPressed ==
    /\ pc = "retry"
    /\ Keypress(peer)
    /\ enters' = [enters EXCEPT ![cur] = @ + 1]
    /\ cur' = 0 /\ peer' = NoPid /\ pc' = "reconcile"
    /\ UNCHANGED <<event, box, boxPid, boxSeq, older, todo, wasHeld, retryable, served,
                   dispatch, view, live, gone, moved, written, cleared>>

\* The keypress reported an error, whether or not it reached the terminal.
RetryFailed ==
    /\ pc = "retry" /\ Fault("input_error")
    /\ \/ peer \in live /\ draft[peer] # NoDraft /\ Submitted(peer)
       \/ UNCHANGED <<accepted, writer, taken, draft, folded, screen>>
    /\ box' = [box EXCEPT ![cur] = "UNCERTAIN"]
    /\ cur' = 0 /\ peer' = NoPid /\ pc' = "reconcile"
    /\ UNCHANGED <<event, boxPid, boxSeq, enters, older, todo, wasHeld, retryable, served,
                   dispatch, view, live, gone, moved, written, cleared>>

-----------------------------------------------------------------------------
(* #deliverPending: list the pending and held events, await the list of       *)
(* managed sessions, then serve each event, oldest first.                     *)

StartDeliver ==
    /\ pc = "reconcile" /\ todo = {}
    /\ todo' = {e \in Events : event[e] \in Listed}
    /\ wasHeld' = {e \in Events : event[e] = "HELD"}
    /\ served' = {}
    /\ pc' = "listing"
    /\ UNCHANGED <<durable, cur, older, peer, retryable, dispatch, view, world, ghosts>>

SessionsListed ==
    /\ pc = "listing"
    /\ pc' = "deliver"
    /\ UNCHANGED <<durable, cur, older, peer, todo, wasHeld, retryable, served, dispatch,
                   view, world, ghosts>>

NextEvent(e) ==
    /\ pc = "deliver"
    /\ e \in todo
    /\ \A m \in todo : e <= m

\* acceptsExternalOperationalInput on the snapshot: no draft, and a prompt that
\* waits or queues input while the model works.
Accepting(t) == {p \in view.live : /\ HomeOf[p] = t
                                   /\ view.draft[p] = NoDraft
                                   /\ view.screen[p] \in {"WAITING_INPUT", "WORKING"}}

\* The target was served in this pass already.
SkipServed(e) ==
    /\ NextEvent(e) /\ TargetOf[e] \in served
    /\ todo' = todo \ {e}
    /\ UNCHANGED <<durable, pc, cur, older, peer, wasHeld, retryable, served, dispatch,
                   view, world, ghosts>>

\* #holdEvent: no session, or more than one, takes input.  The write is skipped
\* when the row, as it was read, is already held for the same reason.
Hold(e) ==
    /\ NextEvent(e) /\ TargetOf[e] \notin served
    /\ Cardinality(Accepting(TargetOf[e])) # 1
    /\ \/ event' = [event EXCEPT ![e] = "HELD"]
       \/ e \in wasHeld /\ UNCHANGED event
    /\ todo' = todo \ {e}
    /\ UNCHANGED <<box, boxPid, boxSeq, enters, pc, cur, older, peer, wasHeld, retryable,
                   served, dispatch, view, world, ghosts>>

Candidate(e, p) ==
    /\ NextEvent(e) /\ TargetOf[e] \notin served
    /\ Accepting(TargetOf[e]) = {p}

\* Variant: a message that awaits its acknowledgement does not block.
DurableBlockUntilSent(t, p) ==
    \E m \in Events : TargetOf[m] = t /\ boxPid[m] = p /\ box[m] \in {"QUEUED", "SENDING"}

DurableBlock(t, p) ==
    \E m \in Events : TargetOf[m] = t /\ boxPid[m] = p /\ box[m] \in Blocking

\* Variant: only a turn that was seen frees the target.
StillUnseen(t, p) ==
    /\ dispatch[t].pid = p
    /\ view.screen[p] = "WORKING" \/ ~dispatch[t].seen

\* #externalDispatchBlocked, the memory of the last dispatch to the target.
StillBusy(t, p) ==
    /\ dispatch[t].pid = p
    /\ view.screen[p] = "WORKING" \/ ~(dispatch[t].seen \/ p \in view.moved)

Blocked(e, p) ==
    LET t == TargetOf[e] IN
    /\ Candidate(e, p)
    /\ DurableBlock(t, p) \/ StillBusy(t, p)
    /\ dispatch' = IF ~DurableBlock(t, p) /\ view.screen[p] = "WORKING"
                   THEN [dispatch EXCEPT ![t] = [pid |-> p, seen |-> TRUE]] ELSE dispatch
    /\ todo' = todo \ {e}
    /\ UNCHANGED <<durable, pc, cur, older, peer, wasHeld, retryable, served, view,
                   world, ghosts>>

Free(e, p) ==
    /\ Candidate(e, p)
    /\ ~DurableBlock(TargetOf[e], p) /\ ~StillBusy(TargetOf[e], p)
    /\ dispatch' = [dispatch EXCEPT ![TargetOf[e]] = NoDispatch]

\* Variant: a failed row is replaced by a new one.
AbsentOrFailed(e) == box[e] \in {"ABSENT", "FAILED"}

NotInOutbox(e) == box[e] = "ABSENT"

\* createOutboxMessage, a new row.
Insert(e, p) ==
    /\ Free(e, p) /\ NotInOutbox(e)
    /\ box' = [box EXCEPT ![e] = "QUEUED"]
    /\ boxPid' = [boxPid EXCEPT ![e] = p]
    /\ boxSeq' = [boxSeq EXCEPT ![e] = Cardinality({m \in Events : box[m] # "ABSENT"}) + 1]
    /\ cur' = e /\ peer' = p /\ pc' = "claim"
    /\ UNCHANGED <<event, enters, older, todo, wasHeld, retryable, served, view, world, ghosts>>

\* The row exists (INSERT OR IGNORE) and is still queued: it keeps its pid.
Requeue(e, p) ==
    /\ Free(e, p) /\ box[e] = "QUEUED"
    /\ cur' = e /\ peer' = p /\ pc' = "claim"
    /\ UNCHANGED <<durable, older, todo, wasHeld, retryable, served, view, world, ghosts>>

\* The row exists in any other status: nothing is sent, and unless it FAILED
\* the target counts as served.
AlreadySent(e, p) ==
    /\ Free(e, p) /\ box[e] \notin {"ABSENT", "QUEUED"}
    /\ served' = IF box[e] = "FAILED" THEN served ELSE served \union {TargetOf[e]}
    /\ todo' = todo \ {e}
    /\ UNCHANGED <<durable, pc, cur, older, peer, wasHeld, retryable, view, world, ghosts>>

\* claimOutboxMessage
Claim ==
    /\ pc = "claim" /\ box[cur] = "QUEUED"
    /\ box' = [box EXCEPT ![cur] = "SENDING"]
    /\ pc' = "paste"
    /\ UNCHANGED <<event, boxPid, boxSeq, enters, cur, older, peer, todo, wasHeld,
                   retryable, served, dispatch, view, world, ghosts>>

\* sendItermMessage, the bracketed paste: the marker stays legible or the
\* terminal collapses it.  The tab of a process that has ended since the
\* snapshot still takes the text; no Claude reads it.
Paste ==
    /\ pc = "paste"
    /\ \/ /\ peer \in live
          /\ draft' = [draft EXCEPT ![peer] = cur]
          /\ folded' \in {folded \union {peer}, folded \ {peer}}
       \/ /\ peer \notin live
          /\ UNCHANGED <<draft, folded>>
    /\ written' = [written EXCEPT ![cur] = @ + 1]
    /\ pc' = "enter"
    /\ UNCHANGED <<durable, cur, older, peer, todo, wasHeld, retryable, served, dispatch,
                   view, live, gone, screen, accepted, writer, moved, taken, cleared, faults>>

\* sendItermMessage, the separate Enter after enterDelayMs.
PressEnter ==
    /\ pc = "enter"
    /\ Keypress(peer)
    /\ pc' = "mark"
    /\ UNCHANGED <<durable, cur, older, peer, todo, wasHeld, retryable, served, dispatch,
                   view, live, gone, moved, written, cleared>>

\* sendItermMessage threw, before or after the paste: FAILED and held.
SendFails ==
    /\ pc \in {"paste", "enter"}
    /\ Fault("input_error") \/ (peer \notin live /\ UNCHANGED faults)
    /\ box' = [box EXCEPT ![cur] = "FAILED"]
    /\ event' = [event EXCEPT ![cur] = "HELD"]
    /\ todo' = todo \ {cur}
    /\ cur' = 0 /\ peer' = NoPid /\ pc' = "deliver"
    /\ UNCHANGED <<boxPid, boxSeq, enters, older, wasHeld, retryable, served, dispatch,
                   view, world, written, taken, cleared>>

\* markOutboxSent
MarkSent ==
    /\ pc = "mark"
    /\ box' = [box EXCEPT ![cur] = "SENT_AWAITING_ACK"]
    /\ pc' = "event_sent"
    /\ UNCHANGED <<event, boxPid, boxSeq, enters, cur, older, peer, todo, wasHeld,
                   retryable, served, dispatch, view, world, ghosts>>

\* The event becomes SENT and the dispatch is remembered.
EventSent ==
    /\ pc = "event_sent"
    /\ event' = [event EXCEPT ![cur] = "SENT"]
    /\ dispatch' = [dispatch EXCEPT ![TargetOf[cur]] = [pid |-> peer, seen |-> FALSE]]
    /\ moved' = moved \ {peer}
    /\ served' = served \union {TargetOf[cur]}
    /\ todo' = todo \ {cur}
    /\ cur' = 0 /\ peer' = NoPid /\ pc' = "deliver"
    /\ UNCHANGED <<box, boxPid, boxSeq, enters, older, wasHeld, retryable, view, live, gone,
                   screen, draft, folded, accepted, writer, ghosts>>

EndCycle ==
    /\ pc = "deliver" /\ todo = {}
    /\ wasHeld' = {} /\ retryable' = {} /\ served' = {}
    /\ view' = EmptyView
    /\ pc' = "idle"
    /\ UNCHANGED <<durable, cur, older, peer, todo, dispatch, world, ghosts>>

-----------------------------------------------------------------------------
(* The web process dies between two steps; createStore quarantines what was   *)
(* being sent when it opens the database again.                               *)
Crash ==
    /\ pc # "down" /\ Fault("crash")
    /\ pc' = "down" /\ cur' = 0 /\ older' = 0 /\ peer' = NoPid
    /\ todo' = {} /\ wasHeld' = {} /\ retryable' = {} /\ served' = {}
    /\ dispatch' = [t \in Targets |-> NoDispatch]
    /\ view' = EmptyView
    /\ UNCHANGED <<durable, world, written, taken, cleared>>

\* Variant: what was being sent is queued again.
Requeued(status) == IF status = "SENDING" THEN "QUEUED" ELSE status

\* createStore: UPDATE message_outbox SET status = 'UNCERTAIN' WHERE status = 'SENDING'
Quarantined(status) == IF status = "SENDING" THEN "UNCERTAIN" ELSE status

Restart ==
    /\ pc = "down"
    /\ box' = [e \in Events |-> Quarantined(box[e])]
    /\ pc' = "idle"
    /\ UNCHANGED <<event, boxPid, boxSeq, enters, cur, older, peer, todo, wasHeld,
                   retryable, served, dispatch, view, world, ghosts>>

-----------------------------------------------------------------------------
(* The world.                                                                 *)

SessionStarts(p) ==
    /\ p \notin live \union gone
    /\ live' = live \union {p}
    /\ writer' = [writer EXCEPT ![HomeOf[p]] = p]
    /\ UNCHANGED <<durable, memory, gone, screen, draft, folded, accepted, moved, ghosts>>

SessionDies(p) ==
    /\ p \in live /\ Fault("death")
    /\ live' = live \ {p} /\ gone' = gone \union {p}
    /\ screen' = [screen EXCEPT ![p] = "WAITING_INPUT"]
    /\ draft' = [draft EXCEPT ![p] = NoDraft]
    /\ folded' = folded \ {p} /\ moved' = moved \ {p}
    /\ UNCHANGED <<durable, memory, accepted, writer, written, taken, cleared>>

\* A turn is not over before the two statements that follow its Enter.
TurnEnds(p) ==
    /\ p \in live /\ screen[p] = "WORKING"
    /\ ~(pc \in {"mark", "event_sent"} /\ peer = p)
    /\ screen' = [screen EXCEPT ![p] = "WAITING_INPUT"]
    /\ moved' = moved \union {p}
    /\ UNCHANGED <<durable, memory, live, gone, draft, folded, accepted, writer, ghosts>>

\* A confirmation, a rate limit, an unreadable tail; and back.
Noise(p) ==
    /\ p \in live
    /\ \/ /\ screen[p] = "WAITING_INPUT" /\ Fault("noise")
          /\ screen' = [screen EXCEPT ![p] = "OTHER"]
       \/ /\ screen[p] = "OTHER" /\ UNCHANGED faults
          /\ screen' = [screen EXCEPT ![p] = "WAITING_INPUT"]
    /\ UNCHANGED <<durable, memory, live, gone, draft, folded, accepted, writer, moved,
                   written, taken, cleared>>

\* The user submits the draft, or deletes it.
HumanSubmits(p) ==
    /\ p \in live /\ draft[p] # NoDraft /\ Fault("human")
    /\ Submitted(p)
    /\ UNCHANGED <<durable, memory, live, gone, moved, written, cleared>>

HumanDeletes(p) ==
    /\ p \in live /\ draft[p] # NoDraft /\ Fault("human")
    /\ draft' = [draft EXCEPT ![p] = NoDraft]
    /\ folded' = folded \ {p}
    /\ UNCHANGED <<durable, memory, live, gone, screen, accepted, writer, moved, written, taken,
                   cleared>>

\* The markers leave the bounded tail of the newest history file that is read.
Rotate(p) ==
    /\ accepted[p] # {} /\ Fault("rotate")
    /\ accepted' = [accepted EXCEPT ![p] = {}]
    /\ UNCHANGED <<durable, memory, live, gone, screen, draft, folded, writer, moved, written,
                   taken, cleared>>

-----------------------------------------------------------------------------
Engine ==
    \/ BeginCycle \/ ResolveEvent \/ Observe
    \/ ResolveOlder \/ FinishAck \/ RetryPressed \/ StartDeliver \/ SessionsListed
    \/ Claim \/ Paste \/ PressEnter \/ MarkSent \/ EventSent \/ EndCycle
    \/ Restart
    \/ \E e \in Events :
          \/ ReconcileVanished(e) \/ ReconcileAck(e) \/ SupersedeOlder(e)
          \/ RetryEnter(e) \/ ReconcileSkip(e)
          \/ SkipServed(e) \/ Hold(e)
          \/ \E p \in Pids : Blocked(e, p) \/ Insert(e, p) \/ Requeue(e, p) \/ AlreadySent(e, p)

Failures == Crash \/ RetryFailed \/ SendFails

Requests == \E e \in Events : Create(e) \/ Dismiss(e) \/ WithdrawMessage(e)

World == \E p \in Pids :
    \/ SessionStarts(p) \/ SessionDies(p) \/ TurnEnds(p) \/ Noise(p)
    \/ HumanSubmits(p) \/ HumanDeletes(p) \/ Rotate(p)

Next == Engine \/ Failures \/ Requests \/ World

Spec == Init /\ [][Next]_vars

(* The cycle runs on a timer and every await in it is bounded by a timeout;   *)
(* an Enter retry that stays due is eventually issued (enterRetryMs passes);  *)
(* a turn of Claude ends.                                                     *)
Fairness == /\ WF_vars(Engine)
            /\ \A e \in Events : SF_vars(RetryEnter(e))
            /\ \A p \in Pids : WF_vars(TurnEnds(p))

FairSpec == Spec /\ Fairness
-----------------------------------------------------------------------------
(* Properties.                                                                *)

Promise == INSTANCE AtMostOnce WITH
    writes <- written, acked <- {e \in Events : box[e] = "ACKED"}

\* The outbox keeps its promise: the text of an event is typed into a terminal
\* at most once across retries, failed sends and restarts, and a message is
\* ACKED only after its text was typed.  (claim only from QUEUED, SENDING
\* quarantined by createStore, INSERT OR IGNORE.)
KeepsPromise == Promise!Spec

\* Messages on their way to one process never overtake each other: at most one
\* is queued, being sent or awaiting its acknowledgement.
OneInFlight ==
    \A m, n \in Events :
        (/\ box[m] \in Blocking /\ box[n] \in Blocking
         /\ boxPid[m] = boxPid[n] /\ TargetOf[m] = TargetOf[n]) => m = n

\* DELIVERED means acknowledged, and acknowledged means that Claude really got
\* the text: no crash, error or supersession lets the ledger claim a delivery
\* that did not happen.
DeliveredIsTrue ==
    \A e \in Events : /\ event[e] = "DELIVERED" => box[e] = "ACKED"
                      /\ box[e] = "ACKED" => e \in taken

\* A text exists at most once: it is not both submitted and still a draft, nor
\* a draft in two terminals, so no later Enter can submit it again.
TextLivesOnce ==
    \A e \in Events : \A p \in Pids :
        draft[p] = e => e \notin taken /\ \A q \in Pids : draft[q] = e => q = p

\* A message is given up only for cause: its event's condition ended, or a
\* message inserted later for the same process was acknowledged.
SupersededForCause ==
    \A m \in Events : box[m] = "SUPERSEDED" =>
        \/ m \in cleared
        \/ \E n \in Events : /\ box[n] = "ACKED" /\ boxSeq[n] > boxSeq[m]
                             /\ boxPid[n] = boxPid[m] /\ TargetOf[n] = TargetOf[m]

\* An event shown as SENT has a message that was handed to a terminal and whose
\* fate is still tracked or known; it never hides a queued or failed message.
SentIsTracked ==
    \A e \in Events : event[e] = "SENT" =>
        box[e] \in {"SENT_AWAITING_ACK", "UNCERTAIN", "ACKED", "SUPERSEDED"}

\* The user's dismissal stands unless the running pass had already read the
\* event, or its text is already out and its acknowledgement arrives.
DismissalStands ==
    [][\A e \in Events :
         event[e] = "DISMISSED" /\ event'[e] # "DISMISSED" =>
            e \in todo \/ written[e] > 0]_vars

\* What a message says of its event is not what the event says: the message was
\* never sent, or only one of the two statements that end a step was executed.
HalfDone(e) == \/ box[e] \in {"QUEUED", "SENDING"}
               \/ box[e] \in Retryable /\ event[e] # "SENT"
               \/ box[e] = "ACKED" /\ event[e] # "DELIVERED"

\* The cycle is about to finish what it does to the message.
InHand(e) == cur = e /\ pc \in {"claim", "paste", "enter", "mark", "event_sent", "supersede",
                                "resolve_older"}

LeftHalfDone == {e \in Events : HalfDone(e) /\ ~InHand(e)}

\* Only a crash leaves a message half done, and only the one it worked on:
\* neither errors nor dismissals nor withdrawals set the two tables apart.
OneLeftPerCrash ==
    /\ Cardinality(LeftHalfDone) <= faults
    /\ "crash" \notin Faults => LeftHalfDone = {}

\* A message that is over stays what it is, and none ever changes its process.
MessagesAreFinal ==
    [][\A e \in Events :
         /\ box[e] \in {"ACKED", "FAILED", "SUPERSEDED"} => box'[e] = box[e]
         /\ box[e] # "ABSENT" => boxPid'[e] = boxPid[e] /\ boxSeq'[e] = boxSeq[e]]_vars

Reachable(t) == Cardinality({p \in live : HomeOf[p] = t}) = 1

StaysUp == [](pc # "down")

\* While the web process stays up, every listed event of a target with one
\* running session is eventually sent: no older event, swallowed Enter or
\* dispatch that is never seen to end holds it back for good.
EventuallySent ==
    StaysUp => \A e \in Events :
        (event[e] \in Listed /\ Reachable(TargetOf[e])) ~> event[e] \notin Listed

\* What Claude has received is eventually recorded as DELIVERED.
EventuallyDelivered == \A e \in Events : (e \in taken) ~> (event[e] = "DELIVERED")

\* That holds while the web process stays up.
DeliveredWhileUp == StaysUp => EventuallyDelivered

\* What Claude has received is eventually acknowledged in the outbox, also when
\* the web process dies at any point of the send.
EvidenceIsRecorded == \A e \in Events : (e \in taken) ~> (box[e] = "ACKED")

\* A quarantined (UNCERTAIN) message does not block the session for the events
\* that have no message yet.  It does: see Known behaviours in the README.
UncertainDoesNotBlock ==
    \A m, e \in Events :
        (/\ box[m] = "UNCERTAIN" /\ box[e] = "ABSENT" /\ event[e] \in Listed
         /\ TargetOf[m] = TargetOf[e] /\ Reachable(TargetOf[e]))
        ~> (box[e] # "ABSENT")

\* An Enter retry submits the draft of its own message or none.  It may submit
\* another one that is collapsed: see Known behaviours in the README.
RetriesOwnDraft ==
    pc = "retry" /\ peer \in live /\ draft[peer] # NoDraft => draft[peer] = cur
=============================================================================
