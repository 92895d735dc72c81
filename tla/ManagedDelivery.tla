-------------------------- MODULE ManagedDelivery --------------------------
(* Delivery of operational events to Claude sessions that the broker runs:    *)
(* the cycle of src/automation-engine.js (control session, watchdog, deliver  *)
(* pass), the approvals of people (deliver), and the requests that both make  *)
(* of the broker (src/broker-client.js, src/broker-rpc.js).                   *)
(*                                                                            *)
(* There is no outbox on this path: an event is typed, then marked.  The web  *)
(* process is one thread, so actors interleave where they await an answer.    *)
EXTENDS Integers, Sequences, FiniteSets

CONSTANTS
    NumEvents,   \* automation events, numbered by their row id
    Targets,     \* configured projects and controls
    Control,     \* the target GPU_SCHEDULER, whose session is kept alive
    TargetOf,    \* the target of an event
    Sessions,    \* the managed sessions that may ever be started
    NoSession,
    ProjectOf,   \* the target of a session
    Approvals,   \* requests of people to deliver an event
    Cycle,       \* the engine's cycle
    Faults,      \* which of FaultKinds may occur
    MaxFaults    \* bound on their number

Events == 1..NumEvents
Actors == Approvals \union {Cycle}
\* A client that gives up after five seconds; deaths of the web process and of the
\* broker; a session that cannot be started; a dismissal, a stop, a session that a
\* person starts or sends its prompt; a Claude Code process in iTerm that appears
\* or leaves.
FaultKinds == {"timeout", "web", "broker", "spawn", "dismiss", "stop", "start", "prompt",
               "terminal"}

ASSUME NumEventsAssumption == NumEvents \in Nat
ASSUME TargetAssumption == /\ TargetOf \in [Events -> Targets]
                           /\ ProjectOf \in [Sessions -> Targets]
ASSUME NullAssumption == NoSession \notin Sessions /\ Cycle \notin Approvals
ASSUME FaultsAssumption == Faults \subseteq FaultKinds
ASSUME BoundsAssumption == MaxFaults \in Nat

VARIABLES
    event,       \* durable: status of an automation event, "NONE" before its INSERT
    \* the broker
    up, status, boot, retry,
    outside,     \* the external sessions of a target: none, one that takes input
                 \* ("ready"), or no such or several ("busy")
    \* memory of the web process
    pc,          \* where an actor is
    wire,        \* its request: not served yet, answered, refused or lost
    cur,         \* the event it works on
    peer,        \* the session it works on
    view,        \* what the last list said, as far as the cycle asks, and the
                 \* external snapshot
    todo,        \* sessions whose prompt the watchdog is still to send
    rows,        \* events the deliver pass has read and not handled
    wasHeld,     \* those it read with status HELD
    served,      \* deliveredTargets
    \* requests whose client gave up before they were served
    late,        \* inputs, by actor and event: the sessions they are for
    lateStarts, lateBoots,
    \* history: texts typed, answers to the cycle's inputs that it never learnt,
    \* events it marked as delivered
    typed, lost, marked, faults

B == INSTANCE BrokerSessions

broker == <<up, status, boot, retry>>
lates == <<late, lateStarts, lateBoots>>
engine == <<view, todo, rows, wasHeld, served>>
actors == <<pc, wire, cur, peer>>
history == <<typed, lost, marked>>
vars == <<event, broker, outside, actors, engine, lates, history, faults>>

EventStatus == {"NONE", "PENDING", "HELD", "SENT", "DELIVERED", "DISMISSED"}
Listed == {"PENDING", "HELD"}
CycleSteps == {"down", "idle", "ensure", "revive", "watch", "sessions", "boot", "list", "deliver",
               "input", "start", "relist"}
ApprovalSteps == {"new", "choose", "input", "done"}
\* Where an actor awaits an answer of the broker, and what it asked for.
Lists == {"ensure", "watch", "list", "relist"}
Starts == {"revive", "start"}
Awaits == Lists \union Starts \union {"choose", "boot", "input"}

\* Whether the control session is active, the sessions that take input, the
\* targets that need a login; the external snapshot, and whether it was taken.
Outside == {"none", "busy", "ready"}
Unread == [control |-> FALSE, accepts |-> {}, blocked |-> {},
           outside |-> [t \in Targets |-> "none"], read |-> FALSE]

TypeOK ==
    /\ event \in [Events -> EventStatus]
    /\ B!TypeOK
    /\ outside \in [Targets -> Outside]
    /\ pc \in [Actors -> CycleSteps \union ApprovalSteps]
    /\ wire \in [Actors -> {"none", "sent", "ok", "error"}]
    /\ cur \in [Actors -> Events \union {0}]
    /\ peer \in [Actors -> Sessions \union {NoSession}]
    /\ view \in [control : BOOLEAN, accepts : SUBSET Sessions, blocked : SUBSET Targets,
                 outside : [Targets -> Outside], read : BOOLEAN]
    /\ todo \subseteq Sessions /\ rows \subseteq Events /\ wasHeld \subseteq Events
    /\ served \subseteq Targets
    /\ late \in [Actors -> [Events -> Seq(Sessions)]]
    /\ lateStarts \in Nat /\ lateBoots \subseteq Sessions
    /\ typed \in [Actors -> [Events -> Nat]]
    /\ lost \in [Events -> Nat] /\ marked \subseteq Events
    /\ faults \in Nat

Init ==
    /\ event = [e \in Events |-> "NONE"]
    /\ B!Init
    /\ outside = [t \in Targets |-> "none"]
    /\ pc = [a \in Actors |-> IF a = Cycle THEN "idle" ELSE "new"]
    /\ wire = [a \in Actors |-> "none"]
    /\ cur = [a \in Actors |-> 0] /\ peer = [a \in Actors |-> NoSession]
    /\ view = Unread /\ todo = {} /\ rows = {} /\ wasHeld = {} /\ served = {}
    /\ late = [a \in Actors |-> [e \in Events |-> <<>>]]
    /\ lateStarts = 0 /\ lateBoots = {}
    /\ typed = [a \in Actors |-> [e \in Events |-> 0]]
    /\ lost = [e \in Events |-> 0] /\ marked = {} /\ faults = 0

Fault(kind) == kind \in Faults /\ faults < MaxFaults /\ faults' = faults + 1
NoFault == UNCHANGED faults

\* The cycle holds the thread between two events of its deliver pass.
Awaiting == pc[Cycle] \notin {"down", "deliver"}

-----------------------------------------------------------------------------
(* Requests.  Actor a asks at step; the answer is "ok" or "error", at once if  *)
(* nobody listens at the socket.                                              *)

Ask(a, step) ==
    /\ pc' = [pc EXCEPT ![a] = step]
    /\ wire' = [wire EXCEPT ![a] = IF up THEN "sent" ELSE "error"]

Proceed(a, step) ==
    /\ pc' = [pc EXCEPT ![a] = step]
    /\ wire' = [wire EXCEPT ![a] = "none"]

Answered(a, step) == pc[a] = step /\ wire[a] = "ok"
Failed(a, steps) == pc[a] \in steps /\ wire[a] = "error"
Returned(a, steps) == pc[a] \in steps /\ wire[a] \in {"ok", "error"}
Asked(a, steps) == up /\ pc[a] \in steps /\ wire[a] = "sent"
Reply(a, answer) == wire' = [wire EXCEPT ![a] = answer]

\* Variant: only a session that waits.
AcceptsPlainly(s) == s \notin retry /\ status[s] = "WAITING_INPUT"

\* acceptsManagedOperationalInput
Accepts(s) == /\ s \notin retry
              /\ \/ status[s] = "WAITING_INPUT"
                 \/ status[s] = "RUNNING" /\ boot[s] = "SENT"

\* Variant: a session of the control was started once.
ControlKnown == \E s \in Sessions : ProjectOf[s] = Control /\ status[s] # "none"

ControlActive == B!HasSession(Control)

\* The list, and what its caller makes of it.
ServeList(a) ==
    /\ Asked(a, Lists)
    /\ view' = IF pc[a] \in {"ensure", "list", "relist"}
                 THEN [view EXCEPT !.control = ControlActive,
                                   !.accepts = {s \in Sessions : Accepts(s)},
                                   !.blocked = {ProjectOf[s] : s \in retry}]
                 ELSE view
    /\ todo' = IF pc[a] = "watch"
                 THEN {s \in Sessions : status[s] = "WAITING_INPUT" /\ boot[s] = "PENDING"}
                 ELSE todo
    /\ Reply(a, "ok")
    /\ UNCHANGED <<event, broker, outside, pc, cur, peer, rows, wasHeld, served, lates, history,
                   faults>>

\* deliver: the session that waits, or the one that the request names, if it waits.
Waiting(t) == {s \in Sessions : /\ ProjectOf[s] = t
                                /\ status[s] = "WAITING_INPUT" /\ s \notin retry}

ServeChoice(a) ==
    /\ Asked(a, {"choose"})
    /\ \E s \in Waiting(TargetOf[cur[a]]) \union {NoSession} : peer' = [peer EXCEPT ![a] = s]
    /\ Reply(a, "ok")
    /\ UNCHANGED <<event, broker, outside, pc, cur, engine, lates, history, faults>>

ServeInput(a) ==
    /\ Asked(a, {"input"})
    /\ B!Input(peer[a])
    /\ typed' = [typed EXCEPT ![a][cur[a]] = @ + 1]
    /\ Reply(a, "ok")
    /\ UNCHANGED <<event, outside, pc, cur, peer, engine, lates, lost, marked, faults>>

ServeBootstrap(a) ==
    /\ Asked(a, {"boot"})
    /\ B!Bootstrap(peer[a])
    /\ Reply(a, "ok")
    /\ UNCHANGED <<event, outside, pc, cur, peer, engine, lates, history, faults>>

\* Which of the unused sessions is started is a matter of form.
Unused(s) == /\ status[s] = "none"
             /\ s = CHOOSE r \in Sessions : ProjectOf[r] = ProjectOf[s] /\ status[r] = "none"

\* Every start of the engine is one of the control session.
StartControl(s) == ProjectOf[s] = Control /\ Unused(s) /\ B!Start(s, TRUE)

ServeStart(a) ==
    /\ Asked(a, Starts)
    /\ \E s \in Sessions :
           \/ StartControl(s) /\ Reply(a, "ok") /\ UNCHANGED faults
           \/ /\ ProjectOf[s] = Control /\ Unused(s) /\ B!StartFails(s)
              /\ Reply(a, "error") /\ Fault("spawn")
    /\ UNCHANGED <<event, outside, pc, cur, peer, engine, lates, history>>

\* A session can be started (bound: Sessions are used up one by one).
Startable == \E s \in Sessions : ProjectOf[s] = Control /\ status[s] = "none"

Unbootable(s) == status[s] \notin B!Active \/ (boot[s] = "SENT" /\ s \notin retry)

\* Variant: what a session that has ended is sent is dropped.
RefuseSilently(a) ==
    /\ \/ Asked(a, {"input"}) /\ status[peer[a]] \notin B!Active
       \/ Asked(a, {"boot"}) /\ Unbootable(peer[a])
       \/ Asked(a, Starts) /\ (B!HasSession(Control) \/ ~Startable)
    /\ Reply(a, IF pc[a] = "input" THEN "ok" ELSE "error")
    /\ UNCHANGED <<event, broker, outside, pc, cur, peer, engine, lates, history, faults>>

\* The session does not run, has its prompt already, or another one runs.
Refuse(a) ==
    /\ \/ Asked(a, {"input"}) /\ status[peer[a]] \notin B!Active
       \/ Asked(a, {"boot"}) /\ Unbootable(peer[a])
       \/ Asked(a, Starts) /\ (B!HasSession(Control) \/ ~Startable)
    /\ Reply(a, "error")
    /\ UNCHANGED <<event, broker, outside, pc, cur, peer, engine, lates, history, faults>>

\* Actors stop waiting.  What was sent may still be served; of an input of the
\* cycle it is not known whether it was.
Forsake(gone) ==
    LET Open(a, steps) == a \in gone /\ pc[a] \in steps /\ wire[a] = "sent"
    IN  /\ late' = [a \in Actors |-> [e \in Events |->
                        IF Open(a, {"input"}) /\ cur[a] = e THEN Append(late[a][e], peer[a])
                                                           ELSE late[a][e]]]
        /\ lateStarts' = lateStarts + (IF Open(Cycle, Starts) THEN 1 ELSE 0)
        /\ lateBoots' = lateBoots \union {peer[a] : a \in {b \in Actors : Open(b, {"boot"})}}
        /\ lost' = [e \in Events |->
                        IF /\ Cycle \in gone /\ pc[Cycle] = "input" /\ cur[Cycle] = e
                           /\ wire[Cycle] \in {"sent", "ok"}
                          THEN lost[e] + 1 ELSE lost[e]]

\* Five seconds without an answer, or a connection that breaks on its way back.
Timeout(a) ==
    /\ pc[a] \in Awaits /\ wire[a] \in {"sent", "ok"}
    /\ Fault("timeout")
    /\ Forsake({a})
    /\ Reply(a, "error")
    /\ UNCHANGED <<event, broker, outside, pc, cur, peer, engine, typed, marked>>

\* The broker serves what nobody waits for any more.
ServeLateInput(a, e) ==
    /\ up /\ late[a][e] # <<>>
    /\ late' = [late EXCEPT ![a][e] = Tail(@)]
    /\ \/ /\ B!Input(Head(late[a][e]))
          /\ typed' = [typed EXCEPT ![a][e] = @ + 1]
       \/ /\ status[Head(late[a][e])] \notin B!Active
          /\ UNCHANGED <<broker, typed>>
    /\ UNCHANGED <<event, outside, actors, engine, lateStarts, lateBoots, lost, marked, faults>>

ServeLateStart ==
    /\ up /\ lateStarts > 0
    /\ lateStarts' = lateStarts - 1
    /\ \/ \E s \in Sessions : StartControl(s)
       \/ (B!HasSession(Control) \/ ~Startable) /\ UNCHANGED broker
    /\ UNCHANGED <<event, outside, actors, engine, late, lateBoots, history, faults>>

ServeLateBootstrap(s) ==
    /\ up /\ s \in lateBoots
    /\ lateBoots' = lateBoots \ {s}
    /\ B!Bootstrap(s) \/ (Unbootable(s) /\ UNCHANGED broker)
    /\ UNCHANGED <<event, outside, actors, engine, late, lateStarts, history, faults>>

-----------------------------------------------------------------------------
(* #ensurePersistentControls.  When a list fails, the cycle does.             *)

BeginCycle ==
    /\ pc[Cycle] = "idle"
    /\ Ask(Cycle, "ensure")
    /\ UNCHANGED <<event, broker, outside, cur, peer, engine, lates, history, faults>>

Release == /\ cur' = [cur EXCEPT ![Cycle] = 0]
           /\ peer' = [peer EXCEPT ![Cycle] = NoSession]

\* The locals of the cycle and its snapshot are gone when it ends.
Finish ==
    /\ Proceed(Cycle, "idle") /\ Release
    /\ view' = Unread /\ rows' = {} /\ wasHeld' = {} /\ served' = {}

CycleFails ==
    /\ Failed(Cycle, Lists)
    /\ Finish
    /\ UNCHANGED <<event, broker, outside, todo, lates, history, faults>>

\* The list was a local; externalSnapshot is taken once in a cycle, when needed.
Drop == view' = [Unread EXCEPT !.outside = view.outside, !.read = view.read]
Look == view' = [Unread EXCEPT !.outside = IF view.read THEN view.outside ELSE outside,
                               !.read = TRUE]

ControlFound ==
    /\ Answered(Cycle, "ensure") /\ view.control
    /\ Drop
    /\ Ask(Cycle, "watch")
    /\ UNCHANGED <<event, broker, outside, cur, peer, todo, rows, wasHeld, served, lates, history,
                   faults>>

ControlMissing ==
    /\ Answered(Cycle, "ensure") /\ ~view.control
    /\ Look
    /\ Ask(Cycle, IF outside[Control] = "none" THEN "revive" ELSE "watch")
    /\ UNCHANGED <<event, broker, outside, cur, peer, todo, rows, wasHeld, served, lates, history,
                   faults>>

ControlRevived ==
    /\ Returned(Cycle, {"revive"})
    /\ Ask(Cycle, "watch")
    /\ UNCHANGED <<event, broker, outside, cur, peer, engine, lates, history, faults>>

-----------------------------------------------------------------------------
(* #watchSessions: the project prompts that are due.                          *)

PromptsDue ==
    /\ Answered(Cycle, "watch")
    /\ Proceed(Cycle, "sessions")
    /\ UNCHANGED <<event, broker, outside, cur, peer, engine, lates, history, faults>>

SendPrompt(s) ==
    /\ pc[Cycle] = "sessions" /\ s \in todo
    /\ todo' = todo \ {s}
    /\ Ask(Cycle, "boot") /\ peer' = [peer EXCEPT ![Cycle] = s]
    /\ UNCHANGED <<event, broker, outside, cur, view, rows, wasHeld, served, lates, history,
                   faults>>

PromptSent ==
    /\ Returned(Cycle, {"boot"})
    /\ Proceed(Cycle, "sessions") /\ peer' = [peer EXCEPT ![Cycle] = NoSession]
    /\ UNCHANGED <<event, broker, outside, cur, engine, lates, history, faults>>

-----------------------------------------------------------------------------
(* #deliverPending: read the rows, await the list, serve each event.          *)

ReadRows ==
    /\ pc[Cycle] = "sessions" /\ todo = {}
    /\ LET listed == {e \in Events : event[e] \in Listed} IN
       IF listed = {}
         THEN Finish
         ELSE /\ Ask(Cycle, "list")
              /\ Look
              /\ rows' = listed
              /\ wasHeld' = {e \in Events : event[e] = "HELD"}
              /\ UNCHANGED <<cur, peer, served>>
    /\ UNCHANGED <<event, broker, outside, todo, lates, history, faults>>

SessionsListed ==
    /\ Answered(Cycle, "list")
    /\ Proceed(Cycle, "deliver")
    /\ UNCHANGED <<event, broker, outside, cur, peer, engine, lates, history, faults>>

NextRow(e) == /\ pc[Cycle] = "deliver"
              /\ e \in rows /\ \A f \in rows : e <= f
              /\ rows' = rows \ {e}

Fresh(e) == NextRow(e) /\ TargetOf[e] \notin served

Candidates(t) == {s \in view.accepts : ProjectOf[s] = t}

\* A login was missing in some session of the target, whatever became of it.
AuthBlocked(t) == t \in view.blocked

SkipServed(e) ==
    /\ NextRow(e) /\ TargetOf[e] \in served
    /\ UNCHANGED <<event, broker, outside, actors, view, todo, wasHeld, served, lates, history,
                   faults>>

SendInput(e) ==
    /\ Fresh(e)
    /\ \E s \in view.accepts : /\ Candidates(TargetOf[e]) = {s}
                               /\ peer' = [peer EXCEPT ![Cycle] = s]
    /\ cur' = [cur EXCEPT ![Cycle] = e]
    /\ Ask(Cycle, "input")
    /\ UNCHANGED <<event, broker, outside, view, todo, wasHeld, served, lates, history, faults>>

\* Variant: the row is left as it is.
InputNotMarked ==
    /\ Answered(Cycle, "input")
    /\ marked' = marked \union {cur[Cycle]}
    /\ served' = served \union {TargetOf[cur[Cycle]]}
    /\ Proceed(Cycle, "deliver") /\ Release
    /\ UNCHANGED <<event, broker, outside, view, todo, rows, wasHeld, lates, typed, lost, faults>>

InputTyped ==
    /\ Answered(Cycle, "input")
    /\ event' = [event EXCEPT ![cur[Cycle]] = "DELIVERED"]
    /\ marked' = marked \union {cur[Cycle]}
    /\ served' = served \union {TargetOf[cur[Cycle]]}
    /\ Proceed(Cycle, "deliver") /\ Release
    /\ UNCHANGED <<broker, outside, view, todo, rows, wasHeld, lates, typed, lost, faults>>

\* #holdEvent: not written when the row, as it was read, has the reason already.
Held(e) == \/ event' = [event EXCEPT ![e] = "HELD"]
           \/ e \in wasHeld /\ UNCHANGED event

\* The input or the start returned, or the second list.
HoldCurrent ==
    /\ \/ Failed(Cycle, {"input"}) \/ Returned(Cycle, {"start"}) \/ Answered(Cycle, "relist")
    /\ Held(cur[Cycle])
    /\ Proceed(Cycle, "deliver") /\ Release
    /\ UNCHANGED <<broker, outside, engine, lates, history, faults>>

Unmanaged(t) == Candidates(t) = {} /\ ~AuthBlocked(t)

\* More than one session takes the event, or none does and none is started for it,
\* for the control because there is one outside.
Hold(e) ==
    /\ Fresh(e)
    /\ LET t == TargetOf[e] IN
       \/ Cardinality(Candidates(t)) > 1
       \/ Candidates(t) = {} /\ AuthBlocked(t)
       \/ Unmanaged(t) /\ view.outside[t] = "none" /\ t # Control
       \/ Unmanaged(t) /\ view.outside[t] = "busy"
    /\ Held(e)
    /\ UNCHANGED <<broker, outside, actors, view, todo, wasHeld, served, lates, history, faults>>

\* The attempt of ExternalDelivery: the text is sent, and from here on the event is
\* with that module; or it fails, or an earlier message is in the way.
HandOver(e) ==
    /\ Fresh(e) /\ Unmanaged(TargetOf[e]) /\ view.outside[TargetOf[e]] = "ready"
    /\ \/ /\ event' = [event EXCEPT ![e] = "SENT"]
          /\ served' = served \union {TargetOf[e]}
       \/ /\ Held(e) \/ UNCHANGED event
          /\ served' \in {served, served \union {TargetOf[e]}}
    /\ UNCHANGED <<broker, outside, actors, view, todo, wasHeld, lates, history, faults>>

\* #maybeStartControl: nothing is started while a control session is active.
AskControl(e) ==
    /\ Fresh(e) /\ TargetOf[e] = Control
    /\ Unmanaged(Control)
    /\ view.outside[Control] = "none" \/ (view.outside[Control] = "busy" /\ view.control)
    /\ Ask(Cycle, IF view.control THEN "relist" ELSE "start")
    /\ cur' = [cur EXCEPT ![Cycle] = e]
    /\ UNCHANGED <<event, broker, outside, peer, view, todo, wasHeld, served, lates, history,
                   faults>>

EndCycle ==
    /\ pc[Cycle] = "deliver" /\ rows = {}
    /\ Finish
    /\ UNCHANGED <<event, broker, outside, todo, lates, history, faults>>

-----------------------------------------------------------------------------
(* deliver, the request of a person; it ends with the status or an error.     *)

Approve(a, e) ==
    /\ Awaiting /\ pc[a] = "new" /\ event[e] \in Listed
    /\ Ask(a, "choose") /\ cur' = [cur EXCEPT ![a] = e]
    /\ UNCHANGED <<event, broker, outside, peer, engine, lates, history, faults>>

ApprovalSends(a) ==
    /\ Awaiting /\ a \in Approvals /\ Answered(a, "choose") /\ peer[a] # NoSession
    /\ Ask(a, "input")
    /\ UNCHANGED <<event, broker, outside, cur, peer, engine, lates, history, faults>>

ApprovalTyped(a) ==
    /\ Awaiting /\ a \in Approvals /\ Answered(a, "input")
    /\ event' = [event EXCEPT ![cur[a]] = "DELIVERED"]
    /\ Proceed(a, "done")
    /\ UNCHANGED <<broker, outside, cur, peer, engine, lates, history, faults>>

ApprovalFails(a) ==
    /\ Awaiting /\ a \in Approvals
    /\ Failed(a, {"choose", "input"}) \/ (Answered(a, "choose") /\ peer[a] = NoSession)
    /\ Proceed(a, "done")
    /\ UNCHANGED <<event, broker, outside, cur, peer, engine, lates, history, faults>>

-----------------------------------------------------------------------------
(* The rest of the world.                                                     *)

Raise(e) ==
    /\ Awaiting /\ event[e] = "NONE"
    /\ event' = [event EXCEPT ![e] = "PENDING"]
    /\ UNCHANGED <<broker, outside, actors, engine, lates, history, faults>>

Dismiss(e) ==
    /\ Awaiting /\ event[e] \in Listed /\ Fault("dismiss")
    /\ event' = [event EXCEPT ![e] = "DISMISSED"]
    /\ UNCHANGED <<broker, outside, actors, engine, lates, history>>

\* Claude, and a person at the page, who is not let start a session beside an
\* external one.
Session(s) ==
    /\ \/ B!Claude(s) /\ UNCHANGED faults
       \/ B!Stop(s) /\ Fault("stop")
       \/ B!Bootstrap(s) /\ Fault("prompt")
       \/ /\ outside[ProjectOf[s]] = "none" /\ Unused(s) /\ Fault("start")
          /\ \E bootstrap \in BOOLEAN : B!Start(s, bootstrap)
    /\ UNCHANGED <<event, outside, actors, engine, lates, history>>

\* It appears or leaves, or begins or ceases to take input.
Terminal(t) ==
    /\ \E o \in Outside \ {outside[t]} :
           /\ outside' = [outside EXCEPT ![t] = o]
           /\ IF "none" \in {o, outside[t]} THEN Fault("terminal") ELSE NoFault
    /\ UNCHANGED <<event, broker, actors, engine, lates, history>>

\* What is on its way to the broker may reach it.
WebDies ==
    /\ pc[Cycle] # "down" /\ Fault("web")
    /\ Forsake(Actors)
    /\ pc' = [a \in Actors |-> IF a = Cycle THEN "down" ELSE IF pc[a] = "new" THEN "new" ELSE "done"]
    /\ wire' = [a \in Actors |-> "none"]
    /\ Release
    /\ view' = Unread /\ todo' = {} /\ rows' = {} /\ wasHeld' = {} /\ served' = {}
    /\ UNCHANGED <<event, broker, outside, typed, marked>>

WebStarts ==
    /\ pc[Cycle] = "down"
    /\ Proceed(Cycle, "idle")
    /\ UNCHANGED <<event, broker, outside, cur, peer, engine, lates, history, faults>>

\* Connections break; an answer may have been on its way.
BrokerDies ==
    /\ B!Crash /\ Fault("broker")
    /\ \A s \in Sessions : status'[s] # status[s] => Unused(s)
    /\ \E cut \in SUBSET {a \in Actors : wire[a] = "ok"} :
           /\ wire' = [a \in Actors |-> IF a \in cut \/ wire[a] = "sent" THEN "error" ELSE wire[a]]
           /\ lost' = [e \in Events |-> IF Cycle \in cut /\ pc[Cycle] = "input" /\ cur[Cycle] = e
                                          THEN lost[e] + 1 ELSE lost[e]]
    /\ late' = [a \in Actors |-> [e \in Events |-> <<>>]]
    /\ lateStarts' = 0 /\ lateBoots' = {}
    /\ UNCHANGED <<event, outside, pc, cur, peer, engine, typed, marked>>

BrokerStarts ==
    /\ B!Restart
    /\ UNCHANGED <<event, outside, actors, engine, lates, history, faults>>

-----------------------------------------------------------------------------
Serve(a) == \/ ServeList(a) \/ ServeChoice(a) \/ ServeInput(a) \/ ServeBootstrap(a)
            \/ ServeStart(a) \/ Refuse(a)

ServeLate == \/ \E a \in Actors, e \in Events : ServeLateInput(a, e)
             \/ ServeLateStart
             \/ \E s \in Sessions : ServeLateBootstrap(s)

Step ==
    \/ BeginCycle \/ CycleFails
    \/ ControlFound \/ ControlMissing \/ ControlRevived
    \/ PromptsDue \/ (\E s \in Sessions : SendPrompt(s)) \/ PromptSent
    \/ ReadRows \/ SessionsListed \/ InputTyped \/ HoldCurrent \/ EndCycle
    \/ \E e \in Events : SkipServed(e) \/ SendInput(e) \/ Hold(e) \/ HandOver(e) \/ AskControl(e)

ApprovalStep(a) == ApprovalSends(a) \/ ApprovalTyped(a) \/ ApprovalFails(a)

Next ==
    \/ Step \/ ServeLate
    \/ \E a \in Actors : Serve(a) \/ Timeout(a)
    \/ \E a \in Approvals : ApprovalStep(a) \/ \E e \in Events : Approve(a, e)
    \/ \E e \in Events : Raise(e) \/ Dismiss(e)
    \/ \E s \in Sessions : Session(s)
    \/ \E t \in Targets : Terminal(t)
    \/ WebDies \/ WebStarts \/ BrokerDies \/ BrokerStarts

Spec == Init /\ [][Next]_vars

(* The timer runs the cycle, the broker serves what is asked, and both        *)
(* processes are started again.  Nothing is assumed of Claude or of people.   *)
Fairness ==
    /\ WF_vars(Step) /\ WF_vars(WebStarts) /\ WF_vars(BrokerStarts)
    /\ \A a \in Actors : WF_vars(Serve(a))
    /\ \A a \in Approvals : WF_vars(ApprovalStep(a))

FairSpec == Spec /\ Fairness

-----------------------------------------------------------------------------
(* Properties.                                                                *)

\* The cycle types the text of an event once, and once more at most for every
\* answer to such an input that it did not get; an approval types it once.
TypedForCause ==
    \A e \in Events : /\ typed[Cycle][e] <= 1 + lost[e]
                      /\ \A a \in Approvals : typed[a][e] <= 1

\* However requests are lost, late or answered out of turn, an event that is
\* marked as delivered was typed.
DeliveredIsTyped ==
    \A e \in Events : event[e] = "DELIVERED" => \E a \in Actors : typed[a][e] > 0

\* Without a client that gives up, and with both processes alive, the cycle types
\* the text of an event once; every fault costs one text more at most.
TextsPerFault ==
    \A e \in Events :
        /\ typed[Cycle][e] <= 1 + faults
        /\ Faults \cap {"timeout", "web", "broker"} = {} => typed[Cycle][e] <= 1

\* What the cycle has marked stays DELIVERED, and the cycle does not ask for it to
\* be typed again.
MarkIsFinal ==
    \A e \in marked : event[e] = "DELIVERED" /\ ~(pc[Cycle] = "input" /\ cur[Cycle] = e)

\* An actor that has read the row of an event and may still write it.
InHand(e) ==
    \/ e \in rows
    \/ pc[Cycle] \in {"input", "start", "relist"} /\ cur[Cycle] = e
    \/ \E a \in Approvals : pc[a] \in {"choose", "input"} /\ cur[a] = e

\* A dismissal, a delivery or a handover that nobody who read the row before it has
\* in hand is never overwritten: the awaits of one pass and of one approval are
\* the only window.
Settled(e) == event[e] \in {"SENT", "DELIVERED", "DISMISSED"} /\ ~InHand(e)
SettledStays == [][\A e \in Events : Settled(e) => Settled(e)' /\ event'[e] = event[e]]_vars

\* A text is typed only into sessions of the target of its event, however late.
RightSession ==
    \A a \in Actors :
        /\ pc[a] = "input" => ProjectOf[peer[a]] = TargetOf[cur[a]]
        /\ \A e \in Events : \A i \in 1..Len(late[a][e]) : ProjectOf[late[a][e][i]] = TargetOf[e]

\* The broker, as the web process uses it here, does nothing that it did not promise.
ImplementsSessions == B!Spec

\* The control session comes back after every end, as long as a session can be
\* started, or there is one outside.
ControlIsRestored ==
    []<>(B!HasSession(Control) \/ outside[Control] # "none" \/ ~Startable)

\* Exactly one session of the target takes input.
Ready(t) == \E s \in Sessions :
                /\ ProjectOf[s] = t
                /\ up /\ s \notin retry
                /\ status[s] = "WAITING_INPUT" \/ (status[s] = "RUNNING" /\ boot[s] = "SENT")
                /\ \A r \in Sessions \ {s} : ProjectOf[r] = t => status[r] \in {"none", "ENDED"}

\* An event does not stay pending or held for ever while its target can take it.
ReadyIsServed ==
    \A e \in Events : <>[](Ready(TargetOf[e])) => (event[e] \in Listed ~> event[e] \notin Listed)
=============================================================================
