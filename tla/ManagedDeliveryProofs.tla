----------------------- MODULE ManagedDeliveryProofs -----------------------
(* Proofs about ManagedDelivery, for any events, sessions, approvals and      *)
(* faults: what is typed for an event, and what a mark says.                  *)
EXTENDS ManagedDelivery, TLAPS

(* The inductive invariant.                                                   *)

\* Where an actor is, it has an event and a session to work on.
Placed ==
    /\ pc[Cycle] \in CycleSteps
    /\ \A a \in Approvals : pc[a] \in ApprovalSteps
    /\ pc[Cycle] \in {"input", "start", "relist"} => cur[Cycle] \in Events \ rows
    /\ \A a \in Approvals : pc[a] \in {"choose", "input"} => cur[a] \in Events
    /\ \A a \in Actors : pc[a] = "input" => peer[a] \in Sessions
    /\ pc[Cycle] = "boot" => peer[Cycle] \in Sessions

\* The cycle has done with an event it has marked.
Final ==
    \A e \in marked : /\ event[e] = "DELIVERED" /\ e \notin rows
                      /\ pc[Cycle] \in {"input", "start", "relist"} => cur[Cycle] # e

\* Conditions count as numbers.
One(condition) == IF condition THEN 1 ELSE 0

\* An answer to the input of the cycle is there, and not marked yet.
Open(e) == One(pc[Cycle] = "input" /\ cur[Cycle] = e /\ wire[Cycle] = "ok")

\* What the cycle typed, or what a request of it may still type, was answered to
\* it and marked, is answered now, or was lost.
Counted ==
    \A e \in Events :
        typed[Cycle][e] + Len(late[Cycle][e]) <= lost[e] + Open(e) + One(e \in marked)

\* An approval has typed nothing before its input is served, and nothing twice.
Spent(a) == One(~(pc[a] \in {"new", "choose"} \/ (pc[a] = "input" /\ wire[a] = "sent")))
CountedOnce ==
    \A a \in Approvals, e \in Events : typed[a][e] + Len(late[a][e]) <= Spent(a)

\* An answered input was typed.
Known ==
    /\ DeliveredIsTyped
    /\ \A a \in Actors : pc[a] = "input" /\ wire[a] = "ok" => typed[a][cur[a]] > 0

IInv == TypeOK /\ Placed /\ Final /\ Counted /\ CountedOnce /\ Known
-----------------------------------------------------------------------------
USE TargetAssumption, NullAssumption, BoundsAssumption, NumEventsAssumption

\* Sequences of sessions grow and shrink by one.
LEMMA Queue ==
    ASSUME NEW q \in Seq(Sessions)
    PROVE  /\ Len(q) \in Nat
           /\ \A s \in Sessions : Append(q, s) \in Seq(Sessions) /\ Len(Append(q, s)) = Len(q) + 1
           /\ q # <<>> => /\ Head(q) \in Sessions /\ Tail(q) \in Seq(Sessions)
                          /\ Len(Tail(q)) = Len(q) - 1
OBVIOUS

\* The sessions keep their types, whatever is asked of the broker.
LEMMA SessionTypes ==
    ASSUME B!TypeOK, NEW s \in Sessions, NEW p \in BOOLEAN,
           \/ B!Start(s, p) \/ B!StartFails(s) \/ B!Input(s) \/ B!Bootstrap(s) \/ B!Stop(s)
           \/ B!Claude(s)
    PROVE  B!TypeOK'
<1> USE DEF B!TypeOK, B!Statuses, B!Boots, B!Active, B!To, B!Running, B!Stillborn
<1>1. CASE B!Start(s, p)
  BY <1>1 DEF B!Start
<1>2. CASE B!StartFails(s)
  BY <1>2 DEF B!StartFails
<1>3. CASE B!Input(s)
  BY <1>3 DEF B!Input
<1>4. CASE B!Bootstrap(s)
  BY <1>4 DEF B!Bootstrap
<1>5. CASE B!Stop(s)
  BY <1>5 DEF B!Stop
<1>6. CASE B!Claude(s)
  BY <1>6 DEF B!Claude, B!Greet, B!Output, B!Wait, B!Exit
<1>7. QED
  BY <1>1, <1>2, <1>3, <1>4, <1>5, <1>6

\* So they do when the broker ends, starts, or does nothing.
LEMMA BrokerTypes ==
    ASSUME B!TypeOK, B!Crash \/ B!Restart \/ UNCHANGED broker PROVE B!TypeOK'
<1> USE DEF B!TypeOK, B!Statuses, B!Boots, B!Active, B!To, B!Stillborn
<1>1. CASE B!Crash
  BY <1>1 DEF B!Crash
<1>2. CASE B!Restart
  BY <1>2 DEF B!Restart
<1>3. CASE UNCHANGED broker
  BY <1>3 DEF broker
<1>4. QED
  BY <1>1, <1>2, <1>3

\* What the broker does is not done by the cycle.
LEMMA StepTypesNothing == ASSUME Step PROVE UNCHANGED <<broker, outside, lates, typed, lost, faults>>
<1> USE DEF lates, history
<1>1. CASE \/ BeginCycle \/ CycleFails \/ ControlFound \/ ControlMissing \/ ControlRevived
           \/ PromptsDue \/ PromptSent \/ ReadRows \/ SessionsListed
           \/ \E s \in Sessions : SendPrompt(s)
  BY <1>1 DEF BeginCycle, CycleFails, ControlFound, ControlMissing, ControlRevived, PromptsDue,
              PromptSent, ReadRows, SessionsListed, SendPrompt
<1>2. CASE InputTyped \/ HoldCurrent \/ EndCycle
  BY <1>2 DEF InputTyped, HoldCurrent, EndCycle
<1>3. ASSUME NEW e \in Events,
             SkipServed(e) \/ SendInput(e) \/ Hold(e) \/ HandOver(e) \/ AskControl(e)
      PROVE  UNCHANGED <<broker, outside, lates, typed, lost, faults>>
  BY <1>3 DEF SkipServed, SendInput, Hold, HandOver, AskControl
<1>4. QED
  BY <1>1, <1>2, <1>3 DEF Step

\* A step that the broker serves keeps the types of the sessions.
LEMMA ServedTypes ==
    ASSUME TypeOK, Placed, [Next]_vars PROVE B!TypeOK'
<1> USE DEF TypeOK
<1>1. ASSUME NEW a \in Actors, Serve(a) PROVE B!TypeOK'
  <2>1. CASE ServeInput(a) \/ ServeBootstrap(a)
    <3>1. peer[a] \in Sessions
      BY <2>1 DEF ServeInput, ServeBootstrap, Asked, Placed, Actors, ApprovalSteps
    <3>2. B!Input(peer[a]) \/ B!Bootstrap(peer[a])
      BY <2>1 DEF ServeInput, ServeBootstrap
    <3>3. QED
      BY <3>1, <3>2, SessionTypes
  <2>2. CASE ServeStart(a)
    <3>1. PICK s \in Sessions : B!Start(s, TRUE) \/ B!StartFails(s)
      BY <2>2 DEF ServeStart, StartControl
    <3>2. QED
      BY <3>1, SessionTypes
  <2>3. CASE ServeList(a) \/ ServeChoice(a) \/ Refuse(a)
    BY <2>3, BrokerTypes DEF ServeList, ServeChoice, Refuse
  <2>4. QED
    BY <1>1, <2>1, <2>2, <2>3 DEF Serve
<1>2. CASE ServeLate
  <2>1. ASSUME NEW a \in Actors, NEW e \in Events, ServeLateInput(a, e) PROVE B!TypeOK'
    <3>1. Head(late[a][e]) \in Sessions
      BY <2>1, Queue DEF ServeLateInput
    <3>2. B!Input(Head(late[a][e])) \/ UNCHANGED broker
      BY <2>1 DEF ServeLateInput
    <3>3. QED
      BY <3>1, <3>2, SessionTypes, BrokerTypes
  <2>2. CASE ServeLateStart
    <3>1. UNCHANGED broker \/ \E s \in Sessions : B!Start(s, TRUE)
      BY <2>2 DEF ServeLateStart, StartControl
    <3>2. QED
      BY <3>1, SessionTypes, BrokerTypes
  <2>3. ASSUME NEW s \in Sessions, ServeLateBootstrap(s) PROVE B!TypeOK'
    BY <2>3, SessionTypes, BrokerTypes DEF ServeLateBootstrap
  <2>4. QED
    BY <1>2, <2>1, <2>2, <2>3 DEF ServeLate
<1>3. ASSUME NEW s \in Sessions, Session(s) PROVE B!TypeOK'
  <2>1. B!Claude(s) \/ B!Stop(s) \/ B!Bootstrap(s) \/ \E p \in BOOLEAN : B!Start(s, p)
    BY <1>3 DEF Session
  <2>2. QED
    BY <2>1, SessionTypes
<1>4. CASE BrokerDies \/ BrokerStarts
  BY <1>4, BrokerTypes DEF BrokerDies, BrokerStarts
<1>5. CASE Step
  BY <1>5, BrokerTypes, StepTypesNothing
<1>6. ASSUME NEW a \in Actors, Timeout(a) PROVE B!TypeOK'
  BY <1>6, BrokerTypes DEF Timeout
<1>7. ASSUME NEW a \in Approvals, ApprovalStep(a) \/ \E e \in Events : Approve(a, e)
      PROVE  B!TypeOK'
  BY <1>7, BrokerTypes DEF ApprovalStep, ApprovalSends, ApprovalTyped, ApprovalFails, Approve
<1>8. CASE \/ WebDies \/ WebStarts \/ UNCHANGED vars \/ \E t \in Targets : Terminal(t)
           \/ \E e \in Events : Raise(e) \/ Dismiss(e)
  BY <1>8, BrokerTypes DEF WebDies, WebStarts, vars, Terminal, Raise, Dismiss
<1>9. QED
  BY <1>1, <1>2, <1>3, <1>4, <1>5, <1>6, <1>7, <1>8 DEF Next

\* Every step keeps the types.
LEMMA TypesPreserved == TypeOK /\ Placed /\ [Next]_vars => TypeOK'
<1> SUFFICES ASSUME TypeOK, Placed, [Next]_vars PROVE TypeOK'
  OBVIOUS
<1>0. B!TypeOK'
  BY ServedTypes
<1> USE <1>0
<1> USE DEF TypeOK, EventStatus, CycleSteps, ApprovalSteps, Actors, Fault, Ask, Proceed, Reply,
        Release, Asked, Answered, Returned, Failed, Unread, Outside, NoFault, lates, engine,
        actors, history
<1>1. ASSUME NEW a \in Actors, Serve(a) PROVE TypeOK'
  <2>1. CASE ServeList(a)
    <3>1. ControlActive \in BOOLEAN
      BY DEF ControlActive, B!HasSession
    <3>2. \E x \in SUBSET Sessions, y \in SUBSET Targets :
             \/ view' = [view EXCEPT !.control = ControlActive, !.accepts = x, !.blocked = y]
             \/ view' = view
      <4>1. {s \in Sessions : Accepts(s)} \in SUBSET Sessions
        OBVIOUS
      <4>2. {ProjectOf[s] : s \in retry} \in SUBSET Targets
        BY DEF B!TypeOK
      <4>3. QED
        BY <2>1, <4>1, <4>2 DEF ServeList
    <3>3. QED
      BY <2>1, <3>1, <3>2 DEF ServeList
  <2>2. CASE ServeChoice(a)
    BY <2>2 DEF ServeChoice, Waiting
  <2>3. CASE ServeInput(a)
    BY <2>3 DEF ServeInput, Placed
  <2>4. CASE ServeBootstrap(a)
    BY <2>4 DEF ServeBootstrap
  <2>5. CASE ServeStart(a)
    <3>1. /\ \E answer \in {"ok", "error"} : Reply(a, answer)
          /\ faults' \in {faults, faults + 1}
      BY <2>5 DEF ServeStart
    <3>2. QED
      BY <2>5, <3>1 DEF ServeStart
  <2>6. CASE Refuse(a)
    BY <2>6 DEF Refuse
  <2>7. QED
    BY <1>1, <2>1, <2>2, <2>3, <2>4, <2>5, <2>6 DEF Serve
<1>2. ASSUME NEW gone \in SUBSET Actors, Forsake(gone), peer \in [Actors -> Sessions \union {NoSession}],
             \A a \in gone : pc[a] \in {"input", "boot"} => peer[a] \in Sessions
      PROVE  /\ late' \in [Actors -> [Events -> Seq(Sessions)]]
             /\ lateStarts' \in Nat /\ lateBoots' \subseteq Sessions /\ lost' \in [Events -> Nat]
  BY <1>2, Queue DEF Forsake
<1>3. ASSUME NEW a \in Actors, Timeout(a) PROVE TypeOK'
  <2>1. {a} \in SUBSET Actors /\ Forsake({a})
    BY <1>3 DEF Timeout
  <2>2. \A b \in {a} : pc[b] \in {"input", "boot"} => peer[b] \in Sessions
    BY DEF Placed
  <2>3. /\ late' \in [Actors -> [Events -> Seq(Sessions)]]
        /\ lateStarts' \in Nat /\ lateBoots' \subseteq Sessions /\ lost' \in [Events -> Nat]
    BY <1>2, <2>1, <2>2
  <2>4. QED
    BY <1>3, <2>3 DEF Timeout
<1>4. CASE ServeLate
  <2>1. ASSUME NEW a \in Actors, NEW e \in Events, ServeLateInput(a, e) PROVE TypeOK'
    <3>1. Tail(late[a][e]) \in Seq(Sessions)
      BY <2>1, Queue DEF ServeLateInput
    <3>2. late' \in [Actors -> [Events -> Seq(Sessions)]]
      BY <2>1, <3>1 DEF ServeLateInput
    <3>3. typed' \in [Actors -> [Events -> Nat]]
      <4>1. CASE typed' = [typed EXCEPT ![a][e] = @ + 1]
        BY <4>1
      <4>2. QED
        BY <2>1, <4>1 DEF ServeLateInput
    <3>4. QED
      BY <2>1, <3>2, <3>3 DEF ServeLateInput
  <2>2. CASE ServeLateStart
    BY <2>2 DEF ServeLateStart
  <2>3. ASSUME NEW s \in Sessions, ServeLateBootstrap(s) PROVE TypeOK'
    BY <2>3 DEF ServeLateBootstrap
  <2>4. QED
    BY <1>4, <2>1, <2>2, <2>3 DEF ServeLate
<1>5. CASE Step
  <2> USE DEF Finish, Drop, Look
  <2>1. CASE BeginCycle
    BY <2>1 DEF BeginCycle
  <2>2. CASE CycleFails
    BY <2>2 DEF CycleFails
  <2>3. CASE ControlFound
    BY <2>3 DEF ControlFound
  <2>4. CASE ControlMissing
    BY <2>4 DEF ControlMissing
  <2>5. CASE ControlRevived \/ PromptsDue \/ PromptSent \/ SessionsListed
    BY <2>5 DEF ControlRevived, PromptsDue, PromptSent, SessionsListed
  <2>6. ASSUME NEW s \in Sessions, SendPrompt(s) PROVE TypeOK'
    BY <2>6 DEF SendPrompt
  <2>7. CASE ReadRows
    <3> DEFINE listed == {e \in Events : event[e] \in Listed}
    <3>1. pc[Cycle] = "sessions" /\ UNCHANGED <<event, broker, outside, todo, lates, history, faults>>
      BY <2>7 DEF ReadRows
    <3>2. listed \in SUBSET Events /\ {e \in Events : event[e] = "HELD"} \in SUBSET Events
      OBVIOUS
    <3>3. \/ Finish
          \/ /\ Ask(Cycle, "list") /\ Look /\ rows' = listed
             /\ wasHeld' = {e \in Events : event[e] = "HELD"} /\ UNCHANGED <<cur, peer, served>>
      BY <2>7, Zenon DEF ReadRows
    <3> HIDE DEF listed
    <3>4. CASE Finish
      BY <3>1, <3>4
    <3>5. CASE /\ Ask(Cycle, "list") /\ Look /\ rows' = listed
               /\ wasHeld' = {e \in Events : event[e] = "HELD"} /\ UNCHANGED <<cur, peer, served>>
      <4>1. /\ view' \in [control : BOOLEAN, accepts : SUBSET Sessions, blocked : SUBSET Targets,
                         outside : [Targets -> Outside], read : BOOLEAN]
            /\ rows' \subseteq Events /\ wasHeld' \subseteq Events
        BY <3>2, <3>5
      <4>2. pc' = [pc EXCEPT ![Cycle] = "list"] /\ wire' \in [Actors -> {"none", "sent", "ok", "error"}]
        BY <3>5
      <4>3. UNCHANGED <<cur, peer, served>>
        BY <3>5
      <4>4. QED
        BY <3>1, <4>1, <4>2, <4>3
    <3>6. QED
      BY <3>3, <3>4, <3>5, Zenon
  <2>8. CASE InputTyped
    BY <2>8 DEF InputTyped, Placed
  <2>9. CASE HoldCurrent
    BY <2>9 DEF HoldCurrent, Held
  <2>10. CASE EndCycle
    BY <2>10 DEF EndCycle
  <2>11. ASSUME NEW e \in Events, SkipServed(e) \/ Hold(e) \/ HandOver(e) PROVE TypeOK'
    <3>1. CASE SkipServed(e) \/ Hold(e)
      BY <3>1 DEF SkipServed, Hold, Held, Fresh, NextRow
    <3>2. CASE HandOver(e)
      <4>1. \/ event' = event \/ \E st \in EventStatus : event' = [event EXCEPT ![e] = st]
        BY <3>2 DEF HandOver, Held
      <4>2. event' \in [Events -> EventStatus]
        BY <4>1
      <4>3. TargetOf[e] \in Targets
        BY TargetAssumption
      <4>4. served' \in {served, served \union {TargetOf[e]}}
        BY <3>2 DEF HandOver
      <4>5. served' \subseteq Targets
        BY <4>3, <4>4
      <4>6. rows' = rows \ {e}
        BY <3>2 DEF HandOver, Fresh, NextRow
      <4>7. UNCHANGED <<broker, outside, actors, view, todo, wasHeld, lates, history, faults>>
        BY <3>2 DEF HandOver
      <4>8. QED
        BY <4>2, <4>5, <4>6, <4>7
    <3>3. QED
      BY <2>11, <3>1, <3>2
  <2>12. ASSUME NEW e \in Events, SendInput(e) PROVE TypeOK'
    BY <2>12 DEF SendInput, Fresh, NextRow
  <2>13. ASSUME NEW e \in Events, AskControl(e) PROVE TypeOK'
    BY <2>13 DEF AskControl, Fresh, NextRow
  <2>14. QED
    BY <1>5, <2>1, <2>2, <2>3, <2>4, <2>5, <2>6, <2>7, <2>8, <2>9, <2>10, <2>11, <2>12, <2>13
    DEF Step
<1>6. ASSUME NEW a \in Approvals, ApprovalStep(a) PROVE TypeOK'
  <2>1. CASE ApprovalSends(a)
    BY <2>1 DEF ApprovalSends
  <2>2. CASE ApprovalTyped(a)
    BY <2>2 DEF ApprovalTyped, Placed
  <2>3. CASE ApprovalFails(a)
    BY <2>3 DEF ApprovalFails
  <2>4. QED
    BY <1>6, <2>1, <2>2, <2>3 DEF ApprovalStep
<1>7. ASSUME NEW a \in Approvals, NEW e \in Events, Approve(a, e) PROVE TypeOK'
  BY <1>7 DEF Approve
<1>8. ASSUME NEW e \in Events, Raise(e) PROVE TypeOK'
  BY <1>8 DEF Raise
<1>9. ASSUME NEW e \in Events, Dismiss(e) PROVE TypeOK'
  BY <1>9 DEF Dismiss
<1>10. ASSUME NEW s \in Sessions, Session(s) PROVE TypeOK'
  BY <1>10 DEF Session
<1>11. ASSUME NEW t \in Targets, Terminal(t) PROVE TypeOK'
  BY <1>11 DEF Terminal
<1>12. CASE WebDies
  <2>1. Actors \in SUBSET Actors /\ Forsake(Actors)
    BY <1>12 DEF WebDies
  <2>2. \A b \in Actors : pc[b] \in {"input", "boot"} => peer[b] \in Sessions
    BY DEF Placed
  <2>3. /\ late' \in [Actors -> [Events -> Seq(Sessions)]]
        /\ lateStarts' \in Nat /\ lateBoots' \subseteq Sessions /\ lost' \in [Events -> Nat]
    BY <1>2, <2>1, <2>2
  <2>4. QED
    BY <1>12, <2>3 DEF WebDies
<1>13. CASE WebStarts
  BY <1>13 DEF WebStarts
<1>14. CASE BrokerDies
  BY <1>14 DEF BrokerDies
<1>15. CASE BrokerStarts
  BY <1>15 DEF BrokerStarts
<1>16. CASE UNCHANGED vars
  BY <1>16 DEF vars
<1>17. QED
  BY <1>1, <1>3, <1>4, <1>5, <1>6, <1>7, <1>8, <1>9, <1>10, <1>11, <1>12, <1>13, <1>14, <1>15,
     <1>16
  DEF Next

\* An actor asks for something only with what it needs.
LEMMA PlacedPreserved == TypeOK /\ Placed /\ [Next]_vars => Placed'
<1> SUFFICES ASSUME TypeOK, Placed, [Next]_vars PROVE Placed'
  OBVIOUS
<1> USE DEF TypeOK, Placed, CycleSteps, ApprovalSteps, Actors, Ask, Proceed, Release, Asked,
        Answered, Returned, Failed, Lists, Starts, engine, actors
<1>1. ASSUME NEW a \in Actors, Serve(a) PROVE Placed'
  <2>1. CASE ServeChoice(a)
    BY <2>1 DEF ServeChoice, Waiting
  <2>2. CASE ~ServeChoice(a)
    BY <1>1, <2>2
    DEF Serve, ServeList, ServeInput, ServeBootstrap, ServeStart, Refuse
  <2>3. QED
    BY <2>1, <2>2
<1>2. ASSUME NEW a \in Actors, Timeout(a) PROVE Placed'
  BY <1>2 DEF Timeout
<1>3. CASE ServeLate
  BY <1>3 DEF ServeLate, ServeLateInput, ServeLateStart, ServeLateBootstrap
<1>4. CASE Step
  <2>1. CASE BeginCycle \/ ControlFound \/ ControlMissing \/ ControlRevived \/ PromptsDue
    <3>1. /\ \E step \in CycleSteps \ {"boot", "input", "start", "relist"} :
                 pc' = [pc EXCEPT ![Cycle] = step]
          /\ UNCHANGED <<cur, peer, rows>>
      BY <2>1 DEF BeginCycle, ControlFound, ControlMissing, ControlRevived, PromptsDue
    <3>2. QED
      BY <3>1
  <2>2. CASE CycleFails \/ EndCycle
    BY <2>2 DEF CycleFails, EndCycle, Finish
  <2>3. ASSUME NEW s \in Sessions, SendPrompt(s) PROVE Placed'
    BY <2>3 DEF SendPrompt
  <2>4. CASE PromptSent \/ SessionsListed
    BY <2>4 DEF PromptSent, SessionsListed
  <2>5. CASE ReadRows
    <3>1. Finish \/ (Ask(Cycle, "list") /\ UNCHANGED <<cur, peer>>)
      BY <2>5, Zenon DEF ReadRows
    <3>2. /\ \E step \in {"idle", "list"} : pc' = [pc EXCEPT ![Cycle] = step]
          /\ UNCHANGED <<cur, peer>> \/ Release
      BY <3>1 DEF Finish
    <3>3. ASSUME NEW a \in Approvals PROVE cur'[a] = cur[a] /\ peer'[a] = peer[a]
      BY <3>2
    <3>4. QED
      BY <3>2, <3>3
  <2>6. CASE InputTyped \/ HoldCurrent
    <3>1. pc' = [pc EXCEPT ![Cycle] = "deliver"] /\ peer' = [peer EXCEPT ![Cycle] = NoSession]
      BY <2>6 DEF InputTyped, HoldCurrent
    <3>2. cur' = [cur EXCEPT ![Cycle] = 0]
      BY <2>6 DEF InputTyped, HoldCurrent
    <3>3. QED
      BY <3>1, <3>2
  <2>7. ASSUME NEW e \in Events, SkipServed(e) \/ Hold(e) \/ HandOver(e) PROVE Placed'
    <3>1. UNCHANGED <<pc, cur, peer>> /\ pc[Cycle] = "deliver"
      BY <2>7 DEF SkipServed, Hold, HandOver, Fresh, NextRow
    <3>2. QED
      BY <3>1
  <2>8. ASSUME NEW e \in Events, SendInput(e) PROVE Placed'
    BY <2>8 DEF SendInput, Fresh, NextRow
  <2>9. ASSUME NEW e \in Events, AskControl(e) PROVE Placed'
    BY <2>9 DEF AskControl, Fresh, NextRow
  <2>10. QED
    BY <1>4, <2>1, <2>2, <2>3, <2>4, <2>5, <2>6, <2>7, <2>8, <2>9 DEF Step
<1>5. ASSUME NEW a \in Approvals, ApprovalStep(a) PROVE Placed'
  BY <1>5 DEF ApprovalStep, ApprovalSends, ApprovalTyped, ApprovalFails
<1>6. ASSUME NEW a \in Approvals, NEW e \in Events, Approve(a, e) PROVE Placed'
  BY <1>6 DEF Approve
<1>7. CASE WebDies
  BY <1>7 DEF WebDies
<1>8. CASE WebStarts
  BY <1>8 DEF WebStarts
<1>9. CASE \/ BrokerDies \/ BrokerStarts \/ UNCHANGED vars
           \/ \E s \in Sessions : Session(s)
           \/ \E t \in Targets : Terminal(t)
           \/ \E e \in Events : Raise(e) \/ Dismiss(e)
  BY <1>9 DEF BrokerDies, BrokerStarts, vars, Session, Terminal, Raise, Dismiss
<1>10. QED
  BY <1>1, <1>2, <1>3, <1>4, <1>5, <1>6, <1>7, <1>8, <1>9 DEF Next

\* The cycle is an actor of its own.
LEMMA ApprovalsRest ==
    ASSUME TypeOK, Step, NEW a \in Approvals
    PROVE  pc'[a] = pc[a] /\ wire'[a] = wire[a] /\ cur'[a] = cur[a] /\ peer'[a] = peer[a]
<1> USE DEF TypeOK, Actors, Ask, Proceed, Release, actors
<1>1. CASE BeginCycle \/ ControlFound \/ ControlMissing \/ ControlRevived
  BY <1>1 DEF BeginCycle, ControlFound, ControlMissing, ControlRevived
<1>2. CASE CycleFails \/ EndCycle
  BY <1>2 DEF CycleFails, EndCycle, Finish
<1>3. CASE PromptsDue \/ PromptSent \/ SessionsListed \/ \E s \in Sessions : SendPrompt(s)
  BY <1>3 DEF PromptsDue, PromptSent, SessionsListed, SendPrompt
<1>4. CASE ReadRows
  <2>1. Finish \/ (Ask(Cycle, "list") /\ UNCHANGED <<cur, peer>>)
    BY <1>4, Zenon DEF ReadRows
  <2>2. QED
    BY <2>1 DEF Finish
<1>5. CASE InputTyped \/ HoldCurrent
  BY <1>5 DEF InputTyped, HoldCurrent
<1>6. ASSUME NEW e \in Events, SkipServed(e) \/ Hold(e) \/ HandOver(e)
      PROVE  pc'[a] = pc[a] /\ wire'[a] = wire[a] /\ cur'[a] = cur[a] /\ peer'[a] = peer[a]
  BY <1>6 DEF SkipServed, Hold, HandOver
<1>7. ASSUME NEW e \in Events, SendInput(e) \/ AskControl(e)
      PROVE  pc'[a] = pc[a] /\ wire'[a] = wire[a] /\ cur'[a] = cur[a] /\ peer'[a] = peer[a]
  <2>1. \E step \in CycleSteps : Ask(Cycle, step)
    BY <1>7 DEF SendInput, AskControl, CycleSteps
  <2>2. /\ cur' = [cur EXCEPT ![Cycle] = e]
        /\ peer' = peer \/ \E s \in Sessions : peer' = [peer EXCEPT ![Cycle] = s]
    <3>1. CASE SendInput(e)
      <4>1. PICK s \in view.accepts : peer' = [peer EXCEPT ![Cycle] = s]
        BY <3>1 DEF SendInput
      <4>2. QED
        BY <3>1, <4>1 DEF SendInput
    <3>2. QED
      BY <1>7, <3>1 DEF AskControl
  <2>3. QED
    BY <2>1, <2>2
<1>8. QED
  BY <1>1, <1>2, <1>3, <1>4, <1>5, <1>6, <1>7 DEF Step

\* What the cycle has marked stays so, and is not taken up again.
LEMMA FinalPreserved == TypeOK /\ Placed /\ Final /\ [Next]_vars => Final'
<1> SUFFICES ASSUME TypeOK, Placed, Final, [Next]_vars PROVE Final'
  OBVIOUS
<1> USE DEF TypeOK, Placed, Final, Actors, Ask, Proceed, Release, Answered, Returned, Failed,
        Lists, Listed, engine, actors, history
<1>1. ASSUME NEW a \in Actors, Serve(a) \/ Timeout(a) PROVE Final'
  BY <1>1
  DEF Serve, ServeList, ServeChoice, ServeInput, ServeBootstrap, ServeStart, Refuse, Timeout
<1>2. CASE ServeLate
  BY <1>2 DEF ServeLate, ServeLateInput, ServeLateStart, ServeLateBootstrap
<1>3. CASE Step
  <2>1. CASE BeginCycle \/ ControlFound \/ ControlMissing \/ ControlRevived \/ PromptsDue
    BY <2>1 DEF BeginCycle, ControlFound, ControlMissing, ControlRevived, PromptsDue
  <2>2. CASE CycleFails \/ EndCycle
    BY <2>2 DEF CycleFails, EndCycle, Finish
  <2>3. CASE PromptSent \/ SessionsListed \/ \E s \in Sessions : SendPrompt(s)
    BY <2>3 DEF SendPrompt, PromptSent, SessionsListed
  <2>4. CASE ReadRows
    <3>1. Finish \/ (Ask(Cycle, "list") /\ rows' = {e \in Events : event[e] \in Listed})
      BY <2>4, Zenon DEF ReadRows
    <3>2. QED
      BY <2>4, <3>1 DEF ReadRows, Finish
  <2>5. CASE InputTyped
    BY <2>5 DEF InputTyped
  <2>6. CASE HoldCurrent
    BY <2>6 DEF HoldCurrent, Held
  <2>7. ASSUME NEW e \in Events, SkipServed(e) \/ Hold(e) \/ HandOver(e) PROVE Final'
    BY <2>7 DEF SkipServed, Hold, HandOver, Held, Fresh, NextRow
  <2>8. ASSUME NEW e \in Events, SendInput(e) \/ AskControl(e) PROVE Final'
    BY <2>8 DEF SendInput, AskControl, Fresh, NextRow
  <2>9. QED
    BY <1>3, <2>1, <2>2, <2>3, <2>4, <2>5, <2>6, <2>7, <2>8 DEF Step
<1>4. ASSUME NEW a \in Approvals, ApprovalStep(a) \/ \E e \in Events : Approve(a, e) PROVE Final'
  BY <1>4, SMTT(20) DEF ApprovalStep, ApprovalSends, ApprovalTyped, ApprovalFails, Approve
<1>5. ASSUME NEW e \in Events, Raise(e) \/ Dismiss(e) PROVE Final'
  BY <1>5 DEF Raise, Dismiss
<1>6. CASE WebDies \/ WebStarts
  BY <1>6 DEF WebDies, WebStarts
<1>7. CASE \/ BrokerDies \/ BrokerStarts \/ UNCHANGED vars
           \/ \E s \in Sessions : Session(s)
           \/ \E t \in Targets : Terminal(t)
  BY <1>7 DEF BrokerDies, BrokerStarts, vars, Session, Terminal
<1>8. QED
  BY <1>1, <1>2, <1>3, <1>4, <1>5, <1>6, <1>7 DEF Next

\* Counting one more text takes none away.
LEMMA CountsGrow ==
    ASSUME NEW f \in [Actors -> [Events -> Nat]], NEW g, NEW a, NEW x,
           g = [f EXCEPT ![a][x] = @ + 1]
    PROVE  \A b \in Actors, e \in Events : f[b][e] > 0 => g[b][e] > 0
<1> TAKE b \in Actors, e \in Events
<1>1. f[b][e] \in Nat
  OBVIOUS
<1>2. g[b][e] \in {f[b][e], f[b][e] + 1}
  OBVIOUS
<1> QED
  BY <1>1, <1>2

\* What is typed stays typed, and a mark follows an answer.
LEMMA KnownPreserved == TypeOK /\ Placed /\ Known /\ [Next]_vars => Known'
<1> SUFFICES ASSUME TypeOK, Placed, Known, [Next]_vars PROVE Known'
  OBVIOUS
<1> USE DEF TypeOK, Placed, Known, DeliveredIsTyped, Actors, Ask, Proceed, Reply, Release, Asked,
        Answered, Returned, Failed, Lists, Starts, lates, engine, actors, history
<1>1. ASSUME NEW a \in Actors, Serve(a) PROVE Known'
  <2>1. CASE ServeInput(a)
    <3>1. \A b \in Actors, e \in Events : typed[b][e] > 0 => typed'[b][e] > 0
      <4>1. typed' = [typed EXCEPT ![a][cur[a]] = @ + 1]
        BY <2>1 DEF ServeInput
      <4>2. QED
        BY <4>1, CountsGrow
    <3>2. typed'[a][cur[a]] > 0
      BY <2>1 DEF ServeInput
    <3>3. UNCHANGED <<event, pc, cur>> /\ \A b \in Actors \ {a} : wire'[b] = wire[b]
      BY <2>1 DEF ServeInput
    <3>4. ASSUME NEW b \in Actors, pc'[b] = "input", wire'[b] = "ok"
          PROVE  typed'[b][cur'[b]] > 0
      <4>1. CASE b = a
        BY <3>2, <3>3, <4>1
      <4>2. CASE b # a
        <5>1. typed[b][cur[b]] > 0 /\ cur[b] \in Events
          BY <3>3, <3>4, <4>2
        <5>2. QED
          BY <3>1, <3>3, <5>1
      <4>3. QED
        BY <4>1, <4>2
    <3>5. DeliveredIsTyped'
      BY <3>1, <3>3
    <3>6. QED
      BY <3>4, <3>5
  <2>2. CASE ServeStart(a)
    <3>1. /\ pc[a] \in {"revive", "start"} /\ \E answer \in {"ok", "error"} : Reply(a, answer)
          /\ UNCHANGED <<event, pc, cur, typed>>
      BY <2>2 DEF ServeStart
    <3>2. QED
      BY <3>1
  <2>3. CASE Refuse(a)
    BY <2>3 DEF Refuse
  <2>4. CASE ServeList(a) \/ ServeChoice(a) \/ ServeBootstrap(a)
    BY <2>4 DEF ServeList, ServeChoice, ServeBootstrap
  <2>5. QED
    BY <1>1, <2>1, <2>2, <2>3, <2>4 DEF Serve
<1>2. ASSUME NEW a \in Actors, Timeout(a) PROVE Known'
  BY <1>2 DEF Timeout
<1>3. CASE ServeLate
  <2>1. ASSUME NEW a \in Actors, NEW e \in Events, ServeLateInput(a, e) PROVE Known'
    <3>1. UNCHANGED <<event, pc, wire, cur>>
      BY <2>1 DEF ServeLateInput
    <3>2. CASE typed' = typed
      BY <3>1, <3>2
    <3>3. CASE typed' = [typed EXCEPT ![a][e] = @ + 1]
      <4>1. \A b \in Actors, f \in Events : typed'[b][f] >= typed[b][f]
        BY <3>3
      <4>2. QED
        BY <3>1, <3>3, <4>1
    <3>4. QED
      BY <2>1, <3>2, <3>3 DEF ServeLateInput
  <2>2. QED
    BY <1>3, <2>1 DEF ServeLate, ServeLateStart, ServeLateBootstrap
<1>4. CASE Step
  <2>1. CASE BeginCycle \/ ControlFound \/ ControlMissing \/ ControlRevived \/ PromptsDue
    BY <2>1 DEF BeginCycle, ControlFound, ControlMissing, ControlRevived, PromptsDue
  <2>2. CASE CycleFails \/ EndCycle
    BY <2>2 DEF CycleFails, EndCycle, Finish
  <2>3. CASE PromptSent \/ SessionsListed \/ \E s \in Sessions : SendPrompt(s)
    BY <2>3 DEF SendPrompt, PromptSent, SessionsListed
  <2>4. CASE ReadRows
    <3>1. Finish \/ (Ask(Cycle, "list") /\ UNCHANGED cur)
      BY <2>4, Zenon DEF ReadRows
    <3>2. QED
      BY <2>4, <3>1 DEF ReadRows, Finish
  <2>5. CASE InputTyped
    BY <2>5 DEF InputTyped
  <2>6. CASE HoldCurrent
    BY <2>6 DEF HoldCurrent, Held
  <2>7. ASSUME NEW e \in Events, SkipServed(e) \/ Hold(e) \/ HandOver(e) PROVE Known'
    BY <2>7 DEF SkipServed, Hold, HandOver, Held, Fresh, NextRow
  <2>8. ASSUME NEW e \in Events, SendInput(e) \/ AskControl(e) PROVE Known'
    BY <2>8 DEF SendInput, AskControl, Fresh, NextRow
  <2>9. QED
    BY <1>4, <2>1, <2>2, <2>3, <2>4, <2>5, <2>6, <2>7, <2>8 DEF Step
<1>5. ASSUME NEW a \in Approvals, ApprovalStep(a) PROVE Known'
  <2>1. CASE ApprovalSends(a)
    BY <2>1 DEF ApprovalSends
  <2>2. CASE ApprovalTyped(a)
    BY <2>2 DEF ApprovalTyped
  <2>3. CASE ApprovalFails(a)
    BY <2>3 DEF ApprovalFails
  <2>4. QED
    BY <1>5, <2>1, <2>2, <2>3 DEF ApprovalStep
<1>6. ASSUME NEW a \in Approvals, NEW e \in Events, Approve(a, e) PROVE Known'
  BY <1>6 DEF Approve
<1>7. ASSUME NEW e \in Events, Raise(e) \/ Dismiss(e) PROVE Known'
  BY <1>7 DEF Raise, Dismiss
<1>8. CASE WebDies \/ WebStarts
  BY <1>8 DEF WebDies, WebStarts
<1>9. CASE BrokerDies
  BY <1>9 DEF BrokerDies
<1>10. CASE \/ BrokerStarts \/ UNCHANGED vars
            \/ \E s \in Sessions : Session(s)
            \/ \E t \in Targets : Terminal(t)
  BY <1>10 DEF BrokerStarts, vars, Session, Terminal
<1>11. QED
  BY <1>1, <1>2, <1>3, <1>4, <1>5, <1>6, <1>7, <1>8, <1>9, <1>10 DEF Next

\* What Forsake moves to the requests that may still be served, it counts.
LEMMA ForsakeMoves ==
    ASSUME TypeOK, Placed, NEW gone \in SUBSET Actors, Forsake(gone), NEW e \in Events,
           NEW a \in Actors
    PROVE  /\ (a \in gone /\ pc[a] = "input" /\ wire[a] = "sent" /\ cur[a] = e)
                  => Len(late'[a][e]) = Len(late[a][e]) + 1
           /\ ~(a \in gone /\ pc[a] = "input" /\ wire[a] = "sent" /\ cur[a] = e)
                  => Len(late'[a][e]) = Len(late[a][e])
<1>1. late[a][e] \in Seq(Sessions)
  BY DEF TypeOK
<1>2. CASE a \in gone /\ pc[a] = "input" /\ wire[a] = "sent" /\ cur[a] = e
  <2>1. late'[a][e] = Append(late[a][e], peer[a]) /\ peer[a] \in Sessions
    BY <1>2 DEF Forsake, Placed
  <2>2. QED
    BY <1>1, <1>2, <2>1, Queue
<1>3. CASE ~(a \in gone /\ pc[a] = "input" /\ wire[a] = "sent" /\ cur[a] = e)
  BY <1>3 DEF Forsake
<1>4. QED
  BY <1>2, <1>3

\* Moving one from a summand to another keeps the sum.
LEMMA Regrouped == \A m, n \in Nat : (m + 1) + n + 0 = m + (n + 1)
OBVIOUS

\* What the cycle forsakes was lost, or may still be served.
LEMMA ForsakeBalances ==
    ASSUME TypeOK, Placed, NEW gone \in SUBSET Actors, Forsake(gone), NEW e \in Events
    PROVE  /\ lost'[e] \in Nat /\ Len(late'[Cycle][e]) \in Nat
           /\ Cycle \in gone => Len(late'[Cycle][e]) + lost[e] + Open(e)
                                    = Len(late[Cycle][e]) + lost'[e]
           /\ Cycle \notin gone => /\ Len(late'[Cycle][e]) = Len(late[Cycle][e])
                                   /\ lost'[e] = lost[e]
<1> DEFINE here == Cycle \in gone /\ pc[Cycle] = "input" /\ cur[Cycle] = e
<1>1. lost[e] \in Nat /\ Len(late[Cycle][e]) \in Nat
  BY Queue DEF TypeOK, Actors
<1>2. lost'[e] = IF here /\ wire[Cycle] \in {"sent", "ok"} THEN lost[e] + 1 ELSE lost[e]
  BY DEF Forsake
<1>3. CASE here /\ wire[Cycle] = "sent"
  <2>1. Open(e) = 0
    BY <1>3 DEF Open, One
  <2>2. Len(late'[Cycle][e]) = Len(late[Cycle][e]) + 1
    BY <1>3, ForsakeMoves DEF Actors
  <2>3. lost'[e] = lost[e] + 1
    BY <1>2, <1>3
  <2>4. Cycle \in gone
    BY <1>3
  <2>5. (Len(late[Cycle][e]) + 1) + lost[e] + 0 = Len(late[Cycle][e]) + (lost[e] + 1)
    BY <1>1, Regrouped
  <2>6. Len(late'[Cycle][e]) + lost[e] + Open(e) = Len(late[Cycle][e]) + lost'[e]
    BY <2>1, <2>2, <2>3, <2>5
  <2>7. lost'[e] \in Nat /\ Len(late'[Cycle][e]) \in Nat
    BY <1>1, <2>2, <2>3
  <2>8. QED
    BY <2>4, <2>6, <2>7
<1>4. CASE here /\ wire[Cycle] = "ok"
  <2>1. Open(e) = 1
    BY <1>4 DEF Open, One
  <2>2. Len(late'[Cycle][e]) = Len(late[Cycle][e])
    BY <1>4, ForsakeMoves DEF Actors
  <2>3. QED
    BY <1>1, <1>2, <1>4, <2>1, <2>2
<1>5. CASE ~(here /\ wire[Cycle] \in {"sent", "ok"})
  <2>1. Cycle \in gone => Open(e) = 0
    BY <1>5 DEF Open, One
  <2>2. Len(late'[Cycle][e]) = Len(late[Cycle][e])
    BY <1>5, ForsakeMoves DEF Actors
  <2>3. QED
    BY <1>1, <1>2, <1>5, <2>1, <2>2
<1>6. QED
  BY <1>3, <1>4, <1>5

\* The terms of Counted are numbers.
LEMMA Numbers ==
    ASSUME TypeOK, NEW e \in Events
    PROVE  /\ lost[e] \in Nat /\ Open(e) \in {0, 1} /\ One(e \in marked) \in {0, 1}
           /\ \A a \in Actors : typed[a][e] \in Nat /\ Len(late[a][e]) \in Nat
BY Queue DEF TypeOK, One, Open

\* A request that is served late counts as typed from then on.
LEMMA LateIsTyped ==
    ASSUME TypeOK, NEW a \in Actors, NEW e \in Events, ServeLateInput(a, e),
           NEW b \in Actors, NEW f \in Events
    PROVE  /\ typed'[b][f] \in Nat /\ Len(late'[b][f]) \in Nat
           /\ typed'[b][f] + Len(late'[b][f]) <= typed[b][f] + Len(late[b][f])
<1>1. late[a][e] # <<>> /\ late' = [late EXCEPT ![a][e] = Tail(@)]
  BY DEF ServeLateInput
<1>2. late[a][e] \in Seq(Sessions)
  BY DEF TypeOK
<1>3. Len(Tail(late[a][e])) = Len(late[a][e]) - 1 /\ Len(late[a][e]) \in Nat
  BY <1>1, <1>2, Queue
<1>4. typed[b][f] \in Nat /\ Len(late[b][f]) \in Nat
  BY Numbers
<1>5. typed' = typed \/ typed' = [typed EXCEPT ![a][e] = @ + 1]
  BY DEF ServeLateInput
<1>6. CASE b = a /\ f = e
  <2>1. late'[b][f] = Tail(late[a][e])
    BY <1>1, <1>6 DEF TypeOK
  <2>2. typed'[b][f] = typed[b][f] \/ typed'[b][f] = typed[b][f] + 1
    BY <1>5, <1>6 DEF TypeOK
  <2>3. Len(Tail(late[a][e])) \in Nat
    BY <1>1, <1>2, Queue
  <2>4. PICK m \in Nat, n \in Nat, k \in Nat :
            m = Len(late[b][f]) /\ n = Len(late'[b][f]) /\ k = typed[b][f]
    BY <1>4, <2>1, <2>3
  <2>5. n = m - 1
    BY <1>3, <1>6, <2>1, <2>4
  <2>6. typed'[b][f] = k \/ typed'[b][f] = k + 1
    BY <2>2, <2>4
  <2>7. typed'[b][f] \in Nat /\ typed'[b][f] + n <= k + m
    BY <2>5, <2>6
  <2>8. QED
    BY <2>4, <2>7
<1>7. CASE ~(b = a /\ f = e)
  <2>1. late'[b][f] = late[b][f]
    BY <1>1, <1>7 DEF TypeOK
  <2>2. typed'[b][f] = typed[b][f]
    BY <1>5, <1>7 DEF TypeOK
  <2>3. QED
    BY <1>4, <2>1, <2>2
<1>8. QED
  BY <1>6, <1>7

\* The cycle, or another, stops waiting.
LEMMA CountedWhenForsaken ==
    ASSUME TypeOK, Placed, Counted, NEW gone \in SUBSET Actors, Forsake(gone),
           UNCHANGED <<typed, marked>>, NEW e \in Events, NEW open,
           open = IF Cycle \in gone THEN 0 ELSE Open(e)
    PROVE  typed'[Cycle][e] + Len(late'[Cycle][e]) <= lost'[e] + open + One(e \in marked')
<1>1. Cycle \in Actors
  BY DEF Actors
<1>2. typed[Cycle][e] + Len(late[Cycle][e]) <= lost[e] + Open(e) + One(e \in marked)
  BY DEF Counted
<1> DEFINE mark == One(e \in marked)
<1>3. /\ lost[e] \in Nat /\ Open(e) \in {0, 1} /\ mark \in {0, 1}
      /\ typed[Cycle][e] \in Nat /\ Len(late[Cycle][e]) \in Nat
  BY <1>1, Numbers
<1>4. /\ lost'[e] \in Nat /\ Len(late'[Cycle][e]) \in Nat
      /\ Cycle \in gone => Len(late'[Cycle][e]) + lost[e] + Open(e)
                               = Len(late[Cycle][e]) + lost'[e]
      /\ Cycle \notin gone => Len(late'[Cycle][e]) = Len(late[Cycle][e]) /\ lost'[e] = lost[e]
  BY ForsakeBalances
<1>5. One(e \in marked') = mark /\ typed'[Cycle][e] = typed[Cycle][e]
  OBVIOUS
<1>6. typed[Cycle][e] + Len(late[Cycle][e]) <= lost[e] + Open(e) + mark
  BY <1>2
<1> HIDE DEF mark
<1>7. typed[Cycle][e] + Len(late'[Cycle][e]) <= lost'[e] + open + mark
  <2>1. CASE Cycle \in gone
    <3>1. open = 0
      BY <2>1
    <3>2. Len(late'[Cycle][e]) + lost[e] + Open(e) = Len(late[Cycle][e]) + lost'[e]
      BY <1>4, <2>1
    <3>3. typed[Cycle][e] + Len(late'[Cycle][e]) <= lost'[e] + mark
      <4>1. PICK t \in Nat, was \in Nat, is \in Nat, old \in Nat, new \in Nat, answer \in Nat :
                /\ t = typed[Cycle][e] /\ was = Len(late[Cycle][e]) /\ is = Len(late'[Cycle][e])
                /\ old = lost[e] /\ new = lost'[e] /\ answer = Open(e)
        BY <1>3, <1>4
      <4>2. t + was <= old + answer + mark /\ is + old + answer = was + new /\ mark \in Nat
        BY <1>3, <1>6, <3>2, <4>1
      <4>3. t + is <= new + mark
        BY <4>2
      <4>4. QED
        BY <4>1, <4>3
    <3>4. QED
      BY <1>3, <1>4, <3>1, <3>3
  <2>2. CASE Cycle \notin gone
    BY <1>3, <1>4, <1>6, <2>2
  <2>3. QED
    BY <2>1, <2>2
<1>8. QED
  BY <1>5, <1>7

\* A timeout keeps the sum of Counted.
LEMMA TimeoutCounted ==
    ASSUME TypeOK, Placed, Counted, NEW a \in Actors, Timeout(a) PROVE Counted'
<1>1. /\ Forsake({a}) /\ {a} \in SUBSET Actors
      /\ UNCHANGED <<pc, cur, typed, marked>> /\ wire' = [wire EXCEPT ![a] = "error"]
  BY DEF Timeout, Reply, actors, engine
<1>2. ASSUME NEW e \in Events
      PROVE  (typed[Cycle][e] + Len(late[Cycle][e]) <= lost[e] + Open(e) + One(e \in marked))'
  <2>1. Open(e)' = IF Cycle \in {a} THEN 0 ELSE Open(e)
    BY <1>1 DEF Open, One, TypeOK, Actors
  <2>2. QED
    BY <1>1, <2>1, CountedWhenForsaken
<1>3. QED
  BY <1>2 DEF Counted

\* So does the death of the web process.
LEMMA DeathCounted == ASSUME TypeOK, Placed, Counted, WebDies PROVE Counted'
<1>1. /\ Forsake(Actors) /\ Actors \in SUBSET Actors
      /\ UNCHANGED <<typed, marked>> /\ pc'[Cycle] = "down"
  BY DEF WebDies, Actors
<1>2. ASSUME NEW e \in Events
      PROVE  (typed[Cycle][e] + Len(late[Cycle][e]) <= lost[e] + Open(e) + One(e \in marked))'
  <2>1. Open(e)' = IF Cycle \in Actors THEN 0 ELSE Open(e)
    BY <1>1 DEF Open, One, Actors
  <2>2. QED
    BY <1>1, <2>1, CountedWhenForsaken
<1>3. QED
  BY <1>2 DEF Counted

\* So does a request that is served late.
LEMMA LateCounted ==
    ASSUME TypeOK, Counted, NEW a \in Actors, NEW f \in Events, ServeLateInput(a, f) PROVE Counted'
<1>1. UNCHANGED <<pc, wire, cur, lost, marked>>
  BY DEF ServeLateInput, actors
<1>2. ASSUME NEW e \in Events
      PROVE  (typed[Cycle][e] + Len(late[Cycle][e]) <= lost[e] + Open(e) + One(e \in marked))'
  <2> DEFINE bound == lost[e] + Open(e) + One(e \in marked)
  <2>1. Cycle \in Actors
    BY DEF Actors
  <2>2. bound' = bound
    BY <1>1 DEF Open
  <2>3. bound \in Nat
    BY Numbers
  <2>4. typed[Cycle][e] + Len(late[Cycle][e]) <= bound
    BY DEF Counted
  <2> HIDE DEF bound
  <2>5. (typed[Cycle][e] + Len(late[Cycle][e]))' <= typed[Cycle][e] + Len(late[Cycle][e])
    BY <2>1, LateIsTyped
  <2>6. /\ (typed[Cycle][e] + Len(late[Cycle][e]))' \in Nat
        /\ typed[Cycle][e] + Len(late[Cycle][e]) \in Nat
    BY <2>1, Numbers, LateIsTyped
  <2>7. (typed[Cycle][e] + Len(late[Cycle][e]))' <= bound'
    BY <2>2, <2>3, <2>4, <2>5, <2>6
  <2>8. QED
    BY <2>7 DEF bound
<1>3. QED
  BY <1>2 DEF Counted

\* Every text of the cycle has its cause.
LEMMA CountedPreserved == TypeOK /\ Placed /\ Final /\ Counted /\ [Next]_vars => Counted'
<1> SUFFICES ASSUME TypeOK, Placed, Final, Counted, [Next]_vars PROVE Counted'
  OBVIOUS
<1> USE DEF TypeOK, Placed, Final, Counted, Open, One, Actors, Ask, Proceed, Reply, Release, Asked,
        Answered, Returned, Failed, Lists, Starts, lates, engine, actors, history
<1>0. \A a \in Actors, e \in Events : Len(late[a][e]) \in Nat /\ typed[a][e] \in Nat /\ lost[e] \in Nat
  BY Queue
<1>1. ASSUME NEW a \in Actors, Serve(a) PROVE Counted'
  <2>1. CASE ServeInput(a)
    BY <1>0, <2>1 DEF ServeInput
  <2>2. CASE ServeStart(a)
    BY <1>0, <2>2 DEF ServeStart
  <2>3. CASE Refuse(a)
    BY <1>0, <2>3 DEF Refuse
  <2>4. CASE ServeList(a) \/ ServeChoice(a) \/ ServeBootstrap(a)
    BY <1>0, <2>4 DEF ServeList, ServeChoice, ServeBootstrap
  <2>5. QED
    BY <1>1, <2>1, <2>2, <2>3, <2>4 DEF Serve
<1>2. ASSUME NEW a \in Actors, Timeout(a) PROVE Counted'
  BY <1>2, TimeoutCounted
<1>3. CASE ServeLate
  <2>1. ASSUME NEW a \in Actors, NEW e \in Events, ServeLateInput(a, e) PROVE Counted'
    BY <2>1, LateCounted
  <2>2. QED
    BY <1>3, <2>1 DEF ServeLate, ServeLateStart, ServeLateBootstrap
<1>4. CASE Step
  <2>1. CASE BeginCycle \/ ControlFound \/ ControlMissing \/ ControlRevived \/ PromptsDue
    BY <1>0, <2>1 DEF BeginCycle, ControlFound, ControlMissing, ControlRevived, PromptsDue
  <2>2. CASE CycleFails \/ EndCycle
    BY <1>0, <2>2 DEF CycleFails, EndCycle, Finish
  <2>3. CASE PromptSent \/ SessionsListed \/ \E s \in Sessions : SendPrompt(s)
    BY <1>0, <2>3 DEF SendPrompt, PromptSent, SessionsListed
  <2>4. CASE ReadRows
    <3>1. Finish \/ (Ask(Cycle, "list") /\ UNCHANGED cur)
      BY <2>4, Zenon DEF ReadRows
    <3>2. QED
      BY <1>0, <2>4, <3>1 DEF ReadRows, Finish
  <2>5. CASE InputTyped
    BY <1>0, <2>5 DEF InputTyped
  <2>6. CASE HoldCurrent
    BY <1>0, <2>6 DEF HoldCurrent
  <2>7. ASSUME NEW e \in Events, SkipServed(e) \/ Hold(e) \/ HandOver(e) PROVE Counted'
    BY <1>0, <2>7 DEF SkipServed, Hold, HandOver
  <2>8. ASSUME NEW e \in Events, SendInput(e) \/ AskControl(e) PROVE Counted'
    BY <1>0, <2>8 DEF SendInput, AskControl, Fresh, NextRow
  <2>9. QED
    BY <1>4, <2>1, <2>2, <2>3, <2>4, <2>5, <2>6, <2>7, <2>8 DEF Step
<1>5. ASSUME NEW a \in Approvals, ApprovalStep(a) PROVE Counted'
  BY <1>0, <1>5, SMTT(20) DEF ApprovalStep, ApprovalSends, ApprovalTyped, ApprovalFails
<1>6. ASSUME NEW a \in Approvals, NEW e \in Events, Approve(a, e) PROVE Counted'
  BY <1>0, <1>6 DEF Approve
<1>7. CASE WebDies
  BY <1>7, DeathCounted
<1>8. CASE WebStarts
  BY <1>0, <1>8 DEF WebStarts
<1>9. CASE BrokerDies
  BY <1>0, <1>9 DEF BrokerDies
<1>10. CASE \/ BrokerStarts \/ UNCHANGED vars
            \/ \E s \in Sessions : Session(s)
            \/ \E t \in Targets : Terminal(t)
            \/ \E e \in Events : Raise(e) \/ Dismiss(e)
  BY <1>10 DEF BrokerStarts, vars, Session, Terminal, Raise, Dismiss
<1>11. QED
  BY <1>1, <1>2, <1>3, <1>4, <1>5, <1>6, <1>7, <1>8, <1>9, <1>10 DEF Next

\* An approval types nothing twice.
LEMMA OnceWhenForsaken ==
    ASSUME TypeOK, Placed, CountedOnce, NEW gone \in SUBSET Actors, Forsake(gone), UNCHANGED typed,
           NEW a \in Approvals, NEW e \in Events,
           a \in gone /\ pc[a] = "input" /\ wire[a] \in {"sent", "ok"} => Spent(a)' = 1,
           Spent(a)' = 1 \/ Spent(a)' = Spent(a)
    PROVE  typed'[a][e] + Len(late'[a][e]) <= Spent(a)'
<1>1. a \in Actors
  BY DEF Actors
<1>2. typed[a][e] \in Nat /\ Len(late[a][e]) \in Nat
  BY <1>1, Numbers
<1>3. Spent(a) \in {0, 1} /\ typed[a][e] + Len(late[a][e]) <= Spent(a)
  BY DEF Spent, One, CountedOnce
<1>4. CASE a \in gone /\ pc[a] = "input" /\ wire[a] = "sent" /\ cur[a] = e
  <2>1. Spent(a) = 0 /\ Spent(a)' = 1
    BY <1>4 DEF Spent, One
  <2>2. Len(late'[a][e]) = Len(late[a][e]) + 1
    BY <1>1, <1>4, ForsakeMoves
  <2>3. QED
    BY <1>2, <1>3, <2>1, <2>2
<1>5. CASE ~(a \in gone /\ pc[a] = "input" /\ wire[a] = "sent" /\ cur[a] = e)
  <2>1. Len(late'[a][e]) = Len(late[a][e])
    BY <1>1, <1>5, ForsakeMoves
  <2>2. QED
    BY <1>2, <1>3, <2>1
<1>6. QED
  BY <1>4, <1>5

\* No step makes an approval type again.
LEMMA OncePreserved == TypeOK /\ Placed /\ CountedOnce /\ [Next]_vars => CountedOnce'
<1> SUFFICES ASSUME TypeOK, Placed, CountedOnce, [Next]_vars PROVE CountedOnce'
  OBVIOUS
<1>0. ASSUME NEW a \in Approvals, NEW e \in Events
      PROVE  /\ typed[a][e] \in Nat /\ Len(late[a][e]) \in Nat /\ Spent(a) \in {0, 1}
             /\ typed[a][e] + Len(late[a][e]) <= Spent(a)
  BY Numbers DEF Actors, Spent, One, CountedOnce
<1>1. ASSUME NEW a \in Actors, Timeout(a) PROVE CountedOnce'
  <2>1. /\ Forsake({a}) /\ {a} \in SUBSET Actors
        /\ UNCHANGED <<pc, typed>> /\ wire' = [wire EXCEPT ![a] = "error"]
        /\ wire[a] \in {"sent", "ok"}
    BY <1>1 DEF Timeout, Reply, actors, engine
  <2>2. ASSUME NEW b \in Approvals, NEW e \in Events
        PROVE  (typed[b][e] + Len(late[b][e]) <= Spent(b))'
    <3>1. /\ b \in {a} /\ pc[b] = "input" /\ wire[b] \in {"sent", "ok"} => Spent(b)' = 1
          /\ Spent(b)' = 1 \/ Spent(b)' = Spent(b)
      BY <2>1 DEF Spent, One, TypeOK, Actors
    <3>2. QED
      BY <2>1, <3>1, OnceWhenForsaken
  <2>3. QED
    BY <2>2 DEF CountedOnce
<1>2. CASE WebDies
  <2>1. /\ Forsake(Actors) /\ Actors \in SUBSET Actors /\ UNCHANGED typed
        /\ \A b \in Approvals : pc'[b] = IF pc[b] = "new" THEN "new" ELSE "done"
    BY <1>2 DEF WebDies, Actors, TypeOK
  <2>2. ASSUME NEW b \in Approvals, NEW e \in Events
        PROVE  (typed[b][e] + Len(late[b][e]) <= Spent(b))'
    <3>1. /\ b \in Actors /\ pc[b] = "input" /\ wire[b] \in {"sent", "ok"} => Spent(b)' = 1
          /\ Spent(b)' = 1 \/ Spent(b)' = Spent(b)
      BY <2>1 DEF Spent, One
    <3>2. QED
      BY <2>1, <3>1, OnceWhenForsaken
  <2>3. QED
    BY <2>2 DEF CountedOnce
<1>3. ASSUME NEW a \in Actors, NEW f \in Events, ServeLateInput(a, f) PROVE CountedOnce'
  <2>1. ASSUME NEW b \in Approvals, NEW e \in Events
        PROVE  (typed[b][e] + Len(late[b][e]) <= Spent(b))'
    <3>1. /\ typed'[b][e] \in Nat /\ Len(late'[b][e]) \in Nat
          /\ typed'[b][e] + Len(late'[b][e]) <= typed[b][e] + Len(late[b][e])
      BY <1>3, LateIsTyped DEF Actors
    <3>2. Spent(b)' = Spent(b)
      BY <1>3 DEF Spent, ServeLateInput, actors
    <3>3. /\ typed[b][e] \in Nat /\ Len(late[b][e]) \in Nat /\ Spent(b) \in Nat
          /\ typed[b][e] + Len(late[b][e]) <= Spent(b)
      BY <1>0
    <3>4. typed'[b][e] + Len(late'[b][e]) <= Spent(b)
      <4>1. PICK total \in Nat : total = typed[b][e] + Len(late[b][e])
        BY <3>3
      <4>2. PICK now \in Nat : now = typed'[b][e] + Len(late'[b][e])
        BY <3>1
      <4>3. now <= total /\ total <= Spent(b)
        BY <3>1, <3>3, <4>1, <4>2
      <4>4. now <= Spent(b)
        BY <3>3, <4>3
      <4>5. QED
        BY <4>2, <4>4
    <3>5. QED
      BY <3>2, <3>4
  <2>2. QED
    BY <2>1 DEF CountedOnce
<1>4. ASSUME NEW a \in Actors, ServeInput(a) PROVE CountedOnce'
  <2>1. /\ pc[a] = "input" /\ wire[a] = "sent" /\ wire' = [wire EXCEPT ![a] = "ok"]
        /\ typed' = [typed EXCEPT ![a][cur[a]] = @ + 1] /\ UNCHANGED <<pc, late>>
    BY <1>4 DEF ServeInput, Asked, Reply, lates
  <2>2. ASSUME NEW b \in Approvals, NEW e \in Events
        PROVE  (typed[b][e] + Len(late[b][e]) <= Spent(b))'
    <3>1. CASE b = a
      <4>1. Spent(b) = 0 /\ Spent(b)' = 1
        BY <2>1, <3>1 DEF Spent, One, TypeOK, Actors
      <4>2. typed'[b][e] \in {typed[b][e], typed[b][e] + 1}
        BY <1>0, <2>1, <3>1 DEF TypeOK, Actors
      <4>3. QED
        BY <1>0, <2>1, <4>1, <4>2
    <3>2. CASE b # a
      <4>1. typed'[b][e] = typed[b][e] /\ Spent(b)' = Spent(b)
        BY <2>1, <3>2 DEF Spent, TypeOK, Actors
      <4>2. QED
        BY <1>0, <2>1, <4>1
    <3>3. QED
      BY <3>1, <3>2
  <2>3. QED
    BY <2>2 DEF CountedOnce
<1>5. CASE BrokerDies
  <2>1. /\ UNCHANGED <<pc, typed>>
        /\ \A b \in Actors, e \in Events : late'[b][e] = <<>>
        /\ \A b \in Actors : wire'[b] = wire[b] \/ wire'[b] = "error"
    BY <1>5 DEF BrokerDies
  <2>2. ASSUME NEW b \in Approvals, NEW e \in Events
        PROVE  (typed[b][e] + Len(late[b][e]) <= Spent(b))'
    <3>1. Len(late'[b][e]) = 0
      BY <2>1 DEF Actors
    <3>2. Spent(b)' = 1 \/ Spent(b)' = Spent(b)
      BY <2>1 DEF Spent, One, Actors
    <3>3. QED
      BY <1>0, <2>1, <3>1, <3>2
  <2>3. QED
    BY <2>2 DEF CountedOnce
<1>6. ASSUME UNCHANGED <<typed, late>>,
             \A b \in Approvals : /\ pc'[b] \in {"new", "choose"} => pc[b] \in {"new", "choose"}
                                  /\ pc'[b] = "input" /\ wire'[b] = "sent"
                                         => \/ pc[b] = "choose"
                                            \/ pc[b] = "input" /\ wire[b] = "sent"
      PROVE  CountedOnce'
  <2>1. ASSUME NEW b \in Approvals, NEW e \in Events
        PROVE  (typed[b][e] + Len(late[b][e]) <= Spent(b))'
    <3>1. Spent(b)' = 1 \/ Spent(b)' = Spent(b)
      BY <1>6 DEF Spent, One
    <3>2. QED
      BY <1>0, <1>6, <3>1
  <2>2. QED
    BY <2>1 DEF CountedOnce
<1>7. ASSUME NEW a \in Approvals, ApprovalStep(a) \/ \E e \in Events : Approve(a, e)
      PROVE  CountedOnce'
  BY <1>6, <1>7
  DEF ApprovalStep, ApprovalSends, ApprovalTyped, ApprovalFails, Approve, Ask, Proceed, Answered,
      Failed, TypeOK, Placed, ApprovalSteps, Actors, lates, history
<1>8. CASE Step
  <2>1. UNCHANGED <<typed, late>>
    BY <1>8, StepTypesNothing DEF lates
  <2>2. \A b \in Approvals : pc'[b] = pc[b] /\ wire'[b] = wire[b]
    BY <1>8, ApprovalsRest
  <2>3. QED
    BY <1>6, <2>1, <2>2
<1>9. ASSUME NEW a \in Actors, Serve(a), ~ServeInput(a) PROVE CountedOnce'
  <2>1. UNCHANGED <<typed, late, pc>> /\ \E answer \in {"ok", "error"} : Reply(a, answer)
    BY <1>9
    DEF Serve, ServeList, ServeChoice, ServeBootstrap, ServeStart, Refuse, lates, history
  <2>2. QED
    BY <1>6, <2>1 DEF Reply, TypeOK, Actors
<1>10. CASE \/ WebStarts \/ BrokerStarts \/ UNCHANGED vars
            \/ ServeLateStart \/ (\E s \in Sessions : ServeLateBootstrap(s) \/ Session(s))
            \/ (\E t \in Targets : Terminal(t)) \/ (\E e \in Events : Raise(e) \/ Dismiss(e))
  BY <1>6, <1>10
  DEF WebStarts, BrokerStarts, vars, ServeLateStart, ServeLateBootstrap, Session, Terminal, NoFault,
      Raise, Dismiss, Proceed, TypeOK, Actors, lates, history, actors
<1>11. QED
  BY <1>1, <1>2, <1>3, <1>4, <1>5, <1>7, <1>8, <1>9, <1>10 DEF Next, ServeLate
-----------------------------------------------------------------------------
\* The initial states satisfy the invariant.
LEMMA Initially == Init => IInv
BY DEF Init, IInv, TypeOK, Placed, Final, Counted, CountedOnce, Known, DeliveredIsTyped, Open,
       Spent, One, Unread, Outside, EventStatus, CycleSteps, ApprovalSteps, Actors, B!Init, B!TypeOK,
       B!Statuses, B!Boots

\* Every reachable state satisfies it.
LEMMA Invariant == Spec => []IInv
<1>1. IInv /\ [Next]_vars => IInv'
  BY TypesPreserved, PlacedPreserved, FinalPreserved, CountedPreserved, OncePreserved,
     KnownPreserved DEF IInv
<1>2. QED
  BY Initially, <1>1, PTL DEF Spec

(* The variables keep their types (src/automation-engine.js,                   *)
(* src/broker-client.js).                                                      *)
THEOREM TypeCorrect == Spec => []TypeOK
<1>1. IInv => TypeOK
  BY DEF IInv
<1>2. QED
  BY Invariant, <1>1, PTL

(* The cycle types an event once, and once more at most per answer that it     *)
(* lost; an approval types it once: nothing else repeats a text                *)
(* (src/automation-engine.js:1138, 1283).                                      *)
THEOREM TextsAreCaused == Spec => []TypedForCause
<1>1. IInv => TypedForCause
  <2> SUFFICES ASSUME IInv, NEW e \in Events
               PROVE  /\ typed[Cycle][e] <= 1 + lost[e]
                      /\ \A a \in Approvals : typed[a][e] <= 1
    BY DEF TypedForCause
  <2>1. TypeOK /\ Placed /\ Final /\ Counted /\ CountedOnce
    BY DEF IInv
  <2>2. Open(e) = 0 \/ One(e \in marked) = 0
    BY <2>1 DEF Open, One, Final
  <2>3. Cycle \in Actors /\ Approvals \subseteq Actors
    BY DEF Actors
  <2>4. typed[Cycle][e] + Len(late[Cycle][e]) <= lost[e] + Open(e) + One(e \in marked)
    BY <2>1 DEF Counted
  <2>5. typed[Cycle][e] <= 1 + lost[e]
    <3> DEFINE mark == One(e \in marked)
    <3>1. /\ lost[e] \in Nat /\ Open(e) \in {0, 1} /\ mark \in {0, 1}
          /\ typed[Cycle][e] \in Nat /\ Len(late[Cycle][e]) \in Nat
      BY <2>1, <2>3, Numbers
    <3>2. /\ typed[Cycle][e] + Len(late[Cycle][e]) <= lost[e] + Open(e) + mark
          /\ Open(e) = 0 \/ mark = 0
      BY <2>2, <2>4
    <3> HIDE DEF mark
    <3>3. Open(e) + mark \in {0, 1}
      BY <3>1, <3>2
    <3>4. PICK t \in Nat, l \in Nat, n \in Nat :
              t = typed[Cycle][e] /\ l = Len(late[Cycle][e]) /\ n = lost[e]
      BY <3>1
    <3>5. PICK o \in {0, 1}, m \in {0, 1} : o = Open(e) /\ m = mark
      BY <3>1
    <3>6. t + l <= n + o + m /\ o + m \in {0, 1}
      BY <3>2, <3>3, <3>4, <3>5
    <3>7. t <= 1 + n
      BY <3>6
    <3>8. QED
      BY <3>4, <3>7
  <2>6. ASSUME NEW a \in Approvals PROVE typed[a][e] <= 1
    <3>1. typed[a][e] \in Nat /\ Len(late[a][e]) \in Nat
      BY <2>1, <2>3, Numbers
    <3>2. Spent(a) \in {0, 1} /\ typed[a][e] + Len(late[a][e]) <= Spent(a)
      BY <2>1 DEF Spent, One, CountedOnce
    <3>3. QED
      BY <3>1, <3>2
  <2>7. QED
    BY <2>5, <2>6
<1>2. QED
  BY Invariant, <1>1, PTL

(* An event is DELIVERED only after its text was typed, whatever happens to    *)
(* requests, answers and processes (src/automation-engine.js:1138).            *)
THEOREM MarksAreTrue == Spec => []DeliveredIsTyped
<1>1. IInv => DeliveredIsTyped
  BY DEF IInv, Known
<1>2. QED
  BY Invariant, <1>1, PTL
-----------------------------------------------------------------------------
(* What faults, readers and targets have to do with it.                       *)

Silent == {"timeout", "web", "broker"}

\* An answer is lost only by a fault, and by some faults only.
Losses == \A e \in Events : lost[e] <= faults /\ (Faults \cap Silent = {} => lost[e] = 0)

\* An actor that types, or that was told of a session, has one of the target.
Matched ==
    /\ RightSession
    /\ \A a \in Actors : pc[a] = "choose" /\ wire[a] = "ok" /\ peer[a] # NoSession
                             => ProjectOf[peer[a]] = TargetOf[cur[a]]

\* Which steps lose answers: one per event and fault.
LEMMA LossStep ==
    ASSUME TypeOK, [Next]_vars
    PROVE  \/ lost' = lost /\ faults' \in {faults, faults + 1}
           \/ /\ faults' = faults + 1 /\ Faults \cap Silent # {}
              /\ \A e \in Events : lost'[e] \in {lost[e], lost[e] + 1}
<1> DEFINE Goal == \/ lost' = lost /\ faults' \in {faults, faults + 1}
                   \/ /\ faults' = faults + 1 /\ Faults \cap Silent # {}
                      /\ \A e \in Events : lost'[e] \in {lost[e], lost[e] + 1}
<1> USE DEF Fault, history
<1>1. ASSUME NEW a \in Actors, Timeout(a) PROVE Goal
  BY <1>1 DEF Timeout, Forsake, Silent
<1>2. CASE WebDies
  BY <1>2 DEF WebDies, Forsake, Silent
<1>3. CASE BrokerDies
  BY <1>3 DEF BrokerDies, Silent
<1>4. ASSUME NEW a \in Actors, Serve(a) PROVE Goal
  BY <1>4
  DEF Serve, ServeList, ServeChoice, ServeInput, ServeBootstrap, ServeStart, Refuse
<1>5. CASE ServeLate
  BY <1>5 DEF ServeLate, ServeLateInput, ServeLateStart, ServeLateBootstrap
<1>6. CASE Step
  <2>1. UNCHANGED <<lost, faults>>
    BY <1>6, StepTypesNothing
  <2>2. QED
    BY <2>1
<1>7. ASSUME NEW a \in Approvals, ApprovalStep(a) \/ \E e \in Events : Approve(a, e) PROVE Goal
  BY <1>7 DEF ApprovalStep, ApprovalSends, ApprovalTyped, ApprovalFails, Approve
<1>8. CASE \/ WebStarts \/ BrokerStarts \/ UNCHANGED vars
           \/ (\E s \in Sessions : Session(s)) \/ (\E t \in Targets : Terminal(t))
           \/ \E e \in Events : Raise(e) \/ Dismiss(e)
  BY <1>8 DEF WebStarts, BrokerStarts, vars, Session, Terminal, NoFault, Raise, Dismiss
<1>9. QED
  BY <1>1, <1>2, <1>3, <1>4, <1>5, <1>6, <1>7, <1>8 DEF Next

\* So the losses stay below the faults.
LEMMA LossesPreserved == TypeOK /\ Losses /\ [Next]_vars => Losses'
<1> SUFFICES ASSUME TypeOK, Losses, [Next]_vars, NEW e \in Events
             PROVE  (lost[e] <= faults /\ (Faults \cap Silent = {} => lost[e] = 0))'
  BY DEF Losses
<1>1. /\ lost[e] \in Nat /\ faults \in Nat
      /\ lost[e] <= faults /\ (Faults \cap Silent = {} => lost[e] = 0)
  BY DEF TypeOK, Losses
<1>2. CASE lost' = lost /\ faults' \in {faults, faults + 1}
  BY <1>1, <1>2
<1>3. CASE /\ faults' = faults + 1 /\ Faults \cap Silent # {}
           /\ \A f \in Events : lost'[f] \in {lost[f], lost[f] + 1}
  BY <1>1, <1>3
<1>4. QED
  BY <1>2, <1>3, LossStep

\* What is behind the first of a sequence.
LEMMA Behind ==
    ASSUME NEW q \in Seq(Sessions), q # <<>>, NEW i \in 1..Len(Tail(q))
    PROVE  i + 1 \in 1..Len(q) /\ Tail(q)[i] = q[i + 1]
<1>1. Len(q) \in Nat /\ Len(Tail(q)) = Len(q) - 1
  BY Queue
<1>2. QED
  BY <1>1

\* Whose requests are served late was not changed, but for what they dropped.
LEMMA ForsakeMatches ==
    ASSUME TypeOK, Placed, Matched, NEW gone \in SUBSET Actors, Forsake(gone),
           NEW a \in Actors, NEW e \in Events, NEW i \in 1..Len(late'[a][e])
    PROVE  ProjectOf[late'[a][e][i]] = TargetOf[e]
<1>1. late[a][e] \in Seq(Sessions)
  BY DEF TypeOK
<1>2. CASE a \in gone /\ pc[a] = "input" /\ wire[a] = "sent" /\ cur[a] = e
  <2>1. late'[a][e] = Append(late[a][e], peer[a]) /\ peer[a] \in Sessions
    BY <1>2 DEF Forsake, Placed
  <2>2. ProjectOf[peer[a]] = TargetOf[e]
    BY <1>2 DEF Matched, RightSession
  <2>3. i \in 1..Len(late[a][e]) => late'[a][e][i] = late[a][e][i]
    BY <1>1, <2>1
  <2>4. i \notin 1..Len(late[a][e]) => late'[a][e][i] = peer[a]
    BY <1>1, <2>1
  <2>5. QED
    BY <2>2, <2>3, <2>4 DEF Matched, RightSession
<1>3. CASE ~(a \in gone /\ pc[a] = "input" /\ wire[a] = "sent" /\ cur[a] = e)
  BY <1>3 DEF Forsake, Matched, RightSession
<1>4. QED
  BY <1>2, <1>3

\* Every step keeps texts with sessions of their target.
LEMMA MatchedPreserved == TypeOK /\ Placed /\ Matched /\ [Next]_vars => Matched'
<1> SUFFICES ASSUME TypeOK, Placed, Matched, [Next]_vars PROVE Matched'
  OBVIOUS
<1> DEFINE Told(a) == pc[a] = "input" \/ (pc[a] = "choose" /\ wire[a] = "ok" /\ peer[a] # NoSession)
<1>0. ASSUME \A a \in Actors : Told(a)' => ProjectOf[peer'[a]] = TargetOf[cur'[a]],
             \A a \in Actors, e \in Events : \A i \in 1..Len(late'[a][e]) :
                 ProjectOf[late'[a][e][i]] = TargetOf[e]
      PROVE  Matched'
  BY <1>0 DEF Matched, RightSession
<1>1. /\ \A a \in Actors : Told(a) => ProjectOf[peer[a]] = TargetOf[cur[a]]
      /\ \A a \in Actors, e \in Events : \A i \in 1..Len(late[a][e]) :
             ProjectOf[late[a][e][i]] = TargetOf[e]
  BY DEF Matched, RightSession
<1>2. ASSUME UNCHANGED late,
             \A a \in Actors : Told(a)' => Told(a) /\ peer'[a] = peer[a] /\ cur'[a] = cur[a]
      PROVE  Matched'
  <2> HIDE DEF Told
  <2>1. QED
    BY <1>0, <1>1, <1>2
<1> USE DEF TypeOK, Placed, Actors, CycleSteps, ApprovalSteps, Ask, Proceed, Reply, Release, Asked,
        Answered, Returned, Failed, Lists, Starts, lates, engine, actors, history
<1>3. ASSUME NEW a \in Actors, Serve(a) PROVE Matched'
  <2>1. CASE ServeChoice(a)
    <3>1. PICK s \in Waiting(TargetOf[cur[a]]) \union {NoSession} : peer' = [peer EXCEPT ![a] = s]
      BY <2>1 DEF ServeChoice
    <3>2. peer'[a] # NoSession => ProjectOf[peer'[a]] = TargetOf[cur[a]]
      BY <3>1 DEF Waiting
    <3>3. /\ UNCHANGED <<pc, cur, late>> /\ pc[a] = "choose"
          /\ \A b \in Actors \ {a} : peer'[b] = peer[b] /\ wire'[b] = wire[b]
      BY <2>1, <3>1 DEF ServeChoice
    <3>4. ASSUME NEW b \in Actors, Told(b)' PROVE ProjectOf[peer'[b]] = TargetOf[cur'[b]]
      <4>1. CASE b = a
        BY <3>2, <3>3, <3>4, <4>1
      <4>2. CASE b # a
        BY <1>1, <3>3, <3>4, <4>2
      <4>3. QED
        BY <4>1, <4>2
    <3>5. \A b \in Actors : Told(b)' => ProjectOf[peer'[b]] = TargetOf[cur'[b]]
      BY <3>4
    <3> HIDE DEF Told
    <3>6. QED
      BY <1>0, <1>1, <3>3, <3>5
  <2>2. CASE ~ServeChoice(a)
    <3>1. /\ UNCHANGED <<pc, cur, peer, late>> /\ pc[a] # "choose"
          /\ \A b \in Actors \ {a} : wire'[b] = wire[b]
      BY <1>3, <2>2 DEF Serve, ServeList, ServeInput, ServeBootstrap, ServeStart, Refuse
    <3>2. QED
      BY <1>2, <3>1
  <2>3. QED
    BY <2>1, <2>2
<1>4. ASSUME NEW a \in Actors, Timeout(a) PROVE Matched'
  <2>1. /\ Forsake({a}) /\ {a} \in SUBSET Actors /\ UNCHANGED <<pc, cur, peer>>
        /\ wire' = [wire EXCEPT ![a] = "error"]
    BY <1>4 DEF Timeout
  <2>2. \A b \in Actors : Told(b)' => ProjectOf[peer'[b]] = TargetOf[cur'[b]]
    BY <1>1, <2>1
  <2>3. QED
    BY <1>0, <2>1, <2>2, ForsakeMatches
<1>5. ASSUME NEW a \in Actors, NEW e \in Events, ServeLateInput(a, e) PROVE Matched'
  <2>1. /\ late[a][e] # <<>> /\ late' = [late EXCEPT ![a][e] = Tail(@)]
        /\ UNCHANGED <<pc, wire, cur, peer>>
    BY <1>5 DEF ServeLateInput
  <2>2. late[a][e] \in Seq(Sessions)
    OBVIOUS
  <2>3. ASSUME NEW b \in Actors, NEW f \in Events, NEW i \in 1..Len(late'[b][f])
        PROVE  ProjectOf[late'[b][f][i]] = TargetOf[f]
    <3>1. CASE b = a /\ f = e
      <4>1. late'[b][f] = Tail(late[a][e])
        BY <2>1, <3>1
      <4>2. i + 1 \in 1..Len(late[a][e]) /\ late'[b][f][i] = late[a][e][i + 1]
        <5> DEFINE q == late[a][e]
        <5>1. q \in Seq(Sessions) /\ q # <<>> /\ late'[b][f] = Tail(q) /\ i \in 1..Len(Tail(q))
          BY <2>1, <2>2, <4>1
        <5> HIDE DEF q
        <5>2. i + 1 \in 1..Len(q) /\ Tail(q)[i] = q[i + 1]
          BY <5>1, Behind
        <5>3. i + 1 \in 1..Len(q) /\ late'[b][f][i] = q[i + 1]
          BY <5>1, <5>2
        <5>4. QED
          BY <5>3 DEF q
      <4>3. QED
        BY <1>1, <3>1, <4>2
    <3>2. CASE ~(b = a /\ f = e)
      BY <1>1, <2>1, <3>2
    <3>3. QED
      BY <3>1, <3>2
  <2>4. QED
    BY <1>0, <1>1, <2>1, <2>3
<1>6. CASE Step
  <2>1. UNCHANGED late /\ \A a \in Approvals : /\ pc'[a] = pc[a] /\ wire'[a] = wire[a]
                                               /\ peer'[a] = peer[a] /\ cur'[a] = cur[a]
    BY <1>6, StepTypesNothing, ApprovalsRest
  <2>2. pc[Cycle] # "choose"
    OBVIOUS
  <2>3. ASSUME NEW e \in Events, SendInput(e)
        PROVE  pc'[Cycle] = "input" /\ ProjectOf[peer'[Cycle]] = TargetOf[cur'[Cycle]]
    BY <2>3 DEF SendInput, Candidates
  <2>4. (~\E e \in Events : SendInput(e)) => pc'[Cycle] \notin {"input", "choose"} \/ UNCHANGED <<pc, wire, cur, peer>>
    BY <1>6
    DEF Step, BeginCycle, CycleFails, ControlFound, ControlMissing, ControlRevived, PromptsDue,
        SendPrompt, PromptSent, ReadRows, SessionsListed, InputTyped, HoldCurrent, EndCycle, Finish,
        SkipServed, Hold, HandOver, AskControl
  <2>5. \A a \in Actors : Told(a)' => ProjectOf[peer'[a]] = TargetOf[cur'[a]]
    BY <1>1, <2>1, <2>2, <2>3, <2>4
  <2>6. QED
    BY <1>0, <1>1, <2>1, <2>5
<1>7. ASSUME NEW a \in Approvals, ApprovalStep(a) \/ \E e \in Events : Approve(a, e) PROVE Matched'
  <2>1. UNCHANGED <<late, peer>> /\ \A b \in Actors \ {a} : /\ pc'[b] = pc[b] /\ wire'[b] = wire[b]
                                                            /\ cur'[b] = cur[b]
    BY <1>7 DEF ApprovalStep, ApprovalSends, ApprovalTyped, ApprovalFails, Approve
  <2>2. Told(a)' => Told(a) /\ cur'[a] = cur[a]
    BY <1>7 DEF ApprovalStep, ApprovalSends, ApprovalTyped, ApprovalFails, Approve
  <2>3. QED
    BY <1>2, <2>1, <2>2
<1>8. CASE WebDies
  <2>1. /\ Forsake(Actors) /\ Actors \in SUBSET Actors
        /\ \A a \in Actors : pc'[a] \in {"down", "new", "done"}
    BY <1>8 DEF WebDies
  <2>2. QED
    BY <1>0, <2>1, ForsakeMatches
<1>9. CASE BrokerDies
  <2>1. /\ UNCHANGED <<pc, cur, peer>> /\ \A a \in Actors : wire'[a] \in {wire[a], "error"}
        /\ \A a \in Actors, e \in Events : late'[a][e] = <<>>
    BY <1>9 DEF BrokerDies
  <2>2. QED
    BY <1>0, <1>1, <2>1
<1>10. CASE WebStarts
  BY <1>2, <1>10 DEF WebStarts
<1>11. CASE \/ BrokerStarts \/ UNCHANGED vars \/ ServeLateStart
            \/ (\E s \in Sessions : Session(s) \/ ServeLateBootstrap(s))
            \/ (\E t \in Targets : Terminal(t))
            \/ \E e \in Events : Raise(e) \/ Dismiss(e)
  <2>1. UNCHANGED <<late, pc, wire, cur, peer>>
    BY <1>11
    DEF BrokerStarts, vars, ServeLateStart, Session, ServeLateBootstrap, Terminal, Raise, Dismiss
  <2>2. QED
    BY <1>2, <2>1
<1>12. QED
  BY <1>3, <1>4, <1>5, <1>6, <1>7, <1>8, <1>9, <1>10, <1>11 DEF Next, ServeLate

\* The invariant, with what was added.
LEMMA WiderInvariant == Spec => [](IInv /\ Losses /\ Matched)
<1>1. Init => Losses /\ Matched
  BY DEF Init, Losses, Matched, RightSession, Actors
<1>2. IInv /\ Losses /\ Matched /\ [Next]_vars => (Losses /\ Matched)'
  BY LossesPreserved, MatchedPreserved DEF IInv
<1>3. QED
  BY Invariant, <1>1, <1>2, PTL DEF Spec

(* A text is typed once by the cycle and once more per fault at most, and      *)
(* never twice while clients wait and both processes live                     *)
(* (src/broker-client.js:30, src/automation-engine.js:1138).                   *)
THEOREM TextsNeedFaults == Spec => []TextsPerFault
<1>1. TypeOK /\ TypedForCause /\ Losses => TextsPerFault
  <2> SUFFICES ASSUME TypeOK, TypedForCause, Losses, NEW e \in Events
               PROVE  /\ typed[Cycle][e] <= 1 + faults
                      /\ Faults \cap Silent = {} => typed[Cycle][e] <= 1
    BY DEF TextsPerFault, Silent
  <2>1. PICK t \in Nat, l \in Nat, f \in Nat : t = typed[Cycle][e] /\ l = lost[e] /\ f = faults
    BY DEF TypeOK, Actors
  <2>2. t <= 1 + l /\ l <= f /\ (Faults \cap Silent = {} => l = 0)
    BY <2>1 DEF TypedForCause, Losses
  <2>3. t <= 1 + f /\ (Faults \cap Silent = {} => t <= 1)
    BY <2>2
  <2>4. QED
    BY <2>1, <2>3
<1>2. IInv => TypeOK
  BY DEF IInv
<1>3. QED
  BY WiderInvariant, TextsAreCaused, <1>1, <1>2, PTL

(* The cycle never takes up an event again that it has marked, and nothing     *)
(* takes the mark away (src/automation-engine.js:1138).                        *)
THEOREM MarksAreFinal == Spec => []MarkIsFinal
<1>1. IInv => MarkIsFinal
  BY DEF IInv, Final, MarkIsFinal
<1>2. QED
  BY Invariant, <1>1, PTL

(* No text reaches a session of another target, on time or late                *)
(* (src/automation-engine.js:1136, 1283).                                      *)
THEOREM TextsStayInTarget == Spec => []RightSession
<1>1. Matched => RightSession
  BY DEF Matched
<1>2. QED
  BY WiderInvariant, <1>1, PTL
\* Who has the row of an event in hand takes it up while the event is listed.
LEMMA SettledStep ==
    ASSUME TypeOK, Placed, [Next]_vars, NEW e \in Events, Settled(e)
    PROVE  event'[e] = event[e] /\ ~InHand(e)'
<1> DEFINE Goal == event'[e] = event[e] /\ ~InHand(e)'
<1>1. /\ event[e] \notin Listed \union {"NONE"} /\ e \notin rows
      /\ pc[Cycle] \in {"input", "start", "relist"} => cur[Cycle] # e
      /\ \A a \in Approvals : pc[a] \in {"choose", "input"} => cur[a] # e
  BY DEF Settled, InHand, Listed
<1>2. ASSUME event'[e] = event[e], e \notin rows',
             pc'[Cycle] \in {"input", "start", "relist"} => cur'[Cycle] # e,
             \A a \in Approvals : pc'[a] \in {"choose", "input"} => cur'[a] # e
      PROVE  Goal
  BY <1>2 DEF InHand
<1> USE DEF TypeOK, Placed, Actors, Ask, Proceed, Release, Answered, Returned, Failed, Lists,
        CycleSteps, ApprovalSteps, engine, actors
<1> SUFFICES Goal
  OBVIOUS
<1> HIDE DEF Goal
<1>3. CASE Step
  <2> DEFINE Left == /\ event'[e] = event[e] /\ e \notin rows'
                     /\ pc'[Cycle] \in {"input", "start", "relist"} => cur'[Cycle] # e
  <2>1. \A a \in Approvals : pc'[a] = pc[a] /\ cur'[a] = cur[a]
    BY <1>3, ApprovalsRest
  <2>2. ASSUME BeginCycle \/ ControlFound \/ ControlMissing \/ ControlRevived \/ PromptsDue
       PROVE  Left
    <3>1. UNCHANGED <<event, rows>> /\ pc'[Cycle] \in {"ensure", "watch", "revive", "sessions"}
      BY <2>2 DEF BeginCycle, ControlFound, ControlMissing, ControlRevived, PromptsDue
    <3>2. QED
      BY <1>1, <3>1
  <2>3. ASSUME CycleFails \/ EndCycle
       PROVE  Left
    <3>1. UNCHANGED event /\ rows' = {} /\ pc'[Cycle] = "idle"
      BY <2>3 DEF CycleFails, EndCycle, Finish
    <3>2. QED
      BY <1>1, <3>1
  <2>4. ASSUME PromptSent \/ SessionsListed \/ \E s \in Sessions : SendPrompt(s)
       PROVE  Left
    <3>1. UNCHANGED <<event, rows>> /\ pc'[Cycle] \in {"sessions", "deliver", "boot"}
      BY <2>4 DEF SendPrompt, PromptSent, SessionsListed
    <3>2. QED
      BY <1>1, <3>1
  <2>5. ASSUME ReadRows
       PROVE  Left
    <3>1. Finish \/ (Ask(Cycle, "list") /\ rows' = {f \in Events : event[f] \in Listed})
      BY <2>5, Zenon DEF ReadRows
    <3>2. UNCHANGED event /\ pc'[Cycle] \in {"idle", "list"} /\ e \notin rows'
      BY <1>1, <2>5, <3>1 DEF ReadRows, Finish
    <3>3. QED
      BY <3>2
  <2>6. ASSUME InputTyped \/ HoldCurrent
       PROVE  Left
    <3>1. cur[Cycle] # e /\ rows' = rows /\ pc'[Cycle] = "deliver"
      BY <1>1, <2>6 DEF InputTyped, HoldCurrent
    <3>2. event'[e] = event[e]
      BY <2>6, <3>1 DEF InputTyped, HoldCurrent, Held
    <3>3. QED
      BY <1>1, <3>1, <3>2
  <2>7. ASSUME NEW f \in Events, SkipServed(f) \/ Hold(f) \/ HandOver(f) PROVE Left
    <3>1. f # e /\ rows' \subseteq rows /\ UNCHANGED <<pc, cur>>
      BY <1>1, <2>7 DEF SkipServed, Hold, HandOver, Fresh, NextRow
    <3>2. event'[e] = event[e]
      BY <2>7, <3>1 DEF SkipServed, Hold, HandOver, Held
    <3>3. QED
      BY <1>1, <3>1, <3>2
  <2>8. ASSUME NEW f \in Events, SendInput(f) \/ AskControl(f) PROVE Left
    <3>1. f # e /\ rows' \subseteq rows /\ UNCHANGED event /\ cur' = [cur EXCEPT ![Cycle] = f]
      BY <1>1, <2>8 DEF SendInput, AskControl, Fresh, NextRow
    <3>2. QED
      BY <1>1, <3>1
  <2>9. Left
    BY <1>3, <2>2, <2>3, <2>4, <2>5, <2>6, <2>7, <2>8 DEF Step
  <2>10. \A a \in Approvals : pc'[a] \in {"choose", "input"} => cur'[a] # e
    BY <1>1, <2>1
  <2>11. QED
    BY <1>2, <2>9, <2>10
<1>4. ASSUME NEW a \in Approvals, ApprovalStep(a) PROVE Goal
  <2>1. UNCHANGED <<rows, cur>> /\ \A b \in Actors \ {a} : pc'[b] = pc[b]
    BY <1>4 DEF ApprovalStep, ApprovalSends, ApprovalTyped, ApprovalFails
  <2>2. pc[a] \in {"choose", "input"} /\ cur[a] # e
    BY <1>1, <1>4 DEF ApprovalStep, ApprovalSends, ApprovalTyped, ApprovalFails
  <2>3. event'[e] = event[e]
    BY <1>4, <2>2 DEF ApprovalStep, ApprovalSends, ApprovalTyped, ApprovalFails
  <2>4. QED
    BY <1>1, <1>2, <2>1, <2>2, <2>3
<1>5. ASSUME NEW a \in Approvals, NEW f \in Events, Approve(a, f) PROVE Goal
  <2>1. f # e /\ UNCHANGED <<rows, event>> /\ cur' = [cur EXCEPT ![a] = f]
        /\ \A b \in Actors \ {a} : pc'[b] = pc[b]
    BY <1>1, <1>5 DEF Approve
  <2>2. QED
    BY <1>1, <1>2, <2>1
<1>6. ASSUME NEW f \in Events, Raise(f) \/ Dismiss(f) PROVE Goal
  BY <1>1, <1>2, <1>6 DEF Raise, Dismiss
<1>7. CASE WebDies
  <2>1. UNCHANGED event /\ rows' = {} /\ \A a \in Actors : pc'[a] \in {"down", "new", "done"}
    BY <1>7 DEF WebDies
  <2>2. /\ pc'[Cycle] = "down"
        /\ \A a \in Approvals : pc'[a] \notin {"choose", "input"}
    BY <1>7 DEF WebDies
  <2>3. QED
    BY <1>2, <2>1, <2>2
<1>8. CASE WebStarts
  <2>1. UNCHANGED <<event, rows, cur>> /\ pc' = [pc EXCEPT ![Cycle] = "idle"]
    BY <1>8 DEF WebStarts
  <2>2. /\ pc'[Cycle] = "idle"
        /\ \A a \in Approvals : pc'[a] = pc[a] /\ cur'[a] = cur[a]
    BY <2>1
  <2>3. \A a \in Approvals : pc'[a] \in {"choose", "input"} => cur'[a] # e
    BY <1>1, <2>2
  <2>4. QED
    BY <1>1, <1>2, <2>1, <2>2, <2>3
<1>9. ASSUME UNCHANGED <<event, rows, pc, cur>> PROVE Goal
  BY <1>1, <1>2, <1>9
<1>10. ASSUME NEW a \in Actors, Serve(a) \/ Timeout(a) PROVE Goal
  BY <1>9, <1>10
  DEF Serve, ServeList, ServeChoice, ServeInput, ServeBootstrap, ServeStart, Refuse, Timeout
<1>11. CASE \/ ServeLate \/ BrokerDies \/ BrokerStarts \/ UNCHANGED vars
            \/ (\E s \in Sessions : Session(s)) \/ (\E t \in Targets : Terminal(t))
  <2>1. UNCHANGED <<event, rows, pc, cur>>
    BY <1>11
    DEF ServeLate, ServeLateInput, ServeLateStart, ServeLateBootstrap, BrokerDies, BrokerStarts,
        vars, Session, Terminal
  <2>2. QED
    BY <1>9, <2>1
<1>12. QED
  BY <1>3, <1>4, <1>5, <1>6, <1>7, <1>8, <1>10, <1>11 DEF Next

(* A dismissal, a delivery or a handover that nobody has in hand is never      *)
(* overwritten: only the awaits of a pass and of an approval are a window      *)
(* (src/automation-engine.js:863, 1283).                                       *)
THEOREM SettledEventsStay == Spec => SettledStays
<1>1. IInv /\ [Next]_vars => [\A e \in Events : Settled(e) => Settled(e)' /\ event'[e] = event[e]]_vars
  BY SettledStep DEF IInv, Settled
<1>2. QED
  BY Invariant, <1>1, PTL DEF Spec, SettledStays
-----------------------------------------------------------------------------
(* The sessions, as the web process meets them, keep the broker's promise.    *)

\* What is asked of one session is a step of the promise.
LEMMA SessionStep ==
    ASSUME NEW s \in Sessions, NEW p \in BOOLEAN,
           \/ B!Start(s, p) \/ B!StartFails(s) \/ B!Input(s) \/ B!Bootstrap(s) \/ B!Stop(s)
           \/ B!Claude(s)
    PROVE  B!Next
BY DEF B!Next

\* Every step is one of the promise, or leaves the sessions alone.
LEMMA StepKeepsPromise == TypeOK /\ Placed /\ [Next]_vars => [B!Next]_(B!vars)
<1> SUFFICES ASSUME TypeOK, Placed, [Next]_vars PROVE [B!Next]_(B!vars)
  OBVIOUS
<1>0. UNCHANGED broker => UNCHANGED B!vars
  BY DEF broker, B!vars
<1>1. ASSUME NEW a \in Actors, Serve(a) PROVE [B!Next]_(B!vars)
  <2>1. CASE ServeInput(a) \/ ServeBootstrap(a)
    <3>1. peer[a] \in Sessions
      BY <2>1 DEF ServeInput, ServeBootstrap, Asked, Placed, Actors, ApprovalSteps
    <3>2. B!Input(peer[a]) \/ B!Bootstrap(peer[a])
      BY <2>1 DEF ServeInput, ServeBootstrap
    <3>3. QED
      BY <3>1, <3>2, SessionStep
  <2>2. CASE ServeStart(a)
    <3>1. PICK s \in Sessions : B!Start(s, TRUE) \/ B!StartFails(s)
      BY <2>2 DEF ServeStart, StartControl
    <3>2. QED
      BY <3>1, SessionStep
  <2>3. CASE ServeList(a) \/ ServeChoice(a) \/ Refuse(a)
    BY <1>0, <2>3 DEF ServeList, ServeChoice, Refuse
  <2>4. QED
    BY <1>1, <2>1, <2>2, <2>3 DEF Serve
<1>2. CASE ServeLate
  <2>1. ASSUME NEW a \in Actors, NEW e \in Events, ServeLateInput(a, e) PROVE [B!Next]_(B!vars)
    <3>1. Head(late[a][e]) \in Sessions
      BY <2>1, Queue DEF ServeLateInput, TypeOK
    <3>2. B!Input(Head(late[a][e])) \/ UNCHANGED broker
      BY <2>1 DEF ServeLateInput
    <3>3. QED
      BY <1>0, <3>1, <3>2, SessionStep
  <2>2. CASE ServeLateStart
    <3>1. UNCHANGED broker \/ \E s \in Sessions : B!Start(s, TRUE)
      BY <2>2 DEF ServeLateStart, StartControl
    <3>2. QED
      BY <1>0, <3>1, SessionStep
  <2>3. ASSUME NEW s \in Sessions, ServeLateBootstrap(s) PROVE [B!Next]_(B!vars)
    BY <1>0, <2>3, SessionStep DEF ServeLateBootstrap
  <2>4. QED
    BY <1>2, <2>1, <2>2, <2>3 DEF ServeLate
<1>3. ASSUME NEW s \in Sessions, Session(s) PROVE [B!Next]_(B!vars)
  <2>1. B!Claude(s) \/ B!Stop(s) \/ B!Bootstrap(s) \/ \E p \in BOOLEAN : B!Start(s, p)
    BY <1>3 DEF Session
  <2>2. QED
    BY <2>1, SessionStep
<1>4. CASE BrokerDies \/ BrokerStarts
  BY <1>4 DEF BrokerDies, BrokerStarts, B!Next
<1>5. CASE Step
  BY <1>0, <1>5, StepTypesNothing
<1>6. ASSUME NEW a \in Actors, Timeout(a) PROVE [B!Next]_(B!vars)
  BY <1>0, <1>6 DEF Timeout
<1>7. ASSUME NEW a \in Approvals, ApprovalStep(a) \/ \E e \in Events : Approve(a, e)
      PROVE  [B!Next]_(B!vars)
  BY <1>0, <1>7 DEF ApprovalStep, ApprovalSends, ApprovalTyped, ApprovalFails, Approve
<1>8. CASE \/ WebDies \/ WebStarts \/ UNCHANGED vars \/ \E t \in Targets : Terminal(t)
           \/ \E e \in Events : Raise(e) \/ Dismiss(e)
  BY <1>0, <1>8 DEF WebDies, WebStarts, vars, Terminal, Raise, Dismiss
<1>9. QED
  BY <1>1, <1>2, <1>3, <1>4, <1>5, <1>6, <1>7, <1>8 DEF Next

(* The sessions that the deliveries rely on behave as BrokerSessions says,     *)
(* which the session manager implements: SessionManagerProofs,                 *)
(* ManagerKeepsPromise (src/session-manager.js).                               *)
THEOREM RelyOnPromise == Spec => ImplementsSessions
<1>1. Init => B!Init
  BY DEF Init
<1>2. IInv /\ [Next]_vars => [B!Next]_(B!vars)
  BY StepKeepsPromise DEF IInv
<1>3. QED
  BY Invariant, <1>1, <1>2, PTL DEF Spec, B!Spec, ImplementsSessions
=============================================================================
