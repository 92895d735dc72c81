----------------------- MODULE ExternalDeliveryProofs -----------------------
(* Proofs about ExternalDelivery for any number of events, processes, targets *)
(* and faults.                                                                *)
EXTENDS ExternalDelivery, FiniteSetTheorems, TLAPS

(* The inductive invariant.  Working and Progress say what the program        *)
(* counter implies about the message being worked on; Ledger ties the status  *)
(* of a message to what was typed; Texts and Evidence follow a text from the  *)
(* prompt to the history and into the snapshot.                               *)

Working ==
    /\ pc \in {"claim", "paste", "enter", "mark", "event_sent", "retry"} =>
          cur \in Events /\ peer \in Pids
    /\ pc \in {"claim", "paste", "enter", "mark", "event_sent"} => cur \in todo

Typed == TypeOK /\ Working

Progress ==
    /\ pc = "claim" => box[cur] = "QUEUED"
    /\ pc = "paste" => box[cur] = "SENDING" /\ written[cur] = 0
    /\ pc \in {"enter", "mark"} => box[cur] = "SENDING" /\ written[cur] = 1
    /\ pc = "event_sent" => box[cur] = "SENT_AWAITING_ACK"
    /\ pc = "retry" => box[cur] \in Retryable
    /\ pc = "resolve" => /\ cur \in Events /\ event[cur] \in Open
                         /\ box[cur] \notin Unacknowledged
    /\ pc \in {"supersede", "resolve_older"} => cur \in Events /\ box[cur] = "ACKED"
    /\ pc = "resolve_older" => older \in Events

Ledger ==
    \A e \in Events :
        /\ written[e] \in {0, 1}
        /\ box[e] \in {"ABSENT", "QUEUED"} => written[e] = 0
        /\ box[e] \in {"SENT_AWAITING_ACK", "ACKED"} => written[e] = 1

Texts ==
    /\ \A e \in taken : written[e] = 1
    /\ \A p \in Pids : accepted[p] \subseteq taken
    /\ \A p \in Pids : draft[p] # NoDraft => written[draft[p]] = 1

Evidence == \A p \in Pids : view.marks[p] \subseteq taken

IInv == /\ Typed /\ Progress /\ Ledger /\ Texts /\ Evidence
        /\ OneInFlight /\ DeliveredIsTrue /\ TextLivesOnce
        /\ SupersededForCause /\ SentIsTracked

-----------------------------------------------------------------------------
(* Type correctness.                                                          *)

\* The rows of the outbox can be counted, so a new row gets a number.
LEMMA RowsAreCounted == Cardinality({m \in Events : box[m] # "ABSENT"}) \in Nat
<1>1. IsFiniteSet(Events)
  BY NumEventsAssumption, FS_Interval, 1 \in Int, NumEvents \in Int DEF Events
<1>2. IsFiniteSet({m \in Events : box[m] # "ABSENT"})
  BY <1>1, FS_Subset
<1>. QED
  BY <1>2, FS_CardinalityType

\* What an Enter keypress can change.
Prompted ==
    /\ screen \in [Pids -> Screens]
    /\ draft \in [Pids -> Events \union {NoDraft}]
    /\ folded \subseteq Pids
    /\ accepted \in [Pids -> SUBSET Events]
    /\ writer \in [Targets -> Pids \union {NoPid}]
    /\ taken \subseteq Events
    /\ faults \in Nat

\* Submitting a draft keeps the types of what it changes.
LEMMA SubmittedTypes ==
    ASSUME NEW p \in Pids, Prompted, draft[p] # NoDraft, Submitted(p), faults' \in Nat
    PROVE  Prompted'
<1>1. draft[p] \in Events
  BY DEF Prompted
<1>. QED
  BY <1>1, TargetAssumption DEF Prompted, Submitted, Screens, NoDraft

\* So does any Enter keypress, swallowed or not.
LEMMA KeypressTypes ==
    ASSUME NEW p \in Pids, TypeOK, Keypress(p)
    PROVE  Prompted'
<1>1. Prompted
  BY DEF TypeOK, Prompted
<1>2. CASE draft[p] # NoDraft /\ Submitted(p) /\ UNCHANGED faults
  BY <1>1, <1>2, SubmittedTypes DEF Prompted
<1>3. CASE Fault("absorb") /\ UNCHANGED <<accepted, writer, taken, draft, folded, screen>>
  BY <1>1, <1>3 DEF Prompted, Fault
<1>4. CASE UNCHANGED <<accepted, writer, taken, draft, folded, screen, faults>>
  BY <1>1, <1>4 DEF Prompted
<1>. QED
  BY <1>2, <1>3, <1>4 DEF Keypress

\* Every step keeps the types and the subject of a send or of an Enter retry.
LEMMA TypesPreserved == Typed /\ [Next]_vars => Typed'
<1> SUFFICES ASSUME Typed, [Next]_vars PROVE Typed'
  OBVIOUS
<1> USE NoPidAssumption, TargetAssumption
    DEF Typed, TypeOK, Working, durable, memory, world, ghosts, EventStatus, BoxStatus,
        Control, Screens, NoDraft, Fault
<1>1. ASSUME BeginCycle PROVE Typed'
  BY <1>1 DEF BeginCycle, EmptyView
<1>2. ASSUME ResolveEvent PROVE Typed'
  BY <1>2 DEF ResolveEvent
<1>3. ASSUME Observe PROVE Typed'
  BY <1>3 DEF Observe, UnacknowledgedMessages, Markers
<1>4. ASSUME ResolveOlder PROVE Typed'
  BY <1>4 DEF ResolveOlder
<1>5. ASSUME FinishAck PROVE Typed'
  BY <1>5 DEF FinishAck
<1>6. ASSUME RetryPressed PROVE Typed'
  <2>1. peer \in Pids /\ cur \in Events
    BY <1>6 DEF RetryPressed
  <2>2. Prompted'
    BY <1>6, <2>1, KeypressTypes DEF RetryPressed
  <2>. QED
    BY <1>6, <2>1, <2>2 DEF RetryPressed, Prompted
<1>7. ASSUME StartDeliver PROVE Typed'
  BY <1>7 DEF StartDeliver
<1>8. ASSUME SessionsListed PROVE Typed'
  BY <1>8 DEF SessionsListed
<1>9. ASSUME Claim PROVE Typed'
  BY <1>9 DEF Claim
<1>10. ASSUME Paste PROVE Typed'
  <2>1. peer \in Pids /\ cur \in Events
    BY <1>10 DEF Paste
  <2>2. draft' \in [Pids -> Events \union {NoDraft}]
    BY <1>10, <2>1 DEF Paste
  <2>3. folded' \subseteq Pids
    BY <1>10, <2>1 DEF Paste
  <2>. QED
    BY <1>10, <2>1, <2>2, <2>3 DEF Paste
<1>11. ASSUME PressEnter PROVE Typed'
  <2>1. peer \in Pids /\ cur \in Events
    BY <1>11 DEF PressEnter
  <2>2. Prompted'
    BY <1>11, <2>1, KeypressTypes DEF PressEnter
  <2>. QED
    BY <1>11, <2>1, <2>2 DEF PressEnter, Prompted
<1>12. ASSUME MarkSent PROVE Typed'
  BY <1>12 DEF MarkSent
<1>13. ASSUME EventSent PROVE Typed'
  <2>1. peer \in Pids /\ cur \in Events
    BY <1>13 DEF EventSent
  <2>2. dispatch' \in [Targets -> [pid : Pids \union {NoPid}, seen : BOOLEAN]]
    BY <1>13, <2>1 DEF EventSent
  <2>. QED
    BY <1>13, <2>1, <2>2 DEF EventSent
<1>14. ASSUME EndCycle PROVE Typed'
  BY <1>14 DEF EndCycle, EmptyView
<1>15. ASSUME Restart PROVE Typed'
  BY <1>15 DEF Restart, Quarantined
<1>16. ASSUME Crash PROVE Typed'
  BY <1>16 DEF Crash, EmptyView, NoDispatch
<1>17. ASSUME RetryFailed PROVE Typed'
  <2>1. peer \in Pids /\ cur \in Events
    BY <1>17 DEF RetryFailed
  <2>2. Prompted'
    <3>1. Prompted
      BY DEF Prompted
    <3>2. CASE draft[peer] # NoDraft /\ Submitted(peer)
      BY <1>17, <2>1, <3>1, <3>2, SubmittedTypes DEF RetryFailed
    <3>3. CASE UNCHANGED <<accepted, writer, taken, draft, folded, screen>>
      BY <1>17, <3>1, <3>3 DEF RetryFailed, Prompted
    <3>. QED
      BY <1>17, <3>2, <3>3 DEF RetryFailed
  <2>. QED
    BY <1>17, <2>1, <2>2 DEF RetryFailed, Prompted
<1>18. ASSUME SendFails PROVE Typed'
  BY <1>18 DEF SendFails
<1>19. ASSUME NEW e \in Events, ReconcileVanished(e) PROVE Typed'
  BY <1>19 DEF ReconcileVanished, NextMessage
<1>20. ASSUME NEW e \in Events, ReconcileAck(e) PROVE Typed'
  BY <1>20 DEF ReconcileAck, NextMessage
<1>21. ASSUME NEW e \in Events, SupersedeOlder(e) PROVE Typed'
  BY <1>21 DEF SupersedeOlder, OlderThan
<1>22. ASSUME NEW e \in Events, RetryEnter(e) PROVE Typed'
  BY <1>22 DEF RetryEnter, RetryDue, NextMessage, Visible
<1>23. ASSUME NEW e \in Events, ReconcileSkip(e) PROVE Typed'
  BY <1>23 DEF ReconcileSkip, NextMessage
<1>24. ASSUME NEW e \in Events, SkipServed(e) PROVE Typed'
  BY <1>24 DEF SkipServed, NextEvent
<1>25. ASSUME NEW e \in Events, Hold(e) PROVE Typed'
  BY <1>25 DEF Hold, NextEvent
<1>26. ASSUME NEW e \in Events, Create(e) PROVE Typed'
  BY <1>26 DEF Create
<1>27. ASSUME NEW e \in Events, Dismiss(e) PROVE Typed'
  BY <1>27 DEF Dismiss
<1>28. ASSUME NEW e \in Events, WithdrawMessage(e) PROVE Typed'
  BY <1>28 DEF WithdrawMessage, Resolvable
<1>29. ASSUME NEW e \in Events, NEW p \in Pids, Blocked(e, p) PROVE Typed'
  <2>1. dispatch' \in [Targets -> [pid : Pids \union {NoPid}, seen : BOOLEAN]]
    BY <1>29 DEF Blocked
  <2>. QED
    BY <1>29, <2>1 DEF Blocked, Candidate, NextEvent
<1>30. ASSUME NEW e \in Events, NEW p \in Pids, Insert(e, p) PROVE Typed'
  <2>1. boxSeq' \in [Events -> Nat]
    BY <1>30, RowsAreCounted DEF Insert, NotInOutbox
  <2>2. dispatch' \in [Targets -> [pid : Pids \union {NoPid}, seen : BOOLEAN]]
    BY <1>30 DEF Insert, NotInOutbox, Free, NoDispatch
  <2>. QED
    BY <1>30, <2>1, <2>2 DEF Insert, NotInOutbox, Free, Candidate, NextEvent
<1>31. ASSUME NEW e \in Events, NEW p \in Pids, Requeue(e, p) PROVE Typed'
  BY <1>31 DEF Requeue, Free, Candidate, NextEvent, NoDispatch
<1>32. ASSUME NEW e \in Events, NEW p \in Pids, AlreadySent(e, p) PROVE Typed'
  BY <1>32 DEF AlreadySent, Free, Candidate, NextEvent, NoDispatch
<1>33. ASSUME NEW p \in Pids, SessionStarts(p) PROVE Typed'
  BY <1>33 DEF SessionStarts
<1>34. ASSUME NEW p \in Pids, SessionDies(p) PROVE Typed'
  BY <1>34 DEF SessionDies
<1>35. ASSUME NEW p \in Pids, TurnEnds(p) PROVE Typed'
  BY <1>35 DEF TurnEnds
<1>36. ASSUME NEW p \in Pids, Noise(p) PROVE Typed'
  <2>1. screen' \in [Pids -> Screens]
    BY <1>36 DEF Noise
  <2>2. faults' \in Nat
    BY <1>36 DEF Noise
  <2>. QED
    BY <1>36, <2>1, <2>2 DEF Noise
<1>37. ASSUME NEW p \in Pids, HumanSubmits(p) PROVE Typed'
  <2>1. Prompted'
    <3>1. Prompted /\ faults' \in Nat
      BY <1>37 DEF HumanSubmits, Prompted
    <3>. QED
      BY <1>37, <3>1, SubmittedTypes DEF HumanSubmits
  <2>. QED
    BY <1>37, <2>1 DEF HumanSubmits, Prompted
<1>38. ASSUME NEW p \in Pids, HumanDeletes(p) PROVE Typed'
  BY <1>38 DEF HumanDeletes
<1>39. ASSUME NEW p \in Pids, Rotate(p) PROVE Typed'
  BY <1>39 DEF Rotate
<1>40. CASE UNCHANGED vars
  BY <1>40 DEF vars
<1>. QED
  BY <1>1, <1>2, <1>3, <1>4, <1>5, <1>6, <1>7, <1>8, <1>9, <1>10, <1>11, <1>12, <1>13,
     <1>14, <1>15, <1>16, <1>17, <1>18, <1>19, <1>20, <1>21, <1>22, <1>23, <1>24,
     <1>25, <1>26, <1>27, <1>28, <1>29, <1>30, <1>31, <1>32, <1>33, <1>34, <1>35,
     <1>36, <1>37, <1>38, <1>39, <1>40
  DEF Next, Engine, Failures, Requests, World

-----------------------------------------------------------------------------
(* Which actions touch what.                                                  *)

\* The actions that change the status of a message.
BoxStep ==
    \/ Claim \/ MarkSent \/ SendFails \/ RetryFailed \/ Restart
    \/ \E e \in Events : \/ WithdrawMessage(e) \/ ReconcileVanished(e)
                         \/ ReconcileAck(e) \/ SupersedeOlder(e)
                         \/ \E p \in Pids : Insert(e, p)

\* The actions that change the status of an event.
EventStep ==
    \/ ResolveEvent \/ ResolveOlder \/ FinishAck \/ EventSent \/ SendFails
    \/ \E e \in Events : Create(e) \/ Dismiss(e) \/ Hold(e)

\* The actions that move a text.
TextStep ==
    \/ Paste \/ PressEnter \/ RetryPressed \/ RetryFailed
    \/ \E p \in Pids : SessionDies(p) \/ HumanSubmits(p) \/ HumanDeletes(p) \/ Rotate(p)

\* Any other step leaves them alone.
LEMMA Footprints ==
    ASSUME [Next]_vars
    PROVE  /\ BoxStep \/ UNCHANGED <<box, boxPid, boxSeq, cleared>>
           /\ EventStep \/ UNCHANGED event
           /\ TextStep \/ UNCHANGED <<draft, accepted, taken, written>>
<1> DEFINE Boxes == UNCHANGED <<box, boxPid, boxSeq, cleared>>
           Texts_ == UNCHANGED <<draft, accepted, taken, written>>
<1> USE DEF durable, memory, world, ghosts
<1>1. ASSUME BeginCycle \/ EndCycle \/ Observe \/ StartDeliver \/ SessionsListed \/ Crash
      PROVE  Boxes /\ UNCHANGED event /\ Texts_
  BY <1>1 DEF BeginCycle, EndCycle, Observe, UnacknowledgedMessages, StartDeliver,
      SessionsListed, Crash
<1>2. ASSUME NEW e \in Events, RetryEnter(e) \/ ReconcileSkip(e) \/ SkipServed(e)
      PROVE  Boxes /\ UNCHANGED event /\ Texts_
  BY <1>2 DEF RetryEnter, ReconcileSkip, SkipServed
<1>3. ASSUME NEW e \in Events, NEW p \in Pids, Blocked(e, p) \/ Requeue(e,
p) \/ AlreadySent(e, p)
      PROVE  Boxes /\ UNCHANGED event /\ Texts_
  BY <1>3 DEF Blocked, Requeue, AlreadySent
<1>4. ASSUME NEW p \in Pids, SessionStarts(p) \/ TurnEnds(p) \/ Noise(p)
      PROVE  Boxes /\ UNCHANGED event /\ Texts_
  BY <1>4 DEF SessionStarts, TurnEnds, Noise
<1>5. ASSUME Claim \/ MarkSent \/ Restart
      PROVE  BoxStep /\ UNCHANGED event /\ Texts_
  BY <1>5 DEF Claim, MarkSent, Restart, Quarantined, BoxStep
<1>6. ASSUME NEW e \in Events, \/ WithdrawMessage(e) \/ ReconcileVanished(e)
                               \/ ReconcileAck(e) \/ SupersedeOlder(e)
      PROVE  BoxStep /\ UNCHANGED event /\ Texts_
  BY <1>6 DEF WithdrawMessage, Resolvable, ReconcileVanished, ReconcileAck,
      SupersedeOlder, BoxStep
<1>7. ASSUME NEW e \in Events, NEW p \in Pids, Insert(e, p)
      PROVE  BoxStep /\ UNCHANGED event /\ Texts_
  BY <1>7 DEF Insert, NotInOutbox, BoxStep
<1>8. ASSUME SendFails
      PROVE  BoxStep /\ EventStep /\ Texts_
  BY <1>8 DEF SendFails, BoxStep, EventStep
<1>9. ASSUME RetryFailed
      PROVE  BoxStep /\ UNCHANGED event /\ TextStep
  BY <1>9 DEF RetryFailed, BoxStep, TextStep
<1>10. ASSUME ResolveEvent \/ ResolveOlder \/ FinishAck \/ EventSent
       PROVE  Boxes /\ EventStep /\ Texts_
  BY <1>10 DEF ResolveEvent, ResolveOlder, FinishAck, EventSent, EventStep
<1>11. ASSUME NEW e \in Events, Create(e) \/ Dismiss(e) \/ Hold(e)
       PROVE  Boxes /\ EventStep /\ Texts_
  BY <1>11 DEF Create, Dismiss, Hold, EventStep
<1>12. ASSUME Paste \/ PressEnter \/ RetryPressed
       PROVE  Boxes /\ UNCHANGED event /\ TextStep
  BY <1>12 DEF Paste, PressEnter, RetryPressed, TextStep
<1>13. ASSUME NEW p \in Pids,
SessionDies(p) \/ HumanSubmits(p) \/ HumanDeletes(p) \/ Rotate(p)
       PROVE  Boxes /\ UNCHANGED event /\ TextStep
  BY <1>13 DEF SessionDies, HumanSubmits, HumanDeletes, Rotate, TextStep
<1>14. CASE UNCHANGED vars
  BY <1>14 DEF vars
<1>. QED
  BY <1>1, <1>2, <1>3, <1>4, <1>5, <1>6, <1>7, <1>8, <1>9, <1>10, <1>11, <1>12, <1>13, <1>14
  DEF Next, Engine, Failures, Requests, World

-----------------------------------------------------------------------------
(* The inductive invariant is preserved, conjunct by conjunct.                *)

\* The program counter keeps telling the truth about the current message.
LEMMA ProgressPreserved ==
    ASSUME Typed, Progress, Ledger, [Next]_vars
    PROVE  Progress'
<1> USE DEF Typed, TypeOK, Working, Progress, durable, memory, world, ghosts,
            Retryable, Unacknowledged, Open
<1>1. ASSUME \/ BeginCycle \/ Observe \/ FinishAck \/ StartDeliver \/ SessionsListed
             \/ EndCycle \/ Restart \/ Crash
      PROVE  Progress'
  BY <1>1 DEF BeginCycle, Observe, UnacknowledgedMessages, FinishAck, StartDeliver,
      SessionsListed, EndCycle, Restart, Quarantined, Crash
<1>2. ASSUME ResolveEvent \/ ResolveOlder \/ EventSent \/ MarkSent \/ RetryPressed
      PROVE  Progress'
  BY <1>2 DEF ResolveEvent, ResolveOlder, EventSent, MarkSent, RetryPressed
<1>3. ASSUME SendFails \/ RetryFailed
      PROVE  Progress'
  BY <1>3 DEF SendFails, RetryFailed
<1>4. ASSUME Claim PROVE Progress'
  BY <1>4 DEF Claim, Ledger
<1>5. ASSUME Paste PROVE Progress'
  BY <1>5 DEF Paste
<1>6. ASSUME PressEnter PROVE Progress'
  BY <1>6 DEF PressEnter
<1>7. ASSUME NEW e \in Events, Create(e) \/ Dismiss(e)
      PROVE  Progress'
  BY <1>7 DEF Create, Dismiss, Awaiting
<1>8. ASSUME NEW e \in Events, WithdrawMessage(e)
      PROVE  Progress'
  BY <1>8 DEF WithdrawMessage, Resolvable
<1>9. ASSUME NEW e \in Events, \/ ReconcileVanished(e) \/ ReconcileAck(e) \/ RetryEnter(e)
                               \/ ReconcileSkip(e) \/ SkipServed(e) \/ Hold(e)
      PROVE  Progress'
  BY <1>9 DEF ReconcileVanished, ReconcileAck, RetryEnter, RetryDue, ReconcileSkip,
      SkipServed,
              Hold, NextMessage, NextEvent
<1>10. ASSUME NEW e \in Events, SupersedeOlder(e)
       PROVE  Progress'
  BY <1>10 DEF SupersedeOlder, OlderThan
<1>11. ASSUME NEW e \in Events, NEW p \in Pids,
              Blocked(e, p) \/ Insert(e, p) \/ Requeue(e, p) \/ AlreadySent(e, p)
       PROVE  Progress'
  BY <1>11 DEF Blocked, Insert, NotInOutbox, Requeue, AlreadySent, Free, Candidate,
      NextEvent
<1>12. ASSUME NEW p \in Pids,
\/ SessionStarts(p) \/ SessionDies(p) \/ TurnEnds(p) \/ Noise(p)
                              \/ HumanSubmits(p) \/ HumanDeletes(p) \/ Rotate(p)
       PROVE  Progress'
  BY <1>12 DEF SessionStarts, SessionDies, TurnEnds, Noise, HumanSubmits, HumanDeletes,
      Rotate
<1>13. CASE UNCHANGED vars
  BY <1>13 DEF vars
<1>. QED
  BY <1>1, <1>2, <1>3, <1>4, <1>5, <1>6, <1>7, <1>8, <1>9, <1>10, <1>11, <1>12, <1>13
  DEF Next, Engine, Failures, Requests, World

\* Only Paste types a text, and it follows a Claim, which needs a queued row.
LEMMA LedgerPreserved ==
    ASSUME Typed, Progress, Ledger, Texts, Evidence, [Next]_vars
    PROVE  Ledger'
<1> USE DEF Typed, TypeOK, Working, Progress, Ledger, durable, memory, world, ghosts
<1>1. ASSUME Claim \/ MarkSent \/ SendFails \/ Restart
      PROVE  Ledger'
  BY <1>1 DEF Claim, MarkSent, SendFails, Restart, Quarantined, BoxStatus
<1>2. ASSUME RetryFailed
      PROVE  Ledger'
  BY <1>2 DEF RetryFailed
<1>3. ASSUME NEW e \in Events, ReconcileAck(e)
      PROVE  Ledger'
  <2>1. e \in taken
    BY <1>3 DEF ReconcileAck, HasMarker, Visible, Evidence
  <2>. QED
    BY <1>3, <2>1 DEF ReconcileAck, Texts
<1>4. ASSUME NEW e \in Events,
WithdrawMessage(e) \/ ReconcileVanished(e) \/ SupersedeOlder(e)
      PROVE  Ledger'
  BY <1>4 DEF WithdrawMessage, Resolvable, ReconcileVanished, SupersedeOlder
<1>5. ASSUME NEW e \in Events, NEW p \in Pids, Insert(e, p)
      PROVE  Ledger'
  BY <1>5 DEF Insert, NotInOutbox
<1>6. ASSUME Paste
      PROVE  Ledger'
  BY <1>6 DEF Paste
<1>7. ASSUME UNCHANGED box, TextStep
      PROVE  Ledger'
  BY <1>6, <1>7, <1>2 DEF TextStep, PressEnter, RetryPressed, SessionDies, HumanSubmits,
                          HumanDeletes, Rotate
<1>8. CASE UNCHANGED <<box, written>>
  BY <1>8
<1>9. BoxStep => UNCHANGED written
  BY DEF BoxStep, Claim, MarkSent, SendFails, RetryFailed, Restart, Quarantined,
      WithdrawMessage, Resolvable,
         ReconcileVanished, ReconcileAck, SupersedeOlder, Insert, NotInOutbox
<1>. QED
  BY <1>1, <1>2, <1>3, <1>4, <1>5, <1>7, <1>8, <1>9, Footprints DEF BoxStep

\* Submitting a draft moves its text from the prompt to the history.
LEMMA SubmittedTexts ==
    ASSUME NEW p \in Pids, Typed, Typed', Texts, TextLivesOnce,
           draft[p] # NoDraft, Submitted(p), UNCHANGED written
    PROVE  Texts' /\ TextLivesOnce' /\ taken \subseteq taken'
<1>1. draft[p] \in Events /\ written[draft[p]] = 1
  BY DEF Typed, TypeOK, Texts
<1>2. Texts'
  BY <1>1 DEF Submitted, Texts, Typed, TypeOK
<1>3. ASSUME NEW e \in Events, NEW q \in Pids, draft'[q] = e
      PROVE  e \notin taken' /\ \A r \in Pids : draft'[r] = e => r = q
  <2>1. q # p /\ draft[q] = e
    BY <1>3 DEF Submitted, Typed, TypeOK, NoDraft, Events
  <2>2. e \notin taken /\ draft[p] # e
    BY <2>1 DEF TextLivesOnce
  <2>3. ASSUME NEW r \in Pids, draft'[r] = e
        PROVE  r = q
    <3>1. r # p /\ draft[r] = e
      BY <2>3 DEF Submitted, Typed, TypeOK, NoDraft, Events
    <3>. QED
      BY <2>1, <3>1 DEF TextLivesOnce
  <2>. QED
    BY <2>2, <2>3 DEF Submitted
<1>. QED
  BY <1>2, <1>3 DEF TextLivesOnce, Submitted

\* An Enter keypress submits a text once or leaves everything as it was.
LEMMA KeypressTexts ==
    ASSUME NEW p \in Pids, Typed, Typed', Texts, TextLivesOnce, Keypress(p),
    UNCHANGED written
    PROVE  Texts' /\ TextLivesOnce' /\ taken \subseteq taken'
<1>1. CASE draft[p] # NoDraft /\ Submitted(p)
  BY <1>1, SubmittedTexts
<1>2. CASE UNCHANGED <<accepted, taken, draft>>
  BY <1>2 DEF Texts, TextLivesOnce
<1>. QED
  BY <1>1, <1>2 DEF Keypress

\* Texts move from the prompt to the history and are in one place at a time.
LEMMA TextsPreserved ==
    ASSUME Typed, Typed', Progress, Ledger, Texts, TextLivesOnce, [Next]_vars
    PROVE  Texts' /\ TextLivesOnce' /\ taken \subseteq taken'
<1> DEFINE Goal == Texts' /\ TextLivesOnce' /\ taken \subseteq taken'
<1>1. ASSUME Paste
      PROVE  Goal
  <2>1. peer \in Pids /\ cur \in Events /\ cur # NoDraft /\ written[cur] = 0 /\ UNCHANGED <<taken, accepted>>
    BY <1>1 DEF Paste, Typed, Working, Progress, Events, NoDraft
  <2>2. cur \notin taken /\ \A p \in Pids : draft[p] # cur
    BY <2>1 DEF Texts
  <2>3. /\ written' \in [Events -> Nat] /\ written'[cur] = 1
        /\ \A e \in Events : e # cur => written'[e] = written[e]
    BY <1>1, <2>1 DEF Paste, Typed, TypeOK
  <2>4. draft \in [Pids -> Events \union {NoDraft}]
    BY DEF Typed, TypeOK
  <2>5. \A p \in Pids : draft'[p] = draft[p] \/ (p = peer /\ draft'[p] = cur)
    <3>1. draft' = [draft EXCEPT ![peer] = cur] \/ draft' = draft
      BY <1>1 DEF Paste
    <3>. QED
      BY <2>1, <2>4, <3>1
  <2>6. Texts'
    BY <2>1, <2>2, <2>3, <2>4, <2>5 DEF Texts, Typed, TypeOK
  <2>7. TextLivesOnce'
    BY <2>1, <2>2, <2>5 DEF TextLivesOnce
  <2>. QED
    BY <2>1, <2>6, <2>7
<1>2. ASSUME PressEnter \/ RetryPressed
      PROVE  Goal
  <2>1. peer \in Pids /\ Keypress(peer) /\ UNCHANGED written
    BY <1>2 DEF PressEnter, RetryPressed, Typed, Working
  <2>. QED
    BY <2>1, KeypressTexts
<1>3. ASSUME RetryFailed
      PROVE  Goal
  <2>1. peer \in Pids /\ UNCHANGED written
    BY <1>3 DEF RetryFailed, Typed, Working
  <2>2. CASE draft[peer] # NoDraft /\ Submitted(peer)
    BY <2>1, <2>2, SubmittedTexts
  <2>3. CASE UNCHANGED <<accepted, taken, draft>>
    BY <2>1, <2>3 DEF Texts, TextLivesOnce
  <2>. QED
    BY <1>3, <2>2, <2>3 DEF RetryFailed
<1>4. ASSUME NEW p \in Pids, HumanSubmits(p)
      PROVE  Goal
  BY <1>4, SubmittedTexts DEF HumanSubmits
<1>5. ASSUME NEW p \in Pids, SessionDies(p) \/ HumanDeletes(p)
      PROVE  Goal
  <2>1. /\ draft' = [draft EXCEPT ![p] = NoDraft]
        /\ UNCHANGED <<written, taken, accepted>>
    BY <1>5 DEF SessionDies, HumanDeletes, ghosts
  <2>2. \A q \in Pids : draft'[q] = draft[q] \/ draft'[q] = NoDraft
    BY <2>1 DEF Typed, TypeOK
  <2>3. NoDraft \notin Events
    BY DEF NoDraft, Events
  <2>4. Texts'
    BY <2>1, <2>2 DEF Texts
  <2>5. TextLivesOnce'
    BY <2>1, <2>2, <2>3 DEF TextLivesOnce
  <2>. QED
    BY <2>1, <2>4, <2>5
<1>6. ASSUME NEW p \in Pids, Rotate(p)
      PROVE  Goal
  BY <1>6 DEF Rotate, ghosts, Texts, TextLivesOnce, Typed, TypeOK
<1>7. CASE UNCHANGED <<draft, accepted, taken, written>>
  BY <1>7 DEF Texts, TextLivesOnce
<1>. QED
  BY <1>1, <1>2, <1>3, <1>4, <1>5, <1>6, <1>7, Footprints DEF TextStep

\* What the snapshot shows as received was received.
LEMMA EvidencePreserved ==
    ASSUME Typed, Texts, Evidence, [Next]_vars, taken \subseteq taken'
    PROVE  Evidence'
<1>1. ASSUME Observe
      PROVE  Evidence'
  <2>1. ASSUME NEW p \in Pids
        PROVE  Markers(p) \subseteq taken
    BY TargetAssumption DEF Markers, Texts, Typed, TypeOK
  <2>. QED
    BY <1>1, <2>1 DEF Observe, UnacknowledgedMessages, Evidence
<1>2. ASSUME BeginCycle \/ EndCycle \/ Crash
      PROVE  Evidence'
  BY <1>2 DEF BeginCycle, EndCycle, Crash, EmptyView, Evidence
<1>3. CASE UNCHANGED view
  BY <1>3 DEF Evidence
<1>4. Observe \/ BeginCycle \/ EndCycle \/ Crash \/ UNCHANGED view
  <2>1. CASE Engine
    <3>1. CASE ResolveEvent \/ ResolveOlder \/ FinishAck \/ RetryPressed \/ StartDeliver
      BY <3>1 DEF memory, ResolveEvent, ResolveOlder, FinishAck, RetryPressed, StartDeliver
    <3>2. CASE \/ SessionsListed \/ Claim \/ Paste \/ PressEnter \/ MarkSent \/ EventSent
               \/ Restart
      BY <3>2 DEF memory, SessionsListed, Claim, Paste, PressEnter, MarkSent, EventSent, Restart,
                  Quarantined
    <3>3. ASSUME NEW e \in Events,
                 \/ ReconcileVanished(e) \/ ReconcileAck(e) \/ SupersedeOlder(e)
                 \/ RetryEnter(e) \/ ReconcileSkip(e) \/ SkipServed(e) \/ Hold(e)
          PROVE  UNCHANGED view
      BY <3>3 DEF memory, ReconcileVanished, ReconcileAck, SupersedeOlder, RetryEnter,
                  ReconcileSkip, SkipServed, Hold, Resolvable
    <3>4. ASSUME NEW e \in Events, NEW p \in Pids,
                 Blocked(e, p) \/ Insert(e, p) \/ Requeue(e, p) \/ AlreadySent(e, p)
          PROVE  UNCHANGED view
      BY <3>4 DEF memory, Blocked, Insert, NotInOutbox, Requeue, AlreadySent
    <3>5. QED
      BY <2>1, <3>1, <3>2, <3>3, <3>4 DEF Engine
  <2>2. CASE Failures \/ Requests
    BY <2>2 DEF Failures, Requests, memory, RetryFailed, SendFails, Create, Dismiss,
                WithdrawMessage
  <2>3. CASE World
    BY <2>3 DEF World, memory, SessionStarts, SessionDies, TurnEnds, Noise, HumanSubmits,
                HumanDeletes, Rotate
  <2>4. QED
    BY <2>1, <2>2, <2>3 DEF Next, vars, memory
<1>. QED
  BY <1>1, <1>2, <1>3, <1>4

\* A row is inserted only when no message to the process is in flight.
LEMMA OneInFlightPreserved ==
    ASSUME Typed, Progress, OneInFlight, [Next]_vars
    PROVE  OneInFlight'
<1>1. box \in [Events -> BoxStatus] /\ boxPid \in [Events -> Pids \union {NoPid}]
  BY DEF Typed, TypeOK
<1>2. CASE \E e \in Events : \E p \in Pids : Insert(e, p)
  BY <1>1, <1>2 DEF Insert, NotInOutbox, Free, DurableBlock, OneInFlight, Blocking
<1>3. CASE ~\E e \in Events : \E p \in Pids : Insert(e, p)
  <2>1. UNCHANGED boxPid
    BY <1>3, Footprints
    DEF BoxStep, Claim, MarkSent, SendFails, RetryFailed, Restart, Quarantined,
        WithdrawMessage, Resolvable,
        ReconcileVanished, ReconcileAck, SupersedeOlder, durable
  <2>2. ASSUME NEW e \in Events, box'[e] \in Blocking
        PROVE  box[e] \in Blocking
    <3>1. CASE Claim \/ Restart
      BY <1>1, <2>2, <3>1 DEF Claim, Restart, Quarantined, Blocking
    <3>2. CASE MarkSent
      BY <1>1, <2>2, <3>2 DEF MarkSent, Progress, Blocking
    <3>3. CASE SendFails \/ RetryFailed
      BY <1>1, <2>2, <3>3 DEF SendFails, RetryFailed, Blocking
    <3>4. ASSUME NEW m \in Events, \/ WithdrawMessage(m) \/ ReconcileVanished(m)
                                   \/ ReconcileAck(m) \/ SupersedeOlder(m)
          PROVE  box[e] \in Blocking
      BY <1>1, <2>2, <3>4
      DEF WithdrawMessage, Resolvable, ReconcileVanished, ReconcileAck, SupersedeOlder,
          Blocking
    <3>. QED
      BY <1>3, <2>2, <3>1, <3>2, <3>3, <3>4, Footprints DEF BoxStep
  <2>. QED
    BY <2>1, <2>2 DEF OneInFlight
<1>. QED
  BY <1>2, <1>3

\* An acknowledged message stays acknowledged.
LEMMA AckedStays ==
    ASSUME Typed, Progress, [Next]_vars, NEW e \in Events, box[e] = "ACKED"
    PROVE  box'[e] = "ACKED" /\ boxPid'[e] = boxPid[e] /\ boxSeq'[e] = boxSeq[e]
<1> USE DEF Typed, TypeOK, Working, Progress, durable
<1>1. CASE Claim \/ MarkSent \/ SendFails \/ RetryFailed \/ Restart
  BY <1>1 DEF Claim, MarkSent, SendFails, RetryFailed, Restart, Quarantined, Retryable
<1>2. CASE \E m \in Events : \/ WithdrawMessage(m) \/ ReconcileVanished(m)
                             \/ ReconcileAck(m) \/ SupersedeOlder(m)
  BY <1>2 DEF WithdrawMessage, Resolvable, ReconcileVanished, ReconcileAck,
      SupersedeOlder, OlderThan,
              Unacknowledged
<1>3. CASE \E m \in Events : \E p \in Pids : Insert(m, p)
  BY <1>3 DEF Insert, NotInOutbox
<1>. QED
  BY <1>1, <1>2, <1>3, Footprints DEF BoxStep

\* DELIVERED follows the acknowledgement, which follows the history.
LEMMA DeliveredIsTruePreserved ==
    ASSUME Typed, Progress, Evidence, DeliveredIsTrue, [Next]_vars, taken \subseteq taken'
    PROVE  DeliveredIsTrue'
<1>1. ASSUME NEW e \in Events, box'[e] = "ACKED"
      PROVE  e \in taken'
  <2>1. CASE box[e] = "ACKED"
    BY <2>1 DEF DeliveredIsTrue
  <2>2. CASE box[e] # "ACKED"
    <3>1. box \in [Events -> BoxStatus]
      BY DEF Typed, TypeOK
    <3>2. ASSUME Claim \/ MarkSent \/ SendFails \/ RetryFailed \/ Restart
          PROVE  FALSE
      BY <1>1, <2>2, <3>1, <3>2 DEF Claim, MarkSent, SendFails, RetryFailed, Restart,
          Quarantined
    <3>3. ASSUME NEW m \in Events, \/ WithdrawMessage(m) \/ ReconcileVanished(m)
                                   \/ SupersedeOlder(m) \/ \E p \in Pids : Insert(m, p)
          PROVE  FALSE
      BY <1>1, <2>2, <3>1, <3>3 DEF WithdrawMessage, Resolvable, ReconcileVanished,
          SupersedeOlder, Insert, NotInOutbox
    <3>4. ASSUME NEW m \in Events, ReconcileAck(m), m # e
          PROVE  FALSE
      BY <1>1, <2>2, <3>1, <3>4 DEF ReconcileAck
    <3>5. BoxStep
      BY <1>1, <2>2, Footprints
    <3>6. \E m \in Events : ReconcileAck(m)
      BY <3>2, <3>3, <3>5 DEF BoxStep
    <3>7. ReconcileAck(e)
      BY <3>4, <3>6
    <3>. QED
      BY <3>7 DEF ReconcileAck, HasMarker, Visible, Evidence, Typed, TypeOK
  <2>. QED
    BY <2>1, <2>2
<1>2. ASSUME NEW e \in Events, event'[e] = "DELIVERED"
      PROVE  box[e] = "ACKED"
  <2>1. event[e] = "DELIVERED" \/ (FinishAck /\ e = cur)
    BY <1>2, Footprints
    DEF EventStep, Typed, TypeOK, ResolveEvent, ResolveOlder, FinishAck, EventSent,
        SendFails,
        Create, Dismiss, Hold
  <2>. QED
    BY <2>1 DEF FinishAck, Progress, DeliveredIsTrue
<1>. QED
  BY <1>1, <1>2, AckedStays DEF DeliveredIsTrue

\* A message is superseded by a newer acknowledged one, or withdrawn.
LEMMA SupersededForCausePreserved ==
    ASSUME Typed, Progress, SupersededForCause, [Next]_vars
    PROVE  SupersededForCause'
<1>1. SUFFICES ASSUME NEW m \in Events, box'[m] = "SUPERSEDED", m \notin cleared'
               PROVE  \E n \in Events : /\ box'[n] = "ACKED" /\ boxSeq'[n] > boxSeq'[m]
                                        /\ boxPid'[n] = boxPid'[m] /\ TargetOf[n] = TargetOf[m]
  BY DEF SupersededForCause
<1>2. cleared \subseteq cleared'
  BY Footprints DEF BoxStep, Claim, MarkSent, SendFails, RetryFailed, Restart,
      Quarantined, ReconcileVanished,
                    ReconcileAck, SupersedeOlder, Insert, NotInOutbox, WithdrawMessage,
                    Resolvable, ghosts
<1>3. ASSUME box[m] # "SUPERSEDED"
      PROVE  SupersedeOlder(m)
  <2>1. box \in [Events -> BoxStatus]
    BY DEF Typed, TypeOK
  <2>2. BoxStep
    BY <1>1, <1>3, Footprints
  <2>3. ASSUME Claim \/ MarkSent \/ SendFails \/ RetryFailed \/ Restart
        PROVE  FALSE
    BY <1>1, <1>3, <2>1, <2>3 DEF Claim, MarkSent, SendFails, RetryFailed, Restart,
        Quarantined
  <2>4. ASSUME NEW n \in Events,
  \/ WithdrawMessage(n) \/ ReconcileVanished(n) \/ ReconcileAck(n)
                                 \/ \E p \in Pids : Insert(n, p)
        PROVE  FALSE
    BY <1>1, <1>3, <2>1, <2>4 DEF WithdrawMessage, ReconcileVanished, ReconcileAck, Insert
  <2>5. \E n \in Events : SupersedeOlder(n)
    BY <2>2, <2>3, <2>4 DEF BoxStep
  <2>6. ASSUME NEW n \in Events, SupersedeOlder(n), n # m
        PROVE  FALSE
    BY <1>1, <1>3, <2>1, <2>6 DEF SupersedeOlder
  <2>. QED
    BY <2>5, <2>6
<1>4. CASE box[m] = "SUPERSEDED"
  <2>1. PICK n \in Events : /\ box[n] = "ACKED" /\ boxSeq[n] > boxSeq[m]
                            /\ boxPid[n] = boxPid[m] /\ TargetOf[n] = TargetOf[m]
    BY <1>1, <1>2, <1>4 DEF SupersededForCause
  <2>2. boxSeq'[m] = boxSeq[m] /\ boxPid'[m] = boxPid[m]
    BY <1>4, Footprints
    DEF BoxStep, Typed, TypeOK, Claim, MarkSent, SendFails, RetryFailed, Restart,
        Quarantined, WithdrawMessage, Resolvable,
        ReconcileVanished, ReconcileAck, SupersedeOlder, Insert, NotInOutbox, durable
  <2>3. box'[n] = "ACKED" /\ boxPid'[n] = boxPid[n] /\ boxSeq'[n] = boxSeq[n]
    BY <2>1, AckedStays
  <2>. QED
    BY <2>1, <2>2, <2>3
<1>5. CASE box[m] # "SUPERSEDED"
  <2>1. /\ box[cur] = "ACKED" /\ cur \in Events /\ cur # m
        /\ boxSeq[cur] > boxSeq[m] /\ boxPid[cur] = boxPid[m] /\ TargetOf[cur] = TargetOf[m]
    BY <1>3, <1>5 DEF SupersedeOlder, OlderThan, Progress, Typed, TypeOK, Unacknowledged
  <2>. QED
    BY <1>3, <1>5, <2>1 DEF SupersedeOlder, Typed, TypeOK
<1>. QED
  BY <1>4, <1>5

\* SENT is recorded after the message was handed over, and the message is then
\* never put back.
LEMMA SentIsTrackedPreserved ==
    ASSUME Typed, Progress, SentIsTracked, [Next]_vars
    PROVE  SentIsTracked'
<1> DEFINE Tracked == {"SENT_AWAITING_ACK", "UNCERTAIN", "ACKED", "SUPERSEDED"}
<1>1. ASSUME NEW e \in Events, event'[e] = "SENT"
      PROVE  event[e] = "SENT" \/ (EventSent /\ e = cur)
  BY <1>1, Footprints
  DEF EventStep, Typed, TypeOK, ResolveEvent, ResolveOlder, FinishAck, EventSent, SendFails,
      Create, Dismiss, Hold
<1>2. ASSUME NEW e \in Events, event'[e] = "SENT", box[e] \in Tracked
      PROVE  box'[e] \in Tracked
  <2>1. box \in [Events -> BoxStatus] /\ event \in [Events -> EventStatus]
    BY DEF Typed, TypeOK
  <2>2. CASE Claim \/ MarkSent \/ Restart
    BY <1>2, <2>1, <2>2 DEF Claim, MarkSent, Restart, Quarantined
  <2>3. CASE SendFails
    BY <1>2, <2>1, <2>3 DEF SendFails, Typed, Working, Progress
  <2>4. CASE RetryFailed
    BY <1>2, <2>1, <2>4 DEF RetryFailed
  <2>5. CASE \E m \in Events : \/ WithdrawMessage(m) \/ ReconcileVanished(m)
                               \/ ReconcileAck(m) \/ SupersedeOlder(m)
    BY <1>2, <2>1, <2>5 DEF WithdrawMessage, Resolvable, ReconcileVanished, ReconcileAck,
        SupersedeOlder
  <2>6. CASE \E m \in Events : \E p \in Pids : Insert(m, p)
    BY <1>2, <2>1, <2>6 DEF Insert, NotInOutbox
  <2>. QED
    BY <1>2, <2>2, <2>3, <2>4, <2>5, <2>6, Footprints DEF BoxStep
<1>3. ASSUME EventSent
      PROVE  box[cur] = "SENT_AWAITING_ACK" /\ UNCHANGED box
  BY <1>3 DEF EventSent, Progress
<1>. QED
  BY <1>1, <1>2, <1>3 DEF SentIsTracked

-----------------------------------------------------------------------------
(* The theorems.                                                              *)

LEMMA InitEstablishes == Init => IInv
<1> SUFFICES ASSUME Init PROVE IInv
  OBVIOUS
<1>1. Typed
  BY DEF Init, Typed, TypeOK, Working, EventStatus, BoxStatus, Control, Screens, NoDispatch,
         EmptyView, NoDraft
<1>2. Progress /\ Ledger /\ Texts /\ Evidence
  BY DEF Init, Progress, Ledger, Texts, Evidence, EmptyView
<1>3. OneInFlight /\ DeliveredIsTrue /\ SupersededForCause /\ SentIsTracked
  BY DEF Init, OneInFlight, DeliveredIsTrue, SupersededForCause, SentIsTracked, Blocking
<1>4. TextLivesOnce
  BY DEF Init, TextLivesOnce, NoDraft, Events
<1>. QED
  BY <1>1, <1>2, <1>3, <1>4 DEF IInv

LEMMA StepPreserves == IInv /\ [Next]_vars => IInv'
<1> SUFFICES ASSUME IInv, [Next]_vars PROVE IInv'
  OBVIOUS
<1> USE DEF IInv
<1>1. Typed'
  BY TypesPreserved
<1>2. Progress' /\ Ledger'
  BY ProgressPreserved, LedgerPreserved
<1>3. Texts' /\ TextLivesOnce' /\ taken \subseteq taken'
  BY <1>1, TextsPreserved
<1>4. Evidence' /\ DeliveredIsTrue'
  BY <1>3, EvidencePreserved, DeliveredIsTruePreserved
<1>5. OneInFlight' /\ SupersededForCause' /\ SentIsTracked'
  BY OneInFlightPreserved, SupersededForCausePreserved, SentIsTrackedPreserved
<1>. QED
  BY <1>1, <1>2, <1>3, <1>4, <1>5

LEMMA Invariance == Spec => []IInv
<1>. QED
  BY InitEstablishes, StepPreserves, PTL DEF Spec

\* Types: every durable row, memory cell and terminal stays in its domain, for
\* any number of events, processes and faults.
THEOREM TypeCorrect == Spec => []TypeOK
<1>1. IInv => TypeOK
  BY DEF IInv, Typed
<1>. QED
  BY <1>1, Invariance, PTL

\* At most one message is on its way to a process.
THEOREM NoOvertaking == Spec => []OneInFlight
<1>1. IInv => OneInFlight
  BY DEF IInv
<1>. QED
  BY <1>1, Invariance, PTL

\* DELIVERED and ACKED are true statements about what Claude received.
THEOREM LedgerIsTrue == Spec => []DeliveredIsTrue
<1>1. IInv => DeliveredIsTrue
  BY DEF IInv
<1>. QED
  BY <1>1, Invariance, PTL

\* No text is both submitted and still submittable.
THEOREM OneTextOnePlace == Spec => []TextLivesOnce
<1>1. IInv => TextLivesOnce
  BY DEF IInv
<1>. QED
  BY <1>1, Invariance, PTL

\* A message is superseded only for cause.
THEOREM GivenUpForCause == Spec => []SupersededForCause
<1>1. IInv => SupersededForCause
  BY DEF IInv
<1>. QED
  BY <1>1, Invariance, PTL

\* A SENT event has a message that is tracked or whose fate is known.
THEOREM SentHasMessage == Spec => []SentIsTracked
<1>1. IInv => SentIsTracked
  BY DEF IInv
<1>. QED
  BY <1>1, Invariance, PTL

\* A dismissed event comes back only through the pass that had already read it
\* or because its text is out.
THEOREM DismissalHolds == Spec => DismissalStands
<1> DEFINE Stands == \A e \in Events : event[e] = "DISMISSED" /\ event'[e] # "DISMISSED" =>
                        e \in todo \/ written[e] > 0
<1>1. ASSUME IInv, [Next]_vars
      PROVE  Stands
  <2>1. SUFFICES ASSUME NEW e \in Events, event[e] = "DISMISSED", event'[e] # "DISMISSED"
                 PROVE  e \in todo \/ written[e] > 0
    OBVIOUS
  <2>2. event \in [Events -> EventStatus]
    BY <1>1 DEF IInv, Typed, TypeOK
  <2>3. EventStep
    BY <1>1, <2>1, Footprints
  <2>4. CASE ResolveEvent
    BY <1>1, <2>1, <2>2, <2>4 DEF ResolveEvent, IInv, Progress, Open
  <2>5. CASE ResolveOlder
    BY <2>1, <2>2, <2>5 DEF ResolveOlder, Open
  <2>6. CASE FinishAck \/ EventSent
    <3>1. e = cur /\ box[cur] \in {"ACKED", "SENT_AWAITING_ACK"}
      BY <1>1, <2>1, <2>2, <2>6 DEF FinishAck, EventSent, IInv, Progress
    <3>. QED
      BY <1>1, <3>1 DEF IInv, Ledger
  <2>7. CASE SendFails
    BY <1>1, <2>1, <2>2, <2>7 DEF SendFails, IInv, Typed, Working
  <2>8. CASE \E m \in Events : Create(m) \/ Dismiss(m) \/ Hold(m)
    BY <2>1, <2>2, <2>8 DEF Create, Dismiss, Hold, NextEvent, Listed
  <2>. QED
    BY <2>3, <2>4, <2>5, <2>6, <2>7, <2>8 DEF EventStep
<1>2. IInv /\ [Next]_vars => [Stands]_vars
  BY <1>1
<1>. QED
  BY <1>2, Invariance, PTL DEF Spec, DismissalStands

-----------------------------------------------------------------------------
(* The outbox implements AtMostOnce.                                          *)

LEMMA PromiseInit == Init => Promise!Init
  BY DEF Init, Promise!Init

\* Paste is the abstract write, the history evidence the acknowledgement; every
\* other step is invisible to the promise.
LEMMA PromiseStep == IInv /\ [Next]_vars => [Promise!Next]_(Promise!vars)
<1> SUFFICES ASSUME IInv, [Next]_vars PROVE [Promise!Next]_(Promise!vars)
  OBVIOUS
<1> DEFINE Acks == {e \in Events : box[e] = "ACKED"}
<1>1. box \in [Events -> BoxStatus] /\ written \in [Events -> Nat]
  BY DEF IInv, Typed, TypeOK
<1>2. \A e \in Events : box[e] = "ACKED" => box'[e] = "ACKED"
  BY AckedStays DEF IInv
<1>3. CASE Paste
  <2>1. cur \in Events /\ written[cur] = 0
    BY <1>3 DEF Paste, IInv, Typed, Working, Progress
  <2>2. written' = [written EXCEPT ![cur] = 1] /\ UNCHANGED box
    BY <1>1, <1>3, <2>1 DEF Paste, durable
  <2>. QED
    BY <2>1, <2>2 DEF Promise!Next, Promise!Write
<1>4. CASE UNCHANGED written /\ \E e \in Events : ReconcileAck(e)
  <2>1. PICK e \in Events : ReconcileAck(e)
    BY <1>4
  <2>2. written[e] = 1
    BY <2>1 DEF ReconcileAck, HasMarker, Visible, IInv, Evidence, Texts, Typed, TypeOK
  <2>3. Acks' = Acks \union {e}
    BY <1>1, <2>1 DEF ReconcileAck
  <2>. QED
    BY <1>4, <2>2, <2>3 DEF Promise!Next, Promise!Acknowledge
<1>5. CASE UNCHANGED written /\ ~\E e \in Events : ReconcileAck(e)
  <2>1. \A e \in Events : box'[e] = "ACKED" => box[e] = "ACKED"
    <3>1. CASE Claim \/ MarkSent \/ SendFails \/ RetryFailed \/ Restart
      BY <1>1, <3>1 DEF Claim, MarkSent, SendFails, RetryFailed, Restart, Quarantined
    <3>2. ASSUME NEW m \in Events, \/ WithdrawMessage(m) \/ ReconcileVanished(m)
                                   \/ SupersedeOlder(m) \/ \E p \in Pids : Insert(m, p)
          PROVE  \A e \in Events : box'[e] = "ACKED" => box[e] = "ACKED"
      BY <1>1, <3>2 DEF WithdrawMessage, Resolvable, ReconcileVanished, SupersedeOlder,
          Insert, NotInOutbox
    <3>. QED
      BY <1>5, <3>1, <3>2, Footprints DEF BoxStep
  <2>2. Acks' = Acks
    BY <1>2, <2>1
  <2>. QED
    BY <1>5, <2>2 DEF Promise!vars
<1>6. Paste \/ UNCHANGED written
  BY Footprints
  DEF TextStep, PressEnter, RetryPressed, RetryFailed, SessionDies, HumanSubmits,
      HumanDeletes,
      Rotate, ghosts
<1>. QED
  BY <1>3, <1>4, <1>5, <1>6

\* For any number of events, processes, crashes and other faults a text is typed at
\* most once, and acknowledged only after it was typed.
THEOREM ExternalImplementsPromise == Spec => KeepsPromise
<1>. QED
  BY PromiseInit, PromiseStep, Invariance, PTL DEF Spec, KeepsPromise, Promise!Spec

-----------------------------------------------------------------------------
(* What a crash leaves behind.                                                *)

\* The rows of the running pass were read as listed; since then a user may have
\* dismissed them, but nothing has sent or resolved them.
PassRows ==
    pc \in {"listing", "deliver", "claim", "paste", "enter", "mark", "event_sent"} =>
        \A e \in todo : event[e] \in Listed \union {"DISMISSED"}

\* A message is superseded before its event is resolved.
OlderIsOver == pc = "resolve_older" => box[older] = "SUPERSEDED"

\* What is still to be reconciled was read as unacknowledged, and it is, because
\* an acknowledgement supersedes only what comes before it.
PassMessages ==
    /\ pc \in {"reconcile", "retry", "supersede", "resolve_older"} =>
          \A e \in todo : box[e] \in Unacknowledged
    /\ pc \in {"supersede", "resolve_older"} => \A e \in todo : boxSeq[cur] <= boxSeq[e]

Between == PassRows /\ OlderIsOver /\ PassMessages

\* Steps at which the cycle reads no rows and changes no event keep both.
LEMMA BetweenPreserved == IInv /\ Between /\ [Next]_vars => Between'
<1> SUFFICES ASSUME Typed, Progress, Between, [Next]_vars PROVE Between'
  BY DEF IInv
<1> USE DEF Typed, TypeOK, Between, PassRows, OlderIsOver, PassMessages, durable, memory, world,
            ghosts
<1>1. ASSUME BeginCycle \/ ResolveEvent \/ Observe \/ ResolveOlder \/ FinishAck
             \/ RetryPressed \/ RetryFailed \/ EndCycle \/ Restart \/ Crash
      PROVE  Between'
  BY <1>1 DEF BeginCycle, ResolveEvent, Observe, UnacknowledgedMessages, ResolveOlder,
     FinishAck, RetryPressed, RetryFailed, EndCycle, Restart, Crash, Unacknowledged
<1>2. CASE StartDeliver \/ SessionsListed
  BY <1>2 DEF StartDeliver, SessionsListed, Listed
<1>3. CASE Claim \/ Paste \/ PressEnter \/ MarkSent
  BY <1>3 DEF Claim, Paste, PressEnter, MarkSent
<1>4. CASE EventSent \/ SendFails
  BY <1>4 DEF EventSent, SendFails
<1>5. ASSUME NEW e \in Events, Create(e) \/ Dismiss(e) \/ Hold(e) PROVE Between'
  BY <1>5 DEF Create, Dismiss, Hold, Awaiting, NextEvent, Listed
<1>6. ASSUME NEW e \in Events, \/ WithdrawMessage(e) \/ ReconcileVanished(e) \/ ReconcileAck(e)
                               \/ RetryEnter(e) \/ ReconcileSkip(e)
      PROVE  Between'
  BY <1>6 DEF WithdrawMessage, ReconcileVanished, ReconcileAck, RetryEnter, RetryDue,
     ReconcileSkip, NextMessage, Unacknowledged
<1>10. ASSUME NEW m \in Events, SupersedeOlder(m) PROVE Between'
  <2>1. /\ pc = "supersede" /\ pc' = "resolve_older" /\ older' = m
        /\ box' = [box EXCEPT ![m] = "SUPERSEDED"] /\ UNCHANGED <<boxSeq, todo, cur>>
        /\ cur \in Events /\ boxSeq[m] < boxSeq[cur]
    BY <1>10 DEF SupersedeOlder, OlderThan, Progress
  <2>2. m \notin todo
    BY <2>1
  <2>. QED
    BY <2>1, <2>2
<1>7. ASSUME NEW e \in Events, NEW p \in Pids, \/ SkipServed(e) \/ Blocked(e, p) \/ Insert(e, p)
                                               \/ Requeue(e, p) \/ AlreadySent(e, p)
      PROVE  Between'
  BY <1>7 DEF SkipServed, Blocked, Insert, Requeue, AlreadySent, Free, Candidate, NextEvent
<1>8. ASSUME NEW e \in Events, SkipServed(e) PROVE Between'
  BY <1>8 DEF SkipServed, NextEvent
<1>9. CASE World \/ UNCHANGED vars
  BY <1>9 DEF World, vars, SessionStarts, SessionDies, TurnEnds, Noise, HumanSubmits,
     HumanDeletes, Rotate
<1>. QED
  BY <1>1, <1>2, <1>3, <1>4, <1>5, <1>6, <1>7, <1>8, <1>9, <1>10
  DEF Next, Engine, Failures, Requests

\* Every step but a crash finishes what it begins.
LEMMA StepsFinish ==
    ASSUME IInv, Between, [Next]_vars, ~Crash, NEW e \in Events,
           HalfDone(e)', ~InHand(e)'
    PROVE  HalfDone(e) /\ ~InHand(e)
<1> USE DEF durable, memory, world, ghosts, Retryable
<1>1. Typed /\ Progress /\ Between
  BY DEF IInv
<1> USE DEF Typed, TypeOK
<1>2. CASE UNCHANGED <<event, box, pc, cur>>
  BY <1>2 DEF HalfDone, InHand
<1>3. ASSUME UNCHANGED <<event, box>>, ~InHand(e) PROVE HalfDone(e) /\ ~InHand(e)
  BY <1>3 DEF HalfDone
<1>4. CASE BeginCycle \/ EndCycle \/ Observe \/ StartDeliver \/ SessionsListed \/ RetryPressed
  BY <1>3, <1>4 DEF BeginCycle, EndCycle, Observe, StartDeliver, SessionsListed, RetryPressed,
     InHand
<1>5. CASE ResolveEvent
  <2>1. cur \in Events /\ event[cur] \in Open /\ box[cur] \notin Unacknowledged
    BY <1>1, <1>5 DEF ResolveEvent, Progress
  <2>2. UNCHANGED box /\ event' = [event EXCEPT ![cur] = "RESOLVED"] /\ pc = "resolve"
    BY <1>5 DEF ResolveEvent
  <2>. QED
    BY <1>1, <2>1, <2>2 DEF HalfDone, InHand, Open, Unacknowledged
<1>6. CASE ResolveOlder
  <2>1. older \in Events /\ box[older] = "SUPERSEDED"
    BY <1>1, <1>6 DEF ResolveOlder, Progress, Between, OlderIsOver
  <2>2. /\ UNCHANGED <<box, cur>> /\ pc = "resolve_older" /\ pc' = "supersede"
        /\ \A m \in Events : m # older => event'[m] = event[m]
    BY <1>1, <1>6 DEF ResolveOlder
  <2>. QED
    BY <1>1, <2>1, <2>2 DEF HalfDone, InHand
<1>7. CASE FinishAck
  <2>1. /\ box' = box /\ box[cur] = "ACKED" /\ cur \in Events
        /\ event' = [event EXCEPT ![cur] = "DELIVERED"]
    BY <1>1, <1>7 DEF FinishAck, Progress
  <2>. QED
    BY <1>1, <2>1 DEF HalfDone, InHand
<1>8. CASE EventSent
  <2>1. /\ box' = box /\ box[cur] = "SENT_AWAITING_ACK" /\ cur \in Events
        /\ event' = [event EXCEPT ![cur] = "SENT"]
    BY <1>1, <1>8 DEF EventSent, Progress, Working
  <2>. QED
    BY <1>1, <2>1 DEF HalfDone, InHand
<1>9. CASE SendFails
  <2>1. /\ cur \in Events /\ event' = [event EXCEPT ![cur] = "HELD"]
        /\ box' = [box EXCEPT ![cur] = "FAILED"]
    BY <1>1, <1>9 DEF SendFails, Working
  <2>. QED
    BY <1>1, <2>1 DEF HalfDone, InHand
<1>10. CASE Claim \/ Paste \/ PressEnter \/ MarkSent
  <2>1. /\ cur' = cur /\ event' = event /\ InHand(cur) /\ InHand(cur)' /\ cur \in Events
        /\ \A m \in Events : m # cur => box'[m] = box[m]
    BY <1>1, <1>10 DEF Claim, Paste, PressEnter, MarkSent, InHand, Working
  <2>. QED
    BY <2>1 DEF HalfDone, InHand
<1>11. CASE RetryFailed
  <2>1. /\ cur \in Events /\ event' = event /\ box' = [box EXCEPT ![cur] = "UNCERTAIN"]
        /\ box[cur] \in Retryable /\ pc = "retry"
    BY <1>1, <1>11 DEF RetryFailed, Progress, Working
  <2>. QED
    BY <1>1, <2>1 DEF HalfDone, InHand
<1>12. CASE Restart
  <2>1. /\ event' = event /\ pc = "down"
        /\ box[e] # "SENDING" => box'[e] = box[e]
    BY <1>1, <1>12 DEF Restart, Quarantined
  <2>. QED
    BY <2>1 DEF HalfDone, InHand
<1>13. ASSUME NEW m \in Events, Create(m) \/ Dismiss(m)
       PROVE  HalfDone(e) /\ ~InHand(e)
  <2>1. /\ UNCHANGED <<box, pc, cur>> /\ event[m] \notin {"SENT", "DELIVERED"}
        /\ \A n \in Events : n # m => event'[n] = event[n]
    BY <1>1, <1>13 DEF Create, Dismiss, Listed
  <2>. QED
    BY <2>1 DEF HalfDone, InHand
<1>14. ASSUME NEW m \in Events, Hold(m)
       PROVE  HalfDone(e) /\ ~InHand(e)
  <2>1. /\ UNCHANGED <<box, pc, cur>> /\ event[m] \notin {"SENT", "DELIVERED"}
        /\ \A n \in Events : n # m => event'[n] = event[n]
    BY <1>1, <1>14 DEF Hold, NextEvent, Between, PassRows, Listed
  <2>. QED
    BY <2>1 DEF HalfDone, InHand
<1>15. ASSUME NEW m \in Events, WithdrawMessage(m) \/ SupersedeOlder(m)
       PROVE  HalfDone(e) /\ ~InHand(e)
  <2>1. /\ event' = event
        /\ box' = box \/ box' = [box EXCEPT ![m] = "SUPERSEDED"]
        /\ \/ pc = "ingest"
           \/ cur' = cur /\ pc = "supersede" /\ pc' = "resolve_older"
    BY <1>1, <1>15 DEF WithdrawMessage, SupersedeOlder
  <2>2. box'[e] = box[e] \/ box'[e] = "SUPERSEDED"
    BY <1>1, <2>1
  <2>. QED
    BY <2>1, <2>2 DEF HalfDone, InHand
<1>16. ASSUME NEW m \in Events, ReconcileVanished(m)
       PROVE  HalfDone(e) /\ ~InHand(e)
  <2>1. /\ UNCHANGED <<event, cur, pc>> /\ box[m] = "SENT_AWAITING_ACK"
        /\ box' = [box EXCEPT ![m] = "UNCERTAIN"]
    BY <1>16 DEF ReconcileVanished
  <2>. QED
    BY <1>1, <2>1 DEF HalfDone, InHand
<1>17. ASSUME NEW m \in Events, ReconcileAck(m)
       PROVE  HalfDone(e) /\ ~InHand(e)
  <2>1. /\ event' = event /\ cur' = m /\ pc' = "supersede" /\ pc = "reconcile"
        /\ \A n \in Events : n # m => box'[n] = box[n]
    BY <1>1, <1>17 DEF ReconcileAck, NextMessage
  <2>. QED
    BY <2>1 DEF HalfDone, InHand
<1>18. ASSUME NEW m \in Events, RetryEnter(m) \/ ReconcileSkip(m) \/ SkipServed(m)
       PROVE  HalfDone(e) /\ ~InHand(e)
  BY <1>3, <1>18 DEF RetryEnter, RetryDue, ReconcileSkip, SkipServed, NextMessage, NextEvent,
     InHand
<1>19. ASSUME NEW m \in Events, NEW p \in Pids, Insert(m, p) \/ Requeue(m, p)
       PROVE  HalfDone(e) /\ ~InHand(e)
  <2>1. /\ event' = event /\ cur' = m /\ pc' = "claim" /\ pc = "deliver"
        /\ \A n \in Events : n # m => box'[n] = box[n]
    BY <1>1, <1>19 DEF Insert, Requeue, Free, Candidate, NextEvent
  <2>. QED
    BY <2>1 DEF HalfDone, InHand
<1>20. ASSUME NEW m \in Events, NEW p \in Pids, Blocked(m, p) \/ AlreadySent(m, p)
       PROVE  HalfDone(e) /\ ~InHand(e)
  BY <1>2, <1>20 DEF Blocked, AlreadySent
<1>21. CASE World \/ UNCHANGED vars
  BY <1>2, <1>21 DEF World, vars, SessionStarts, SessionDies, TurnEnds, Noise, HumanSubmits,
     HumanDeletes, Rotate
<1>. QED
  BY <1>4, <1>5, <1>6, <1>7, <1>8, <1>9, <1>10, <1>11, <1>12, <1>13, <1>14, <1>15, <1>16,
     <1>17, <1>18, <1>19, <1>20, <1>21
  DEF Next, Engine, Failures, Requests

\* A crash leaves what the cycle had in hand.
LEMMA CrashLeavesOne ==
    ASSUME IInv, Between, [Next]_vars
    PROVE  \/ LeftHalfDone' \subseteq LeftHalfDone /\ faults' \in {faults, faults + 1}
           \/ /\ LeftHalfDone' \subseteq LeftHalfDone \union {cur}
              /\ faults' = faults + 1 /\ "crash" \in Faults
<1>1. CASE Crash
  <2>1. /\ UNCHANGED <<event, box>> /\ pc' = "down"
        /\ "crash" \in Faults /\ faults' = faults + 1
    BY <1>1 DEF Crash, Fault, durable
  <2>. QED
    BY <2>1 DEF LeftHalfDone, HalfDone, InHand
<1>2. CASE ~Crash
  <2>1. LeftHalfDone' \subseteq LeftHalfDone
    BY <1>2, StepsFinish DEF LeftHalfDone
  <2>2. faults' \in {faults, faults + 1}
    <3> USE DEF Fault, ghosts, world, Keypress
    <3>1. CASE Engine
      <4>1. CASE \/ BeginCycle \/ ResolveEvent \/ Observe \/ ResolveOlder \/ FinishAck
                 \/ RetryPressed \/ StartDeliver \/ SessionsListed \/ Claim \/ Paste
                 \/ PressEnter \/ MarkSent \/ EventSent \/ EndCycle \/ Restart
        BY <4>1 DEF BeginCycle, ResolveEvent, Observe, ResolveOlder, FinishAck, RetryPressed,
           StartDeliver, SessionsListed, Claim, Paste, PressEnter, MarkSent, EventSent, EndCycle,
           Restart
      <4>2. ASSUME NEW e \in Events,
                   \/ ReconcileVanished(e) \/ ReconcileAck(e) \/ SupersedeOlder(e)
                   \/ RetryEnter(e) \/ ReconcileSkip(e) \/ SkipServed(e) \/ Hold(e)
            PROVE  faults' \in {faults, faults + 1}
        BY <4>2 DEF ReconcileVanished, ReconcileAck, SupersedeOlder, RetryEnter, ReconcileSkip,
           SkipServed, Hold
      <4>3. ASSUME NEW e \in Events, NEW p \in Pids,
                   Blocked(e, p) \/ Insert(e, p) \/ Requeue(e, p) \/ AlreadySent(e, p)
            PROVE  faults' \in {faults, faults + 1}
        BY <4>3 DEF Blocked, Insert, Requeue, AlreadySent
      <4>4. QED
        BY <3>1, <4>1, <4>2, <4>3 DEF Engine
    <3>2. CASE Failures
      BY <1>2, <3>2 DEF Failures, RetryFailed, SendFails
    <3>3. CASE Requests
      BY <3>3 DEF Requests, Create, Dismiss, WithdrawMessage
    <3>4. CASE World \/ UNCHANGED vars
      BY <3>4 DEF World, vars, SessionStarts, SessionDies, TurnEnds, Noise, HumanSubmits,
         HumanDeletes, Rotate
    <3>. QED
      BY <3>1, <3>2, <3>3, <3>4 DEF Next
  <2>. QED
    BY <2>1, <2>2
<1>. QED
  BY <1>1, <1>2

\* What the passes rely on holds throughout.
LEMMA BetweenHolds == Spec => [](IInv /\ Between)
<1>1. Init => Between
  BY DEF Init, Between, PassRows, OlderIsOver, PassMessages
<1>. QED
  BY <1>1, BetweenPreserved, Invariance, PTL DEF Spec

\* Events and messages disagree only after a crash, about one message per crash,
\* whatever else fails, times out, is withdrawn or dismissed.
THEOREM CrashesLeaveOne == Spec => []OneLeftPerCrash
<1>1. Init => OneLeftPerCrash
  <2> SUFFICES ASSUME Init PROVE OneLeftPerCrash
    OBVIOUS
  <2>1. LeftHalfDone = {} /\ faults = 0
    BY DEF Init, LeftHalfDone, HalfDone, Retryable
  <2>. QED
    BY <2>1, FS_EmptySet DEF OneLeftPerCrash
<1>2. IInv /\ Between /\ OneLeftPerCrash /\ [Next]_vars => OneLeftPerCrash'
  <2> SUFFICES ASSUME IInv, Between, OneLeftPerCrash, [Next]_vars PROVE OneLeftPerCrash'
    OBVIOUS
  <2>1. IsFiniteSet(Events)
    BY NumEventsAssumption, FS_Interval, 1 \in Int, NumEvents \in Int DEF Events
  <2>2. /\ LeftHalfDone \subseteq Events /\ LeftHalfDone' \subseteq Events
        /\ IsFiniteSet(LeftHalfDone) /\ IsFiniteSet(LeftHalfDone')
    BY <2>1, FS_Subset DEF LeftHalfDone
  <2>3. /\ Cardinality(LeftHalfDone) \in Nat /\ Cardinality(LeftHalfDone') \in Nat
        /\ faults \in Nat
    BY <2>2, FS_CardinalityType DEF IInv, Typed, TypeOK
  <2>4. CASE LeftHalfDone' \subseteq LeftHalfDone /\ faults' \in {faults, faults + 1}
    <3>1. Cardinality(LeftHalfDone') <= Cardinality(LeftHalfDone)
      BY <2>2, <2>4, FS_Subset
    <3>. QED
      BY <2>3, <2>4, <3>1 DEF OneLeftPerCrash
  <2>5. CASE /\ LeftHalfDone' \subseteq LeftHalfDone \union {cur}
             /\ faults' = faults + 1 /\ "crash" \in Faults
    <3>1. /\ IsFiniteSet(LeftHalfDone \union {cur})
          /\ Cardinality(LeftHalfDone \union {cur})
                \in {Cardinality(LeftHalfDone), Cardinality(LeftHalfDone) + 1}
      BY <2>2, FS_AddElement
    <3>2. Cardinality(LeftHalfDone') <= Cardinality(LeftHalfDone \union {cur})
      BY <2>5, <3>1, FS_Subset
    <3>. QED
      BY <2>3, <2>5, <3>1, <3>2 DEF OneLeftPerCrash
  <2>. QED
    BY <2>4, <2>5, CrashLeavesOne
<1>. QED
  BY <1>1, <1>2, BetweenHolds, PTL DEF Spec

\* ACKED, FAILED and SUPERSEDED are final, and a message keeps its process and
\* its place in the order, through retries, restarts and requeueing.
THEOREM FinalMessages == Spec => MessagesAreFinal
<1> DEFINE Kept == \A e \in Events :
              /\ box[e] \in {"ACKED", "FAILED", "SUPERSEDED"} => box'[e] = box[e]
              /\ box[e] # "ABSENT" => boxPid'[e] = boxPid[e] /\ boxSeq'[e] = boxSeq[e]
<1>1. ASSUME IInv, Between, [Next]_vars PROVE Kept
  <2>1. Typed /\ Progress
    BY <1>1 DEF IInv
  <2> USE DEF Typed, TypeOK, durable
  <2>2. CASE Claim \/ MarkSent \/ SendFails \/ RetryFailed
    <3>1. cur \in Events /\ box[cur] \in {"QUEUED", "SENDING", "SENT_AWAITING_ACK", "UNCERTAIN"}
      BY <2>1, <2>2 DEF Claim, MarkSent, SendFails, RetryFailed, Working, Progress, Retryable
    <3>2. \A e \in Events : e # cur => box'[e] = box[e]
      BY <2>1, <2>2 DEF Claim, MarkSent, SendFails, RetryFailed
    <3>3. UNCHANGED <<boxPid, boxSeq>>
      BY <2>2 DEF Claim, MarkSent, SendFails, RetryFailed
    <3>. QED
      BY <3>1, <3>2, <3>3
  <2>3. CASE Restart
    BY <2>1, <2>3 DEF Restart, Quarantined
  <2>4. ASSUME NEW m \in Events, \/ WithdrawMessage(m) \/ ReconcileVanished(m)
                                 \/ ReconcileAck(m) \/ SupersedeOlder(m)
        PROVE  Kept
    <3>1. UNCHANGED <<boxPid, boxSeq>> /\ \A e \in Events : e # m => box'[e] = box[e]
      BY <2>1, <2>4 DEF WithdrawMessage, ReconcileVanished, ReconcileAck, SupersedeOlder
    <3>2. box'[m] # box[m] => box[m] \in Unacknowledged
      BY <1>1, <2>1, <2>4 DEF WithdrawMessage, ReconcileVanished, ReconcileAck, NextMessage,
         SupersedeOlder, OlderThan, Between, PassMessages, Unacknowledged
    <3>. QED
      BY <3>1, <3>2 DEF Unacknowledged
  <2>5. ASSUME NEW m \in Events, NEW p \in Pids, Insert(m, p) PROVE Kept
    BY <2>1, <2>5 DEF Insert, NotInOutbox
  <2>6. CASE UNCHANGED <<box, boxPid, boxSeq>>
    BY <2>6
  <2>. QED
    BY <1>1, <2>2, <2>3, <2>4, <2>5, <2>6, Footprints DEF BoxStep
<1>2. IInv /\ Between /\ [Next]_vars => [Kept]_vars
  BY <1>1
<1>. QED
  BY <1>2, BetweenHolds, PTL DEF Spec, MessagesAreFinal
=============================================================================
