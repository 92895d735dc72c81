-------------------------- MODULE ContinuityProofs --------------------------
(* Proofs about Continuity, for any number of projects, processes and episodes *)
(* and without a bound on what fails and how often.                            *)
EXTENDS Continuity, FiniteSetTheorems, TLAPS

\* The request of an episode ends with each decision that no crash cut short,
\* and only unfinished requests are with the resolver.
Requests ==
    \A r \in Reviews :
        /\ event["review"][r] \notin {"SENT", "DELIVERED"}
        /\ decided[r] = excused[r] + (IF event["review"][r] = "RESOLVED" THEN 1 ELSE 0)
        /\ r \in inflight => event["review"][r] # "RESOLVED"

\* Each decision makes at most one deliverable event.
Offers ==
    \A r \in Reviews :
        /\ event["choice"][r] # "NONE" => decided[r] >= 1 /\ option[r] \in Named
        /\ event["resume"][r] # "NONE" => decided[r] >= 1
        /\ event["choice"][r] # "NONE" /\ event["resume"][r] # "NONE" => decided[r] >= 2

\* The rows the deliver pass still holds are of events nothing was sent for.
Selected ==
    /\ \A x, y \in rows : x.kind = y.kind /\ x.of = y.of => x = y
    /\ \A row \in rows :
        /\ event[row.kind][row.of] # "NONE"
        /\ row.kind = "choice" => pressed[row.of] = 0
        /\ row.kind = "choice" /\ pc \in {"keys", "mark"} => row.of # cur

\* While keys are on their way their choice is SENT, and was bound to the
\* episode the snapshot shows.
Sending ==
    pc \in {"keys", "mark"} =>
        /\ cur \in Reviews
        /\ event["choice"][cur] = "SENT"
        /\ view.turn[cur[1]] = cur[2]
        /\ pc = "keys" => pressed[cur] = 0

Acted ==
    \A r \in Reviews :
        /\ pressed[r] =< 1 /\ (pressed[r] > 0 => event["choice"][r] \in {"SENT", "DELIVERED"})
        /\ typed[r] =< 1 /\ (typed[r] > 0 => r \in boxed /\ event["resume"][r] # "NONE")

IInv == TypeOK /\ Requests /\ Offers /\ Selected /\ Sending /\ Acted
-----------------------------------------------------------------------------
(* The events table.                                                          *)

Table == [Kinds -> [Reviews -> Status]]

\* A statement on one row changes that row alone.
LEMMA OneRow ==
    ASSUME event \in Table, NEW kind \in Kinds, NEW r \in Reviews, NEW status \in Status
    PROVE  /\ SetStatus(kind, r, status) \in Table
           /\ \A k \in Kinds, q \in Reviews :
                SetStatus(kind, r, status)[k][q] =
                    IF k = kind /\ q = r THEN status ELSE event[k][q]
  BY DEF SetStatus, Table

\* An insertion is ignored when the row exists.
LEMMA Inserted ==
    ASSUME event \in Table, NEW kind \in Kinds, NEW r \in Reviews
    PROVE  /\ Create(kind, r) \in Table
           /\ \A k \in Kinds, q \in Reviews :
                Create(kind, r)[k][q] = IF k = kind /\ q = r /\ event[k][q] = "NONE"
                                        THEN "PENDING" ELSE event[k][q]
  <1>1. (IF event[kind][r] = "NONE" THEN "PENDING" ELSE event[kind][r]) \in Status
    BY DEF Table, Status
  <1> QED  BY <1>1 DEF Create, Table

\* Only an open event is resolved.
LEMMA Resolved ==
    ASSUME event \in Table, NEW kind \in Kinds, NEW r \in Reviews
    PROVE  /\ Resolve(kind, r) \in Table
           /\ \A k \in Kinds, q \in Reviews :
                Resolve(kind, r)[k][q] = IF k = kind /\ q = r /\ event[k][q] \in Open
                                         THEN "RESOLVED" ELSE event[k][q]
  <1>1. (IF event[kind][r] \in Open THEN "RESOLVED" ELSE event[kind][r]) \in Status
    BY DEF Table, Status
  <1> QED  BY <1>1 DEF Resolve, Table

LEMMA TableTyped == TypeOK => event \in Table
  BY DEF TypeOK, Table

\* What a decision writes: its event, the option of a new choice, the request.
LEMMA DecisionRows ==
    ASSUME event \in Table, option \in [Reviews -> {0} \union Named],
           NEW r \in Reviews, NEW kind \in Outcomes, NEW o \in Named,
           DecisionEvents(kind, r, o)
    PROVE  /\ event' \in Table
           /\ \A k \in Kinds, q \in Reviews :
                event'[k][q] =
                    IF q = r /\ k = "review" THEN "RESOLVED"
                    ELSE IF q = r /\ k = kind /\ event[k][q] = "NONE" THEN "PENDING"
                    ELSE event[k][q]
           /\ option' \in [Reviews -> {0} \union Named]
           /\ \A q \in Reviews :
                option'[q] = IF q = r /\ kind = "choice" /\ event["choice"][q] = "NONE"
                             THEN o ELSE option[q]
  <1>1. o \in {0} \union Named
    OBVIOUS
  <1>2. option' \in [Reviews -> {0} \union Named] /\
        \A q \in Reviews :
                option'[q] = IF q = r /\ kind = "choice" /\ event["choice"][q] = "NONE"
                             THEN o ELSE option[q]
    BY <1>1 DEF DecisionEvents
  <1>3. CASE kind = "none"
    <2>1. "review" \in Kinds /\ "RESOLVED" \in Status /\ kind \notin Kinds
      BY <1>3 DEF Kinds, Status
    <2>2. event' = SetStatus("review", r, "RESOLVED")
      BY <1>3 DEF DecisionEvents
    <2> QED  BY <1>2, <1>3, <2>1, <2>2, OneRow
  <1>4. CASE kind # "none"
    <2>1. kind \in Kinds /\ "review" \in Kinds /\ "RESOLVED" \in Status /\ kind # "review"
      BY <1>4 DEF Outcomes, Kinds, Status
    <2>2. event' = [Create(kind, r) EXCEPT !["review"][r] = "RESOLVED"]
      BY <1>4 DEF DecisionEvents
    <2>3. Create(kind, r) \in Table
      BY <2>1, Inserted
    <2>4. /\ event' \in Table
          /\ \A k \in Kinds, q \in Reviews :
               event'[k][q] = IF k = "review" /\ q = r THEN "RESOLVED" ELSE Create(kind, r)[k][q]
      BY <2>1, <2>2, <2>3 DEF Table
    <2> QED  BY <1>2, <2>1, <2>4, Inserted
  <1> QED  BY <1>3, <1>4
-----------------------------------------------------------------------------
(* Type correctness.                                                          *)

LEMMA ReviewParts ==
    \A r \in Reviews : r[1] \in Pids /\ r[2] \in Nat /\ r[2] =< LastTurn[r[1]] /\ r # NoReview
  BY BoundsAssumption DEF Reviews, NoReview

LEMMA StopIsReview ==
    ASSUME TypeOK, NEW p \in Pids
    PROVE  <<p, turn[p]>> \in Reviews
<1>1. turn[p] \in 0..LastTurn[p]
  BY BoundsAssumption DEF TypeOK
<1> QED  BY <1>1 DEF Reviews

\* What the passes before the deliver pass do to the table, the pool and the
\* rows: they leave decisions alone and start no request that has ended.
LEMMA Observed ==
    ASSUME TypeOK, Observe
    PROVE  /\ event' \in Table
           /\ \A r \in Reviews :
                /\ \A k \in Kinds \ {"alert", "review"} : event'[k][r] = event[k][r]
                /\ event'["review"][r] =
                     IF r \in Requested /\ event["review"][r] = "NONE"
                     THEN "PENDING" ELSE event["review"][r]
           /\ inflight' \subseteq Reviews
           /\ \A r \in inflight' : r \in inflight \/ event["review"][r] \notin Final
           /\ firstReady' \in [Pids -> {"none", "fresh", "old"}]
           /\ suspect' \in [Pids -> [turn : Nat \union {-1}, old : BOOLEAN, raised : BOOLEAN]]
           /\ pc = "idle"
           /\ rows' \subseteq Rows
           /\ pc' \in {"idle", "deliver"}
           /\ view' = view \/ view'.turn = turn
           /\ view' \in [live : SUBSET Pids, turn : [Pids -> Nat],
                         shown : [Pids -> Screens \union {"UNKNOWN"}], cursor : [Pids -> Options]]
<1>1. Requested \subseteq Reviews
  BY StopIsReview DEF Requested, TypeOK
<1>2. Alerts \in [Reviews -> Status]
  <2>1. \A r \in Reviews : event["alert"][r] \in Status
    BY DEF TypeOK, Kinds
  <2> QED  BY <2>1 DEF Alerts, Status
<1>3. [r \in Reviews |-> IF r \in Requested /\ event["review"][r] = "NONE" THEN "PENDING"
                         ELSE event["review"][r]] \in [Reviews -> Status]
  <2>1. \A r \in Reviews : event["review"][r] \in Status
    BY DEF TypeOK, Kinds
  <2> QED  BY <2>1 DEF Status
<1>4. event' = [event EXCEPT !["alert"] = Alerts,
                             !["review"] = [r \in Reviews |->
                                 IF r \in Requested /\ @[r] = "NONE" THEN "PENDING" ELSE @[r]]]
  BY DEF Observe
<1>5. event' \in Table
  BY <1>2, <1>3, <1>4 DEF Table, TypeOK, Kinds
<1>6. \A r \in Reviews :
         /\ \A k \in Kinds \ {"alert", "review"} : event'[k][r] = event[k][r]
         /\ event'["review"][r] = IF r \in Requested /\ event["review"][r] = "NONE"
                                  THEN "PENDING" ELSE event["review"][r]
  BY <1>4 DEF TypeOK, Kinds
<1>7. PICK started \in SUBSET Startable : inflight' = inflight \union started
  BY DEF Observe
<1>8. /\ inflight' \subseteq Reviews
      /\ \A r \in inflight' : r \in inflight \/ event["review"][r] \notin Final
  BY <1>1, <1>7 DEF Startable, TypeOK
<1>9. firstReady' \in [Pids -> {"none", "fresh", "old"}]
  BY DEF Observe, Sighted, TypeOK
<1>10. suspect' \in [Pids -> [turn : Nat \union {-1}, old : BOOLEAN, raised : BOOLEAN]]
  <2>1. \A p \in Pids : Watched(p) \in [turn : Nat \union {-1}, old : BOOLEAN, raised : BOOLEAN]
    <3> SUFFICES ASSUME NEW p \in Pids
                 PROVE  Watched(p) \in [turn : Nat \union {-1}, old : BOOLEAN, raised : BOOLEAN]
      OBVIOUS
    <3>1. suspect[p] \in [turn : Nat \union {-1}, old : BOOLEAN, raised : BOOLEAN]
          /\ turn[p] \in Nat \union {-1}
      BY DEF TypeOK
    <3>2. [suspect[p] EXCEPT !.raised = @ \/ suspect[p].old]
             \in [turn : Nat \union {-1}, old : BOOLEAN, raised : BOOLEAN]
      BY <3>1
    <3>3. /\ [NoSuspect EXCEPT !.turn = turn[p]]
               \in [turn : Nat \union {-1}, old : BOOLEAN, raised : BOOLEAN]
          /\ NoSuspect \in [turn : Nat \union {-1}, old : BOOLEAN, raised : BOOLEAN]
      BY <3>1 DEF NoSuspect
    <3> QED  BY <3>2, <3>3 DEF Watched
  <2> QED  BY <2>1 DEF Observe
<1>11. /\ pc' \in {"idle", "deliver"}
       /\ view' = view \/ view'.turn = turn
       /\ view' \in [live : SUBSET Pids, turn : [Pids -> Nat],
                     shown : [Pids -> Screens \union {"UNKNOWN"}], cursor : [Pids -> Options]]
  <2>1. CASE rows' = {}
    BY <2>1 DEF Observe, TypeOK
  <2>2. CASE rows' # {}
    <3>1. view' = [live |-> live, turn |-> turn, shown |-> [p \in Pids |-> Shown(p)],
                   cursor |-> cursor] /\ pc' = "deliver"
      BY <2>2 DEF Observe
    <3>2. [p \in Pids |-> Shown(p)] \in [Pids -> Screens \union {"UNKNOWN"}]
      BY DEF Shown, TypeOK
    <3> QED  BY <3>1, <3>2 DEF TypeOK
  <2> QED  BY <2>1, <2>2
<1> QED  BY <1>5, <1>6, <1>8, <1>9, <1>10, <1>11 DEF Observe

\* A shutdown turns requests that were with the resolver into held ones.
LEMMA ShutDown ==
    ASSUME TypeOK, Shutdown
    PROVE  \E killed \in SUBSET inflight :
             /\ event' \in Table
             /\ \A k \in Kinds, r \in Reviews :
                  event'[k][r] = IF k = "review" /\ r \in killed THEN "HELD" ELSE event[k][r]
             /\ waiting' = waiting \union killed
             /\ inflight' = inflight \ killed
<1>1. PICK killed \in SUBSET inflight :
         /\ event' = [event EXCEPT !["review"] =
                         [r \in Reviews |-> IF r \in killed THEN "HELD" ELSE @[r]]]
         /\ waiting' = waiting \union killed
         /\ inflight' = inflight \ killed
  BY DEF Shutdown
<1>2. [r \in Reviews |-> IF r \in killed THEN "HELD" ELSE event["review"][r]]
         \in [Reviews -> Status]
  BY DEF TypeOK, Kinds, Status
<1> QED  BY <1>1, <1>2 DEF TypeOK, Table, Kinds

\* What the keys of a choice do.
LEMMA Pressed ==
    ASSUME TypeOK, NEW r \in Reviews, Press(r)
    PROVE  /\ r[1] \in live
           /\ pressed' \in [Reviews -> Nat] /\ pressed' = [pressed EXCEPT ![r] = @ + 1]
           /\ screen' \in [Pids -> Screens]
           /\ cursor' \in [Pids -> Options]
           /\ picked' \in [Reviews -> 0..NumOptions]
           /\ picked' = picked \/ picked' = [picked EXCEPT ![r] = Landing(r[1], r)]
<1>1. Landing(r[1], r) \in Options /\ Options \subseteq 0..NumOptions
  <2>1. cursor[r[1]] \in Int /\ option[r] \in Int /\ view.cursor[r[1]] \in Int
    BY ReviewParts, BoundsAssumption DEF TypeOK, Options, Named
  <2> QED  BY <2>1, BoundsAssumption DEF Landing, Options
<1>2. r[1] \in Pids
  BY ReviewParts
<1>3. pressed' = [pressed EXCEPT ![r] = @ + 1] /\ pressed' \in [Reviews -> Nat] /\ r[1] \in live
  BY DEF Press, TypeOK
<1>4. CASE screen[r[1]] = "ROUTINE_CHOICE"
  <2>1. /\ cursor' = [cursor EXCEPT ![r[1]] = Landing(r[1], r)]
        /\ picked' = [picked EXCEPT ![r] = Landing(r[1], r)]
        /\ screen' = [screen EXCEPT ![r[1]] = "WORKING"]
    BY <1>4 DEF Press
  <2> QED  BY <1>1, <1>2, <1>3, <2>1 DEF TypeOK, Screens
<1>5. CASE screen[r[1]] # "ROUTINE_CHOICE"
  BY <1>2, <1>3, <1>5 DEF Press, TypeOK, Screens
<1> QED  BY <1>4, <1>5

\* What the text of a resume does, and a send that fails before it.
LEMMA Typed ==
    ASSUME TypeOK, NEW r \in Reviews, Type(r) \/ NotTyped(r)
    PROVE  /\ boxed' \subseteq Reviews /\ boxed' = boxed \union {r}
           /\ typed' \in [Reviews -> Nat]
           /\ typed' = typed \/ typed' = [typed EXCEPT ![r] = @ + 1]
           /\ screen' \in [Pids -> Screens]
<1>1. r[1] \in Pids
  BY ReviewParts
<1>2. CASE Type(r)
  BY <1>1, <1>2 DEF Type, TypeOK, Screens
<1>3. CASE NotTyped(r)
  BY <1>3 DEF NotTyped, TypeOK
<1> QED  BY <1>2, <1>3

\* A stopped process has lost what it kept in memory.
LEMMA Forgotten ==
    ASSUME TypeOK, Forget
    PROVE  /\ view' = EmptyView /\ rows' = {} /\ cur' = NoReview /\ served' = {}
           /\ view' \in [live : SUBSET Pids, turn : [Pids -> Nat],
                         shown : [Pids -> Screens \union {"UNKNOWN"}], cursor : [Pids -> Options]]
           /\ firstReady' \in [Pids -> {"none", "fresh", "old"}]
           /\ suspect' \in [Pids -> [turn : Nat \union {-1}, old : BOOLEAN, raised : BOOLEAN]]
  BY BoundsAssumption DEF Forget, EmptyView, NoSuspect, Options

\* The rows read by the deliver pass.
LEMMA RowsAreRows == Rows \subseteq [kind : Deliverable, of : Reviews, held : BOOLEAN]
  BY DEF Rows

LEMMA FaultCounted == ASSUME TypeOK, NEW kind, Fault(kind) PROVE faults' \in Nat
  BY DEF Fault, TypeOK

\* The row handled, and what is left.
LEMMA RowParts ==
    ASSUME TypeOK, NEW row \in rows
    PROVE  /\ row.kind \in Deliverable /\ row.kind \in Kinds /\ row.of \in Reviews
           /\ HomeOf[row.of[1]] \in Projects
  BY ReviewParts, HomeAssumption DEF TypeOK, Deliverable, Kinds

\* A row that is held or withdrawn.
LEMMA RowEnds ==
    ASSUME TypeOK, NEW row \in rows,
           event' = Resolve(row.kind, row.of) \/ Hold(row)
    PROVE  /\ event' \in Table
           /\ \A k \in Kinds, r \in Reviews :
                \/ event'[k][r] = event[k][r]
                \/ /\ k = row.kind /\ r = row.of /\ event'[k][r] \in {"HELD", "RESOLVED"}
                   /\ event'[k][r] = "RESOLVED" => event[k][r] \in Open
<1>1. event \in Table /\ row.kind \in Kinds /\ row.of \in Reviews /\ "HELD" \in Status
  BY RowParts DEF TypeOK, Table, Status
<1>2. CASE event' = Resolve(row.kind, row.of)
  BY <1>1, <1>2, Resolved
<1>3. CASE event' = SetStatus(row.kind, row.of, "HELD")
  BY <1>1, <1>3, OneRow
<1>4. CASE event' = event
  BY <1>1, <1>4
<1> QED  BY <1>2, <1>3, <1>4 DEF Hold

\* The types, taken apart.
View == [live : SUBSET Pids, turn : [Pids -> Nat],
         shown : [Pids -> Screens \union {"UNKNOWN"}], cursor : [Pids -> Options]]
DurableOK == /\ event \in Table /\ option \in [Reviews -> {0} \union Named]
             /\ waiting \subseteq Reviews /\ boxed \subseteq Reviews
             /\ ambiguous \subseteq Projects
CycleOK == /\ pc \in {"down", "closing", "idle", "deliver", "keys", "mark"}
           /\ view \in View
           /\ rows \subseteq [kind : Deliverable, of : Reviews, held : BOOLEAN]
           /\ cur \in Reviews \union {NoReview}
           /\ served \subseteq Projects
MarksOK == /\ inflight \subseteq Reviews
           /\ firstReady \in [Pids -> {"none", "fresh", "old"}]
           /\ suspect \in [Pids -> [turn : Nat \union {-1}, old : BOOLEAN, raised : BOOLEAN]]
WorldOK == /\ live \subseteq Pids /\ gone \subseteq Pids /\ hidden \subseteq Pids
           /\ turn \in [Pids -> Nat] /\ \A p \in Pids : turn[p] =< LastTurn[p]
           /\ screen \in [Pids -> Screens]
           /\ cursor \in [Pids -> Options]
           /\ facts \in [Pids -> SUBSET Evidence]
           /\ quiet \subseteq Pids
GhostsOK == /\ decided \in [Reviews -> Nat] /\ excused \in [Reviews -> Nat]
            /\ typed \in [Reviews -> Nat] /\ pressed \in [Reviews -> Nat]
            /\ picked \in [Reviews -> 0..NumOptions]
            /\ faults \in Nat

LEMMA TypeParts == TypeOK <=> DurableOK /\ CycleOK /\ MarksOK /\ WorldOK /\ GhostsOK
  BY DEF TypeOK, DurableOK, CycleOK, MarksOK, WorldOK, GhostsOK, Table, View

LEMMA TypePartsNext == TypeOK' <=> DurableOK' /\ CycleOK' /\ MarksOK' /\ WorldOK' /\ GhostsOK'
  BY DEF TypeOK, DurableOK, CycleOK, MarksOK, WorldOK, GhostsOK, Table, View

LEMMA DurableKept ==
    ASSUME TypeOK, Sending, [Next]_vars PROVE DurableOK'
<1>0. DurableOK
  BY TypeParts
<1>a. /\ {"review", "choice", "resume", "uncertain"} \subseteq Kinds
      /\ {"HELD", "RESOLVED", "SENT", "DELIVERED", "DISMISSED"} \subseteq Status
  BY DEF Kinds, Status
<1>1. CASE Observe
  <2>1. ambiguous' \subseteq Projects
    BY <1>1, <1>0 DEF Observe, DurableOK
  <2>2. UNCHANGED <<option, waiting, boxed>>
    BY <1>1 DEF Observe
  <2> QED  BY <1>0, <1>1, <2>1, <2>2, Observed DEF DurableOK
<1>2. ASSUME NEW row \in rows, DeliverRow(row) PROVE DurableOK'
  <2>0. row.kind \in Deliverable /\ row.kind \in Kinds /\ row.of \in Reviews
    BY <1>2, RowParts
  <2>1. CASE SkipServed(row) \/ ResumeWaits(row)
    BY <1>0, <2>1 DEF SkipServed, ResumeWaits, durable, DurableOK
  <2>2. ASSUME NEW stop, Withdraw(row, stop) PROVE DurableOK'
    <3>1. event' \in Table
      BY <1>2, <2>2, RowEnds DEF Withdraw
    <3> QED  BY <1>0, <2>2, <3>1 DEF Withdraw, DurableOK
  <2>3. CASE ClaimChoice(row)
    <3>1. event' \in Table
      BY <1>0, <1>a, <2>0, <2>3, OneRow DEF ClaimChoice, DurableOK
    <3> QED  BY <1>0, <2>3, <3>1 DEF ClaimChoice, DurableOK
  <2>4. CASE SendResume(row) \/ SendFails(row)
    <3>1. event' \in Table
      BY <1>0, <1>a, <2>0, <2>4, OneRow DEF SendResume, SendFails, DurableOK
    <3>2. boxed' \subseteq Reviews
      BY <2>0, <2>4, Typed DEF SendResume, SendFails
    <3> QED  BY <1>0, <2>4, <3>1, <3>2 DEF SendResume, SendFails, DurableOK
  <2> QED  BY <1>2, <2>1, <2>2, <2>3, <2>4 DEF DeliverRow
<1>3. CASE MarkChoice
  <2>1. event' \in Table
    BY <1>0, <1>a, <1>3, OneRow DEF MarkChoice, Sending, DurableOK
  <2> QED  BY <1>0, <1>3, <2>1 DEF MarkChoice, DurableOK
<1>4. CASE PressFails
  <2>1. event' = [Create("uncertain", cur) EXCEPT !["choice"][cur] = "SENT"] /\ cur \in Reviews
    BY <1>4 DEF PressFails, Uncertain, Sending
  <2>2. Create("uncertain", cur) \in Table
    BY <1>0, <1>a, <2>1, Inserted DEF DurableOK
  <2>3. event' \in Table
    BY <1>a, <2>1, <2>2 DEF Table
  <2> QED  BY <1>0, <1>4, <2>3 DEF PressFails, DurableOK
<1>5. ASSUME NEW r \in Reviews, Answer(r) PROVE DurableOK'
  <2>1. PICK kind \in Outcomes, o \in Named : DecisionEvents(kind, r, o)
    BY <1>5 DEF Answer
  <2>2. event' \in Table /\ option' \in [Reviews -> {0} \union Named]
    BY <1>0, <2>1, DecisionRows DEF DurableOK
  <2> QED  BY <1>0, <1>5, <2>2 DEF Answer, DurableOK
<1>6. ASSUME NEW r \in Reviews, Fails(r) PROVE DurableOK'
  <2>1. event' \in Table
    BY <1>0, <1>a, <1>6, OneRow DEF Fails, DurableOK
  <2> QED  BY <1>0, <1>6, <2>1 DEF Fails, DurableOK
<1>7. ASSUME NEW kind \in Kinds, NEW r \in Reviews, Dismiss(kind, r) PROVE DurableOK'
  <2>1. event' \in Table
    BY <1>0, <1>a, <1>7, OneRow DEF Dismiss, DurableOK
  <2> QED  BY <1>0, <1>7, <2>1 DEF Dismiss, DurableOK
<1>8. ASSUME NEW r \in Reviews, CrashAmidDecision(r) PROVE DurableOK'
  <2>1. PICK kind \in Outcomes \ {"none"}, o \in Named :
          /\ event' = Create(kind, r)
          /\ option' = IF kind = "choice" /\ event["choice"][r] = "NONE"
                       THEN [option EXCEPT ![r] = o] ELSE option
    BY <1>8 DEF CrashAmidDecision
  <2>2. kind \in Kinds /\ o \in {0} \union Named
    BY DEF Outcomes, Kinds
  <2>3. event' \in Table
    BY <1>0, <2>1, <2>2, Inserted DEF DurableOK
  <2> QED  BY <1>0, <1>8, <2>1, <2>2, <2>3 DEF CrashAmidDecision, DurableOK
<1>9. ASSUME NEW row \in rows, CrashAmidSend(row) PROVE DurableOK'
  <2>1. boxed' \subseteq Reviews
    BY <1>9, Typed, RowParts DEF CrashAmidSend
  <2> QED  BY <1>0, <1>9, <2>1 DEF CrashAmidSend, DurableOK
<1>10. CASE Shutdown
  <2>1. event' \in Table /\ waiting' \subseteq Reviews
    BY <1>0, <1>10, ShutDown DEF DurableOK, TypeOK
  <2> QED  BY <1>0, <1>10, <2>1 DEF Shutdown, DurableOK
<1>11. ASSUME NEW r \in Reviews, RetryDue(r) PROVE DurableOK'
  BY <1>0, <1>11 DEF RetryDue, DurableOK
<1>12. CASE PressKeys \/ EndCycle \/ Crash \/ Close \/ Restart \/ World \/ UNCHANGED vars
  <2>1. UNCHANGED durable
    BY <1>12 DEF PressKeys, EndCycle, Crash, Close, Restart, vars, World, Settle, Stall, Quieten,
          StartProcess, EndProcess, EndTurn, Append, Person, Obscure, Clear, EvidenceComes,
          EvidenceGoes
  <2> QED  BY <1>0, <2>1 DEF durable, DurableOK
<1>13. CASE Cycle
  BY <1>1, <1>2, <1>3, <1>4, <1>12, <1>13 DEF Cycle
<1>14. CASE Stops
  <2>1. inflight \subseteq Reviews
    BY DEF TypeOK
  <2> QED  BY <1>8, <1>9, <1>10, <1>12, <1>14, <2>1 DEF Stops
<1> QED
  BY <1>5, <1>6, <1>7, <1>11, <1>12, <1>13, <1>14 DEF Next

LEMMA CycleKept ==
    ASSUME TypeOK, Sending, [Next]_vars PROVE CycleOK'
<1>0. CycleOK
  BY TypeParts
<1>1. CASE Observe
  BY <1>0, <1>1, Observed, RowsAreRows DEF Observe, CycleOK, View
<1>2. ASSUME NEW row \in rows, DeliverRow(row) PROVE CycleOK'
  <2>1. row.of \in Reviews /\ HomeOf[row.of[1]] \in Projects
    BY <1>2, RowParts
  <2>2. ASSUME NEW stop, Withdraw(row, stop) PROVE CycleOK'
    BY <1>0, <2>2 DEF Withdraw, Done, CycleOK
  <2> QED
    BY <1>0, <1>2, <2>1, <2>2
       DEF DeliverRow, SkipServed, ClaimChoice, ResumeWaits, SendResume, SendFails, Done, Of,
           CycleOK
<1>3. CASE PressKeys
  BY <1>0, <1>3 DEF PressKeys, CycleOK
<1>4. CASE MarkChoice
  <2>1. HomeOf[cur[1]] \in Projects
    BY <1>4, ReviewParts, HomeAssumption DEF MarkChoice, Sending
  <2> QED  BY <1>0, <1>4, <2>1 DEF MarkChoice, CycleOK
<1>5. CASE PressFails
  BY <1>0, <1>5 DEF PressFails, CycleOK
<1>6. CASE EndCycle
  <2>1. EmptyView \in View
    BY BoundsAssumption DEF EmptyView, Options, View
  <2> QED  BY <1>0, <1>6, <2>1 DEF EndCycle, CycleOK
<1>7. CASE Stops
  <2>1. Forget /\ pc' \in {"down", "closing"}
    BY <1>7 DEF Stops, Crash, CrashAmidDecision, CrashAmidSend, Shutdown
  <2> QED  BY <1>0, <2>1, Forgotten DEF CycleOK, View
<1>8. CASE Close \/ Restart
  BY <1>0, <1>8 DEF Close, Restart, CycleOK
<1>9. CASE \/ World \/ UNCHANGED vars
           \/ \E r \in Reviews : Answer(r) \/ Fails(r) \/ RetryDue(r)
           \/ \E kind \in Kinds, r \in Reviews : Dismiss(kind, r)
  <2>1. UNCHANGED <<pc, view, rows, cur, served>>
    BY <1>9 DEF Answer, Fails, RetryDue, Dismiss, vars, memory, World, Settle, Stall, Quieten,
          StartProcess, EndProcess, EndTurn, Append, Person, Obscure, Clear, EvidenceComes,
          EvidenceGoes
  <2> QED  BY <1>0, <2>1 DEF CycleOK
<1> QED
  BY <1>1, <1>2, <1>3, <1>4, <1>5, <1>6, <1>7, <1>8, <1>9 DEF Next, Cycle

LEMMA MarksKept ==
    ASSUME TypeOK, [Next]_vars PROVE MarksOK'
<1>0. MarksOK
  BY TypeParts
<1>1. CASE Observe
  BY <1>1, Observed DEF MarksOK
<1>2. ASSUME NEW r \in Reviews, Answer(r) \/ Fails(r) PROVE MarksOK'
  BY <1>0, <1>2 DEF Answer, Fails, Left, MarksOK
<1>3. CASE Stops
  <2>1. Shutdown => Forget /\ inflight' \subseteq inflight
    BY DEF Shutdown
  <2>2. Crash => Forget /\ inflight' = {}
    BY DEF Crash
  <2>3. ASSUME NEW r \in inflight, CrashAmidDecision(r) PROVE Forget /\ inflight' = {}
    BY <2>3 DEF CrashAmidDecision
  <2>4. ASSUME NEW row \in rows, CrashAmidSend(row) PROVE Forget /\ inflight' = {}
    BY <2>4 DEF CrashAmidSend
  <2>5. Forget /\ inflight' \subseteq inflight
    BY <1>3, <2>1, <2>2, <2>3, <2>4 DEF Stops
  <2> QED  BY <1>0, <2>5, Forgotten DEF MarksOK
<1>4. ASSUME NEW p \in Pids, Settle(p) PROVE MarksOK'
  BY <1>0, <1>4 DEF Settle, MarksOK
<1>5. ASSUME NEW p \in Pids, Stall(p) PROVE MarksOK'
  BY <1>0, <1>5 DEF Stall, MarksOK
<1>6. CASE \/ UNCHANGED vars \/ Close \/ Restart \/ PressKeys \/ MarkChoice \/ PressFails
           \/ EndCycle \/ \E row \in rows : DeliverRow(row)
           \/ \E r \in Reviews : RetryDue(r)
           \/ \E kind \in Kinds, r \in Reviews : Dismiss(kind, r)
  <2>1. UNCHANGED <<inflight, firstReady, suspect>>
    BY <1>6 DEF RetryDue, Dismiss, vars, memory, Close, Restart, PressKeys, MarkChoice,
          PressFails, EndCycle, DeliverRow, SkipServed, Withdraw, ClaimChoice, ResumeWaits,
          SendResume, SendFails
  <2> QED  BY <1>0, <2>1 DEF MarksOK
<1>7. ASSUME NEW p \in Pids,
             \/ Quieten(p) \/ StartProcess(p) \/ EndProcess(p) \/ EndTurn(p) \/ Append(p)
             \/ Person(p) \/ Obscure(p) \/ Clear(p) \/ EvidenceComes(p) \/ EvidenceGoes(p)
      PROVE  MarksOK'
  <2>1. UNCHANGED <<inflight, firstReady, suspect>>
    BY <1>7 DEF memory, Quieten, StartProcess, EndProcess, EndTurn, Append, Person, Obscure,
          Clear, EvidenceComes, EvidenceGoes
  <2> QED  BY <1>0, <2>1 DEF MarksOK
<1> QED
  BY <1>1, <1>2, <1>3, <1>4, <1>5, <1>6, <1>7 DEF Next, Cycle, World

LEMMA WorldKept ==
    ASSUME TypeOK, Sending, [Next]_vars PROVE WorldOK'
<1>0. WorldOK
  BY TypeParts
<1>1. CASE PressKeys \/ PressFails
  <2>1. cur \in Reviews /\ cur[1] \in Pids
    BY <1>1, ReviewParts DEF PressKeys, PressFails, Sending
  <2>2. screen' \in [Pids -> Screens] /\ cursor' \in [Pids -> Options]
    <3>1. CASE Press(cur)
      BY <2>1, <3>1, Pressed
    <3>2. CASE ~Press(cur)
      BY <1>0, <1>1, <2>1, <3>2 DEF PressKeys, PressFails, WorldOK
    <3> QED  BY <3>1, <3>2
  <2> QED  BY <1>0, <1>1, <2>2 DEF PressKeys, PressFails, WorldOK
<1>2. ASSUME NEW row \in rows,
             SendResume(row) \/ SendFails(row) \/ CrashAmidSend(row)
      PROVE  WorldOK'
  <2>1. screen' \in [Pids -> Screens]
    BY <1>2, Typed, RowParts DEF SendResume, SendFails, CrashAmidSend
  <2> QED  BY <1>0, <1>2, <2>1 DEF SendResume, SendFails, CrashAmidSend, WorldOK
<1>3. ASSUME NEW p \in Pids, Quieten(p) \/ StartProcess(p) \/ Obscure(p) \/ Clear(p)
      PROVE  WorldOK'
  BY <1>0, <1>3 DEF Quieten, StartProcess, Obscure, Clear, WorldOK
<1>4. ASSUME NEW p \in Pids, EndProcess(p) PROVE WorldOK'
  <2>1. turn' = [turn EXCEPT ![p] = 0] /\ facts' = [facts EXCEPT ![p] = {}]
    BY <1>4 DEF EndProcess
  <2>2. turn' \in [Pids -> Nat] /\ \A q \in Pids : turn'[q] = 0 \/ turn'[q] = turn[q]
    BY <1>0, <2>1 DEF WorldOK
  <2>3. /\ \A q \in Pids : turn'[q] =< LastTurn[q]
        /\ facts' \in [Pids -> SUBSET Evidence]
    BY <1>0, <2>1, <2>2, BoundsAssumption DEF WorldOK
  <2>4. screen' \in [Pids -> Screens] /\ cursor' \in [Pids -> Options]
    BY <1>0, <1>4, BoundsAssumption DEF EndProcess, WorldOK, Screens, Options
  <2> QED  BY <1>0, <1>4, <2>2, <2>3, <2>4 DEF EndProcess, WorldOK
<1>5. ASSUME NEW p \in Pids, EndTurn(p) \/ Append(p) PROVE WorldOK'
  <2>1. turn' = [turn EXCEPT ![p] = @ + 1] /\ turn[p] < LastTurn[p]
    BY <1>5 DEF EndTurn, Append
  <2>2. turn' \in [Pids -> Nat]
        /\ \A q \in Pids : turn'[q] = IF q = p THEN turn[p] + 1 ELSE turn[q]
    BY <1>0, <2>1 DEF WorldOK
  <2>3. \A q \in Pids : turn'[q] =< LastTurn[q]
    <3>1. turn[p] \in Nat /\ LastTurn[p] \in Nat
      BY <1>0, BoundsAssumption DEF WorldOK
    <3>2. turn[p] + 1 =< LastTurn[p]
      BY <2>1, <3>1
    <3> QED  BY <1>0, <2>2, <3>2 DEF WorldOK
  <2>4. screen' \in [Pids -> Screens] /\ cursor' \in [Pids -> Options]
    BY <1>0, <1>5, BoundsAssumption DEF EndTurn, Append, WorldOK, Screens, Options
  <2> QED  BY <1>0, <1>5, <2>2, <2>3, <2>4 DEF EndTurn, Append, WorldOK
<1>6. ASSUME NEW p \in Pids, Person(p) PROVE WorldOK'
  BY <1>0, <1>6 DEF Person, WorldOK, Screens
<1>7. ASSUME NEW p \in Pids, EvidenceComes(p) \/ EvidenceGoes(p) PROVE WorldOK'
  <2>1. facts' \in [Pids -> SUBSET Evidence]
    BY <1>0, <1>7 DEF EvidenceComes, EvidenceGoes, WorldOK
  <2> QED  BY <1>0, <1>7, <2>1 DEF EvidenceComes, EvidenceGoes, WorldOK
<1>8. CASE UNCHANGED world
  BY <1>0, <1>8 DEF world, WorldOK
<1>9. ASSUME NEW p \in Pids, Settle(p) \/ Stall(p) PROVE UNCHANGED world
  BY <1>9 DEF Settle, Stall
<1>10. CASE World
  BY <1>3, <1>4, <1>5, <1>6, <1>7, <1>8, <1>9, <1>10 DEF World
<1>11. ASSUME NEW row \in rows, DeliverRow(row) PROVE WorldOK'
  BY <1>2, <1>8, <1>11 DEF DeliverRow, SkipServed, Withdraw, ClaimChoice, ResumeWaits
<1>12. CASE Cycle
  BY <1>1, <1>8, <1>11, <1>12 DEF Cycle, Observe, MarkChoice, EndCycle
<1>13. CASE Stops
  BY <1>2, <1>8, <1>13 DEF Stops, Crash, CrashAmidDecision, Shutdown
<1>14. CASE \/ UNCHANGED vars \/ Close \/ Restart
            \/ \E r \in Reviews : Answer(r) \/ Fails(r) \/ RetryDue(r)
            \/ \E kind \in Kinds, r \in Reviews : Dismiss(kind, r)
  BY <1>8, <1>14 DEF vars, Close, Restart, Answer, Fails, RetryDue, Dismiss
<1> QED  BY <1>10, <1>12, <1>13, <1>14 DEF Next

LEMMA GhostsKept ==
    ASSUME TypeOK, Sending, [Next]_vars PROVE GhostsOK'
<1>0. GhostsOK
  BY TypeParts
<1>1. CASE PressKeys \/ PressFails
  <2>1. cur \in Reviews
    BY <1>1 DEF PressKeys, PressFails, Sending
  <2>2. pressed' \in [Reviews -> Nat] /\ picked' \in [Reviews -> 0..NumOptions]
    <3>1. CASE Press(cur)
      BY <2>1, <3>1, Pressed
    <3>2. CASE ~Press(cur)
      BY <1>0, <1>1, <2>1, <3>2 DEF PressKeys, PressFails, GhostsOK
    <3> QED  BY <3>1, <3>2
  <2>3. faults' \in Nat
    BY <1>0, <1>1, FaultCounted DEF PressKeys, PressFails, GhostsOK
  <2> QED  BY <1>0, <1>1, <2>2, <2>3 DEF PressKeys, PressFails, GhostsOK
<1>2. ASSUME NEW row \in rows,
             SendResume(row) \/ SendFails(row) \/ CrashAmidSend(row)
      PROVE  GhostsOK'
  <2>1. typed' \in [Reviews -> Nat]
    BY <1>2, Typed, RowParts DEF SendResume, SendFails, CrashAmidSend
  <2>2. faults' \in Nat
    BY <1>0, <1>2, FaultCounted DEF SendResume, SendFails, CrashAmidSend, GhostsOK
  <2> QED  BY <1>0, <1>2, <2>1, <2>2 DEF SendResume, SendFails, CrashAmidSend, GhostsOK
<1>3. ASSUME NEW r \in Reviews, Answer(r) PROVE GhostsOK'
  <2>1. decided' = [decided EXCEPT ![r] = @ + 1]
    BY <1>3 DEF Answer, DecisionEvents
  <2> QED  BY <1>0, <1>3, <2>1 DEF Answer, GhostsOK
<1>4. ASSUME NEW r \in Reviews, Fails(r) PROVE GhostsOK'
  BY <1>0, <1>4, FaultCounted DEF Fails, GhostsOK
<1>5. ASSUME NEW kind \in Kinds, NEW r \in Reviews, Dismiss(kind, r) PROVE GhostsOK'
  BY <1>0, <1>5, FaultCounted DEF Dismiss, GhostsOK
<1>6. CASE Crash \/ Shutdown \/ Observe
  BY <1>0, <1>6, FaultCounted DEF Crash, Shutdown, Observe, GhostsOK
<1>7. ASSUME NEW r \in Reviews, CrashAmidDecision(r) PROVE GhostsOK'
  BY <1>0, <1>7, FaultCounted DEF CrashAmidDecision, GhostsOK
<1>8. ASSUME NEW p \in Pids, EndProcess(p) \/ Person(p) \/ Obscure(p) \/ EvidenceComes(p)
      PROVE  GhostsOK'
  BY <1>0, <1>8, FaultCounted DEF EndProcess, Person, Obscure, EvidenceComes, GhostsOK
<1>9. CASE UNCHANGED ghosts
  BY <1>0, <1>9 DEF ghosts, GhostsOK
<1>10. ASSUME NEW row \in rows, DeliverRow(row) PROVE GhostsOK'
  BY <1>2, <1>9, <1>10 DEF DeliverRow, SkipServed, Withdraw, ClaimChoice, ResumeWaits
<1>11. CASE Cycle
  BY <1>1, <1>6, <1>9, <1>10, <1>11 DEF Cycle, MarkChoice, EndCycle
<1>12. CASE Stops
  <2>1. inflight \subseteq Reviews
    BY DEF TypeOK
  <2> QED  BY <1>2, <1>6, <1>7, <1>12, <2>1 DEF Stops
<1>13. CASE World
  BY <1>8, <1>9, <1>13 DEF World, Settle, Stall, Quieten, StartProcess, EndTurn, Append, Clear,
     EvidenceGoes
<1>14. CASE \/ UNCHANGED vars \/ Close \/ Restart \/ \E r \in Reviews : RetryDue(r)
  BY <1>9, <1>14 DEF vars, Close, Restart, RetryDue
<1> QED  BY <1>3, <1>4, <1>5, <1>11, <1>12, <1>13, <1>14 DEF Next

LEMMA TypesPreserved == ASSUME TypeOK, Sending, [Next]_vars PROVE TypeOK'
  BY TypePartsNext, DurableKept, CycleKept, MarksKept, WorldKept, GhostsKept
-----------------------------------------------------------------------------
(* Decisions and deliveries.                                                  *)

Rest == Requests /\ Offers /\ Selected /\ Sending /\ Acted

\* Steps that touch neither the table nor what was done of it, and leave the
\* cycle where it is or give it up.
LEMMA RestStutters ==
    ASSUME TypeOK, Rest, inflight' \subseteq inflight,
           UNCHANGED <<event, option, decided, excused, typed, pressed, boxed>>,
           \/ UNCHANGED <<pc, view, rows, cur>>
           \/ rows' \subseteq rows /\ pc' \notin {"keys", "mark"}
    PROVE  Rest'
<1> USE DEF Rest
<1>1. Requests' /\ Offers' /\ Acted'
  BY DEF Requests, Offers, Acted
<1>2. Selected'
  BY DEF Selected
<1>3. Sending'
  BY DEF Sending
<1> QED  BY <1>1, <1>2, <1>3

LEMMA ObserveKeeps == ASSUME TypeOK, Rest, Observe PROVE Rest'
<1> USE DEF Rest, Kinds
<1>0. UNCHANGED <<option, decided, excused, typed, pressed, boxed, cur>>
  BY DEF Observe
<1>1. Requests'
  BY <1>0, Observed DEF Requests, Final
<1>2. Offers' /\ Acted'
  BY <1>0, Observed DEF Offers, Acted
<1>3. Selected'
  <2>1. rows' \subseteq Rows /\ pc' \notin {"keys", "mark"}
    BY Observed
  <2>2. \A x, y \in Rows : x.kind = y.kind /\ x.of = y.of => x = y
    BY DEF Rows
  <2>3. \A row \in Rows :
           /\ row.kind \in {"resume", "choice"} /\ row.of \in Reviews
           /\ event[row.kind][row.of] \in Listed
    BY DEF Rows, Deliverable
  <2>4. ASSUME NEW row \in Rows PROVE event'[row.kind][row.of] # "NONE"
    BY <2>3, Observed DEF Listed
  <2>5. ASSUME NEW row \in Rows, row.kind = "choice" PROVE pressed'[row.of] = 0
    <3>1. row.of \in Reviews /\ event["choice"][row.of] \notin {"SENT", "DELIVERED"}
      BY <2>3, <2>5 DEF Listed
    <3>2. pressed[row.of] \in Nat /\ ~(pressed[row.of] > 0)
      BY <3>1 DEF Acted, TypeOK
    <3> QED  BY <1>0, <3>2
  <2> QED  BY <2>1, <2>2, <2>4, <2>5 DEF Selected
<1>4. Sending'
  BY Observed DEF Sending
<1> QED  BY <1>1, <1>2, <1>3, <1>4

\* A row withdrawn or held.
LEMMA WithdrawKeeps ==
    ASSUME TypeOK, Rest, NEW row \in rows, NEW stop, Withdraw(row, stop), pc = "deliver"
    PROVE  Rest'
<1> USE DEF Rest, Kinds
<1>0. /\ UNCHANGED <<option, decided, excused, typed, pressed, boxed, cur, inflight>>
      /\ rows' = rows \ {row} /\ pc' = "deliver"
  BY DEF Withdraw, Done, ghosts
<1>1. /\ row.kind \in {"resume", "choice"} /\ row.of \in Reviews
      /\ event[row.kind][row.of] # "NONE"
      /\ row.kind = "choice" => pressed[row.of] = 0
  BY RowParts DEF Selected, Deliverable
<1>2. \A k \in Kinds, r \in Reviews :
         \/ event'[k][r] = event[k][r]
         \/ /\ k = row.kind /\ r = row.of /\ event'[k][r] \in {"HELD", "RESOLVED"}
            /\ event'[k][r] = "RESOLVED" => event[k][r] \in Open
  BY RowEnds DEF Withdraw
<1>3. \A r \in Reviews :
         /\ event'["review"][r] = event["review"][r]
         /\ event'["choice"][r] # "NONE" <=> event["choice"][r] # "NONE"
         /\ event'["resume"][r] # "NONE" <=> event["resume"][r] # "NONE"
         /\ pressed[r] > 0 => event'["choice"][r] = event["choice"][r]
  BY <1>1, <1>2
<1>4. Requests' /\ Offers' /\ Acted'
  BY <1>0, <1>3 DEF Requests, Offers, Acted
<1>5. Selected'
  BY <1>0, <1>1, <1>3, RowParts DEF Selected, Deliverable
<1>6. Sending'
  BY <1>0 DEF Sending
<1> QED  BY <1>4, <1>5, <1>6

\* The choice is SENT before its keys.
LEMMA ClaimKeeps ==
    ASSUME TypeOK, Rest, NEW row \in rows, ClaimChoice(row)
    PROVE  Rest'
<1> USE DEF Rest, Kinds
<1>0. /\ UNCHANGED <<option, decided, excused, typed, pressed, boxed, inflight, view>>
      /\ rows' = rows \ {row} /\ pc' = "keys" /\ cur' = row.of
  BY DEF ClaimChoice, ghosts
<1>1. /\ row.kind = "choice" /\ row.of \in Reviews
      /\ event["choice"][row.of] # "NONE" /\ pressed[row.of] = 0
      /\ view.turn[row.of[1]] = row.of[2]
  BY RowParts DEF ClaimChoice, Shows, Selected
<1>2. \A k \in Kinds, r \in Reviews :
         event'[k][r] = IF k = "choice" /\ r = row.of THEN "SENT" ELSE event[k][r]
  <2>1. event' = SetStatus("choice", row.of, "SENT") /\ event \in Table /\ "SENT" \in Status
    BY TableTyped DEF ClaimChoice, Status
  <2> QED  BY <1>1, <2>1, OneRow
<1>3. Requests' /\ Offers' /\ Acted'
  BY <1>0, <1>1, <1>2 DEF Requests, Offers, Acted
<1>4. Selected'
  <2>1. \A x \in rows' : x.kind = "choice" => x.of # row.of
    BY <1>0, <1>1 DEF Selected
  <2> QED  BY <1>0, <1>1, <1>2, <2>1, RowParts DEF Selected, Deliverable
<1>5. Sending'
  BY <1>0, <1>1, <1>2 DEF Sending
<1> QED  BY <1>3, <1>4, <1>5

\* A resume is sent, or its send fails.
LEMMA SendKeeps ==
    ASSUME TypeOK, Rest, NEW row \in rows, SendResume(row) \/ SendFails(row), pc = "deliver"
    PROVE  Rest'
<1> USE DEF Rest, Kinds
<1>0. /\ UNCHANGED <<option, decided, excused, pressed, cur, inflight, view>>
      /\ rows' = rows \ {row} /\ pc' = "deliver"
  BY DEF SendResume, SendFails, Done
<1>1. /\ row.kind = "resume" /\ row.of \in Reviews /\ row.of \notin boxed
      /\ event["resume"][row.of] # "NONE"
  BY RowParts DEF SendResume, SendFails, Sendable, Selected
<1>2. PICK status \in {"SENT", "HELD"} : event' = SetStatus("resume", row.of, status)
  BY DEF SendResume, SendFails
<1>3. \A k \in Kinds, r \in Reviews :
         event'[k][r] = IF k = "resume" /\ r = row.of THEN status ELSE event[k][r]
  <2>1. status \in Status
    BY DEF Status
  <2> QED  BY <1>1, <1>2, <2>1, TableTyped, OneRow
<1>4. /\ boxed' = boxed \union {row.of}
      /\ typed' = typed \/ typed' = [typed EXCEPT ![row.of] = @ + 1]
  BY <1>1, Typed DEF SendResume, SendFails
<1>5. Requests' /\ Offers'
  BY <1>0, <1>1, <1>3 DEF Requests, Offers
<1>6. Acted'
  <2>1. typed[row.of] = 0
    BY <1>1 DEF Acted, TypeOK
  <2>2. \A r \in Reviews :
           /\ typed'[r] =< 1
           /\ typed'[r] > 0 => r \in boxed' /\ event["resume"][r] # "NONE"
    BY <1>1, <1>4, <2>1 DEF Acted, TypeOK
  <2> QED  BY <1>0, <1>3, <2>2 DEF Acted
<1>7. Selected'
  BY <1>0, <1>3, RowParts DEF Selected, Deliverable
<1>8. Sending'
  BY <1>0 DEF Sending
<1> QED  BY <1>5, <1>6, <1>7, <1>8

\* The keys of a choice: sent, marked, failed.
LEMMA PressKeeps == ASSUME TypeOK, Rest, PressKeys PROVE Rest'
<1> USE DEF Rest
<1>0. /\ UNCHANGED <<event, option, decided, excused, typed, boxed, cur, inflight, view, rows>>
      /\ pc = "keys" /\ pc' = "mark"
  BY DEF PressKeys, durable
<1>1. /\ cur \in Reviews /\ event["choice"][cur] = "SENT" /\ pressed[cur] = 0
      /\ pressed' = [pressed EXCEPT ![cur] = @ + 1]
  BY <1>0, Pressed DEF PressKeys, Sending
<1>2. \A r \in Reviews : pressed'[r] = IF r = cur THEN 1 ELSE pressed[r]
  BY <1>1 DEF TypeOK
<1>3. Requests' /\ Offers' /\ Acted'
  BY <1>0, <1>1, <1>2 DEF Requests, Offers, Acted
<1>4. Selected'
  BY <1>0, <1>2, RowParts DEF Selected
<1>5. Sending'
  BY <1>0, <1>1 DEF Sending
<1> QED  BY <1>3, <1>4, <1>5

LEMMA MarkKeeps == ASSUME TypeOK, Rest, MarkChoice PROVE Rest'
<1> USE DEF Rest, Kinds
<1>0. /\ UNCHANGED <<option, decided, excused, typed, pressed, boxed, inflight, view, rows>>
      /\ pc = "mark" /\ pc' = "deliver" /\ cur \in Reviews /\ event["choice"][cur] = "SENT"
  BY DEF MarkChoice, Sending, ghosts
<1>1. \A k \in Kinds, r \in Reviews :
         event'[k][r] = IF k = "choice" /\ r = cur THEN "DELIVERED" ELSE event[k][r]
  <2>1. event' = SetStatus("choice", cur, "DELIVERED") /\ "DELIVERED" \in Status
    BY DEF MarkChoice, Status
  <2> QED  BY <1>0, <2>1, TableTyped, OneRow
<1>2. Requests' /\ Offers' /\ Acted'
  BY <1>0, <1>1 DEF Requests, Offers, Acted
<1>3. Selected'
  BY <1>0, <1>1, RowParts DEF Selected, Deliverable
<1>4. Sending'
  BY <1>0 DEF Sending
<1> QED  BY <1>2, <1>3, <1>4

LEMMA PressFailsKeeps == ASSUME TypeOK, Rest, PressFails PROVE Rest'
<1> USE DEF Rest, Kinds
<1>0. /\ UNCHANGED <<option, decided, excused, typed, boxed, inflight, view, rows>>
      /\ pc = "keys" /\ pc' = "deliver"
      /\ cur \in Reviews /\ event["choice"][cur] = "SENT" /\ pressed[cur] = 0
  BY DEF PressFails, Sending
<1>1. \A r \in Reviews : /\ r # cur => pressed'[r] = pressed[r]
                         /\ pressed'[cur] =< 1
  <2>1. pressed' = pressed \/ pressed' = [pressed EXCEPT ![cur] = @ + 1]
    BY DEF PressFails, Press
  <2> QED  BY <1>0, <2>1 DEF TypeOK
<1>2. \A k \in Kinds \ {"uncertain"}, r \in Reviews : event'[k][r] = event[k][r]
  <2>1. /\ event' = [Create("uncertain", cur) EXCEPT !["choice"][cur] = "SENT"]
        /\ Create("uncertain", cur) \in Table
        /\ \A k \in Kinds \ {"uncertain"}, r \in Reviews :
              Create("uncertain", cur)[k][r] = event[k][r]
    BY <1>0, TableTyped, Inserted DEF PressFails, Uncertain
  <2> QED  BY <1>0, <2>1 DEF Table
<1>3. Requests' /\ Offers' /\ Acted'
  BY <1>0, <1>1, <1>2 DEF Requests, Offers, Acted
<1>4. Selected'
  BY <1>0, <1>1, <1>2, RowParts DEF Selected, Deliverable
<1>5. Sending'
  BY <1>0 DEF Sending
<1> QED  BY <1>3, <1>4, <1>5

\* An answer of the resolver ends the request and adds at most one event.
LEMMA AnswerKeeps == ASSUME TypeOK, Rest, NEW r \in Reviews, Answer(r) PROVE Rest'
<1> USE DEF Rest
<1>0. /\ UNCHANGED <<excused, typed, pressed, boxed, pc, view, rows, cur>>
      /\ r \in inflight /\ inflight' = inflight \ {r}
  BY DEF Answer, Left
<1>1. PICK kind \in Outcomes, o \in Named : DecisionEvents(kind, r, o)
  BY DEF Answer
<1>2. /\ \A k \in Kinds, q \in Reviews :
            event'[k][q] = IF q = r /\ k = "review" THEN "RESOLVED"
                           ELSE IF q = r /\ k = kind /\ event[k][q] = "NONE" THEN "PENDING"
                           ELSE event[k][q]
      /\ \A q \in Reviews :
            option'[q] = IF q = r /\ kind = "choice" /\ event["choice"][q] = "NONE"
                         THEN o ELSE option[q]
  BY <1>1, TableTyped, DecisionRows DEF TypeOK
<1>3. \A q \in Reviews : decided'[q] = IF q = r THEN decided[q] + 1 ELSE decided[q]
  BY <1>1 DEF DecisionEvents, TypeOK
<1>4. \A q \in Reviews : decided[q] \in Nat /\ excused[q] \in Nat
  BY DEF TypeOK
<1>5. Requests'
  BY <1>0, <1>2, <1>3, <1>4 DEF Requests, Kinds
<1>6. Offers'
  BY <1>2, <1>3, <1>4 DEF Offers, Kinds
<1>7. \A k \in Deliverable, q \in Reviews :
         event'[k][q] = IF q = r /\ k = kind /\ event[k][q] = "NONE" THEN "PENDING"
                        ELSE event[k][q]
  BY <1>2 DEF Deliverable, Kinds
<1>8. Acted'
  BY <1>0, <1>7 DEF Acted, Deliverable
<1>9. Selected'
  BY <1>0, <1>7, RowParts DEF Selected
<1>10. Sending'
  BY <1>0, <1>7 DEF Sending, Deliverable
<1> QED  BY <1>5, <1>6, <1>8, <1>9, <1>10

\* A failed request, a dismissed event and a shutdown leave nothing that is
\* decided or sent, and end no request.
LEMMA StatusKeeps ==
    ASSUME TypeOK, Rest, inflight' \subseteq inflight,
           UNCHANGED <<option, decided, excused, typed, pressed, boxed>>,
           \A k \in Kinds, r \in Reviews :
              \/ event'[k][r] = event[k][r]
              \/ k = "review" /\ r \in inflight /\ event'[k][r] = "HELD"
              \/ event[k][r] \in Listed /\ event'[k][r] = "DISMISSED",
           \/ UNCHANGED <<pc, view, rows, cur>>
           \/ rows' = {} /\ pc' \notin {"keys", "mark"}
    PROVE  Rest'
<1> USE DEF Rest, Kinds, Listed
<1>1. Requests'
  BY DEF Requests
<1>2. Offers'
  BY DEF Offers
<1>3. Acted'
  BY DEF Acted
<1>4. Selected'
  BY RowParts DEF Selected, Deliverable
<1>5. Sending'
  BY DEF Sending
<1> QED  BY <1>1, <1>2, <1>3, <1>4, <1>5

LEMMA FailsKeeps == ASSUME TypeOK, Rest, NEW r \in Reviews, Fails(r) PROVE Rest'
<1>1. \A k \in Kinds, q \in Reviews :
         event'[k][q] = IF k = "review" /\ q = r THEN "HELD" ELSE event[k][q]
  <2>1. event' = SetStatus("review", r, "HELD") /\ "HELD" \in Status /\ "review" \in Kinds
    BY DEF Fails, Status, Kinds
  <2> QED  BY <2>1, TableTyped, OneRow
<1> QED  BY <1>1, StatusKeeps DEF Fails, Left

LEMMA DismissKeeps ==
    ASSUME TypeOK, Rest, NEW kind \in Kinds, NEW r \in Reviews, Dismiss(kind, r) PROVE Rest'
<1>1. \A k \in Kinds, q \in Reviews :
         event'[k][q] = IF k = kind /\ q = r THEN "DISMISSED" ELSE event[k][q]
  <2>1. event' = SetStatus(kind, r, "DISMISSED") /\ "DISMISSED" \in Status
    BY DEF Dismiss, Status
  <2> QED  BY <2>1, TableTyped, OneRow
<1>2. /\ event[kind][r] \in Listed
      /\ UNCHANGED <<option, decided, excused, typed, pressed, boxed, pc, view, rows, cur, inflight>>
  BY DEF Dismiss, memory
<1> QED  BY <1>1, <1>2, StatusKeeps

LEMMA ShutdownKeeps == ASSUME TypeOK, Rest, Shutdown PROVE Rest'
<1>1. PICK killed \in SUBSET inflight :
         /\ \A k \in Kinds, r \in Reviews :
              event'[k][r] = IF k = "review" /\ r \in killed THEN "HELD" ELSE event[k][r]
         /\ inflight' = inflight \ killed
  BY ShutDown
<1>2. /\ UNCHANGED <<option, decided, excused, typed, pressed, boxed>>
      /\ rows' = {} /\ pc' = "closing"
  BY DEF Shutdown, Forget
<1> QED  BY <1>1, <1>2, StatusKeeps

\* A crash that leaves a decision without the end of its request.
LEMMA CrashAmidDecisionKeeps ==
    ASSUME TypeOK, Rest, NEW r \in Reviews, CrashAmidDecision(r) PROVE Rest'
<1> USE DEF Rest
<1>0. /\ UNCHANGED <<typed, pressed, boxed>> /\ r \in inflight
      /\ inflight' = {} /\ rows' = {} /\ pc' = "down"
      /\ decided' = [decided EXCEPT ![r] = @ + 1] /\ excused' = [excused EXCEPT ![r] = @ + 1]
  BY DEF CrashAmidDecision, Forget
<1>1. PICK kind \in Outcomes \ {"none"}, o \in Named :
         /\ event' = Create(kind, r)
         /\ option' = IF kind = "choice" /\ event["choice"][r] = "NONE"
                      THEN [option EXCEPT ![r] = o] ELSE option
  BY DEF CrashAmidDecision
<1>2. \A k \in Kinds, q \in Reviews :
         event'[k][q] = IF k = kind /\ q = r /\ event[k][q] = "NONE" THEN "PENDING"
                        ELSE event[k][q]
  <2>1. kind \in Kinds
    BY DEF Outcomes, Kinds
  <2> QED  BY <1>1, <2>1, TableTyped, Inserted
<1>3. \A q \in Reviews :
         /\ decided'[q] = IF q = r THEN decided[q] + 1 ELSE decided[q]
         /\ excused'[q] = IF q = r THEN excused[q] + 1 ELSE excused[q]
         /\ decided[q] \in Nat /\ excused[q] \in Nat
         /\ option'[q] = IF q = r /\ kind = "choice" /\ event["choice"][q] = "NONE"
                         THEN o ELSE option[q]
  BY <1>0, <1>1 DEF TypeOK
<1>4. kind # "review"
  BY DEF Outcomes
<1>5. Requests'
  BY <1>0, <1>2, <1>3, <1>4 DEF Requests, Kinds
<1>6. Offers'
  BY <1>2, <1>3 DEF Offers, Kinds
<1>7. Acted'
  BY <1>0, <1>2 DEF Acted, Kinds
<1>8. Selected' /\ Sending'
  BY <1>0 DEF Selected, Sending
<1> QED  BY <1>5, <1>6, <1>7, <1>8

\* A crash that leaves a resume with an outbox row and an unsent event.
LEMMA CrashAmidSendKeeps ==
    ASSUME TypeOK, Rest, NEW row \in rows, CrashAmidSend(row) PROVE Rest'
<1> USE DEF Rest
<1>0. /\ UNCHANGED <<event, option, decided, excused, pressed>>
      /\ inflight' = {} /\ rows' = {} /\ pc' = "down"
  BY DEF CrashAmidSend, Forget
<1>1. /\ row.kind = "resume" /\ row.of \in Reviews /\ row.of \notin boxed
      /\ event["resume"][row.of] # "NONE"
  BY RowParts DEF CrashAmidSend, Sendable, Selected
<1>2. /\ boxed' = boxed \union {row.of}
      /\ typed' = typed \/ typed' = [typed EXCEPT ![row.of] = @ + 1]
  BY <1>1, Typed DEF CrashAmidSend
<1>3. Acted'
  <2>1. typed[row.of] = 0
    BY <1>1 DEF Acted, TypeOK
  <2>2. \A r \in Reviews :
           /\ typed'[r] =< 1
           /\ typed'[r] > 0 => r \in boxed' /\ event["resume"][r] # "NONE"
    BY <1>1, <1>2, <2>1 DEF Acted, TypeOK
  <2> QED  BY <1>0, <2>2 DEF Acted
<1>4. Requests' /\ Offers' /\ Selected' /\ Sending'
  BY <1>0 DEF Requests, Offers, Selected, Sending
<1> QED  BY <1>3, <1>4

LEMMA RestPreserved == ASSUME TypeOK, Rest, [Next]_vars PROVE Rest'
<1>1. ASSUME NEW row \in rows, DeliverRow(row) PROVE Rest'
  <2>1. pc = "deliver"
    BY <1>1 DEF DeliverRow
  <2>2. CASE SkipServed(row) \/ ResumeWaits(row)
    <3>1. /\ UNCHANGED <<event, option, decided, excused, typed, pressed, boxed, inflight>>
          /\ rows' \subseteq rows /\ pc' = "deliver"
      BY <2>2 DEF SkipServed, ResumeWaits, Done, durable, ghosts
    <3> QED  BY <3>1, RestStutters
  <2> QED
    BY <1>1, <2>1, <2>2, WithdrawKeeps, ClaimKeeps, SendKeeps DEF DeliverRow
<1>2. CASE Cycle
  <2>1. CASE EndCycle
    <3>1. /\ UNCHANGED <<event, option, decided, excused, typed, pressed, boxed, inflight>>
          /\ rows' \subseteq rows /\ pc' = "idle"
      BY <2>1 DEF EndCycle, durable, ghosts
    <3> QED  BY <3>1, RestStutters
  <2> QED
    BY <1>1, <1>2, <2>1, ObserveKeeps, PressKeeps, MarkKeeps, PressFailsKeeps DEF Cycle
<1>3. CASE Stops
  <2>1. CASE Crash
    <3>1. /\ UNCHANGED <<event, option, decided, excused, typed, pressed, boxed>>
          /\ inflight' \subseteq inflight /\ rows' \subseteq rows /\ pc' = "down"
      BY <2>1 DEF Crash, Forget, durable
    <3> QED  BY <3>1, RestStutters
  <2>2. inflight \subseteq Reviews
    BY DEF TypeOK
  <2> QED
    BY <1>3, <2>1, <2>2, CrashAmidDecisionKeeps, CrashAmidSendKeeps, ShutdownKeeps DEF Stops
<1>4. CASE Close \/ Restart
  <2>1. /\ UNCHANGED <<event, option, decided, excused, typed, pressed, boxed, inflight, rows>>
        /\ pc' \notin {"keys", "mark"}
    BY <1>4 DEF Close, Restart, durable, ghosts
  <2> QED  BY <2>1, RestStutters
<1>5. CASE World \/ UNCHANGED vars \/ \E r \in Reviews : RetryDue(r)
  <2>1. UNCHANGED <<event, option, decided, excused, typed, pressed, boxed, inflight, rows, pc,
                    view, cur>>
    BY <1>5 DEF RetryDue, vars, durable, memory, ghosts, World, Settle, Stall, Quieten,
          StartProcess, EndProcess, EndTurn, Append, Person, Obscure, Clear, EvidenceComes,
          EvidenceGoes
  <2> QED  BY <2>1, RestStutters
<1> QED
  BY <1>2, <1>3, <1>4, <1>5, AnswerKeeps, FailsKeeps, DismissKeeps DEF Next

LEMMA Initially == Init => IInv
<1> SUFFICES ASSUME Init PROVE IInv
  OBVIOUS
<1>1. TypeOK
  <2>1. DurableOK
    <3>1. event \in Table
      BY DEF Init, Table, Status
    <3>2. option \in [Reviews -> {0} \union Named]
      BY BoundsAssumption DEF Init
    <3> QED  BY <3>1, <3>2 DEF Init, DurableOK
  <2>2. CycleOK
    BY BoundsAssumption DEF Init, CycleOK, View, EmptyView, Options
  <2>3. MarksOK
    BY DEF Init, MarksOK, NoSuspect
  <2>4. WorldOK
    BY BoundsAssumption DEF Init, WorldOK, Screens, Options
  <2>5. GhostsOK
    BY BoundsAssumption DEF Init, GhostsOK
  <2> QED  BY <2>1, <2>2, <2>3, <2>4, <2>5, TypeParts
<1>2. Requests /\ Offers /\ Acted
  BY DEF Init, Requests, Offers, Acted, Kinds
<1>3. Selected /\ Sending
  BY DEF Init, Selected, Sending
<1> QED  BY <1>1, <1>2, <1>3 DEF IInv

\* The invariant behind all that follows.
THEOREM Invariant == Spec => []IInv
<1>1. IInv /\ [Next]_vars => IInv'
  <2> SUFFICES ASSUME IInv, [Next]_vars PROVE IInv'
    OBVIOUS
  <2>1. TypeOK' /\ Rest'
    BY TypesPreserved, RestPreserved DEF IInv, Rest
  <2> QED  BY <2>1 DEF IInv, Rest
<1> QED  BY Initially, <1>1, PTL DEF Spec
-----------------------------------------------------------------------------
(* What follows.                                                              *)

\* Every variable keeps its type.
THEOREM TypeCorrect == Spec => []TypeOK
  BY Invariant, PTL DEF IInv

\* An episode is decided once, however often its resolver fails, it is dismissed
\* or the web process ends, except that each crash between the event of a
\* decision and the end of its request lets it be decided again.
THEOREM DecisionIsOnce == Spec => []DecidedOnce
<1>1. IInv => DecidedOnce
  <2> SUFFICES ASSUME IInv, NEW r \in Reviews PROVE decided[r] =< 1 + excused[r]
    BY DEF DecidedOnce
  <2>1. excused[r] \in Nat
    BY DEF IInv, TypeOK
  <2> QED  BY <2>1 DEF IInv, Requests
<1> QED  BY <1>1, Invariant, PTL

\* Nothing is sent twice for an episode, and a resume and a choice are both sent
\* only if such a crash let it be decided twice.
THEOREM ActionIsOnce == Spec => []ActedOnce
<1>1. IInv => ActedOnce
  <2> SUFFICES ASSUME IInv, NEW r \in Reviews
               PROVE  /\ pressed[r] =< 1 /\ typed[r] =< 1
                      /\ pressed[r] + typed[r] = 2 => excused[r] > 0
    BY DEF ActedOnce
  <2>1. /\ pressed[r] \in Nat /\ typed[r] \in Nat
        /\ decided[r] \in Nat /\ excused[r] \in Nat
    BY DEF IInv, TypeOK
  <2>2. pressed[r] =< 1 /\ typed[r] =< 1
    BY DEF IInv, Acted
  <2>3. ASSUME pressed[r] + typed[r] = 2 PROVE excused[r] > 0
    <3>1. pressed[r] > 0 /\ typed[r] > 0
      BY <2>1, <2>2, <2>3
    <3>2. event["choice"][r] # "NONE" /\ event["resume"][r] # "NONE"
      BY <3>1 DEF IInv, Acted
    <3>3. decided[r] >= 2
      BY <3>2 DEF IInv, Offers
    <3>4. decided[r] =< excused[r] + 1
      BY <2>1 DEF IInv, Requests
    <3> QED  BY <2>1, <3>3, <3>4
  <2> QED  BY <2>2, <2>3
<1> QED  BY <1>1, Invariant, PTL

\* A menu nobody touched since the cycle looked gets the option that was decided
\* for its very episode, if it has it.
THEOREM ChoiceIsTheDecision == Spec => ChosenAsDecided
<1>1. IInv /\ [Next]_vars => [PicksAsDecided]_vars
  <2> SUFFICES ASSUME IInv, [Next]_vars, NEW r \in Reviews, picked'[r] # picked[r],
                      Untouched(r[1])
               PROVE  /\ option[r] \in Options => picked'[r] = option[r]
                      /\ turn[r[1]] = r[2]
    BY DEF PicksAsDecided
  <2>0. TypeOK /\ Sending /\ Offers
    BY DEF IInv
  <2>1. (PressKeys \/ PressFails) /\ Press(cur)
    <3>1. ~UNCHANGED picked
      OBVIOUS
    <3>2. PressKeys \/ (PressFails /\ Press(cur))
      <4>1. ~UNCHANGED vars /\ ~World /\ ~Close /\ ~Restart /\ ~Stops
        BY <3>1 DEF vars, ghosts, Close, Restart, Stops, Crash, CrashAmidDecision, CrashAmidSend,
              Shutdown, World, Settle, Stall, Quieten, StartProcess, EndProcess, EndTurn, Append,
              Person, Obscure, Clear, EvidenceComes, EvidenceGoes
      <4>2. ~\E q \in Reviews : Answer(q) \/ Fails(q) \/ RetryDue(q)
        BY <3>1 DEF Answer, Fails, RetryDue, ghosts
      <4>3. ~\E kind \in Kinds, q \in Reviews : Dismiss(kind, q)
        BY <3>1 DEF Dismiss
      <4>4. ~\E row \in rows : DeliverRow(row)
        BY <3>1 DEF DeliverRow, SkipServed, Withdraw, ClaimChoice, ResumeWaits, SendResume,
              SendFails, ghosts
      <4>5. ~Observe /\ ~MarkChoice /\ ~EndCycle
        BY <3>1 DEF Observe, MarkChoice, EndCycle, ghosts
      <4>6. PressKeys \/ PressFails
        BY <4>1, <4>2, <4>3, <4>4, <4>5 DEF Next, Cycle
      <4> QED  BY <3>1, <4>6 DEF PressFails
    <3> QED  BY <3>2 DEF PressKeys
  <2>2. cur \in Reviews /\ event["choice"][cur] = "SENT" /\ view.turn[cur[1]] = cur[2]
    BY <2>0, <2>1 DEF PressKeys, PressFails, Sending
  <2>3. r = cur /\ picked'[r] = Landing(r[1], r)
    BY <2>0, <2>1, <2>2, Pressed DEF TypeOK
  <2>4. turn[r[1]] = r[2]
    BY <2>2, <2>3 DEF Untouched
  <2>5. cursor[r[1]] \in Int
    BY <2>0, <2>2, <2>3, ReviewParts DEF TypeOK, Options
  <2>6. option[r] \in Options => Landing(r[1], r) = option[r]
    BY <2>5, BoundsAssumption DEF Landing, Untouched, Options
  <2> QED  BY <2>3, <2>4, <2>6
<1> QED  BY <1>1, Invariant, PTL DEF Spec, ChosenAsDecided
-----------------------------------------------------------------------------
(* What is final, and in how many forms an episode is answered.               *)

AllForms == {"resume", "choice", "owner"}

\* The rows the deliver pass still holds are of choices nobody claimed.
Unclaimed ==
    \A row \in rows : row.kind = "choice" => event["choice"][row.of] \notin {"SENT", "DELIVERED"}

\* A new form is a new decision.
Offered(r) ==
    \/ /\ decided'[r] = decided[r]
       /\ \A k \in AllForms : event'[k][r] # "NONE" => event[k][r] # "NONE"
    \/ /\ decided'[r] = decided[r] + 1
       /\ \E kind \in Outcomes : \A k \in AllForms \ {kind} :
              event'[k][r] # "NONE" => event[k][r] # "NONE"

WordKept == Unclaimed' /\ \A r \in Reviews : KeepsItsWord(r) /\ Offered(r)

\* Steps that leave the table alone.
LEMMA WordStutters ==
    ASSUME TypeOK, Unclaimed, rows' \subseteq rows, UNCHANGED <<event, decided>>,
           UNCHANGED <<boxed, typed>>
    PROVE  WordKept
  BY DEF WordKept, Unclaimed, KeepsItsWord, Offered

LEMMA ObserveKeepsWord == ASSUME TypeOK, Observe PROVE WordKept
<1>0. UNCHANGED <<decided, typed, boxed>>
  BY DEF Observe
<1>1. /\ \A r \in Reviews, k \in AllForms : event'[k][r] = event[k][r]
      /\ \A r \in Reviews : event["review"][r] = "RESOLVED" => event'["review"][r] = "RESOLVED"
  BY Observed DEF AllForms, Kinds
<1>2. Unclaimed'
  <2>1. rows' \subseteq Rows
    BY Observed
  <2>2. \A row \in Rows : row.kind \in AllForms /\ row.of \in Reviews /\ event[row.kind][row.of] \in Listed
    BY DEF Rows, Deliverable, AllForms
  <2> QED  BY <1>1, <2>1, <2>2 DEF Unclaimed, Listed
<1> QED  BY <1>0, <1>1, <1>2 DEF WordKept, KeepsItsWord, Offered, AllForms

\* A row that was read is withdrawn, held, claimed or sent.
LEMMA RowKeepsWord ==
    ASSUME TypeOK, Rest, Unclaimed, NEW row \in rows, DeliverRow(row)
    PROVE  WordKept
<1> USE DEF Kinds, AllForms
<1>0. /\ UNCHANGED decided /\ rows' \subseteq rows
      /\ row.kind \in Deliverable /\ row.of \in Reviews
      /\ event[row.kind][row.of] # "NONE"
      /\ row.kind = "choice" => event["choice"][row.of] \notin {"SENT", "DELIVERED"}
  <2>1. UNCHANGED decided /\ rows' \subseteq rows
    BY DEF DeliverRow, SkipServed, Withdraw, ClaimChoice, ResumeWaits, SendResume, SendFails, Done,
           ghosts
  <2> QED  BY <2>1, RowParts DEF Rest, Selected, Unclaimed
<1>1. CASE SkipServed(row) \/ ResumeWaits(row)
  BY <1>0, <1>1, WordStutters DEF SkipServed, ResumeWaits, durable, ghosts
<1>2. CASE ~(SkipServed(row) \/ ResumeWaits(row))
  <2>1. \A k \in Kinds, r \in Reviews : event'[k][r] = event[k][r] \/ (k = row.kind /\ r = row.of)
    <3>1. CASE event' = Resolve(row.kind, row.of) \/ Hold(row)
      BY <3>1, RowEnds
    <3>2. CASE \E status \in Status : event' = SetStatus(row.kind, row.of, status)
      <4>1. PICK status \in Status : event' = SetStatus(row.kind, row.of, status)
        BY <3>2
      <4>2. event \in Table /\ row.kind \in Kinds /\ row.of \in Reviews
        BY TableTyped, RowParts
      <4> QED  BY <4>1, <4>2, OneRow
    <3>3. \/ event' = Resolve(row.kind, row.of) \/ Hold(row)
          \/ \E status \in Status : event' = SetStatus(row.kind, row.of, status)
      BY <1>2 DEF DeliverRow, Withdraw, ClaimChoice, SendResume, SendFails, Sendable, Status
    <3> QED  BY <3>1, <3>2, <3>3
  <2>2. \/ UNCHANGED <<boxed, typed>>
        \/ /\ row.of \notin boxed /\ boxed' = boxed \union {row.of}
           /\ \A r \in Reviews : r # row.of => typed'[r] = typed[r]
    <3>1. CASE SendResume(row) \/ SendFails(row)
      <4>1. row.of \notin boxed /\ (Type(row.of) \/ NotTyped(row.of))
        BY <3>1 DEF SendResume, SendFails, Sendable
      <4> QED  BY <1>0, <4>1, Typed
    <3>2. CASE ~(SendResume(row) \/ SendFails(row))
      BY <1>2, <3>2 DEF DeliverRow, Withdraw, ClaimChoice, ghosts
    <3> QED  BY <3>1, <3>2
  <2>3. /\ row.kind = "choice" => rows' = rows \ {row}
        /\ \A x \in rows : x.kind = row.kind /\ x.of = row.of => x = row
    BY <1>2 DEF DeliverRow, Withdraw, ClaimChoice, SendResume, SendFails, Sendable, Done, Rest,
                Selected
  <2>4. Unclaimed'
    BY <1>0, <2>1, <2>3, RowParts DEF Unclaimed
  <2>5. \A r \in Reviews : KeepsItsWord(r)
    BY <1>0, <2>1, <2>2 DEF KeepsItsWord, Deliverable
  <2>6. \A r \in Reviews : Offered(r)
    BY <1>0, <2>1 DEF Offered
  <2> QED  BY <2>4, <2>5, <2>6 DEF WordKept
<1> QED  BY <1>1, <1>2

\* The choice on its way is marked or reported.
LEMMA KeysKeepWord ==
    ASSUME TypeOK, Rest, Unclaimed, PressKeys \/ MarkChoice \/ PressFails PROVE WordKept
<1> USE DEF Kinds, AllForms
<1>0. UNCHANGED <<decided, typed, boxed, rows>> /\ cur \in Reviews /\ event["choice"][cur] = "SENT"
  BY DEF PressKeys, MarkChoice, PressFails, Rest, Sending, durable, ghosts
<1>1. CASE PressKeys
  BY <1>0, <1>1, WordStutters DEF PressKeys, durable
<1>2. CASE MarkChoice
  <2>1. event' = SetStatus("choice", cur, "DELIVERED") /\ "DELIVERED" \in Status
    BY <1>2 DEF MarkChoice, Status
  <2>2. \A k \in Kinds, r \in Reviews :
           event'[k][r] = IF k = "choice" /\ r = cur THEN "DELIVERED" ELSE event[k][r]
    BY <1>0, <2>1, TableTyped, OneRow
  <2>3. Unclaimed'
    BY <1>0, <1>2, <2>2, RowParts DEF Unclaimed, MarkChoice, Rest, Selected
  <2> QED  BY <1>0, <2>2, <2>3 DEF WordKept, KeepsItsWord, Offered
<1>3. CASE PressFails
  <2>1. /\ event' = [Create("uncertain", cur) EXCEPT !["choice"][cur] = "SENT"]
        /\ Create("uncertain", cur) \in Table
        /\ \A k \in Kinds \ {"uncertain"}, r \in Reviews :
              Create("uncertain", cur)[k][r] = event[k][r]
    BY <1>0, <1>3, TableTyped, Inserted DEF PressFails, Uncertain
  <2>2. \A k \in Kinds \ {"uncertain"}, r \in Reviews : event'[k][r] = event[k][r]
    BY <1>0, <2>1 DEF Table
  <2>3. Unclaimed'
    BY <1>0, <2>2, RowParts DEF Unclaimed
  <2> QED  BY <1>0, <2>2, <2>3 DEF WordKept, KeepsItsWord, Offered
<1> QED  BY <1>1, <1>2, <1>3

\* Only a request that has not ended is with the resolver, and a decision adds
\* the event of one form.
LEMMA DecisionKeepsWord ==
    ASSUME TypeOK, Rest, Unclaimed, NEW r \in Reviews, Answer(r) \/ CrashAmidDecision(r)
    PROVE  WordKept
<1> USE DEF Kinds, AllForms
<1>0. UNCHANGED <<typed, boxed>> /\ r \in inflight /\ rows' \subseteq rows
  BY DEF Answer, CrashAmidDecision, Forget
<1>1. decided' = [decided EXCEPT ![r] = @ + 1] /\ event["review"][r] # "RESOLVED"
  BY <1>0 DEF Answer, CrashAmidDecision, DecisionEvents, Rest, Requests
<1>2. \E kind \in Outcomes : \A k \in Kinds, q \in Reviews :
         \/ event'[k][q] = event[k][q]
         \/ q = r /\ k = "review"
         \/ q = r /\ k = kind /\ event[k][q] = "NONE" /\ event'[k][q] = "PENDING"
  <2>1. CASE Answer(r)
    <3>1. PICK kind \in Outcomes, o \in Named : DecisionEvents(kind, r, o)
      BY <2>1 DEF Answer
    <3>2. \A k \in Kinds, q \in Reviews :
             event'[k][q] =
                 IF q = r /\ k = "review" THEN "RESOLVED"
                 ELSE IF q = r /\ k = kind /\ event[k][q] = "NONE" THEN "PENDING"
                 ELSE event[k][q]
      BY <3>1, TableTyped, DecisionRows DEF TypeOK
    <3> QED  BY <3>2
  <2>2. CASE CrashAmidDecision(r)
    <3>1. PICK kind \in Outcomes \ {"none"} : event' = Create(kind, r)
      BY <2>2 DEF CrashAmidDecision
    <3> QED  BY <3>1, TableTyped, Inserted DEF Outcomes
  <2> QED  BY <2>1, <2>2
<1>3. PICK kind \in Outcomes : \A k \in Kinds, q \in Reviews :
         \/ event'[k][q] = event[k][q]
         \/ q = r /\ k = "review"
         \/ q = r /\ k = kind /\ event[k][q] = "NONE" /\ event'[k][q] = "PENDING"
  BY <1>2
<1>4. Unclaimed'
  BY <1>0, <1>3, RowParts DEF Unclaimed
<1>5. \A q \in Reviews : KeepsItsWord(q)
  BY <1>0, <1>1, <1>3 DEF KeepsItsWord, TypeOK
<1>6. \A q \in Reviews : Offered(q)
  BY <1>1, <1>3 DEF Offered, TypeOK
<1> QED  BY <1>4, <1>5, <1>6 DEF WordKept

\* A failure, a dismissal or a shutdown touches only what is still open.
LEMMA StatusKeepsWord ==
    ASSUME TypeOK, Rest, Unclaimed, rows' \subseteq rows, UNCHANGED <<decided, boxed, typed>>,
           \A k \in Kinds, r \in Reviews :
              \/ event'[k][r] = event[k][r]
              \/ k = "review" /\ r \in inflight /\ event'[k][r] = "HELD"
              \/ event[k][r] \in Listed /\ event'[k][r] = "DISMISSED"
    PROVE  WordKept
<1> USE DEF Kinds, AllForms, Listed
<1>1. Unclaimed'
  BY RowParts DEF Unclaimed, Deliverable
<1>2. \A r \in Reviews : KeepsItsWord(r)
  BY DEF KeepsItsWord, Rest, Requests
<1>3. \A r \in Reviews : Offered(r)
  BY DEF Offered
<1> QED  BY <1>1, <1>2, <1>3 DEF WordKept

LEMMA StepKeepsWord == ASSUME TypeOK, Rest, Unclaimed, [Next]_vars PROVE WordKept
<1>1. CASE Cycle
  <2>1. CASE EndCycle
    BY <2>1, WordStutters DEF EndCycle, durable, ghosts
  <2> QED  BY <1>1, <2>1, ObserveKeepsWord, RowKeepsWord, KeysKeepWord DEF Cycle
<1>2. ASSUME NEW r \in Reviews, Fails(r) PROVE WordKept
  <2>1. event' = SetStatus("review", r, "HELD") /\ "HELD" \in Status /\ "review" \in Kinds
    BY <1>2 DEF Fails, Status, Kinds
  <2>2. \A k \in Kinds, q \in Reviews :
           event'[k][q] = IF k = "review" /\ q = r THEN "HELD" ELSE event[k][q]
    BY <2>1, TableTyped, OneRow
  <2> QED  BY <1>2, <2>2, StatusKeepsWord DEF Fails
<1>3. ASSUME NEW kind \in Kinds, NEW r \in Reviews, Dismiss(kind, r) PROVE WordKept
  <2>1. event' = SetStatus(kind, r, "DISMISSED") /\ "DISMISSED" \in Status
    BY <1>3 DEF Dismiss, Status
  <2>2. \A k \in Kinds, q \in Reviews :
           event'[k][q] = IF k = kind /\ q = r THEN "DISMISSED" ELSE event[k][q]
    BY <2>1, TableTyped, OneRow
  <2> QED  BY <1>3, <2>2, StatusKeepsWord DEF Dismiss, memory
<1>4. CASE Shutdown
  <2>1. PICK killed \in SUBSET inflight :
           \A k \in Kinds, r \in Reviews :
              event'[k][r] = IF k = "review" /\ r \in killed THEN "HELD" ELSE event[k][r]
    BY <1>4, ShutDown
  <2> QED  BY <1>4, <2>1, StatusKeepsWord DEF Shutdown, Forget
<1>5. ASSUME NEW row \in rows, CrashAmidSend(row) PROVE WordKept
  <2>1. row.of \notin boxed /\ row.of \in Reviews /\ (Type(row.of) \/ NotTyped(row.of))
    BY <1>5, RowParts DEF CrashAmidSend, Sendable
  <2>2. /\ boxed' = boxed \union {row.of}
        /\ \A r \in Reviews : r # row.of => typed'[r] = typed[r]
    BY <2>1, Typed
  <2>3. UNCHANGED <<event, decided>> /\ rows' = {}
    BY <1>5 DEF CrashAmidSend, Forget
  <2> QED  BY <2>1, <2>2, <2>3 DEF WordKept, Unclaimed, KeepsItsWord, Offered
<1>6. CASE Crash \/ Close \/ Restart
  BY <1>6, WordStutters DEF Crash, Close, Restart, Forget, durable, ghosts
<1>7. CASE World \/ UNCHANGED vars \/ \E r \in Reviews : RetryDue(r)
  <2>1. UNCHANGED <<event, decided, boxed, typed, rows>>
    BY <1>7 DEF RetryDue, vars, durable, memory, ghosts, World, Settle, Stall, Quieten,
          StartProcess, EndProcess, EndTurn, Append, Person, Obscure, Clear, EvidenceComes,
          EvidenceGoes
  <2> QED  BY <2>1, WordStutters
<1>8. inflight \subseteq Reviews
  BY DEF TypeOK
<1> QED
  BY <1>1, <1>2, <1>3, <1>4, <1>5, <1>6, <1>7, <1>8, DecisionKeepsWord DEF Next, Stops

\* The forms of an episode are a few.
LEMMA FormsFinite ==
    \A r : IsFiniteSet(Forms(r)) /\ Cardinality(Forms(r)) \in Nat
<1>1. IsFiniteSet({"resume"} \union {"choice"} \union {"owner"})
  BY FS_Singleton, FS_AddElement
<1>2. \A r : Forms(r) \subseteq {"resume"} \union {"choice"} \union {"owner"}
  BY DEF Forms
<1> QED  BY <1>1, <1>2, FS_Subset, FS_CardinalityType

Formed == \A r \in Reviews : Cardinality(Forms(r)) =< decided[r]

LEMMA FormedPreserved ==
    ASSUME TypeOK, TypeOK', Formed, \A r \in Reviews : Offered(r) PROVE Formed'
<1> SUFFICES ASSUME NEW r \in Reviews PROVE Cardinality(Forms(r)') =< decided'[r]
  BY DEF Formed
<1>1. /\ Cardinality(Forms(r)) =< decided[r] /\ decided[r] \in Nat /\ decided'[r] \in Nat
      /\ Cardinality(Forms(r)) \in Nat /\ IsFiniteSet(Forms(r))
  BY FormsFinite DEF Formed, TypeOK
<1>2. CASE Forms(r)' \subseteq Forms(r) /\ decided'[r] = decided[r]
  <2>1. Cardinality(Forms(r)') =< Cardinality(Forms(r)) /\ Cardinality(Forms(r)') \in Nat
    BY <1>1, <1>2, FS_Subset, FS_CardinalityType
  <2> QED  BY <1>1, <1>2, <2>1
<1>3. ASSUME NEW kind, Forms(r)' \subseteq Forms(r) \union {kind}, decided'[r] = decided[r] + 1
      PROVE  Cardinality(Forms(r)') =< decided'[r]
  <2>1. /\ IsFiniteSet(Forms(r) \union {kind})
        /\ Cardinality(Forms(r) \union {kind}) \in {Cardinality(Forms(r)), Cardinality(Forms(r)) + 1}
    BY <1>1, FS_AddElement
  <2>2. /\ Cardinality(Forms(r)') =< Cardinality(Forms(r) \union {kind})
        /\ Cardinality(Forms(r)') \in Nat
    BY <1>3, <2>1, FS_Subset, FS_CardinalityType
  <2> QED  BY <1>1, <1>3, <2>1, <2>2
<1>4. \/ Forms(r)' \subseteq Forms(r) /\ decided'[r] = decided[r]
      \/ /\ decided'[r] = decided[r] + 1
         /\ \E kind : Forms(r)' \subseteq Forms(r) \union {kind}
  <2>1. Offered(r)
    OBVIOUS
  <2> QED  BY <2>1 DEF Offered, Forms, AllForms
<1> QED  BY <1>2, <1>3, <1>4

\* With the forms and the rows, the invariant is inductive again.
LEMMA WordInvariant == Spec => [](IInv /\ Unclaimed /\ Formed)
<1>1. Init => Unclaimed /\ Formed
  <2> SUFFICES ASSUME Init PROVE Unclaimed /\ Formed
    OBVIOUS
  <2>1. \A r \in Reviews : Forms(r) = {}
    BY DEF Init, Forms, Kinds
  <2>2. \A r \in Reviews : Cardinality(Forms(r)) = 0 /\ decided[r] = 0
    BY <2>1, FS_EmptySet DEF Init
  <2>3. Formed
    BY <2>2 DEF Formed
  <2> QED  BY <2>3 DEF Init, Unclaimed
<1>2. IInv /\ IInv' /\ Unclaimed /\ Formed /\ [Next]_vars => (Unclaimed /\ Formed)'
  BY StepKeepsWord, FormedPreserved DEF IInv, Rest, WordKept
<1> QED  BY Invariant, <1>1, <1>2, PTL DEF Spec

(* An episode is answered in one form, and in another one only after a crash  *)
(* between the two statements of a decision (src/continuity-supervisor.js:136).*)
THEOREM OneFormOfAnswer == Spec => []OneForm
<1>1. IInv /\ Formed => OneForm
  <2> SUFFICES ASSUME IInv, Formed, NEW r \in Reviews PROVE Cardinality(Forms(r)) =< 1 + excused[r]
    BY DEF OneForm
  <2>1. decided[r] =< 1 + excused[r] /\ decided[r] \in Nat /\ excused[r] \in Nat
    BY DEF IInv, Requests, TypeOK
  <2>2. Cardinality(Forms(r)) =< decided[r] /\ Cardinality(Forms(r)) \in Nat
    BY FormsFinite DEF Formed
  <2> QED  BY <2>1, <2>2
<1> QED  BY <1>1, WordInvariant, PTL

(* Ended requests, claimed choices and resumes with an outbox row are final   *)
(* (src/continuity-supervisor.js:151, src/automation-engine.js:1096).          *)
THEOREM NothingReplayed == Spec => NothingIsReplayed
<1>1. IInv /\ Unclaimed /\ [Next]_vars => [\A r \in Reviews : KeepsItsWord(r)]_vars
  BY StepKeepsWord DEF IInv, Rest, WordKept
<1> QED  BY <1>1, WordInvariant, PTL DEF Spec, NothingIsReplayed
-----------------------------------------------------------------------------
(* The pool of resolvers.                                                     *)

\* The stops of finitely many processes are finitely many.
LEMMA RequestsFinite == ASSUME TypeOK PROVE IsFiniteSet(Requested)
<1> DEFINE ready == {q \in live : Eligible(q) /\ Settled(q)}
           stop == [p \in ready |-> <<p, turn[p]>>]
<1>1. ready \subseteq Pids
  BY DEF TypeOK
<1>2. IsFiniteSet(ready)
  BY <1>1, PidsAssumption, FS_Subset
<1>3. Requested = {<<p, turn[p]>> : p \in ready}
  BY DEF Requested
<1> HIDE DEF ready
<1>4. stop \in Surjection(ready, Requested)
  BY <1>3 DEF Surjection
<1> QED  BY <1>2, <1>4, FS_Surjection

Pool == IsFiniteSet(inflight) /\ PoolIsBounded

\* Only the observation of a cycle starts resolvers.
LEMMA PoolShrinks ==
    ASSUME [Next]_vars, ~Observe PROVE inflight' \subseteq inflight
<1>1. CASE Cycle
  <2>1. CASE \E row \in rows : DeliverRow(row)
    BY <2>1 DEF DeliverRow, SkipServed, Withdraw, ClaimChoice, ResumeWaits, SendResume, SendFails
  <2> QED  BY <1>1, <2>1 DEF Cycle, PressKeys, MarkChoice, PressFails, EndCycle
<1>2. CASE Stops \/ Close \/ Restart
  BY <1>2 DEF Stops, Crash, CrashAmidDecision, CrashAmidSend, Shutdown, Close, Restart
<1>3. ASSUME NEW r \in Reviews, Answer(r) \/ Fails(r) PROVE inflight' \subseteq inflight
  BY <1>3 DEF Answer, Fails, Left
<1>4. CASE \/ World \/ UNCHANGED vars \/ (\E r \in Reviews : RetryDue(r))
           \/ \E kind \in Kinds, r \in Reviews : Dismiss(kind, r)
  BY <1>4 DEF RetryDue, Dismiss, vars, memory, World, Settle, Stall, Quieten, StartProcess,
        EndProcess, EndTurn, Append, Person, Obscure, Clear, EvidenceComes, EvidenceGoes
<1> QED  BY <1>1, <1>2, <1>3, <1>4 DEF Next

LEMMA PoolPreserved == ASSUME TypeOK, Pool, [Next]_vars PROVE Pool'
<1>0. Cardinality(inflight) \in Nat /\ Cardinality(inflight) =< MaxConcurrent /\ MaxConcurrent \in Nat
  BY FS_CardinalityType, BoundsAssumption DEF Pool, PoolIsBounded
<1>1. CASE Observe
  <2>1. PICK started \in SUBSET Startable :
           Cardinality(started) = Admitted /\ inflight' = inflight \union started
    BY <1>1 DEF Observe
  <2>2. IsFiniteSet(started) /\ IsFiniteSet(Startable)
    <3>1. Startable \subseteq Requested
      BY DEF Startable
    <3> QED  BY <2>1, <3>1, RequestsFinite, FS_Subset
  <2>3. Cardinality(started) \in Nat /\ Cardinality(Startable) \in Nat
    BY <2>2, FS_CardinalityType
  <2>4. Cardinality(started) =< MaxConcurrent - Cardinality(inflight)
    BY <1>0, <2>1, <2>3 DEF Admitted
  <2>5. /\ IsFiniteSet(inflight \union started)
        /\ Cardinality(inflight \union started) =
              Cardinality(inflight) + Cardinality(started) - Cardinality(inflight \cap started)
    BY <2>2, FS_Union DEF Pool
  <2>6. Cardinality(inflight \cap started) \in Nat
    BY <2>2, FS_Subset, FS_CardinalityType
  <2>7. Cardinality(inflight \union started) =< MaxConcurrent
    BY <1>0, <2>3, <2>4, <2>5, <2>6
  <2> QED  BY <2>1, <2>5, <2>7 DEF Pool, PoolIsBounded
<1>2. CASE ~Observe
  <2>1. IsFiniteSet(inflight') /\ Cardinality(inflight') =< Cardinality(inflight)
    BY <1>2, PoolShrinks, FS_Subset DEF Pool
  <2>2. Cardinality(inflight') \in Nat
    BY <2>1, FS_CardinalityType
  <2> QED  BY <1>0, <2>1, <2>2 DEF Pool, PoolIsBounded
<1> QED  BY <1>1, <1>2

(* No more resolvers run than config.continuity.maxConcurrent, through        *)
(* failures, shutdowns and restarts (src/continuity-supervisor.js:104).        *)
THEOREM PoolBounded == Spec => []PoolIsBounded
<1>1. Init => Pool
  BY FS_EmptySet, BoundsAssumption DEF Init, Pool, PoolIsBounded
<1>2. IInv /\ Pool /\ [Next]_vars => Pool'
  BY PoolPreserved DEF IInv
<1>3. Pool => PoolIsBounded
  BY DEF Pool
<1> QED  BY <1>1, <1>2, <1>3, Invariant, PTL DEF Spec
=============================================================================
