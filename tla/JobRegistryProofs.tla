------------------------- MODULE JobRegistryProofs -------------------------
(* Proofs about JobRegistry, for every set of runs and all its bounds: the    *)
(* registry is never ahead of the queue, its journal is complete but for one  *)
(* entry per crash, it implements JobLifecycle, and no job is failed for one  *)
(* scan that overlooked its run.                                              *)
EXTENDS JobRegistry, FiniteSetTheorems, SequenceTheorems, TLAPS

(* The inductive invariant.                                                   *)

\* What a scan has found was true, and the queue has only moved on since.
Past(r, s) == /\ s = "pending" => place[r] # "absent"
              /\ s = "running" => place[r] \notin {"absent", "pending"}
              /\ s \in {"done", "failed"} => place[r] = s

Reads == \A r \in Runs, s \in Range(Stages) :
             <<r, s>> \in found \union todo => Past(r, s)

\* The runs a step goes on to look at: active ones that are missing, or finished
\* ones that are to be announced.
Visits ==
    \A r \in missing :
        /\ pc = "missing" => state[r] \in Active
        /\ pc = "announce" => state[r] \in {"done", "failed"}
        /\ pc \in {"missing", "announce"}

\* Only failed jobs have been missed twice.
Missed == \A r \in Runs : state[r] \notin Terminal => misses[r] \in 0..1

\* The verdict that was announced is what the job ended as.
Announced == \A r \in Runs : announced[r] # "none" => announced[r] = state[r]

\* A state is in the journal, or is the next to be added.
Recorded ==
    crashes = 0 => \A r \in Runs :
        state[r] # "unknown" => <<r, state[r]>> \in journal \/ entry = <<r, state[r]>>

IInv == /\ TypeOK /\ Reads /\ Visits /\ Missed /\ Announced /\ NeverAhead /\ Recorded
-----------------------------------------------------------------------------
USE NoEntryAssumption, BoundsAssumption

\* The four directories.
LEMMA StageNames == Range(Stages) = {"pending", "running", "done", "failed"}
<1>1. DOMAIN Stages = 1..4 /\ Stages[1] = "pending" /\ Stages[2] = "running"
      /\ Stages[3] = "done" /\ Stages[4] = "failed" /\ Len(Stages) = 4
  BY DEF Stages
<1>. QED
  BY <1>1 DEF Range

\* The queue moves forward only.
LEMMA QueueForward ==
  ASSUME TypeOK, Queue!Next
  PROVE  /\ place' \in [Runs -> Queue!Places] /\ shown' \subseteq Runs
         /\ execs' \in [Runs -> Nat]
         /\ \A r \in Runs, s \in Range(Stages) : Past(r, s) => Past(r, s)'
<1>1. PICK r \in Runs : \/ Queue!Submit(r) \/ Queue!Start(r) \/ Queue!Execute(r)
                        \/ Queue!Publish(r)
                        \/ \E v \in Queue!Verdicts : Queue!Finish(r, v)
  BY DEF Queue!Next
<1>2. CASE Queue!Execute(r) \/ Queue!Publish(r)
  BY <1>2 DEF TypeOK, Queue!Execute, Queue!Publish, Past
<1>3. ASSUME NEW p \in Queue!Places, Queue!Enter(r, p),
             place[r] = "absent" \/ p \notin {"absent", "pending"},
             place[r] \in {"absent", "pending", "running"},
             place[r] = "absent" => p = "pending"
      PROVE  /\ place' \in [Runs -> Queue!Places] /\ shown' \subseteq Runs
             /\ execs' \in [Runs -> Nat]
             /\ \A q \in Runs, s \in Range(Stages) : Past(q, s) => Past(q, s)'
  BY <1>3, StageNames DEF TypeOK, Queue!Enter, Past, Queue!Places
<1>. QED
  BY <1>1, <1>2, <1>3
     DEF Queue!Submit, Queue!Start, Queue!Finish, Queue!Places, Queue!Verdicts

\* Every step keeps the types.
LEMMA TypesPreserved == TypeOK /\ Missed /\ Visits /\ [Next]_vars => TypeOK'
<1> SUFFICES ASSUME TypeOK, Missed, Visits, [Next]_vars PROVE TypeOK'
  OBVIOUS
<1> USE DEF poll, jobs, events, overlapping, queue
<1>1. CASE QueueStep
  <2>1. /\ transit' \subseteq Runs /\ overlaps' \in [Runs -> Nat]
    BY <1>1 DEF QueueStep, Catches, TypeOK
  <2>. QED
    BY <1>1, <2>1, QueueForward DEF QueueStep, TypeOK
<1>2. CASE BeginPoll
  <2>1. /\ transit' \subseteq Runs /\ overlaps' \in [Runs -> Nat]
    BY <1>2 DEF BeginPoll, TypeOK
  <2>. QED
    BY <1>2, <2>1 DEF BeginPoll, TypeOK
<1>3. CASE ListDirectory \/ CycleWithoutPoll \/ PollFails \/ NextDirectory
  BY <1>3 DEF ListDirectory, CycleWithoutPoll, PollFails, NextDirectory, TypeOK, Items,
              Stages
<1>4. ASSUME NEW r \in Runs, CheckSignal(r) PROVE TypeOK'
  <2>1. Stages[at] \in Range(Stages)
    BY DEF TypeOK, Stages, Range
  <2>. QED
    BY <1>4, <2>1 DEF CheckSignal, TypeOK, Items
<1>5. ASSUME NEW r \in Runs, NEW s \in Active \union Terminal, Saves(r, s)
      PROVE  /\ state' \in [Runs -> {"unknown"} \union Active \union Terminal]
             /\ ended' \in Seq(Runs)
             /\ entry' \in Entries \union {NoEntry}
  BY <1>5, AppendProperties DEF Saves, TypeOK, Entries
<1>6. ASSUME NEW r \in Runs, NEW s \in Range(Stages), SyncRegister(r, s) PROVE TypeOK'
  BY <1>5, <1>6, StageNames DEF SyncRegister, TypeOK, Active, Terminal
<1>7. ASSUME NEW r \in Runs, NEW s \in Range(Stages), SyncSeen(r, s) PROVE TypeOK'
  <2>1. QueueState(r, s) \in Active \union Terminal
    BY StageNames DEF QueueState, Active, Terminal
  <2>2. misses' \in [Runs -> 0..2]
    <3>1. misses' = [misses EXCEPT ![r] = 0] \/ misses' = misses
      BY <1>7 DEF SyncSeen
    <3>2. misses \in [Runs -> 0..2] /\ 0 \in 0..2
      BY DEF TypeOK
    <3>. QED
      BY <3>1, <3>2
  <2>. QED
    BY <1>5, <1>7, <2>1, <2>2 DEF SyncSeen, TypeOK
<1>8. CASE AddJobEvent \/ FindMissing \/ BeginIngest \/ EndIngest \/ EndCycle \/ Crash
           \/ Restart \/ UNCHANGED vars
  BY <1>8 DEF AddJobEvent, FindMissing, BeginIngest, EndIngest, EndCycle, Crash, Restart,
              TypeOK, vars
<1>9. ASSUME NEW r \in Runs, MissFirst(r) \/ MissAgain(r) PROVE TypeOK'
  <2>1. r \in missing /\ state[r] \in Active
    BY <1>9 DEF MissFirst, MissAgain, Visits
  <2>2. misses' \in [Runs -> 0..2]
    <3>1. misses' = [misses EXCEPT ![r] = misses[r] + 1]
      BY <1>9 DEF MissFirst, MissAgain
    <3>2. misses[r] \in 0..1
      BY <2>1 DEF Missed, Active, Terminal
    <3>3. misses \in [Runs -> 0..2] /\ misses[r] + 1 \in 0..2
      BY <3>2 DEF TypeOK
    <3>. QED
      BY <3>1, <3>3
  <2>. QED
    BY <1>5, <1>9, <2>2 DEF MissFirst, MissAgain, TypeOK, Terminal
<1>10. ASSUME NEW r \in Runs, NEW s \in Range(Stages), IngestItem(r, s) PROVE TypeOK'
  BY <1>10 DEF IngestItem, TypeOK
<1>11. CASE BeginAnnounce
  <2>1. LatestEnded \subseteq Runs
    BY ElementOfSeq DEF LatestEnded, TypeOK
  <2>. QED
    BY <1>11, <2>1 DEF BeginAnnounce, TypeOK
<1>12. ASSUME NEW r \in Runs, AnnounceResult(r) PROVE TypeOK'
  BY <1>12 DEF AnnounceResult, TypeOK, Visits
<1>13. ASSUME NEW r \in Runs, CancelJob(r) PROVE TypeOK'
  BY <1>5, <1>13 DEF CancelJob, TypeOK, Terminal
<1>. QED
  BY <1>1, <1>2, <1>3, <1>4, <1>6, <1>7, <1>8, <1>9, <1>10, <1>11, <1>12, <1>13
     DEF Next, Cycle
\* A saved job leaves the others as they are.
LEMMA SavedState ==
  ASSUME TypeOK, NEW r \in Runs, NEW s, Saves(r, s)
  PROVE  \A q \in Runs : state'[q] = IF q = r THEN s ELSE state[q]
  BY DEF Saves, TypeOK

\* What is known of the queue stays true, and a state comes from what is known.
LEMMA ReadsPreserved == TypeOK /\ Reads /\ [Next]_vars => Reads'
<1> SUFFICES ASSUME TypeOK, Reads, [Next]_vars PROVE Reads'
  OBVIOUS
<1> USE DEF poll, jobs, events, overlapping, queue
<1>1. CASE QueueStep
  BY <1>1, QueueForward DEF QueueStep, Reads
<1>2. ASSUME NEW r \in Runs, CheckSignal(r) PROVE Reads'
  <2>1. /\ todo' = todo /\ place' = place
        /\ found' = found \/ (found' = found \union {<<r, Stages[at]>>} /\ place[r] = Stages[at])
    BY <1>2 DEF CheckSignal, Signalled
  <2>2. place[r] = Stages[at] => Past(r, Stages[at])
    BY DEF Past, TypeOK, Stages
  <2>. QED
    BY <2>1, <2>2 DEF Reads, Past
<1>3. ASSUME place' = place, found' \union todo' \subseteq found \union todo PROVE Reads'
  BY <1>3 DEF Reads, Past
<1>4. ASSUME NEW r \in Runs, MissFirst(r) \/ MissAgain(r) \/ AnnounceResult(r)
             \/ CancelJob(r) \/ \E s \in Range(Stages) :
                                   SyncRegister(r, s) \/ SyncSeen(r, s) \/ IngestItem(r, s)
      PROVE  Reads'
  BY <1>3, <1>4 DEF MissFirst, MissAgain, AnnounceResult, CancelJob, SyncRegister, SyncSeen,
                    IngestItem
<1>5. CASE BeginPoll \/ ListDirectory \/ NextDirectory \/ CycleWithoutPoll \/ PollFails
           \/ AddJobEvent \/ FindMissing \/ BeginIngest \/ EndIngest \/ BeginAnnounce
           \/ EndCycle \/ Crash \/ Restart \/ UNCHANGED vars
  BY <1>3, <1>5 DEF BeginPoll, ListDirectory, NextDirectory, CycleWithoutPoll, PollFails,
       AddJobEvent, FindMissing, BeginIngest, EndIngest, BeginAnnounce, EndCycle, Crash,
       Restart, vars
<1>. QED
  BY <1>1, <1>2, <1>4, <1>5 DEF Next, Cycle

\* No step changes the state of a job that it goes on to look at.
LEMMA VisitsPreserved == TypeOK /\ Visits /\ [Next]_vars => Visits'
<1> SUFFICES ASSUME TypeOK, Visits, [Next]_vars PROVE Visits'
  OBVIOUS
<1> USE DEF poll, jobs, events, overlapping, queue
<1>1. CASE QueueStep
  BY <1>1 DEF QueueStep, Visits
<1>2. ASSUME missing = {}, missing' = missing PROVE Visits'
  BY <1>2 DEF Visits
<1>3. ASSUME pc \notin {"missing", "announce"} PROVE missing = {}
  BY <1>3 DEF Visits
<1>4. CASE BeginPoll \/ ListDirectory \/ NextDirectory \/ CycleWithoutPoll \/ PollFails
           \/ BeginIngest \/ EndIngest \/ EndCycle \/ Restart
  BY <1>2, <1>3, <1>4 DEF BeginPoll, ListDirectory, NextDirectory, CycleWithoutPoll,
       PollFails, Scanning, BeginIngest, EndIngest, EndCycle, Restart
<1>5. CASE AddJobEvent \/ FindMissing \/ BeginAnnounce \/ Crash \/ UNCHANGED vars
  BY <1>5 DEF AddJobEvent, FindMissing, BeginAnnounce, Notifiable, Crash, vars, Visits
<1>6. ASSUME NEW r \in Runs, CheckSignal(r) \/ CancelJob(r) \/
               \E s \in Range(Stages) :
                   SyncRegister(r, s) \/ SyncSeen(r, s) \/ IngestItem(r, s)
      PROVE  Visits'
  BY <1>2, <1>3, <1>6 DEF CheckSignal, CancelJob, SyncRegister, SyncSeen, IngestItem
<1>7. ASSUME NEW r \in Runs, MissFirst(r) \/ AnnounceResult(r) PROVE Visits'
  BY <1>7 DEF MissFirst, AnnounceResult, Visits
<1>8. ASSUME NEW r \in Runs, MissAgain(r) PROVE Visits'
  BY <1>8, SavedState DEF MissAgain, Visits, TypeOK
<1>. QED
  BY <1>1, <1>4, <1>5, <1>6, <1>7, <1>8 DEF Next, Cycle

\* The steps that save a job, and what they save.
LEMMA Changes ==
  ASSUME TypeOK, Reads, Visits, [Next]_vars, state' # state
  PROVE  \E r \in Runs, s \in Active \union Terminal :
             /\ Saves(r, s) /\ entry = NoEntry
             /\ state[r] \notin Terminal
             /\ state[r] = "running" => s # "pending"
             /\ s \in Active \union {"done"} => Past(r, s)
             /\ UNCHANGED <<queue, journal, announced, crashes>>
             /\ state[r] = "unknown" => s # "cancelled"
<1> USE DEF poll, jobs, events, overlapping, queue
<1>1. ASSUME NEW r \in Runs, NEW s \in Range(Stages), SyncRegister(r, s) \/ SyncSeen(r, s)
      PROVE  /\ <<r, s>> \in todo /\ Past(r, s) /\ entry = NoEntry
             /\ s \in {"pending", "running", "done", "failed"}
  BY <1>1, StageNames DEF SyncRegister, SyncSeen, Turn, Reads
<1>2. ASSUME NEW r \in Runs, NEW s \in Range(Stages), SyncRegister(r, s)
      PROVE  /\ Saves(r, s) /\ state[r] = "unknown"
             /\ UNCHANGED <<queue, journal, announced, crashes>>
  BY <1>2 DEF SyncRegister
<1>3. ASSUME NEW r \in Runs, NEW s \in Range(Stages), SyncSeen(r, s)
      PROVE  /\ Saves(r, s) /\ state[r] \in Active
             /\ state[r] = "running" => s # "pending"
             /\ UNCHANGED <<queue, journal, announced, crashes>>
  BY <1>3, StageNames DEF SyncSeen, Follows, QueueState, TypeOK, Active, Terminal
<1>4. ASSUME NEW r \in Runs, MissAgain(r)
      PROVE  /\ Saves(r, "failed") /\ state[r] \in Active /\ entry = NoEntry
             /\ UNCHANGED <<queue, journal, announced, crashes>>
  BY <1>4 DEF MissAgain, Visits
<1>5. ASSUME NEW r \in Runs, CancelJob(r)
      PROVE  /\ Saves(r, "cancelled") /\ state[r] \in Active /\ entry = NoEntry
             /\ UNCHANGED <<queue, journal, announced, crashes>>
  BY <1>5 DEF CancelJob
<1>6. \E r \in Runs : MissAgain(r) \/ CancelJob(r) \/
          \E s \in Range(Stages) : SyncRegister(r, s) \/ SyncSeen(r, s)
  BY DEF Next, Cycle, QueueStep, BeginPoll, ListDirectory, NextDirectory, CycleWithoutPoll,
     PollFails, BeginIngest, EndIngest, EndCycle, Restart, AddJobEvent, FindMissing,
     BeginAnnounce, Crash, vars, CheckSignal, IngestItem, MissFirst, AnnounceResult
<1>7. PICK r \in Runs : MissAgain(r) \/ CancelJob(r) \/
          \E s \in Range(Stages) : SyncRegister(r, s) \/ SyncSeen(r, s)
  BY <1>6
<1>8. CASE MissAgain(r) \/ CancelJob(r)
  BY <1>4, <1>5, <1>8 DEF Active, Terminal
<1>9. ASSUME NEW s \in Range(Stages), SyncRegister(r, s) \/ SyncSeen(r, s)
      PROVE  /\ s \in Active \union Terminal /\ Saves(r, s) /\ entry = NoEntry
             /\ state[r] \notin Terminal
             /\ state[r] = "running" => s # "pending"
             /\ Past(r, s) /\ s # "cancelled"
             /\ UNCHANGED <<queue, journal, announced, crashes>>
  BY <1>1, <1>2, <1>3, <1>9 DEF Active, Terminal
<1>. QED
  BY <1>7, <1>8, <1>9
\* Initially neither the queue nor the registry knows a run.
LEMMA InitInvariant == Init => IInv
<1> SUFFICES ASSUME Init PROVE IInv
  OBVIOUS
<1>1. TypeOK
  BY EmptySeq DEF Init, TypeOK, Queue!Init, Queue!Places, Active, Terminal
<1>. QED
  BY <1>1 DEF Init, IInv, Reads, Visits, Missed, Announced, NeverAhead, Recorded, Queue!Init,
              Active, Terminal

\* A job that is missed twice is failed by that.
LEMMA MissedPreserved == IInv /\ [Next]_vars => Missed'
<1> SUFFICES ASSUME TypeOK, Reads, Visits, Missed, [Next]_vars PROVE Missed'
  BY DEF IInv
<1> USE DEF poll, jobs, events, overlapping, queue
<1>1. \A r \in Runs : state'[r] \notin Terminal => state[r] \notin Terminal
  <2>1. CASE state' = state
    BY <2>1
  <2>2. CASE state' # state
    BY <2>2, Changes, SavedState
  <2>. QED
    BY <2>1, <2>2
<1>2. CASE misses' = misses
  BY <1>1, <1>2 DEF Missed
<1>3. ASSUME NEW r \in Runs, MissFirst(r) PROVE Missed'
  <2>1. misses[r] + 1 \in 0..1
    <3>1. misses[r] \in 0..2 /\ misses[r] + 1 < 2
      BY <1>3 DEF MissFirst, MissLimit, TypeOK
    <3>. QED
      BY <3>1
  <2>. QED
    BY <1>1, <1>3, <2>1 DEF MissFirst, Missed, TypeOK
<1>4. ASSUME NEW r \in Runs, MissAgain(r) PROVE Missed'
  <2>1. state'[r] = "failed"
    BY <1>4, SavedState DEF MissAgain
  <2>2. \A q \in Runs : q # r => misses'[q] = misses[q]
    BY <1>4 DEF MissAgain, TypeOK
  <2>. QED
    BY <1>1, <2>1, <2>2 DEF Missed, Terminal
<1>5. ASSUME NEW r \in Runs, NEW s \in Range(Stages), SyncSeen(r, s),
             misses' = [misses EXCEPT ![r] = 0]
      PROVE  Missed'
  BY <1>1, <1>5 DEF Missed, TypeOK
<1>. QED
  BY <1>2, <1>3, <1>4, <1>5 DEF Next, Cycle, QueueStep, BeginPoll, ListDirectory,
     NextDirectory, CycleWithoutPoll, PollFails, BeginIngest, EndIngest, EndCycle, Restart,
     AddJobEvent, FindMissing, BeginAnnounce, Crash, vars, CheckSignal, IngestItem,
     AnnounceResult, SyncRegister, SyncSeen, CancelJob

\* An announcement is of the final state, which stays.
LEMMA AnnouncedPreserved == IInv /\ [Next]_vars => Announced'
<1> SUFFICES ASSUME TypeOK, Reads, Visits, Announced, [Next]_vars PROVE Announced'
  BY DEF IInv
<1>1. CASE announced' = announced
  <2>1. \A r \in Runs : state[r] \in Terminal => state'[r] = state[r]
    <3>1. CASE state' = state
      BY <3>1
    <3>2. CASE state' # state
      BY <3>2, Changes, SavedState
    <3>. QED
      BY <3>1, <3>2
  <2>2. \A r \in Runs : announced[r] # "none" => announced[r] \in Terminal
    BY DEF TypeOK, Terminal
  <2>. QED
    BY <1>1, <2>1, <2>2 DEF Announced
<1>2. ASSUME NEW r \in Runs, AnnounceResult(r) PROVE Announced'
  BY <1>2 DEF AnnounceResult, Announced, TypeOK, jobs
<1>. QED
  BY <1>1, <1>2 DEF Next, Cycle, QueueStep, BeginPoll, ListDirectory,
     NextDirectory, CycleWithoutPoll, PollFails, BeginIngest, EndIngest, EndCycle, Restart,
     AddJobEvent, FindMissing, BeginAnnounce, Crash, vars, CheckSignal, IngestItem,
     MissFirst, MissAgain, SyncRegister, SyncSeen, CancelJob, events

\* A state was found in the queue, or is a failure or a cancellation.
LEMMA NeverAheadPreserved == IInv /\ [Next]_vars => NeverAhead'
<1> SUFFICES ASSUME TypeOK, Reads, Visits, NeverAhead, [Next]_vars PROVE NeverAhead'
  BY DEF IInv
<1>1. CASE state' = state
  <2>1. CASE place' = place
    BY <1>1, <2>1 DEF NeverAhead
  <2>2. CASE QueueStep
    <3> SUFFICES ASSUME NEW r \in Runs
                 PROVE  /\ state[r] \in Active => place'[r] # "absent"
                        /\ state[r] = "running" => place'[r] # "pending"
                        /\ state[r] = "done" => place'[r] = "done"
      BY <1>1 DEF NeverAhead
    <3>1. /\ Past(r, "pending") => Past(r, "pending")'
          /\ Past(r, "running") => Past(r, "running")'
          /\ Past(r, "done") => Past(r, "done")'
      BY <2>2, QueueForward, StageNames DEF QueueStep
    <3>2. /\ place[r] # "absent" => place'[r] # "absent"
          /\ place[r] \notin {"absent", "pending"} => place'[r] \notin {"absent", "pending"}
          /\ place[r] = "done" => place'[r] = "done"
      BY <3>1 DEF Past
    <3>. QED
      BY <3>2 DEF NeverAhead, Active
  <2>. QED
    BY <2>1, <2>2 DEF Next, Cycle, BeginPoll, ListDirectory, NextDirectory,
       CycleWithoutPoll, PollFails, BeginIngest, EndIngest, EndCycle, Restart, AddJobEvent,
       FindMissing, BeginAnnounce, Crash, vars, CheckSignal, IngestItem, MissFirst,
       MissAgain, AnnounceResult, SyncRegister, SyncSeen, CancelJob, queue
<1>2. CASE state' # state
  <2>1. PICK r \in Runs, s \in Active \union Terminal :
            Saves(r, s) /\ place' = place /\ (s \in Active \union {"done"} => Past(r, s))
    BY <1>2, Changes DEF queue
  <2>2. \A q \in Runs : state'[q] = IF q = r THEN s ELSE state[q]
    BY <2>1, SavedState
  <2>. QED
    BY <2>1, <2>2 DEF NeverAhead, Past, Active, Terminal
<1>. QED
  BY <1>1, <1>2

\* The entry of a saved state is added before the next state is saved.
LEMMA RecordedPreserved == IInv /\ [Next]_vars => Recorded'
<1> SUFFICES ASSUME TypeOK, Reads, Visits, Recorded, [Next]_vars PROVE Recorded'
  BY DEF IInv
<1> USE DEF poll, jobs, events, overlapping, queue
<1>1. CASE state' # state
  <2>1. PICK r \in Runs, s \in Active \union Terminal :
            Saves(r, s) /\ entry = NoEntry /\ UNCHANGED <<journal, crashes>>
    BY <1>1, Changes
  <2>2. \A q \in Runs : state'[q] = IF q = r THEN s ELSE state[q]
    BY <2>1, SavedState
  <2>3. \A q \in Runs : state[q] # "unknown" => <<q, state[q]>> # NoEntry
    BY DEF TypeOK, Active, Terminal
  <2>. QED
    BY <2>1, <2>2, <2>3 DEF Recorded, Saves
<1>2. CASE state' = state
  <2>1. CASE AddJobEvent
    BY <1>2, <2>1 DEF AddJobEvent, Recorded
  <2>2. CASE Crash
    BY <2>2 DEF Crash, Recorded, TypeOK
  <2>3. CASE UNCHANGED <<entry, journal, crashes>>
    BY <1>2, <2>3 DEF Recorded
  <2>4. ASSUME NEW r \in Runs, NEW s \in Active \union Terminal, Saves(r, s), entry = NoEntry,
               UNCHANGED <<journal, crashes>>
        PROVE  Recorded'
    <3>1. \A q \in Runs : state[q] # "unknown" => <<q, state[q]>> # NoEntry
      BY DEF TypeOK, Active, Terminal
    <3>. QED
      BY <1>2, <2>4, <3>1 DEF Recorded
  <2>5. ASSUME NEW r \in Runs, MissAgain(r) \/ CancelJob(r) PROVE Recorded'
    BY <2>4, <2>5 DEF MissAgain, CancelJob, Terminal
  <2>6. ASSUME NEW r \in Runs, NEW s \in Range(Stages), SyncRegister(r, s) PROVE Recorded'
    BY <2>4, <2>6, StageNames DEF SyncRegister, Turn, Active, Terminal
  <2>7. ASSUME NEW r \in Runs, NEW s \in Range(Stages), SyncSeen(r, s) PROVE Recorded'
    <3>1. QueueState(r, s) \in Active \union Terminal
      BY StageNames DEF QueueState, Active, Terminal
    <3>. QED
      BY <2>3, <2>4, <2>7, <3>1 DEF SyncSeen, Turn
  <2>. QED
    BY <2>1, <2>2, <2>3, <2>5, <2>6, <2>7 DEF Next, Cycle, QueueStep, BeginPoll,
       ListDirectory, NextDirectory, CycleWithoutPoll, PollFails, BeginIngest, EndIngest,
       EndCycle, Restart, FindMissing, BeginAnnounce, vars, CheckSignal, IngestItem,
       MissFirst, AnnounceResult
<1>. QED
  BY <1>1, <1>2

\* The invariant holds in every state of every behaviour.
THEOREM Invariant == Spec => []IInv
<1>1. IInv /\ [Next]_vars => IInv'
  BY TypesPreserved, ReadsPreserved, VisitsPreserved, MissedPreserved, AnnouncedPreserved,
     NeverAheadPreserved, RecordedPreserved DEF IInv
<1>. QED
  BY <1>1, InitInvariant, PTL DEF Spec
-----------------------------------------------------------------------------
(* What follows from it.                                                      *)

\* Every variable has its type.
THEOREM TypeCorrect == Spec => []TypeOK
<1>1. IInv => TypeOK
  BY DEF IInv
<1>. QED
  BY <1>1, Invariant, PTL

\* Whatever the collector reads while the queue moves, no job is registered in a
\* state that its run has not reached.
THEOREM QueueComesFirst == Spec => []NeverAhead
<1>1. IInv => NeverAhead
  BY DEF IInv
<1>. QED
  BY <1>1, Invariant, PTL

\* Without a crash job_events tells every state that a job was saved in.
THEOREM JournalIsComplete == Spec => []JournalComplete
<1>1. IInv => JournalComplete
  BY DEF IInv, Recorded, JournalComplete, TypeOK, Active, Terminal
<1>. QED
  BY <1>1, Invariant, PTL
-----------------------------------------------------------------------------
(* The refinement of JobLifecycle.                                            *)

\* Each step is a step of the lifecycle or changes nothing of it.
LEMMA LifecycleStep == IInv /\ [Next]_vars => [Lifecycle!Next]_(Lifecycle!vars)
<1> SUFFICES ASSUME IInv, [Next]_vars, ~UNCHANGED Lifecycle!vars PROVE Lifecycle!Next
  OBVIOUS
<1> USE DEF poll, jobs, events, overlapping, queue
<1>1. CASE state' # state
  <2>1. PICK r \in Runs, s \in Active \union Terminal :
            /\ Saves(r, s) /\ announced' = announced
            /\ state[r] \notin Terminal
            /\ state[r] = "running" => s # "pending"
    BY <1>1, Changes DEF IInv
  <2>2. Lifecycle!Observe(r, s)
    BY <2>1 DEF Saves, Lifecycle!Observe, Lifecycle!MayBecome, Lifecycle!Final, Terminal
  <2>. QED
    BY <2>2 DEF Lifecycle!Next, Lifecycle!States, Active, Terminal
<1>2. CASE state' = state
  <2>1. PICK r \in Runs : AnnounceResult(r)
    BY <1>2 DEF Lifecycle!vars, Next, Cycle, QueueStep, BeginPoll, ListDirectory,
       NextDirectory, CycleWithoutPoll, PollFails, BeginIngest, EndIngest, EndCycle, Restart,
       AddJobEvent, FindMissing, BeginAnnounce, Crash, vars, CheckSignal, IngestItem,
       MissFirst, MissAgain, SyncRegister, SyncSeen, CancelJob
  <2>2. state[r] \in {"done", "failed"} /\ announced[r] \in {"none", state[r]}
    BY <2>1 DEF AnnounceResult, IInv, Visits, Announced
  <2>3. announced[r] = "none"
    BY <1>2, <2>1, <2>2 DEF AnnounceResult, IInv, TypeOK, Lifecycle!vars
  <2>. QED
    BY <1>2, <2>1, <2>2, <2>3 DEF AnnounceResult, Lifecycle!Announce, Lifecycle!Next
<1>. QED
  BY <1>1, <1>2

\* A finished job stays what it is, its result is announced at most once and as
\* what the job ended, across crashes and whatever the queue shows.
THEOREM Implements == Spec => ImplementsLifecycle
<1>1. Init => Lifecycle!Init
  BY DEF Init, Lifecycle!Init
<1>. QED
  BY <1>1, Invariant, LifecycleStep, PTL DEF Spec, ImplementsLifecycle, Lifecycle!Spec
-----------------------------------------------------------------------------
(* Two misses need two scans that met the run between two directories.  The   *)
(* scan under way counts in overlaps from the moment it meets the run, and in *)
(* misses only when it has ended.                                             *)

\* A run in pending/ that was found there, or whose job is active, has its signal.
Signals ==
    \A r \in Runs :
        /\ place[r] = "pending"
        /\ <<r, "pending">> \in found \union todo \/ state[r] \in Active
        => r \in shown

\* The scan has found the run in the i-th directory, or has it yet to come.
Covers(r, i) == \/ <<r, Stages[i]>> \in found
                \/ pc = "list" /\ at <= i
                \/ pc = "check" /\ (at < i \/ (at = i /\ r \in listed))

\* A scan overlooks only active jobs whose run it meets in transit.
Covered ==
    \A r \in Runs \ transit : state[r] \in Active =>
        /\ Scanning => /\ r \in shown
                       /\ \A i \in 1..4 : place[r] = Stages[i] => Covers(r, i)
        /\ pc = "sync" => r \in Seen

\* What is synchronised was found, and what is missing was in transit.
Overlooked == /\ pc = "sync" => todo \subseteq found
              /\ pc = "missing" => missing \subseteq transit

\* The scan under way has met the run in transit and not counted it as a miss.
Uncounted(r) == /\ r \in transit
                /\ \/ pc \in {"list", "check", "sync"}
                   \/ pc = "missing" /\ r \in missing

\* A miss is one of a scan that met the run in transit.
Counted ==
    \A r \in Runs :
        /\ r \in transit => overlaps[r] >= 1
        /\ misses[r] > 0 => overlaps[r] >= 1
        /\ misses[r] > 0 /\ Uncounted(r) => overlaps[r] >= 2

\* A failure was read in the queue, or is made of two misses.
FailedForCause ==
    \A r \in Runs : state[r] = "failed" => place[r] = "failed" \/ overlaps[r] >= 2

ScanInv == Signals /\ Covered /\ Overlooked /\ Counted /\ FailedForCause
-----------------------------------------------------------------------------
\* Where the queue leaves a run, it leaves its signal.
LEMMA QueueStays ==
  ASSUME TypeOK, Queue!Next, NEW r \in Runs, place'[r] = place[r], r \in shown,
         place[r] # "absent"
  PROVE  r \in shown'
<1>1. PICK q \in Runs : \/ Queue!Submit(q) \/ Queue!Start(q) \/ Queue!Execute(q)
                        \/ Queue!Publish(q)
                        \/ \E v \in Queue!Verdicts : Queue!Finish(q, v)
  BY DEF Queue!Next
<1>2. CASE Queue!Execute(q) \/ Queue!Publish(q)
  BY <1>2 DEF Queue!Execute, Queue!Publish
<1>3. ASSUME NEW p, Queue!Enter(q, p), place[q] # p PROVE r # q /\ r \in shown'
  BY <1>3 DEF Queue!Enter, TypeOK
<1>4. CASE Queue!Submit(q) \/ Queue!Start(q)
  BY <1>3, <1>4 DEF Queue!Submit, Queue!Start
<1>5. ASSUME NEW v \in Queue!Verdicts, Queue!Finish(q, v) PROVE r \in shown'
  BY <1>3, <1>5 DEF Queue!Finish, Queue!Verdicts
<1>. QED
  BY <1>1, <1>2, <1>4, <1>5

\* A scan that meets a run on its way counts it.
LEMMA QueueIsCaught ==
  ASSUME TypeOK, QueueStep, NEW r \in Runs
  PROVE  /\ transit \subseteq transit'
         /\ r \notin transit' /\ Scanning /\ place[r] # "absent" => place'[r] = place[r]
         /\ ~Scanning => transit' = transit /\ overlaps'[r] = overlaps[r]
         /\ r \in transit' \ transit => Scanning /\ overlaps'[r] = overlaps[r] + 1
         /\ r \in transit \/ r \notin transit' => overlaps'[r] = overlaps[r]
<1> DEFINE S == {q \in Runs \ transit : Scanning /\ place[q] # "absent" /\ place'[q] # place[q]}
<1>1. /\ transit' = transit \union S
      /\ overlaps'[r] = IF r \in S THEN overlaps[r] + 1 ELSE overlaps[r]
  BY DEF QueueStep, Catches
<1>2. S \subseteq Runs \ transit /\ (~Scanning => S = {})
  OBVIOUS
<1>3. r \in S <=> r \notin transit /\ Scanning /\ place[r] # "absent" /\ place'[r] # place[r]
  OBVIOUS
<1> HIDE DEF S
<1>. QED
  BY <1>1, <1>2, <1>3

\* No job becomes active in a scan, and every job that does was found by it.
LEMMA BecomesActive ==
  ASSUME TypeOK, Reads, Visits, [Next]_vars, NEW r \in Runs, state'[r] \in Active
  PROVE  \/ state[r] \in Active
         \/ /\ state[r] = "unknown" /\ pc = "sync" /\ pc' = "sync"
            /\ found' = found
            /\ \E s \in Range(Stages) : <<r, s>> \in todo /\ Past(r, s)
<1> USE DEF poll, jobs, events, overlapping, queue
<1>1. CASE state' = state
  BY <1>1
<1>2. ASSUME NEW q \in Runs, MissAgain(q) \/ CancelJob(q) PROVE state[r] \in Active
  BY <1>2, SavedState DEF MissAgain, CancelJob, Active
<1>3. ASSUME NEW q \in Runs, NEW s \in Range(Stages), SyncRegister(q, s)
      PROVE  \/ state[r] \in Active
             \/ /\ state[r] = "unknown" /\ pc = "sync" /\ pc' = "sync" /\ found' = found
                /\ \E t \in Range(Stages) : <<r, t>> \in todo /\ Past(r, t)
  BY <1>3, SavedState DEF SyncRegister, Turn, Reads
<1>4. ASSUME NEW q \in Runs, NEW s \in Range(Stages), SyncSeen(q, s)
      PROVE  state[r] \in Active
  <2>1. CASE state' = state
    BY <2>1
  <2>2. CASE Saves(q, QueueState(q, s)) /\ Follows(q, s) /\ QueueState(q, s) # state[q]
    <3>1. state[q] \in Active
      BY <2>2, StageNames DEF Follows, QueueState, Active
    <3>. QED
      BY <2>2, <3>1, SavedState
  <2>. QED
    BY <1>4, <2>1, <2>2 DEF SyncSeen
<1>5. CASE state' # state
  <2>1. \E q \in Runs : MissAgain(q) \/ CancelJob(q) \/
            \E s \in Range(Stages) : SyncRegister(q, s) \/ SyncSeen(q, s)
    BY <1>5 DEF Next, Cycle, QueueStep, BeginPoll, ListDirectory, NextDirectory,
       CycleWithoutPoll, PollFails, BeginIngest, EndIngest, EndCycle, Restart, AddJobEvent,
       FindMissing, BeginAnnounce, Crash, vars, CheckSignal, IngestItem, MissFirst,
       AnnounceResult
  <2>. QED
    BY <1>2, <1>3, <1>4, <2>1
<1>. QED
  BY <1>1, <1>5

\* A signal that was seen stays until the run moves on.
LEMMA SignalsPreserved == IInv /\ Signals /\ [Next]_vars => Signals'
<1> SUFFICES ASSUME TypeOK, Reads, Visits, NeverAhead, Signals, [Next]_vars,
                    NEW r \in Runs, place'[r] = "pending",
                    <<r, "pending">> \in (found \union todo)' \/ state'[r] \in Active
             PROVE  r \in shown'
  BY DEF IInv, Signals
<1> USE DEF poll, jobs, events, overlapping, queue
<1>1. CASE QueueStep
  <2>1. UNCHANGED <<found, todo, state>>
    BY <1>1 DEF QueueStep
  <2>2. place[r] # "absent"
    BY <2>1, StageNames DEF Reads, Past, NeverAhead
  <2>3. place[r] = "pending"
    <3>1. place[r] \notin {"absent", "pending"} => place'[r] \notin {"absent", "pending"}
      BY <1>1, QueueForward, StageNames DEF QueueStep, Past
    <3>. QED
      BY <2>2, <3>1
  <2>. QED
    BY <1>1, <2>1, <2>3, QueueStays DEF QueueStep, Signals
<1>2. ASSUME place' = place, shown' = shown,
             <<r, "pending">> \in (found \union todo)' => <<r, "pending">> \in found \union todo
      PROVE  r \in shown'
  <2>1. CASE <<r, "pending">> \in found \union todo
    BY <1>2, <2>1 DEF Signals
  <2>2. CASE state'[r] \in Active
    <3>1. CASE state[r] \in Active
      BY <1>2, <3>1 DEF Signals
    <3>2. ASSUME NEW t \in Range(Stages), <<r, t>> \in todo, Past(r, t) PROVE r \in shown'
      <4>1. t = "pending"
        BY <1>2, <3>2, StageNames DEF Past
      <4>. QED
        BY <1>2, <3>2, <4>1 DEF Signals
    <3>. QED
      BY <2>2, <3>1, <3>2, BecomesActive
  <2>. QED
    BY <1>2, <2>1, <2>2
<1>3. ASSUME NEW q \in Runs, CheckSignal(q) PROVE r \in shown'
  <2>1. /\ UNCHANGED <<place, shown, todo>>
        /\ found' = found \/ (found' = found \union {<<q, Stages[at]>>} /\ q \in shown)
    BY <1>3 DEF CheckSignal, Signalled
  <2>. QED
    BY <1>2, <2>1
<1>4. ASSUME place' = place, shown' = shown,
             (found \union todo)' \subseteq found \union todo
      PROVE  r \in shown'
  BY <1>2, <1>4
<1>5. ASSUME NEW q \in Runs, MissFirst(q) \/ MissAgain(q) \/ AnnounceResult(q)
             \/ CancelJob(q) \/ \E s \in Range(Stages) :
                                   SyncRegister(q, s) \/ SyncSeen(q, s) \/ IngestItem(q, s)
      PROVE  r \in shown'
  BY <1>4, <1>5 DEF MissFirst, MissAgain, AnnounceResult, CancelJob, SyncRegister, SyncSeen,
                    IngestItem
<1>6. CASE BeginPoll \/ ListDirectory \/ NextDirectory \/ CycleWithoutPoll \/ PollFails
           \/ AddJobEvent \/ FindMissing \/ BeginIngest \/ EndIngest \/ BeginAnnounce
           \/ EndCycle \/ Crash \/ Restart \/ UNCHANGED vars
  BY <1>4, <1>6 DEF BeginPoll, ListDirectory, NextDirectory, CycleWithoutPoll, PollFails,
       AddJobEvent, FindMissing, BeginIngest, EndIngest, BeginAnnounce, EndCycle, Crash,
       Restart, vars
<1>. QED
  BY <1>1, <1>3, <1>5, <1>6 DEF Next, Cycle

\* A directory that was listed is done when each of its entries was checked.
LEMMA CoversPreserved ==
  ASSUME TypeOK, [Next]_vars, NEW r \in Runs, NEW i \in 1..4,
         place[r] = Stages[i], place'[r] = place[r], r \in shown,
         pc \in {"list", "check"}, Covers(r, i)
  PROVE  /\ pc' \in {"list", "check"} => Covers(r, i)'
         /\ pc' = "sync" => <<r, Stages[i]>> \in found'
<1> USE DEF poll, jobs, events, overlapping, queue
<1>1. CASE QueueStep \/ UNCHANGED vars
  BY <1>1 DEF QueueStep, vars, Covers
<1>2. CASE ListDirectory
  <2>1. /\ pc = "list" /\ pc' = "check" /\ UNCHANGED <<at, found>>
        /\ at = i => r \in listed'
    BY <1>2 DEF ListDirectory
  <2>2. at \in 1..4
    BY DEF TypeOK
  <2>. QED
    BY <2>1, <2>2 DEF Covers
<1>3. ASSUME NEW q \in Runs, CheckSignal(q)
      PROVE  pc' = "check" /\ Covers(r, i)'
  <2>1. /\ pc = "check" /\ pc' = "check" /\ UNCHANGED <<at, place, shown>>
        /\ listed' = listed \ {q} /\ found \subseteq found'
    BY <1>3 DEF CheckSignal
  <2>2. at = i /\ r = q => <<r, Stages[i]>> \in found'
    BY <1>3 DEF CheckSignal, Signalled
  <2>. QED
    BY <2>1, <2>2 DEF Covers
<1>4. CASE NextDirectory
  <2>1. /\ pc = "check" /\ listed = {} /\ UNCHANGED <<found, listed>>
        /\ \/ at < 4 /\ at' = at + 1 /\ pc' = "list"
           \/ ~(at < 4) /\ pc' = "sync" /\ at' = at
    BY <1>4 DEF NextDirectory, Stages
  <2>2. at \in 1..4
    BY DEF TypeOK
  <2>3. <<r, Stages[i]>> \in found \/ at < i
    BY <2>1 DEF Covers
  <2>. QED
    BY <2>1, <2>2, <2>3 DEF Covers
<1>5. CASE PollFails \/ Crash
  BY <1>5 DEF PollFails, Crash
<1>6. CASE AddJobEvent \/ \E q \in Runs : CancelJob(q)
  BY <1>6 DEF AddJobEvent, CancelJob, Covers
<1>7. CASE BeginPoll \/ CycleWithoutPoll \/ FindMissing \/ BeginIngest \/ EndIngest
           \/ BeginAnnounce \/ EndCycle \/ Restart
           \/ \E q \in Runs : MissFirst(q) \/ MissAgain(q) \/ AnnounceResult(q) \/
                 \E s \in Range(Stages) :
                     SyncRegister(q, s) \/ SyncSeen(q, s) \/ IngestItem(q, s)
  BY <1>7 DEF BeginPoll, CycleWithoutPoll, FindMissing, BeginIngest, EndIngest,
       BeginAnnounce, EndCycle, Restart, MissFirst, MissAgain, AnnounceResult,
       SyncRegister, SyncSeen, IngestItem
<1>. QED
  BY <1>1, <1>2, <1>3, <1>4, <1>5, <1>6, <1>7 DEF Next, Cycle

\* A run that a scan does not meet in transit is found by it.
LEMMA CoveredPreserved ==
  IInv /\ Signals /\ Covered /\ Overlooked /\ [Next]_vars => Covered'
<1> SUFFICES ASSUME TypeOK, Reads, Visits, NeverAhead, Signals, Covered, Overlooked,
                    [Next]_vars, NEW r \in Runs, r \notin transit', state'[r] \in Active
             PROVE  /\ Scanning' => /\ r \in shown'
                                    /\ \A i \in 1..4 : place'[r] = Stages[i] => Covers(r, i)'
                    /\ pc' = "sync" => r \in Seen'
  BY DEF IInv, Covered
<1> USE DEF poll, jobs, events, overlapping, queue
<1>1. CASE pc \in {"list", "check"} /\ pc' \in {"list", "check", "sync"}
  <2>1. state[r] \in Active /\ place[r] # "absent"
    BY <1>1, BecomesActive DEF NeverAhead
  <2>2. r \notin transit /\ place'[r] = place[r]
    <3>1. CASE QueueStep
      BY <1>1, <2>1, <3>1, QueueIsCaught DEF Scanning
    <3>2. CASE UNCHANGED <<place, transit>>
      BY <3>2
    <3>. QED
      BY <1>1, <3>1, <3>2 DEF Next, Cycle, BeginPoll, ListDirectory, NextDirectory,
         CycleWithoutPoll, PollFails, BeginIngest, EndIngest, EndCycle, Restart, AddJobEvent,
         FindMissing, BeginAnnounce, Crash, vars, CheckSignal, IngestItem, MissFirst,
         MissAgain, AnnounceResult, SyncRegister, SyncSeen, CancelJob
  <2>3. r \in shown /\ \A i \in 1..4 : place[r] = Stages[i] => Covers(r, i)
    BY <1>1, <2>1, <2>2 DEF Covered, Scanning
  <2>4. r \in shown'
    <3>1. CASE QueueStep
      BY <2>1, <2>2, <2>3, <3>1, QueueStays DEF QueueStep
    <3>2. CASE UNCHANGED shown
      BY <2>3, <3>2
    <3>. QED
      BY <3>1, <3>2 DEF Next, Cycle, BeginPoll, ListDirectory, NextDirectory,
         CycleWithoutPoll, PollFails, BeginIngest, EndIngest, EndCycle, Restart, AddJobEvent,
         FindMissing, BeginAnnounce, Crash, vars, CheckSignal, IngestItem, MissFirst,
         MissAgain, AnnounceResult, SyncRegister, SyncSeen, CancelJob
  <2>5. ASSUME NEW i \in 1..4, place[r] = Stages[i]
        PROVE  /\ pc' \in {"list", "check"} => Covers(r, i)'
               /\ pc' = "sync" => <<r, Stages[i]>> \in found'
    BY <1>1, <2>2, <2>3, <2>5, CoversPreserved
  <2>6. \E i \in 1..4 : place[r] = Stages[i]
    <3>1. place[r] \in {"pending", "running", "done", "failed"}
      BY <2>1 DEF TypeOK, Queue!Places
    <3>. QED
      BY <3>1 DEF Stages
  <2>7. pc' = "sync" => r \in Seen'
    BY <2>5, <2>6 DEF Seen
  <2>. QED
    BY <2>2, <2>4, <2>5, <2>7 DEF Scanning
<1>2. CASE BeginPoll
  <2>1. /\ pc' = "list" /\ at' = 1 /\ UNCHANGED <<place, shown, state>>
        /\ r \in shown \/ place[r] \in {"absent", "pending"}
    BY <1>2 DEF BeginPoll
  <2>2. r \in shown
    BY <2>1 DEF NeverAhead, Signals
  <2>3. \A i \in 1..4 : Covers(r, i)'
    BY <2>1 DEF Covers
  <2>. QED
    BY <2>1, <2>2, <2>3
<1>3. CASE pc = "sync" /\ pc' = "sync" /\ found' = found /\ transit' = transit
  <2>1. CASE state[r] \in Active
    BY <1>3, <2>1 DEF Covered, Seen, Scanning
  <2>2. CASE \E s \in Range(Stages) : <<r, s>> \in todo
    BY <1>3, <2>2 DEF Overlooked, Seen, Scanning
  <2>. QED
    BY <1>3, <2>1, <2>2, BecomesActive DEF Scanning
<1>4. CASE QueueStep \/ UNCHANGED vars
  <2>1. pc' = pc /\ found' = found
    BY <1>4 DEF QueueStep, vars
  <2>2. pc = "sync" => transit' = transit
    BY <1>4, QueueIsCaught DEF Scanning, vars
  <2>. QED
    BY <1>1, <1>3, <2>1, <2>2 DEF Scanning
<1>5. CASE ListDirectory \/ NextDirectory \/ PollFails \/ \E q \in Runs : CheckSignal(q)
  BY <1>1, <1>5 DEF ListDirectory, NextDirectory, PollFails, CheckSignal, Scanning
<1>6. CASE CycleWithoutPoll \/ FindMissing \/ BeginIngest \/ EndIngest \/ BeginAnnounce
           \/ EndCycle \/ Crash \/ Restart
           \/ \E q \in Runs : MissFirst(q) \/ MissAgain(q) \/ AnnounceResult(q) \/
                 \E s \in Range(Stages) : IngestItem(q, s)
  BY <1>6 DEF CycleWithoutPoll, FindMissing, BeginIngest, EndIngest, BeginAnnounce,
       EndCycle, Crash, Restart, MissFirst, MissAgain, AnnounceResult, IngestItem, Scanning
<1>7. CASE AddJobEvent \/ \E q \in Runs : CancelJob(q)
  <2>1. pc' = pc /\ UNCHANGED <<found, transit>>
    BY <1>7 DEF AddJobEvent, CancelJob
  <2>. QED
    BY <1>1, <1>3, <2>1 DEF Scanning
<1>8. ASSUME NEW q \in Runs, NEW s \in Range(Stages), SyncRegister(q, s) \/ SyncSeen(q, s)
      PROVE  pc = "sync" /\ pc' = "sync" /\ found' = found /\ transit' = transit
  BY <1>8 DEF SyncRegister, SyncSeen
<1>. QED
  BY <1>2, <1>3, <1>4, <1>5, <1>6, <1>7, <1>8 DEF Next, Cycle

\* The jobs that a scan misses are of runs it met in transit.
LEMMA OverlookedPreserved == IInv /\ Covered /\ Overlooked /\ [Next]_vars => Overlooked'
<1> SUFFICES ASSUME TypeOK, Visits, Covered, Overlooked, [Next]_vars
             PROVE  /\ pc' = "sync" => todo' \subseteq found'
                    /\ pc' = "missing" => missing' \subseteq transit'
  BY DEF IInv, Overlooked
<1> USE DEF poll, jobs, events, overlapping, queue
<1>1. CASE QueueStep \/ UNCHANGED vars
  <2>1. UNCHANGED <<pc, todo, found, missing>>
    BY <1>1 DEF QueueStep, vars
  <2>2. pc = "missing" => transit \subseteq transit'
    BY <1>1 DEF QueueStep, Catches, vars
  <2>. QED
    BY <2>1, <2>2 DEF Overlooked
<1>2. CASE FindMissing
  <2>1. /\ pc = "sync" /\ pc' = "missing" /\ transit' = transit
        /\ missing' = {r \in Runs \ Seen : state[r] \in Active}
    BY <1>2 DEF FindMissing
  <2>. QED
    BY <2>1 DEF Covered, Scanning
<1>3. CASE NextDirectory
  BY <1>3 DEF NextDirectory
<1>4. CASE BeginPoll \/ ListDirectory \/ CycleWithoutPoll \/ PollFails \/ BeginIngest
           \/ EndIngest \/ BeginAnnounce \/ EndCycle \/ Crash \/ Restart
           \/ \E q \in Runs : CheckSignal(q) \/ CancelJob(q) \/ AnnounceResult(q) \/
                 \E s \in Range(Stages) : IngestItem(q, s)
  BY <1>4 DEF BeginPoll, ListDirectory, CycleWithoutPoll, PollFails, BeginIngest, EndIngest,
       BeginAnnounce, EndCycle, Crash, Restart, CheckSignal, CancelJob, AnnounceResult,
       IngestItem
<1>5. CASE AddJobEvent \/ \E q \in Runs : MissFirst(q) \/ MissAgain(q) \/
                 \E s \in Range(Stages) : SyncRegister(q, s) \/ SyncSeen(q, s)
  <2>1. /\ pc' = pc /\ UNCHANGED <<found, transit>>
        /\ todo' \subseteq todo /\ missing' \subseteq missing
    BY <1>5 DEF AddJobEvent, MissFirst, MissAgain, SyncRegister, SyncSeen
  <2>. QED
    BY <2>1 DEF Overlooked
<1>. QED
  BY <1>1, <1>2, <1>3, <1>4, <1>5 DEF Next, Cycle

\* A scan adds to misses only what it has added to overlaps before.
LEMMA CountedPreserved == IInv /\ Overlooked /\ Counted /\ [Next]_vars => Counted'
<1> SUFFICES ASSUME TypeOK, Overlooked, Counted, [Next]_vars, NEW r \in Runs
             PROVE  /\ r \in transit' => overlaps'[r] >= 1
                    /\ misses'[r] > 0 => overlaps'[r] >= 1
                    /\ misses'[r] > 0 /\ Uncounted(r)' => overlaps'[r] >= 2
  BY DEF IInv, Counted
<1> USE DEF poll, jobs, events, overlapping, queue
<1>1. misses[r] \in 0..2 /\ overlaps[r] \in Nat
  BY DEF TypeOK
<1>2. /\ r \in transit => overlaps[r] >= 1
      /\ misses[r] > 0 => overlaps[r] >= 1
      /\ misses[r] > 0 /\ Uncounted(r) => overlaps[r] >= 2
  BY DEF Counted
<1>3. ASSUME transit' = transit, overlaps' = overlaps, misses'[r] \in {0, misses[r]},
             Uncounted(r)' => Uncounted(r)
      PROVE  /\ r \in transit' => overlaps'[r] >= 1
             /\ misses'[r] > 0 => overlaps'[r] >= 1
             /\ misses'[r] > 0 /\ Uncounted(r)' => overlaps'[r] >= 2
  BY <1>1, <1>2, <1>3
<1>4. ASSUME misses' = misses,
             r \in transit' => overlaps'[r] = overlaps[r] + 1,
             r \notin transit' => overlaps'[r] = overlaps[r]
      PROVE  /\ r \in transit' => overlaps'[r] >= 1
             /\ misses'[r] > 0 => overlaps'[r] >= 1
             /\ misses'[r] > 0 /\ Uncounted(r)' => overlaps'[r] >= 2
  BY <1>1, <1>2, <1>4 DEF Uncounted
<1>5. CASE QueueStep
  <2>1. UNCHANGED <<pc, missing, misses>>
    BY <1>5 DEF QueueStep
  <2>2. CASE r \in transit \/ r \notin transit'
    BY <1>1, <1>2, <1>5, <2>1, <2>2, QueueIsCaught DEF Uncounted
  <2>3. CASE r \in transit' \ transit
    BY <1>4, <1>5, <2>1, <2>3, QueueIsCaught
  <2>. QED
    BY <2>2, <2>3
<1>6. CASE BeginPoll
  <2>1. /\ misses' = misses
        /\ r \in transit' => overlaps'[r] = overlaps[r] + 1
        /\ r \notin transit' => overlaps'[r] = overlaps[r]
    BY <1>6 DEF BeginPoll
  <2>. QED
    BY <1>4, <2>1
<1>7. CASE FindMissing
  <2>1. UNCHANGED <<transit, overlaps, misses>> /\ pc = "sync"
    BY <1>7 DEF FindMissing
  <2>. QED
    BY <1>3, <2>1 DEF Uncounted
<1>8. ASSUME NEW q \in Runs, MissFirst(q) \/ MissAgain(q)
      PROVE  /\ r \in transit' => overlaps'[r] >= 1
             /\ misses'[r] > 0 => overlaps'[r] >= 1
             /\ misses'[r] > 0 /\ Uncounted(r)' => overlaps'[r] >= 2
  <2>1. /\ UNCHANGED <<transit, overlaps, pc>> /\ pc = "missing" /\ q \in missing
        /\ missing' = missing \ {q} /\ misses' = [misses EXCEPT ![q] = misses[q] + 1]
    BY <1>8 DEF MissFirst, MissAgain
  <2>2. CASE q = r
    <3>1. r \in transit /\ ~Uncounted(r)'
      BY <2>1, <2>2 DEF Overlooked, Uncounted
    <3>. QED
      BY <1>2, <2>1, <3>1
  <2>3. CASE q # r
    <3>1. misses'[r] = misses[r]
      BY <2>1, <2>3 DEF TypeOK
    <3>. QED
      BY <1>3, <2>1, <3>1 DEF Uncounted
  <2>. QED
    BY <2>2, <2>3
<1>9. CASE ListDirectory \/ NextDirectory \/ PollFails \/ BeginIngest \/ Crash
           \/ CycleWithoutPoll \/ EndIngest \/ BeginAnnounce \/ EndCycle \/ Restart
           \/ AddJobEvent \/ UNCHANGED vars
           \/ \E q \in Runs : CheckSignal(q) \/ CancelJob(q) \/ AnnounceResult(q) \/
                 \E s \in Range(Stages) :
                     SyncRegister(q, s) \/ SyncSeen(q, s) \/ IngestItem(q, s)
  <2>1. UNCHANGED <<transit, overlaps>>
    BY <1>9 DEF ListDirectory, NextDirectory, PollFails, BeginIngest, Crash,
       CycleWithoutPoll, EndIngest, BeginAnnounce, EndCycle, Restart, AddJobEvent, vars,
       CheckSignal, CancelJob, AnnounceResult, SyncRegister, SyncSeen, IngestItem
  <2>2. misses'[r] \in {0, misses[r]}
    <3>1. ASSUME NEW q \in Runs, NEW s \in Range(Stages), SyncSeen(q, s)
          PROVE  misses'[r] \in {0, misses[r]}
      BY <3>1 DEF SyncSeen, TypeOK
    <3>2. CASE misses' = misses
      BY <3>2
    <3>. QED
      BY <1>9, <3>1, <3>2 DEF ListDirectory, NextDirectory, PollFails, BeginIngest, Crash,
         CycleWithoutPoll, EndIngest, BeginAnnounce, EndCycle, Restart, AddJobEvent, vars,
         CheckSignal, CancelJob, AnnounceResult, SyncRegister, IngestItem
  <2>3. \/ pc' \notin {"list", "check", "sync", "missing"}
        \/ pc \in {"list", "check"} /\ pc' # "missing"
        \/ pc' = pc /\ missing' = missing
    BY <1>9 DEF ListDirectory, NextDirectory, PollFails, BeginIngest, Crash, Scanning,
       CycleWithoutPoll, EndIngest, BeginAnnounce, EndCycle, Restart, AddJobEvent, vars,
       CheckSignal, CancelJob, AnnounceResult, SyncRegister, SyncSeen, IngestItem
  <2>. QED
    BY <1>3, <2>1, <2>2, <2>3 DEF Uncounted
<1>. QED
  BY <1>5, <1>6, <1>7, <1>8, <1>9 DEF Next, Cycle

\* The second miss is of a scan that met the run as the first one did.
LEMMA FailedForCausePreserved ==
  IInv /\ Overlooked /\ Counted /\ FailedForCause /\ [Next]_vars => FailedForCause'
<1> SUFFICES ASSUME TypeOK, Reads, Visits, Missed, Overlooked, Counted, FailedForCause,
                    [Next]_vars, NEW r \in Runs, state'[r] = "failed"
             PROVE  place'[r] = "failed" \/ overlaps'[r] >= 2
  BY DEF IInv, FailedForCause
<1> USE DEF poll, jobs, events, overlapping, queue
<1>1. overlaps[r] \in Nat /\ misses[r] \in 0..2
  BY DEF TypeOK
<1>2. CASE QueueStep
  <2>1. state[r] = "failed"
    BY <1>2 DEF QueueStep
  <2>2. place[r] = "failed" => place'[r] = "failed"
    BY <1>2, QueueForward, StageNames DEF QueueStep, Past
  <2>3. overlaps'[r] \in {overlaps[r], overlaps[r] + 1}
    BY <1>2, QueueIsCaught
  <2>. QED
    BY <1>1, <2>1, <2>2, <2>3 DEF FailedForCause
<1>3. CASE BeginPoll
  <2>1. state' = state /\ place' = place /\ overlaps'[r] \in {overlaps[r], overlaps[r] + 1}
    BY <1>3 DEF BeginPoll, TypeOK
  <2>. QED
    BY <1>1, <2>1 DEF FailedForCause
<1>4. CASE state'[r] = state[r] /\ UNCHANGED <<place, overlaps>>
  BY <1>4 DEF FailedForCause
<1>5. ASSUME NEW q \in Runs, NEW s \in Range(Stages), SyncRegister(q, s) \/ SyncSeen(q, s)
      PROVE  place'[r] = "failed" \/ overlaps'[r] >= 2
  <2>1. UNCHANGED <<place, overlaps>> /\ Past(q, s)
    BY <1>5 DEF SyncRegister, SyncSeen, Turn, Reads
  <2>2. CASE state'[r] # state[r]
    <3>1. q = r /\ s = "failed"
      BY <1>5, <2>2, SavedState DEF SyncRegister, SyncSeen, QueueState
    <3>. QED
      BY <2>1, <3>1 DEF Past
  <2>. QED
    BY <1>4, <2>1, <2>2
<1>6. ASSUME NEW q \in Runs, MissAgain(q)
      PROVE  place'[r] = "failed" \/ overlaps'[r] >= 2
  <2>1. UNCHANGED <<place, overlaps>> /\ pc = "missing" /\ q \in missing
        /\ Saves(q, "failed") /\ misses[q] + 1 >= 2
    BY <1>6 DEF MissAgain, MissLimit
  <2>2. CASE q = r
    <3>1. Uncounted(r)
      BY <2>1, <2>2 DEF Overlooked, Uncounted
    <3>. QED
      BY <1>1, <2>1, <2>2, <3>1 DEF Counted
  <2>3. CASE q # r
    BY <1>4, <2>1, <2>3, SavedState
  <2>. QED
    BY <2>2, <2>3
<1>7. ASSUME NEW q \in Runs, CancelJob(q)
      PROVE  place'[r] = "failed" \/ overlaps'[r] >= 2
  BY <1>4, <1>7, SavedState DEF CancelJob
<1>8. CASE ListDirectory \/ NextDirectory \/ PollFails \/ BeginIngest \/ Crash
           \/ CycleWithoutPoll \/ EndIngest \/ BeginAnnounce \/ EndCycle \/ Restart
           \/ AddJobEvent \/ FindMissing \/ UNCHANGED vars
           \/ \E q \in Runs : CheckSignal(q) \/ MissFirst(q) \/ AnnounceResult(q) \/
                 \E s \in Range(Stages) : IngestItem(q, s)
  BY <1>4, <1>8 DEF ListDirectory, NextDirectory, PollFails, BeginIngest, Crash,
     CycleWithoutPoll, EndIngest, BeginAnnounce, EndCycle, Restart, AddJobEvent, FindMissing,
     vars, CheckSignal, MissFirst, AnnounceResult, IngestItem
<1>. QED
  BY <1>2, <1>3, <1>5, <1>6, <1>7, <1>8 DEF Next, Cycle

\* What is known of every scan, with what is known of the registry.
THEOREM ScanInvariant == Spec => [](IInv /\ ScanInv)
<1>1. Init => ScanInv
  <2>1. Init => /\ place = [r \in Runs |-> "absent"] /\ state = [r \in Runs |-> "unknown"]
                /\ misses = [r \in Runs |-> 0] /\ transit = {} /\ pc = "idle"
    BY DEF Init, Queue!Init
  <2>. QED
    BY <2>1 DEF ScanInv, Signals, Covered, Overlooked, Counted, FailedForCause, Scanning,
                Active
<1>2. IInv /\ ScanInv /\ [Next]_vars => ScanInv'
  BY SignalsPreserved, CoveredPreserved, OverlookedPreserved, CountedPreserved,
     FailedForCausePreserved DEF ScanInv
<1>. QED
  BY <1>1, <1>2, Invariant, PTL DEF Spec

\* A job is failed for missing from the queue only if two scans met its run
\* between two directories; no crash, outage or order of the steps makes up one.
THEOREM OneMissForgiven == Spec => []OneMissIsForgiven
<1>1. IInv /\ ScanInv => OneMissIsForgiven
  BY DEF IInv, TypeOK, ScanInv, FailedForCause, OneMissIsForgiven
<1>. QED
  BY <1>1, ScanInvariant, PTL
-----------------------------------------------------------------------------
(* What a crash costs the journal.                                            *)

\* A step leaves the journal behind only where a crash loses the entry to add.
LEMMA UntoldStep ==
  ASSUME IInv, [Next]_vars
  PROVE  \/ Untold' \subseteq Untold /\ crashes' \in {crashes, crashes + 1}
         \/ \E r \in Runs : Untold' \subseteq Untold \union {r} /\ crashes' = crashes + 1
<1> USE DEF poll, jobs, events, overlapping, queue
<1>1. TypeOK /\ Reads /\ Visits
  BY DEF IInv
<1>2. CASE state' # state
  <2>1. PICK r \in Runs, s \in Active \union Terminal :
            Saves(r, s) /\ entry = NoEntry /\ UNCHANGED <<journal, crashes>>
    BY <1>1, <1>2, Changes
  <2>2. \A q \in Runs : state'[q] = IF q = r THEN s ELSE state[q]
    BY <1>1, <2>1, SavedState
  <2>3. \A q \in Runs : state[q] # "unknown" => <<q, state[q]>> # NoEntry
    BY <1>1 DEF TypeOK, Active, Terminal
  <2>. QED
    BY <2>1, <2>2, <2>3 DEF Untold, Saves
<1>3. CASE Crash
  <2>1. UNCHANGED <<state, journal>> /\ crashes' = crashes + 1 /\ entry' = NoEntry
    BY <1>3 DEF Crash
  <2>2. CASE entry = NoEntry
    <3>1. Untold' \subseteq Untold
      BY <2>1, <2>2 DEF Untold
    <3>. QED
      BY <2>1, <3>1
  <2>3. CASE entry # NoEntry
    <3>1. PICK r \in Runs, s \in Active \union Terminal : entry = <<r, s>>
      BY <1>1, <2>3 DEF TypeOK, Entries
    <3>2. Untold' \subseteq Untold \union {r}
      BY <2>1, <3>1 DEF Untold
    <3>. QED
      BY <2>1, <3>2
  <2>. QED
    BY <2>2, <2>3
<1>4. CASE AddJobEvent
  BY <1>4 DEF AddJobEvent, Untold
<1>5. CASE state' = state /\ ~Crash /\ ~AddJobEvent
  <2>1. ASSUME NEW r \in Runs, NEW s, Saves(r, s), entry = NoEntry,
               UNCHANGED <<journal, crashes>>
        PROVE  Untold' \subseteq Untold /\ crashes' = crashes
    <3>1. \A q \in Runs : state[q] # "unknown" => <<q, state[q]>> # NoEntry
      BY <1>1 DEF TypeOK, Active, Terminal
    <3>. QED
      BY <1>5, <2>1, <3>1 DEF Untold
  <2>2. CASE UNCHANGED <<entry, journal, crashes>>
    BY <1>5, <2>2 DEF Untold
  <2>3. ASSUME NEW r \in Runs, MissAgain(r) \/ CancelJob(r)
        PROVE  Untold' \subseteq Untold /\ crashes' = crashes
    BY <2>1, <2>3 DEF MissAgain, CancelJob
  <2>4. ASSUME NEW r \in Runs, NEW s \in Range(Stages), SyncRegister(r, s)
        PROVE  Untold' \subseteq Untold /\ crashes' = crashes
    BY <2>1, <2>4 DEF SyncRegister, Turn
  <2>5. ASSUME NEW r \in Runs, NEW s \in Range(Stages), SyncSeen(r, s)
        PROVE  Untold' \subseteq Untold /\ crashes' = crashes
    <3>1. CASE Saves(r, QueueState(r, s))
      BY <2>1, <2>5, <3>1 DEF SyncSeen, Turn
    <3>2. CASE entry' = entry
      BY <1>5, <2>5, <3>2 DEF SyncSeen, Untold
    <3>. QED
      BY <2>5, <3>1, <3>2 DEF SyncSeen
  <2>. QED
    BY <1>5, <2>2, <2>3, <2>4, <2>5 DEF Next, Cycle, QueueStep, BeginPoll,
       ListDirectory, NextDirectory, CycleWithoutPoll, PollFails, BeginIngest, EndIngest,
       EndCycle, Restart, FindMissing, BeginAnnounce, vars, CheckSignal, IngestItem,
       MissFirst, AnnounceResult
<1>. QED
  BY <1>2, <1>3, <1>4, <1>5

\* Of the states that jobs are in, job_events misses at most one per crash.
THEOREM JournalLosesOnePerCrash == Spec => []OneEntryPerCrash
<1>1. Init => OneEntryPerCrash
  <2> SUFFICES ASSUME Init PROVE OneEntryPerCrash
    OBVIOUS
  <2>1. Untold = {} /\ crashes = 0
    BY DEF Init, Untold
  <2>. QED
    BY <2>1, FS_EmptySet DEF OneEntryPerCrash
<1>2. IInv /\ OneEntryPerCrash /\ [Next]_vars => OneEntryPerCrash'
  <2> SUFFICES ASSUME IInv, OneEntryPerCrash, [Next]_vars PROVE OneEntryPerCrash'
    OBVIOUS
  <2>1. IsFiniteSet(Untold) /\ Cardinality(Untold) \in Nat /\ crashes \in Nat
    BY FS_CardinalityType DEF OneEntryPerCrash, IInv, TypeOK
  <2>2. CASE Untold' \subseteq Untold /\ crashes' \in {crashes, crashes + 1}
    <3>1. IsFiniteSet(Untold') /\ Cardinality(Untold') <= Cardinality(Untold)
      BY <2>1, <2>2, FS_Subset
    <3>2. Cardinality(Untold') \in Nat
      BY <3>1, FS_CardinalityType
    <3>. QED
      BY <2>1, <2>2, <3>1, <3>2 DEF OneEntryPerCrash
  <2>3. ASSUME NEW r \in Runs, Untold' \subseteq Untold \union {r}, crashes' = crashes + 1
        PROVE  OneEntryPerCrash'
    <3>1. /\ IsFiniteSet(Untold \union {r})
          /\ Cardinality(Untold \union {r}) \in {Cardinality(Untold), Cardinality(Untold) + 1}
      BY <2>1, FS_AddElement
    <3>2. IsFiniteSet(Untold') /\ Cardinality(Untold') <= Cardinality(Untold \union {r})
      BY <2>3, <3>1, FS_Subset
    <3>3. Cardinality(Untold') \in Nat
      BY <3>2, FS_CardinalityType
    <3>. QED
      BY <2>1, <2>3, <3>1, <3>2, <3>3 DEF OneEntryPerCrash
  <2>. QED
    BY <2>2, <2>3, UntoldStep
<1>. QED
  BY <1>1, <1>2, Invariant, PTL DEF Spec
-----------------------------------------------------------------------------
(* With the queue's own promise.                                              *)

\* What QueueLifecycle promises of a command.
Executed == \A r \in Runs : /\ execs[r] \in {0, 1}
                            /\ place[r] \in {"absent", "pending"} => execs[r] = 0
                            /\ place[r] = "done" => execs[r] = 1

\* Every step of the queue keeps the promise.
LEMMA QueueExecutes == TypeOK /\ Executed /\ Queue!Next => Executed'
<1> SUFFICES ASSUME TypeOK, Executed, Queue!Next PROVE Executed'
  OBVIOUS
<1>1. PICK r \in Runs : \/ Queue!Submit(r) \/ Queue!Start(r) \/ Queue!Execute(r)
                        \/ Queue!Publish(r)
                        \/ \E v \in Queue!Verdicts : Queue!Finish(r, v)
  BY DEF Queue!Next
<1>2. CASE Queue!Submit(r) \/ Queue!Start(r)
  BY <1>2 DEF Queue!Submit, Queue!Start, Queue!Enter, TypeOK, Executed
<1>3. CASE Queue!Execute(r) \/ Queue!Publish(r)
  BY <1>3 DEF Queue!Execute, Queue!Publish, TypeOK, Executed
<1>4. ASSUME NEW v \in Queue!Verdicts, Queue!Finish(r, v) PROVE Executed'
  BY <1>4 DEF Queue!Finish, Queue!Verdicts, Queue!Enter, TypeOK, Executed
<1>. QED
  BY <1>1, <1>2, <1>3, <1>4

\* The verdict "done" that the registry keeps and announces is one of a command
\* that was executed exactly once, whatever a scan read and wherever it crashed.
THEOREM DoneIsExecuted == Spec => []DoneWasExecuted
<1>1. Init => Executed
  BY DEF Init, Queue!Init, Executed
<1>2. IInv /\ Executed /\ [Next]_vars => Executed'
  <2> SUFFICES ASSUME IInv, Executed, [Next]_vars PROVE Executed'
    OBVIOUS
  <2>1. Queue!Next \/ UNCHANGED queue
    BY DEF Next, Cycle, QueueStep, BeginPoll, ListDirectory, NextDirectory,
       CycleWithoutPoll, PollFails, BeginIngest, EndIngest, EndCycle, Restart, AddJobEvent,
       FindMissing, BeginAnnounce, Crash, vars, CheckSignal, IngestItem, MissFirst,
       MissAgain, AnnounceResult, SyncRegister, SyncSeen, CancelJob
  <2>2. CASE UNCHANGED queue
    BY <2>2 DEF queue, Executed
  <2>. QED
    BY <2>1, <2>2, QueueExecutes DEF IInv
<1>3. IInv /\ Executed => DoneWasExecuted
  BY DEF IInv, Announced, NeverAhead, Executed, DoneWasExecuted
<1>. QED
  BY <1>1, <1>2, <1>3, Invariant, PTL DEF Spec
=============================================================================
