--------------------------- MODULE JobQueueProofs ---------------------------
(***************************************************************************)
(* What holds of JobQueue for every set of jobs, lanes, limits, specs,     *)
(* stoppers and resetters, with and without failing statements.            *)
(***************************************************************************)
EXTENDS JobQueue, FiniteSetTheorems, TLAPS

\* A pass holds, in one lane, rows and picks that nobody runs and that are in
\* the table; and a process that has not recovered runs nothing.
PassInv ==
  /\ proc \in {"down", "serving"} => NothingRuns /\ MuFree
  /\ \A j \in sched.rows \cup sched.next :
       Lane(j) = sched.lane /\ run[j] = "none" /\ row[j] \notin {"running", "none"}
  /\ sched.lane = NoLane => sched.rows = {} /\ sched.next = {}

QueueInv == TypeOK /\ PassInv /\ RowsMatchRuns

-----------------------------------------------------------------------------
(* Facts the steps share.                                                  *)

\* Every set of jobs is finite, and has a size.
LEMMA JobSetsFinite ==
  ASSUME NEW S, S \subseteq Jobs
  PROVE  IsFiniteSet(S) /\ Cardinality(S) \in Nat
<1>1. IsFiniteSet(S)
  BY QueueConstants, FS_Subset
<1> QED
  BY <1>1, FS_CardinalityType

\* Onward keeps the type of a pass and adds no row and no pick to it.
LEMMA OnwardShape ==
  ASSUME NEW s \in SchedStates
  PROVE  /\ Onward(s) \in SchedStates
         /\ Onward(s).rows = s.rows /\ Onward(s).next = s.next
         /\ Onward(s).left = s.left
         /\ Onward(s).lane = IF s.rows = {} /\ s.next = {} THEN NoLane ELSE s.lane
BY DEF Onward, Idle, SchedStates

\* A free q.mu means no row and no pick is in hand.
LEMMA IdleShape ==
  ASSUME MuFree
  PROVE  /\ sched \in SchedStates
         /\ sched.rows = {} /\ sched.next = {} /\ sched.lane = NoLane
BY DEF MuFree, Idle, SchedStates

-----------------------------------------------------------------------------
(* Type correctness.                                                       *)

LEMMA TypeInit == Init => TypeOK
<1> SUFFICES ASSUME Init PROVE TypeOK
  OBVIOUS
<1>1. spec \in [Jobs -> Specs] /\ row \in [Jobs -> {"none", "queued", "running"}]
  BY DEF Init
<1>2. row \in [Jobs -> RowStates]
  BY <1>1 DEF RowStates
<1>3. run \in [Jobs -> RunStates]
  BY DEF Init, RunStates
<1>4. sched \in SchedStates
  BY DEF Init, SchedStates, Idle
<1>5. stopper \in [Stoppers -> [todo: SUBSET Jobs, at: Jobs \cup {NoJob}]]
  BY DEF Init
<1> QED
  BY <1>1, <1>2, <1>3, <1>4, <1>5 DEF Init, TypeOK, Handling

LEMMA TypeStep == TypeOK /\ [Next]_vars => TypeOK'
<1> SUFFICES ASSUME TypeOK, [Next]_vars PROVE TypeOK'
  OBVIOUS
<1> USE DEF TypeOK, RowStates, RunStates
<1>1. CASE UNCHANGED vars
  BY <1>1 DEF vars, flags, clients, Handling
<1>2. ASSUME NEW j \in Jobs, NEW s \in Specs, Enqueue(j, s) PROVE TypeOK'
  BY <1>2 DEF Enqueue, Wake, flags, clients, Handling
<1>3. ASSUME NEW j \in Jobs, Retry(j) PROVE TypeOK'
  BY <1>3, QueueConstants DEF Retry, Troubled, Wake, flags, clients, Handling
<1>4. ASSUME NEW j \in Jobs, NEW err \in BOOLEAN, Settle(j, err) PROVE TypeOK'
  BY <1>4 DEF Settle, Again, flags, clients, Handling
<1>5. ASSUME NEW j \in Jobs, Record(j) PROVE TypeOK'
  <2>1. Verdict(j) \in RowStates
    BY <1>5 DEF Record, Verdict
  <2> QED
    BY <1>5, <2>1 DEF Record, Wake, flags, clients, Handling
<1>6. ASSUME NEW c \in Stoppers, NEW j \in Jobs, StopLock(c, j) PROVE TypeOK'
  BY <1>6 DEF StopLock, Handling
<1>7. ASSUME NEW c \in Stoppers, StopUpdate(c) PROVE TypeOK'
  BY <1>7 DEF StopUpdate, flags, Handling
<1>8. ASSUME NEW c \in Stoppers, NEW u \in Subjects, StopSelect(c, u) PROVE TypeOK'
  BY <1>8 DEF StopSelect, flags, Handling
<1>9. ASSUME NEW r \in Resetters, Pause(r) PROVE TypeOK'
  BY <1>9 DEF Pause, Troubled, Handling
<1>10. ASSUME NEW r \in Resetters, PauseReturn(r) PROVE TypeOK'
  BY <1>10 DEF PauseReturn, flags, Handling
<1>11. ASSUME NEW r \in Resetters, Resume(r) PROVE TypeOK'
  BY <1>11 DEF Resume, Wake, flags, Handling
<1>12. CASE ScheduleBegin
  BY <1>12 DEF ScheduleBegin, SchedStates, Idle, flags, clients, Handling
<1>13. ASSUME NEW l \in Lanes, VisitLane(l) PROVE TypeOK'
  <2> DEFINE s == [left |-> sched.left \ {l}, lane |-> l,
                   rows |-> IF ~SlotFree(l) /\ Yielding(l) = {} THEN {}
                            ELSE {j \in Jobs : row[j] = "queued" /\ Lane(j) = l},
                   next |-> {}, promised |-> Promised(l)]
  <2>1. Promised(l) \in Nat
    BY JobSetsFinite DEF Promised, InLane, Handling
  <2>2. s \in SchedStates
    BY <1>13, <2>1 DEF SchedStates
  <2>3. Onward(s) \in SchedStates
    BY <2>2, OnwardShape
  <2> QED
    BY <1>13, <2>3 DEF VisitLane, flags, clients, Handling
<1>14. ASSUME NEW j \in Jobs, SkipBusy(j) PROVE TypeOK'
  <2>1. [sched EXCEPT !.rows = @ \ {j}] \in SchedStates
    BY DEF SchedStates
  <2> QED
    BY <1>14, <2>1, OnwardShape DEF SkipBusy, flags, clients, Handling
<1>15. ASSUME NEW j \in Jobs, PickRow(j) PROVE TypeOK'
  BY <1>15 DEF PickRow, SchedStates, flags, clients, Handling
<1>16. ASSUME NEW j \in Jobs, PromiseSlot(j) PROVE TypeOK'
  <2>1. [sched EXCEPT !.rows = @ \ {j}, !.promised = @ - 1] \in SchedStates
    <3>1. sched.promised - 1 \in Nat
      BY <1>16 DEF PromiseSlot, SchedStates
    <3>2. sched.rows \ {j} \in SUBSET Jobs
      BY DEF SchedStates
    <3> QED
      BY <3>1, <3>2 DEF SchedStates
  <2> QED
    BY <1>16, <2>1, OnwardShape DEF PromiseSlot, flags, clients, Handling
<1>17. ASSUME NEW j \in Jobs, GiveUp(j) PROVE TypeOK'
  <2>1. [sched EXCEPT !.rows = {}] \in SchedStates
    BY DEF SchedStates
  <2> QED
    BY <1>17, <2>1, OnwardShape DEF GiveUp, flags, clients, Handling
<1>18. ASSUME NEW j \in Jobs, NEW v \in Jobs, Interrupt(j, v) PROVE TypeOK'
  <2>1. [sched EXCEPT !.rows = @ \ {j}] \in SchedStates
    BY DEF SchedStates
  <2>2. v \in Handling
    BY <1>18 DEF Interrupt, Lowest, Yielding, InLane
  <2> QED
    BY <1>18, <2>1, <2>2, OnwardShape DEF Interrupt, clients, Handling
<1>19. ASSUME NEW j \in Jobs, StartJob(j) PROVE TypeOK'
  <2>1. [sched EXCEPT !.next = @ \ {j}] \in SchedStates
    BY DEF SchedStates
  <2> QED
    BY <1>19, <2>1, OnwardShape DEF StartJob, flags, clients, Handling
<1>20. CASE ScheduleAbort
  BY <1>20 DEF ScheduleAbort, SchedStates, Idle, flags, clients, Handling
<1>21. CASE Serve
  BY <1>21 DEF Serve, flags, clients, Handling
<1>22. CASE Recover
  <2>1. row' \in [Jobs -> RowStates]
    BY <1>22 DEF Recover, Requeued
  <2> QED
    BY <1>22, <2>1 DEF Recover, Wake, flags, clients, Handling
<1>23. CASE Shutdown
  BY <1>23 DEF Shutdown, Troubled, clients, Handling
<1>24. CASE Exit \/ Crash
  <2>1. Forget /\ trouble' \in Nat
    BY <1>24 DEF Exit, Crash, Troubled
  <2>2. sched' \in SchedStates
    BY <2>1 DEF Forget, SchedStates, Idle
  <2>3. /\ run' \in [Jobs -> RunStates]
        /\ stopper' \in [Stoppers -> [todo: SUBSET Jobs, at: Jobs \cup {NoJob}]]
        /\ reset' \in [Resetters -> {"out", "waiting", "wiping"}]
    BY <2>1 DEF Forget
  <2> QED
    BY <2>1, <2>2, <2>3 DEF Forget, Handling
<1> QED
  BY <1>1, <1>2, <1>3, <1>4, <1>5, <1>6, <1>7, <1>8, <1>9, <1>10, <1>11, <1>12,
     <1>13, <1>14, <1>15, <1>16, <1>17, <1>18, <1>19, <1>20, <1>21, <1>22, <1>23, <1>24
     DEF Next, Schedule, ConsiderRow, StopStep

\* Every variable of the queue keeps its type.
THEOREM TypeCorrect == Spec => []TypeOK
<1>1. Init => TypeOK
  BY TypeInit
<1>2. TypeOK /\ [Next]_vars => TypeOK'
  BY TypeStep
<1> QED
  BY <1>1, <1>2, PTL DEF Spec

-----------------------------------------------------------------------------
(* The table and the goroutines agree.                                     *)

\* What the steps that leave the pass, the goroutines and the process alone
\* may do to a row: anything but touch "running", or empty a row in hand.
LEMMA RowsOnly ==
  ASSUME TypeOK, PassInv, RowsMatchRuns, UNCHANGED <<spec, run, sched, proc>>,
         \A j \in Jobs : \/ row'[j] = row[j]
                         \/ row[j] # "running" /\ row'[j] \notin {"running", "none"}
  PROVE  PassInv' /\ RowsMatchRuns'
<1>1. sched.rows \cup sched.next \subseteq Jobs
  BY DEF TypeOK, SchedStates
<1>2. PassInv'
  BY <1>1 DEF PassInv, RowsMatchRuns, NothingRuns, MuFree, Lane, Kind
<1> QED
  BY <1>2 DEF RowsMatchRuns

\* What the steps of a pass do that start nothing: they drop rows in hand, and
\* pick some of them.
LEMMA PassOnly ==
  ASSUME PassInv, RowsMatchRuns, UNCHANGED <<spec, row, run, proc>>, proc = "up" \/ ~MuFree,
         sched'.rows \subseteq sched.rows,
         sched'.next \subseteq sched.rows \cup sched.next,
         IF sched'.rows = {} /\ sched'.next = {} THEN TRUE
         ELSE sched'.lane = sched.lane /\ sched.lane # NoLane
  PROVE  PassInv' /\ RowsMatchRuns'
BY DEF PassInv, RowsMatchRuns, NothingRuns, MuFree, Lane, Kind

LEMMA QueueStep == QueueInv /\ [Next]_vars => QueueInv'
<1> SUFFICES ASSUME QueueInv, [Next]_vars PROVE PassInv' /\ RowsMatchRuns'
  BY TypeStep DEF QueueInv
<1> USE DEF QueueInv
<1>1. CASE UNCHANGED vars
  BY <1>1, RowsOnly DEF vars
<1>2. ASSUME NEW j \in Jobs, NEW s \in Specs, Enqueue(j, s) PROVE PassInv' /\ RowsMatchRuns'
  <2>1. row[j] = "none" /\ run[j] = "none" /\ j \notin sched.rows \cup sched.next
    <3>1. row[j] = "none"
      BY <1>2, QueueConstants DEF Enqueue
    <3> QED
      BY <3>1 DEF PassInv, RowsMatchRuns
  <2>2. \A k \in Jobs \ {j} : spec'[k] = spec[k] /\ row'[k] = row[k]
    BY <1>2 DEF Enqueue, TypeOK
  <2>3. row'[j] = "queued"
    BY <1>2 DEF Enqueue, TypeOK
  <2>4. sched.rows \cup sched.next \subseteq Jobs
    BY DEF TypeOK, SchedStates
  <2>5. UNCHANGED <<run, sched, proc>>
    BY <1>2 DEF Enqueue
  <2>6. PassInv'
    BY <2>1, <2>2, <2>3, <2>4, <2>5 DEF PassInv, NothingRuns, MuFree, Lane, Kind
  <2>7. RowsMatchRuns'
    BY <2>1, <2>2, <2>3, <2>5 DEF RowsMatchRuns
  <2> QED
    BY <2>6, <2>7
<1>3. ASSUME NEW j \in Jobs, Retry(j) PROVE PassInv' /\ RowsMatchRuns'
  BY <1>3, RowsOnly DEF Retry, Retryable, TypeOK
<1>4. ASSUME NEW j \in Jobs, NEW err \in BOOLEAN, Settle(j, err)
      PROVE  PassInv' /\ RowsMatchRuns'
  <2>1. \A k \in Jobs : run'[k] = "none" <=> run[k] = "none"
    BY <1>4 DEF Settle, TypeOK
  <2> QED
    BY <1>4, <2>1, IdleShape DEF Settle, PassInv, RowsMatchRuns, NothingRuns, MuFree
<1>5. ASSUME NEW j \in Jobs, Record(j) PROVE PassInv' /\ RowsMatchRuns'
  <2>1. run[j] # "none" /\ row[j] = "running" /\ j \notin sched.rows \cup sched.next
    BY <1>5 DEF Record, RowsMatchRuns, PassInv
  <2>2. \A k \in Jobs \ {j} : run'[k] = run[k] /\ row'[k] = row[k]
    BY <1>5 DEF Record, TypeOK
  <2>3. run'[j] = "none"
    BY <1>5 DEF Record, TypeOK
  <2>4. sched.rows \cup sched.next \subseteq Jobs
    BY DEF TypeOK, SchedStates
  <2>5. UNCHANGED <<spec, sched, proc>>
    BY <1>5 DEF Record
  <2>6. PassInv'
    BY <2>1, <2>2, <2>3, <2>4, <2>5 DEF PassInv, NothingRuns, MuFree, Lane, Kind
  <2>7. RowsMatchRuns'
    <3>1. Verdict(j) # "running"
      BY <1>5, QueueConstants DEF Record, Verdict, TypeOK, RunStates
    <3>2. ~DbFaults => row'[j] # "running"
      BY <1>5, <3>1 DEF Record, TypeOK
    <3> QED
      BY <2>2, <2>3, <2>5, <3>2 DEF RowsMatchRuns
  <2> QED
    BY <2>6, <2>7
<1>6. ASSUME NEW c \in Stoppers, NEW j \in Jobs, StopLock(c, j)
      PROVE  PassInv' /\ RowsMatchRuns'
  BY <1>6, RowsOnly DEF StopLock
<1>7. ASSUME NEW c \in Stoppers, StopUpdate(c) PROVE PassInv' /\ RowsMatchRuns'
  BY <1>7, RowsOnly DEF StopUpdate, TypeOK
<1>8. ASSUME NEW c \in Stoppers, NEW u \in Subjects, StopSelect(c, u)
      PROVE  PassInv' /\ RowsMatchRuns'
  BY <1>8, RowsOnly DEF StopSelect
<1>9. ASSUME NEW r \in Resetters, Pause(r) \/ PauseReturn(r) \/ Resume(r)
      PROVE  PassInv' /\ RowsMatchRuns'
  BY <1>9, RowsOnly DEF Pause, PauseReturn, Resume
<1>10. CASE ScheduleBegin
  <2>1. proc = "up" /\ UNCHANGED <<spec, row, run, proc>>
    BY <1>10 DEF ScheduleBegin
  <2>2. sched'.rows = {} /\ sched'.next = {}
    BY <1>10, IdleShape DEF ScheduleBegin, Idle
  <2> QED
    BY <2>1, <2>2, PassOnly
<1>11. ASSUME NEW l \in Lanes, VisitLane(l) PROVE PassInv' /\ RowsMatchRuns'
  <2> DEFINE s == [left |-> sched.left \ {l}, lane |-> l,
                   rows |-> IF ~SlotFree(l) /\ Yielding(l) = {} THEN {}
                            ELSE {j \in Jobs : row[j] = "queued" /\ Lane(j) = l},
                   next |-> {}, promised |-> Promised(l)]
  <2>1. UNCHANGED <<spec, row, run, proc>> /\ sched' = Onward(s)
    BY <1>11 DEF VisitLane
  <2>2. ~MuFree
    BY <1>11 DEF VisitLane, MuFree, Idle
  <2>3. sched'.next = {} /\ \A j \in sched'.rows : j \in Jobs /\ row[j] = "queued" /\ Lane(j) = l
    BY <2>1 DEF Onward, Idle
  <2>4. sched'.rows = {} \/ sched'.lane = l
    BY <2>1 DEF Onward, Idle
  <2>5. \A j \in sched'.rows : run[j] = "none"
    BY <2>3 DEF RowsMatchRuns
  <2>6. l # NoLane
    BY QueueConstants
  <2>7. PassInv'
    BY <2>1, <2>2, <2>3, <2>4, <2>5, <2>6 DEF PassInv, NothingRuns, Lane, Kind
  <2> QED
    BY <2>1, <2>7 DEF RowsMatchRuns
<1>12. ASSUME NEW j \in Jobs, ConsiderRow(j) PROVE PassInv' /\ RowsMatchRuns'
  <2>1. UNCHANGED <<spec, row, run, proc>> /\ j \in sched.rows
    BY <1>12 DEF ConsiderRow, SkipBusy, PickRow, PromiseSlot, GiveUp, Interrupt, Row, IsFirst
  <2>2. ~MuFree /\ sched.lane # NoLane
    BY <2>1, IdleShape DEF PassInv
  <2> DEFINE s1 == [sched EXCEPT !.rows = @ \ {j}]
             s2 == [sched EXCEPT !.rows = @ \ {j}, !.promised = @ - 1]
             s3 == [sched EXCEPT !.rows = {}]
             s4 == [sched EXCEPT !.rows = @ \ {j}, !.next = @ \cup {j}]
  <2>3. \/ sched' = Onward(s1) \/ sched' = Onward(s2)
        \/ sched' = Onward(s3) \/ sched' = s4
    BY <1>12 DEF ConsiderRow, SkipBusy, PickRow, PromiseSlot, GiveUp, Interrupt
  <2>4. sched \in [left: SUBSET Lanes, lane: Lanes \cup {NoLane},
                   rows: SUBSET Jobs, next: SUBSET Jobs, promised: Nat]
    BY DEF TypeOK, SchedStates
  <2>5. CASE sched' = s4
    <3>1. /\ sched'.rows = sched.rows \ {j} /\ sched'.next = sched.next \cup {j}
          /\ sched'.lane = sched.lane
      BY <2>4, <2>5
    <3> QED
      BY <2>1, <2>2, <3>1, PassOnly
  <2>6. CASE sched' # s4
    <3>1. PICK s \in {s1, s2, s3} : sched' = Onward(s)
      BY <2>3, <2>6
    <3>2. s.rows \subseteq sched.rows /\ s.next = sched.next /\ s.lane = sched.lane
      BY <2>4
    <3>3. /\ Onward(s).rows \subseteq s.rows /\ Onward(s).next \subseteq s.next
          /\ s.rows # {} \/ s.next # {} => Onward(s) = s
          /\ s.rows = {} /\ s.next = {} => Onward(s).rows = {} /\ Onward(s).next = {}
      BY DEF Onward, Idle
    <3> QED
      BY <2>1, <2>2, <3>1, <3>2, <3>3, PassOnly
  <2> QED
    BY <2>5, <2>6
<1>13. ASSUME NEW j \in Jobs, StartJob(j) PROVE PassInv' /\ RowsMatchRuns'
  <2>1. j \in sched.next /\ sched.rows = {} /\ proc = "up"
    BY <1>13 DEF StartJob, IsFirst
  <2>2. sched.lane # NoLane /\ run[j] = "none"
    BY <2>1 DEF PassInv
  <2>3. UNCHANGED <<spec, proc>>
    BY <1>13 DEF StartJob
  <2>4. \A k \in Jobs \ {j} : run'[k] = run[k] /\ row'[k] = row[k]
    BY <1>13 DEF StartJob, TypeOK
  <2>5. \/ run'[j] = "handling" /\ row'[j] = "running"
        \/ run'[j] = "none" /\ row'[j] = "failed"
    BY <1>13, <2>2 DEF StartJob, TypeOK
  <2>6. RowsMatchRuns'
    BY <2>1, <2>3, <2>4, <2>5 DEF RowsMatchRuns
  <2>7. sched \in SchedStates
    BY DEF TypeOK
  <2> DEFINE s == [sched EXCEPT !.next = @ \ {j}]
  <2>8. s \in SchedStates /\ s.rows = {} /\ s.next = sched.next \ {j} /\ s.lane = sched.lane
    BY <2>1, <2>7 DEF SchedStates
  <2>9. /\ sched'.rows = {} /\ sched'.next = sched.next \ {j}
        /\ sched'.lane = IF sched.next \ {j} = {} THEN NoLane ELSE sched.lane
    BY <1>13, <2>8, OnwardShape DEF StartJob
  <2>10. sched.next \subseteq Jobs
    BY <2>7 DEF SchedStates
  <2>11. PassInv'
    BY <2>1, <2>2, <2>3, <2>4, <2>9, <2>10 DEF PassInv, Lane, Kind
  <2> QED
    BY <2>6, <2>11
<1>14. CASE ScheduleAbort
  <2>1. UNCHANGED <<spec, row, run, proc>> /\ ~MuFree
    BY <1>14 DEF ScheduleAbort
  <2>2. sched'.rows = {} /\ sched'.next = {}
    BY <1>14 DEF ScheduleAbort, Idle
  <2> QED
    BY <2>1, <2>2, PassOnly
<1>15. CASE Serve
  BY <1>15 DEF Serve, PassInv, RowsMatchRuns, NothingRuns, MuFree, Lane, Kind
<1>16. CASE Recover
  <2>1. (\A j \in Jobs : run[j] = "none") /\ sched = Idle
    BY <1>16 DEF Recover, PassInv, NothingRuns, MuFree
  <2>2. UNCHANGED <<run, sched>> /\ proc' = "up"
    BY <1>16 DEF Recover
  <2>3. \A j \in Jobs : row'[j] # "running"
    BY <1>16 DEF Recover, Requeued
  <2> QED
    BY <2>1, <2>2, <2>3 DEF PassInv, RowsMatchRuns, Idle
<1>17. CASE Shutdown
  BY <1>17 DEF Shutdown, PassInv, RowsMatchRuns, Lane, Kind
<1>18. CASE Exit \/ Crash
  BY <1>18 DEF Exit, Crash, Forget, PassInv, RowsMatchRuns, NothingRuns, MuFree, Idle
<1> QED
  BY <1>1, <1>2, <1>3, <1>4, <1>5, <1>6, <1>7, <1>8, <1>9, <1>10, <1>11, <1>12,
     <1>13, <1>14, <1>15, <1>16, <1>17, <1>18
     DEF Next, Schedule, StopStep

LEMMA QueueInit == Init => QueueInv
<1>1. Init => TypeOK
  BY TypeInit
<1>2. Init => PassInv /\ RowsMatchRuns
  BY DEF Init, PassInv, RowsMatchRuns, NothingRuns, MuFree, Idle
<1> QED
  BY <1>1, <1>2 DEF QueueInv

LEMMA QueueInvariant == Spec => []QueueInv
BY QueueInit, QueueStep, PTL DEF Spec

\* A job is "running" in the table exactly when a goroutine answers for it:
\* none is forgotten there while the queue is up, and none runs twice.
THEOREM TableMatchesRuns == Spec => []RowsMatchRuns
<1>1. QueueInv => RowsMatchRuns
  BY DEF QueueInv
<1> QED
  BY <1>1, QueueInvariant, PTL

-----------------------------------------------------------------------------
(* The slots of a lane and the keys.                                       *)

SlotInv == LaneLimit /\ KeyExclusive

\* The jobs that hold a slot.
Holders == Handling \cup sched.next

\* Jobs that keep their row keep their lane and key; if no job takes a slot,
\* no lane fills and no key is shared.
LEMMA SlotsKept ==
  ASSUME TypeOK, SlotInv, Holders' \subseteq Holders,
         \A j \in Holders : spec'[j] = spec[j]
  PROVE  SlotInv'
<1>1. \A l \in Lanes : Slots(l)' \subseteq Slots(l)
  BY DEF Slots, InLane, Holders, Lane, Kind
<1>2. \A l \in Lanes : Slots(l) \subseteq Jobs
  BY DEF Slots, InLane, Handling, TypeOK, SchedStates
<1>3. ASSUME NEW l \in Lanes PROVE Cardinality(Slots(l))' <= Limit[l]
  <2>1. IsFiniteSet(Slots(l)) /\ Cardinality(Slots(l)) \in Nat
    BY <1>2, JobSetsFinite
  <2>2. Cardinality(Slots(l)') <= Cardinality(Slots(l))
    BY <1>1, <2>1, FS_Subset
  <2>3. Slots(l)' \subseteq Jobs /\ Cardinality(Slots(l)') \in Nat
    BY <1>1, <1>2, JobSetsFinite
  <2>4. Cardinality(Slots(l)) <= Limit[l] /\ Limit[l] \in Nat
    BY QueueConstants DEF SlotInv, LaneLimit
  <2> QED
    BY <2>1, <2>2, <2>3, <2>4
<1>4. LaneLimit'
  BY <1>3 DEF LaneLimit
<1>5. KeyExclusive'
  BY DEF KeyExclusive, SlotInv, Holders, Lane, Kind, Key
<1> QED
  BY <1>4, <1>5 DEF SlotInv

\* A pick takes a free slot of the pass's lane, and a key nobody there has.
LEMMA SlotsPick ==
  ASSUME QueueInv, SlotInv, NEW j \in Jobs, PickRow(j)
  PROVE  SlotInv'
<1>1. j \in sched.rows /\ Lane(j) = sched.lane /\ run[j] = "none"
  BY DEF PickRow, Row, IsFirst, QueueInv, PassInv
<1>2. sched \in SchedStates /\ UNCHANGED <<spec, run>>
  BY DEF QueueInv, TypeOK, PickRow
<1>3. sched'.next = sched.next \cup {j}
  BY <1>2 DEF PickRow, SchedStates
<1>4. sched.lane \in Lanes
  BY <1>1, QueueConstants DEF Lane, Kind, QueueInv, TypeOK
<1>5. Slots(sched.lane) \subseteq Jobs
  BY <1>2 DEF Slots, InLane, Handling, SchedStates
<1>6. ASSUME NEW l \in Lanes PROVE Cardinality(Slots(l))' <= Limit[l]
  <2>1. CASE l = sched.lane
    <3>1. Slots(l)' = Slots(l) \cup {j}
      BY <1>1, <1>2, <1>3, <2>1 DEF Slots, InLane, Handling, Lane, Kind
    <3>2. IsFiniteSet(Slots(l)) /\ Cardinality(Slots(l)) \in Nat
      BY <1>5, <2>1, JobSetsFinite
    <3>3. Cardinality(Slots(l) \cup {j}) <= Cardinality(Slots(l)) + 1
      <4>1. Cardinality(Slots(l) \cup {j}) =
              IF j \in Slots(l) THEN Cardinality(Slots(l)) ELSE Cardinality(Slots(l)) + 1
        BY <3>2, FS_AddElement, Zenon
      <4> QED
        BY <3>2, <4>1
    <3>4. Cardinality(Slots(l)) < Limit[l] /\ Limit[l] \in Nat
      BY <2>1, QueueConstants DEF PickRow, SlotFree
    <3>5. Cardinality(Slots(l) \cup {j}) \in Nat
      BY <1>5, <2>1, JobSetsFinite
    <3> QED
      BY <3>1, <3>2, <3>3, <3>4, <3>5
  <2>2. CASE l # sched.lane
    <3>1. Slots(l)' = Slots(l)
      BY <1>1, <1>2, <1>3, <2>2 DEF Slots, InLane, Handling, Lane, Kind
    <3> QED
      BY <3>1 DEF SlotInv, LaneLimit
  <2> QED
    BY <2>1, <2>2
<1>7. KeyExclusive'
  <2>1. \A k \in Slots(sched.lane) : Key(j) # NoKey => Key(k) # Key(j)
    BY DEF PickRow, Busy
  <2>2. \A k \in Holders : Lane(k) = Lane(j) => k \in Slots(sched.lane)
    BY <1>1 DEF Holders, Slots, InLane
  <2>3. Holders' = Holders \cup {j}
    BY <1>2, <1>3 DEF Holders, Handling
  <2>4. \A k \in Jobs : Lane(k)' = Lane(k) /\ Key(k)' = Key(k)
    BY <1>2 DEF Lane, Kind, Key
  <2>5. Holders \subseteq Jobs
    BY <1>2 DEF Holders, Handling, SchedStates
  <2> QED
    BY <2>1, <2>2, <2>3, <2>4, <2>5 DEF KeyExclusive, SlotInv, Holders
<1> QED
  BY <1>6, <1>7 DEF SlotInv, LaneLimit

LEMMA SlotStep == QueueInv /\ SlotInv /\ [Next]_vars => SlotInv'
<1> SUFFICES ASSUME QueueInv, SlotInv, [Next]_vars PROVE SlotInv'
  OBVIOUS
<1>0. TypeOK /\ sched \in SchedStates
  BY DEF QueueInv, TypeOK
<1>1. CASE UNCHANGED vars
  BY <1>0, <1>1, SlotsKept DEF vars, Holders, Handling
<1>2. ASSUME NEW j \in Jobs, NEW s \in Specs, Enqueue(j, s) PROVE SlotInv'
  <2>1. row[j] = "none"
    BY <1>2, QueueConstants DEF Enqueue
  <2>2. j \notin Holders
    BY <2>1 DEF Holders, Handling, QueueInv, PassInv, RowsMatchRuns
  <2>3. Holders' = Holders /\ \A k \in Holders : spec'[k] = spec[k]
    BY <1>0, <1>2, <2>2 DEF Enqueue, Holders, Handling, TypeOK, SchedStates
  <2> QED
    BY <1>0, <2>3, SlotsKept
<1>3. ASSUME NEW j \in Jobs, Retry(j) PROVE SlotInv'
  BY <1>0, <1>3, SlotsKept DEF Retry, Holders, Handling
<1>4. ASSUME NEW j \in Jobs, NEW err \in BOOLEAN, Settle(j, err) PROVE SlotInv'
  <2>1. Holders' \subseteq Holders /\ spec' = spec
    BY <1>0, <1>4 DEF Settle, Holders, Handling, TypeOK
  <2> QED
    BY <1>0, <2>1, SlotsKept
<1>5. ASSUME NEW j \in Jobs, Record(j) PROVE SlotInv'
  <2>1. Holders' \subseteq Holders /\ spec' = spec
    BY <1>0, <1>5 DEF Record, Holders, Handling, TypeOK
  <2> QED
    BY <1>0, <2>1, SlotsKept
<1>6. ASSUME NEW c \in Stoppers, \/ \E j \in Jobs : StopLock(c, j)
                                 \/ StopUpdate(c)
                                 \/ \E u \in Subjects : StopSelect(c, u)
      PROVE  SlotInv'
  BY <1>0, <1>6, SlotsKept DEF StopLock, StopUpdate, StopSelect, Holders, Handling
<1>7. ASSUME NEW r \in Resetters, Pause(r) \/ PauseReturn(r) \/ Resume(r)
      PROVE  SlotInv'
  BY <1>0, <1>7, SlotsKept DEF Pause, PauseReturn, Resume, Holders, Handling
<1>8. CASE ScheduleBegin
  <2>1. sched'.next = {} /\ UNCHANGED <<spec, run>>
    BY <1>8, IdleShape DEF ScheduleBegin, Idle
  <2> QED
    BY <1>0, <2>1, SlotsKept DEF Holders, Handling
<1>9. ASSUME NEW l \in Lanes, VisitLane(l) PROVE SlotInv'
  <2>1. sched'.next = {} /\ UNCHANGED <<spec, run>>
    BY <1>9 DEF VisitLane, Onward, Idle
  <2> QED
    BY <1>0, <2>1, SlotsKept DEF Holders, Handling
<1>10. ASSUME NEW j \in Jobs, \/ SkipBusy(j) \/ PromiseSlot(j) \/ GiveUp(j)
                              \/ \E v \in Jobs : Interrupt(j, v)
       PROVE  SlotInv'
  <2>1. UNCHANGED <<spec, run>>
    BY <1>10 DEF SkipBusy, PromiseSlot, GiveUp, Interrupt
  <2>2. sched'.next \subseteq sched.next
    BY <1>0, <1>10 DEF SkipBusy, PromiseSlot, GiveUp, Interrupt, Onward, Idle, SchedStates
  <2> QED
    BY <1>0, <2>1, <2>2, SlotsKept DEF Holders, Handling
<1>11. ASSUME NEW j \in Jobs, PickRow(j) PROVE SlotInv'
  BY <1>11, SlotsPick
<1>12. ASSUME NEW j \in Jobs, StartJob(j) PROVE SlotInv'
  <2>1. j \in sched.next /\ UNCHANGED spec
    BY <1>12 DEF StartJob, IsFirst
  <2>2. sched'.next \subseteq sched.next
    BY <1>0, <1>12 DEF StartJob, Onward, Idle, SchedStates
  <2>3. \A k \in Jobs : run'[k] = run[k] \/ k = j
    BY <1>0, <1>12 DEF StartJob, TypeOK
  <2>4. Holders' \subseteq Holders
    BY <2>1, <2>2, <2>3 DEF Holders, Handling
  <2> QED
    BY <1>0, <2>1, <2>4, SlotsKept
<1>13. CASE ScheduleAbort
  <2>1. sched'.next = {} /\ UNCHANGED <<spec, run>>
    BY <1>13 DEF ScheduleAbort, Idle
  <2> QED
    BY <1>0, <2>1, SlotsKept DEF Holders, Handling
<1>14. CASE Serve \/ Recover \/ Shutdown
  BY <1>0, <1>14, SlotsKept DEF Serve, Recover, Shutdown, Holders, Handling
<1>15. CASE Exit \/ Crash
  <2>1. Holders' = {} /\ spec' = spec
    BY <1>15 DEF Exit, Crash, Forget, Holders, Handling, Idle
  <2> QED
    BY <1>0, <2>1, SlotsKept
<1> QED
  BY <1>1, <1>2, <1>3, <1>4, <1>5, <1>6, <1>7, <1>8, <1>9, <1>10, <1>11, <1>12,
     <1>13, <1>14, <1>15
     DEF Next, Schedule, ConsiderRow, StopStep

LEMMA SlotInit == Init => SlotInv
<1> SUFFICES ASSUME Init PROVE SlotInv
  OBVIOUS
<1>1. Holders = {}
  BY DEF Init, Holders, Handling, Idle
<1>2. \A l \in Lanes : Slots(l) = {}
  BY <1>1 DEF Slots, InLane, Holders
<1>3. LaneLimit
  BY <1>2, FS_EmptySet, QueueConstants DEF LaneLimit
<1> QED
  BY <1>1, <1>3 DEF SlotInv, KeyExclusive, Holders

LEMMA SlotInvariant == Spec => []SlotInv
BY SlotInit, SlotStep, QueueInvariant, PTL DEF Spec

\* No lane ever runs more jobs than its limit, picks of a pass included.
THEOREM LaneLimitHolds == Spec => []LaneLimit
<1>1. SlotInv => LaneLimit
  BY DEF SlotInv
<1> QED
  BY <1>1, SlotInvariant, PTL

\* Two jobs of a lane that share a key never run together.
THEOREM KeyExclusiveHolds == Spec => []KeyExclusive
<1>1. SlotInv => KeyExclusive
  BY DEF SlotInv
<1> QED
  BY <1>1, SlotInvariant, PTL

-----------------------------------------------------------------------------
(* Pause.  One Reset at a time is assumed: q.paused is a flag, not a count, *)
(* and the run queue_resets_overlap shows what two do to each other.        *)

OneResetter == \A r, q \in Resetters : r = q

PauseInv ==
  \A r \in Resetters :
    /\ reset[r] # "out" => paused /\ MuFree
    /\ reset[r] = "wiping" => NothingRuns

LEMMA PauseStep ==
  ASSUME OneResetter
  PROVE  QueueInv /\ PauseInv /\ [Next]_vars => PauseInv'
<1> SUFFICES ASSUME QueueInv, PauseInv, [Next]_vars PROVE PauseInv'
  OBVIOUS
<1> USE DEF PauseInv
<1>0. TypeOK
  BY DEF QueueInv
<1>1. CASE UNCHANGED vars
  BY <1>1 DEF vars, NothingRuns, MuFree
<1>2. ASSUME NEW j \in Jobs, \/ \E s \in Specs : Enqueue(j, s)
                             \/ Retry(j)
      PROVE  PauseInv'
  BY <1>2 DEF Enqueue, Retry, clients, NothingRuns, MuFree
<1>3. ASSUME NEW j \in Jobs, \/ \E err \in BOOLEAN : Settle(j, err)
                             \/ Record(j)
      PROVE  PauseInv'
  <2>1. run[j] # "none"
    BY <1>3 DEF Settle, Record
  <2> QED
    BY <1>3, <2>1 DEF Settle, Record, clients, NothingRuns, MuFree
<1>4. ASSUME NEW c \in Stoppers, \/ StopStep(c)
                                 \/ \E u \in Subjects : StopSelect(c, u)
      PROVE  PauseInv'
  BY <1>4 DEF StopStep, StopLock, StopUpdate, StopSelect, NothingRuns, MuFree
<1>5. ASSUME NEW r \in Resetters, Pause(r) PROVE PauseInv'
  <2>1. \A q \in Resetters : q = r
    BY OneResetter DEF OneResetter
  <2> QED
    BY <1>0, <1>5, <2>1 DEF Pause, TypeOK, NothingRuns, MuFree
<1>6. ASSUME NEW r \in Resetters, PauseReturn(r) PROVE PauseInv'
  <2>1. \A q \in Resetters : q = r
    BY OneResetter DEF OneResetter
  <2> QED
    BY <1>0, <1>6, <2>1 DEF PauseReturn, TypeOK, NothingRuns, MuFree
<1>7. ASSUME NEW r \in Resetters, Resume(r) PROVE PauseInv'
  <2>1. \A q \in Resetters : q = r
    BY OneResetter DEF OneResetter
  <2> QED
    BY <1>0, <1>7, <2>1 DEF Resume, TypeOK
<1>8. CASE ScheduleBegin
  BY <1>8 DEF ScheduleBegin, clients, NothingRuns, MuFree
<1>9. CASE \/ \E l \in Lanes : VisitLane(l)
           \/ \E j \in Jobs : ConsiderRow(j) \/ StartJob(j)
           \/ ScheduleAbort
  <2>1. ~MuFree
    <3>1. MuFree => sched.left = {} /\ sched.rows = {} /\ sched.next = {}
      BY DEF MuFree, Idle
    <3>2. ASSUME NEW l \in Lanes, VisitLane(l) PROVE ~MuFree
      BY <3>1, <3>2 DEF VisitLane
    <3>3. ASSUME NEW j \in Jobs, ConsiderRow(j) PROVE ~MuFree
      BY <3>1, <3>3
         DEF ConsiderRow, SkipBusy, PickRow, PromiseSlot, GiveUp, Interrupt, Row, IsFirst
    <3>4. ASSUME NEW j \in Jobs, StartJob(j) PROVE ~MuFree
      BY <3>1, <3>4 DEF StartJob, IsFirst
    <3> QED
      BY <1>9, <3>2, <3>3, <3>4 DEF ScheduleAbort
  <2>2. UNCHANGED reset
    BY <1>9 DEF VisitLane, ConsiderRow, SkipBusy, PickRow, PromiseSlot, GiveUp,
                Interrupt, StartJob, ScheduleAbort, clients
  <2> QED
    BY <2>1, <2>2
<1>10. CASE Serve \/ Recover \/ Shutdown
  BY <1>10 DEF Serve, Recover, Shutdown, clients, NothingRuns, MuFree
<1>11. CASE Exit \/ Crash
  BY <1>11 DEF Exit, Crash, Forget
<1> QED
  BY <1>1, <1>2, <1>3, <1>4, <1>5, <1>6, <1>7, <1>8, <1>9, <1>10, <1>11
     DEF Next, Schedule

LEMMA PauseInvariant ==
  ASSUME OneResetter
  PROVE  Spec => []PauseInv
<1>1. Init => PauseInv
  BY DEF Init, PauseInv
<1>2. QueueInv /\ PauseInv /\ [Next]_vars => PauseInv'
  BY PauseStep
<1> QED
  BY <1>1, <1>2, QueueInvariant, PTL DEF Spec

\* With one Reset at a time, nothing of the queue runs while it wipes.
THEOREM WipeAloneHolds ==
  ASSUME OneResetter
  PROVE  Spec => []WipeAlone
<1>1. PauseInv => WipeAlone
  BY DEF PauseInv, WipeAlone, MuFree, NothingRuns
<1> QED
  BY <1>1, PauseInvariant, PTL

-----------------------------------------------------------------------------
(* Interrupted runs.                                                       *)

\* Why a context was cancelled outlives the cancelling until settle has read it.
EndInv ==
  \A j \in ended :
    /\ run[j] # "none"
    /\ run[j] = "handling" =>
         j \in stopped \cup preempted \/ paused \/ proc = "closing"
    /\ run[j] = "erred" => proc = "closing"

LEMMA EndStep == QueueInv /\ PauseInv /\ EndInv /\ [Next]_vars => EndInv'
<1> SUFFICES ASSUME QueueInv, PauseInv, EndInv, [Next]_vars PROVE EndInv'
  OBVIOUS
<1> USE DEF EndInv
<1>0. TypeOK
  BY DEF QueueInv
<1>1. CASE UNCHANGED vars
  BY <1>1 DEF vars
<1>2. ASSUME NEW j \in Jobs, \/ \E s \in Specs : Enqueue(j, s)
                             \/ Retry(j)
      PROVE  EndInv'
  BY <1>2 DEF Enqueue, Retry, flags
<1>3. ASSUME NEW j \in Jobs, NEW err \in BOOLEAN, Settle(j, err) PROVE EndInv'
  <2>1. \A k \in Jobs \ {j} : run'[k] = run[k]
    BY <1>0, <1>3 DEF Settle, TypeOK
  <2>2. run'[j] \in {"cancelled", "done", "queued", "erred"}
    BY <1>0, <1>3 DEF Settle, TypeOK
  <2>3. j \in ended /\ run'[j] = "erred" => proc = "closing"
    BY <1>0, <1>3 DEF Settle, Again, TypeOK
  <2> QED
    BY <1>0, <1>3, <2>1, <2>2, <2>3 DEF Settle, TypeOK
<1>4. ASSUME NEW j \in Jobs, Record(j) PROVE EndInv'
  BY <1>0, <1>4 DEF Record, TypeOK
<1>5. ASSUME NEW c \in Stoppers, \/ StopStep(c)
                                 \/ \E u \in Subjects : StopSelect(c, u)
      PROVE  EndInv'
  BY <1>5 DEF StopStep, StopLock, StopUpdate, StopSelect, flags
<1>6. ASSUME NEW r \in Resetters, Pause(r) \/ PauseReturn(r) PROVE EndInv'
  BY <1>6 DEF Pause, PauseReturn, flags, Handling
<1>7. ASSUME NEW r \in Resetters, Resume(r) PROVE EndInv'
  <2>1. NothingRuns
    BY <1>7 DEF Resume, PauseInv
  <2>2. ended = {}
    BY <1>0, <2>1 DEF NothingRuns, TypeOK
  <2> QED
    BY <1>7, <2>2 DEF Resume, flags
<1>8. CASE ScheduleBegin \/ (\E l \in Lanes : VisitLane(l)) \/ ScheduleAbort
  <2>1. UNCHANGED <<run, flags, paused, proc>>
    BY <1>8 DEF ScheduleBegin, VisitLane, ScheduleAbort
  <2> QED
    BY <2>1 DEF flags
<1>9. ASSUME NEW j \in Jobs, ConsiderRow(j) PROVE EndInv'
  <2>1. ASSUME NEW v \in Jobs, Interrupt(j, v) PROVE EndInv'
    <3>1. run[v] = "handling"
      BY <2>1 DEF Interrupt, Lowest, Yielding, InLane, Handling
    <3> QED
      BY <2>1, <3>1 DEF Interrupt
  <2>2. CASE SkipBusy(j) \/ PickRow(j) \/ PromiseSlot(j) \/ GiveUp(j)
    BY <2>2 DEF SkipBusy, PickRow, PromiseSlot, GiveUp, flags
  <2> QED
    BY <1>9, <2>1, <2>2 DEF ConsiderRow
<1>10. ASSUME NEW j \in Jobs, StartJob(j) PROVE EndInv'
  <2>1. run[j] = "none"
    BY <1>10 DEF StartJob, IsFirst, QueueInv, PassInv
  <2>2. j \notin ended
    BY <2>1
  <2> QED
    BY <1>0, <1>10, <2>2 DEF StartJob, flags, TypeOK
<1>11. CASE Serve \/ Recover
  <2>1. NothingRuns
    BY <1>11 DEF Serve, Recover, QueueInv, PassInv
  <2>2. ended = {}
    BY <1>0, <2>1 DEF NothingRuns, TypeOK
  <2> QED
    BY <1>11, <2>2 DEF Serve, Recover, flags
<1>12. CASE Shutdown
  BY <1>12 DEF Shutdown, Handling
<1>13. CASE Exit \/ Crash
  BY <1>13 DEF Exit, Crash, Forget
<1> QED
  BY <1>1, <1>2, <1>3, <1>4, <1>5, <1>6, <1>7, <1>8, <1>9, <1>10, <1>11, <1>12, <1>13
     DEF Next, Schedule

\* With one Reset at a time, a run the queue itself cut short - interrupted,
\* paused or shut down - is never recorded as failed.
THEOREM InterruptedNeverFailsHolds ==
  ASSUME OneResetter
  PROVE  Spec => InterruptedNeverFails
<1> DEFINE NeverFails == \A j \in ended :
             run[j] # "none" /\ run'[j] = "none" /\ proc' # "down"
               => row'[j] # "failed"
<1>1. Init => EndInv
  BY DEF Init, EndInv
<1>2. QueueInv /\ PauseInv /\ EndInv /\ [Next]_vars => EndInv'
  BY EndStep
<1>3. QueueInv /\ EndInv /\ [Next]_vars => [NeverFails]_vars
  <2> SUFFICES ASSUME QueueInv, EndInv, Next, NEW j \in ended,
                      run[j] # "none", run'[j] = "none", proc' # "down"
               PROVE  row'[j] # "failed"
    BY DEF vars
  <2>1. j \in Jobs /\ TypeOK
    BY DEF QueueInv, TypeOK
  <2>2. Record(j)
    BY <2>1 DEF Next, Enqueue, Retry, Settle, Record, StopStep, StopLock, StopUpdate,
                StopSelect, Pause, PauseReturn, Resume, Schedule, ScheduleBegin,
                VisitLane, ConsiderRow, SkipBusy, PickRow, PromiseSlot, GiveUp,
                Interrupt, StartJob, ScheduleAbort, Serve, Recover, Shutdown, Exit,
                Crash, Forget, TypeOK
  <2>3. Verdict(j) # "failed"
    BY <2>1, <2>2 DEF Record, Verdict, EndInv, TypeOK, RunStates
  <2>4. row[j] = "running"
    BY <2>1 DEF QueueInv, RowsMatchRuns
  <2> QED
    BY <2>1, <2>2, <2>3, <2>4 DEF Record, TypeOK
<1>4. Spec => [][NeverFails]_vars
  BY <1>1, <1>2, <1>3, QueueInvariant, PauseInvariant, PTL DEF Spec
<1> QED
  BY <1>4 DEF InterruptedNeverFails


-----------------------------------------------------------------------------
(* What the pass has in hand.                                              *)

\* What a pass has in hand is queued, or was cancelled behind its back, and a row that is
\* picked is looked at no more.
InHand ==
  /\ \A j \in sched.rows \cup sched.next : row[j] \in {"queued", "cancelled"}
  /\ sched.rows \cap sched.next = {}

LEMMA HandStep == QueueInv /\ InHand /\ [Next]_vars => InHand'
<1> SUFFICES ASSUME QueueInv, InHand, [Next]_vars PROVE InHand'
  OBVIOUS
<1>t. TypeOK /\ sched \in SchedStates /\ sched.rows \cup sched.next \subseteq Jobs
  BY DEF QueueInv, TypeOK, SchedStates
<1>p. \A j \in sched.rows \cup sched.next : run[j] = "none"
  BY DEF QueueInv, PassInv
\* A step that hands the pass nothing.
<1>k. ASSUME sched'.rows \cup sched'.next \subseteq sched.rows \cup sched.next,
             \A j \in sched'.rows \cup sched'.next :
               row'[j] = row[j] \/ row'[j] \in {"queued", "cancelled"},
             sched'.rows \cap sched'.next = {}
      PROVE  InHand'
  BY <1>k DEF InHand
<1>1. CASE UNCHANGED vars
  BY <1>1, <1>k DEF vars, InHand
<1>2. ASSUME NEW j \in Jobs, (\E s \in Specs : Enqueue(j, s)) \/ Retry(j) PROVE InHand'
  BY <1>2, <1>k, <1>t DEF Enqueue, Retry, TypeOK, InHand
<1>3. ASSUME NEW j \in Jobs, \E err \in BOOLEAN : Settle(j, err) PROVE InHand'
  BY <1>3, <1>k DEF Settle, InHand
<1>4. ASSUME NEW j \in Jobs, Record(j) PROVE InHand'
  BY <1>4, <1>k, <1>p, <1>t DEF Record, TypeOK, InHand
<1>5. ASSUME NEW c \in Stoppers, StopStep(c) \/ \E u \in Subjects : StopSelect(c, u) PROVE InHand'
  <2>1. CASE StopUpdate(c)
    BY <1>k, <1>t, <2>1 DEF StopUpdate, TypeOK, InHand
  <2>2. CASE (\E j \in Jobs : StopLock(c, j)) \/ \E u \in Subjects : StopSelect(c, u)
    BY <1>k, <2>2 DEF StopLock, StopSelect, InHand
  <2> QED
    BY <1>5, <2>1, <2>2 DEF StopStep
<1>6. ASSUME NEW r \in Resetters, Pause(r) \/ PauseReturn(r) \/ Resume(r) PROVE InHand'
  BY <1>6, <1>k DEF Pause, PauseReturn, Resume, InHand
<1>7. CASE ScheduleBegin \/ ScheduleAbort
  <2>1. sched'.rows = {} /\ sched'.next = {}
    BY <1>7, IdleShape DEF ScheduleBegin, ScheduleAbort, Idle
  <2> QED
    BY <1>k, <2>1
<1>8. ASSUME NEW l \in Lanes, VisitLane(l) PROVE InHand'
  <2>1. row' = row /\ sched'.next = {} /\ \A j \in sched'.rows : row[j] = "queued"
    BY <1>8 DEF VisitLane, Onward, Idle
  <2> QED
    BY <2>1 DEF InHand
<1>9. ASSUME NEW j \in Jobs, ConsiderRow(j) PROVE InHand'
  <2>1. row' = row /\ sched'.rows \cup sched'.next \subseteq sched.rows \cup sched.next
    BY <1>9, <1>t DEF ConsiderRow, SkipBusy, PickRow, PromiseSlot, GiveUp, Interrupt, Onward, Idle,
                      SchedStates, Row, IsFirst
  <2>2. sched'.rows \cap sched'.next = {}
    <3>1. CASE PickRow(j)
      BY <1>t, <3>1 DEF PickRow, SchedStates, InHand
    <3>2. CASE SkipBusy(j) \/ PromiseSlot(j) \/ GiveUp(j) \/ \E v \in Jobs : Interrupt(j, v)
      <4>1. sched'.rows \subseteq sched.rows /\ sched'.next \subseteq sched.next
        BY <1>t, <3>2 DEF SkipBusy, PromiseSlot, GiveUp, Interrupt, Onward, Idle, SchedStates
      <4> QED
        BY <4>1 DEF InHand
    <3> QED
      BY <1>9, <3>1, <3>2 DEF ConsiderRow
  <2> QED
    BY <1>k, <2>1, <2>2
<1>10. ASSUME NEW j \in Jobs, StartJob(j) PROVE InHand'
  <2>1. \A k \in Jobs \ {j} : row'[k] = row[k]
    BY <1>10, <1>t DEF StartJob, TypeOK
  <2>2. sched'.rows = {} /\ sched'.next \subseteq sched.next \ {j}
    BY <1>10, <1>t DEF StartJob, Onward, Idle, SchedStates
  <2> QED
    BY <1>k, <1>t, <2>1, <2>2
<1>11. CASE Serve \/ Shutdown
  BY <1>11, <1>k DEF Serve, Shutdown, InHand
<1>12. CASE Recover
  <2>1. sched'.rows = {} /\ sched'.next = {}
    BY <1>12, IdleShape DEF Recover, QueueInv, PassInv
  <2> QED
    BY <1>k, <2>1
<1>13. CASE Exit \/ Crash
  <2>1. sched'.rows = {} /\ sched'.next = {}
    BY <1>13 DEF Exit, Crash, Forget, Idle
  <2> QED
    BY <1>k, <2>1
<1> QED
  BY <1>1, <1>2, <1>3, <1>4, <1>5, <1>6, <1>7, <1>8, <1>9, <1>10, <1>11, <1>12, <1>13
     DEF Next, Schedule

LEMMA HandInvariant == Spec => []InHand
<1>1. Init => InHand
  BY DEF Init, InHand, Idle
<1> QED
  BY <1>1, HandStep, QueueInvariant, PTL DEF Spec

-----------------------------------------------------------------------------
(* Interruptions.                                                          *)

\* The rows a pass has left behind it, in its lane, for slots that interrupted runs hold.
Behind(D) ==
  /\ D \subseteq Jobs \ sched.rows
  /\ Cardinality(D) + sched.promised = Cardinality(InLane(preempted, sched.lane))
  /\ \A d \in D : /\ row[d] \in {"queued", "cancelled"} /\ Lane(d) = sched.lane
                  /\ \A j \in sched.rows : Before(d, j)

\* Each interrupted run of the lane has a row of its own behind the pass, but for those
\* whose slots are still promised.
Matched == sched.rows # {} => \E D : Behind(D)

\* A step that interrupts nothing and looks at no more rows leaves the same rows behind.
LEMMA BehindKept ==
  ASSUME QueueInv, InHand, NEW D, Behind(D),
         sched'.rows \subseteq sched.rows, sched'.lane = sched.lane,
         sched'.promised = sched.promised, preempted' = preempted,
         \A k \in D \cup sched.rows \cup preempted : spec'[k] = spec[k],
         \A d \in D : row'[d] \in {"queued", "cancelled"}
  PROVE  Behind(D)'
<1>1. InLane(preempted, sched.lane)' = InLane(preempted, sched.lane)
  BY DEF InLane, Lane, Kind
<1>2. Cardinality(InLane(preempted, sched.lane))' = Cardinality(InLane(preempted, sched.lane))
  BY <1>1
<1>3. \A d \in D : /\ Lane(d)' = sched'.lane
                   /\ \A j \in sched'.rows : Before(d, j)'
  BY DEF Behind, Lane, Kind, Before, Priority
<1> QED
  BY <1>2, <1>3 DEF Behind

\* A row the pass goes past: either a promised slot is spent on it or a run is interrupted for it.
LEMMA BehindGrows ==
  ASSUME QueueInv, InHand, NEW D, Behind(D), NEW j \in Jobs, Row(j),
         spec' = spec, row' = row, sched'.rows = sched.rows \ {j}, sched'.lane = sched.lane,
         Cardinality(InLane(preempted, sched.lane))' - sched'.promised
           = Cardinality(InLane(preempted, sched.lane)) - sched.promised + 1,
         Cardinality(InLane(preempted, sched.lane)) \in Nat,
         Cardinality(InLane(preempted, sched.lane))' \in Nat,
         sched.promised \in Nat, sched'.promised \in Nat
  PROVE  Behind(D \cup {j})'
<1>1. j \in sched.rows /\ j \notin D /\ D \subseteq Jobs
  BY DEF Row, IsFirst, Behind
<1>2. IsFiniteSet(D) /\ Cardinality(D) \in Nat
  BY <1>1, JobSetsFinite
<1>3. Cardinality(D \cup {j}) = Cardinality(D) + 1
  BY <1>1, <1>2, FS_AddElement
<1>4. Cardinality(D \cup {j}) + sched'.promised = Cardinality(InLane(preempted, sched.lane))'
  BY <1>2, <1>3 DEF Behind
<1>5. D \cup {j} \subseteq Jobs \ sched'.rows
  BY <1>1 DEF Behind
<1>6. row[j] \in {"queued", "cancelled"} /\ Lane(j) = sched.lane
  BY <1>1 DEF InHand, QueueInv, PassInv
<1>7. \A k \in sched.rows \ {j} : Before(j, k)
  BY DEF Row, IsFirst
<1>8. ASSUME NEW d \in D \cup {j}
      PROVE  /\ row'[d] \in {"queued", "cancelled"} /\ Lane(d)' = sched'.lane
             /\ \A k \in sched'.rows : Before(d, k)'
  <2>1. row[d] \in {"queued", "cancelled"} /\ Lane(d) = sched.lane
    BY <1>6, <1>8 DEF Behind
  <2>2. \A k \in sched.rows \ {j} : Before(d, k)
    BY <1>7, <1>8 DEF Behind
  <2> QED
    BY <2>1, <2>2 DEF Lane, Kind, Before, Priority
<1> QED
  BY <1>4, <1>5, <1>8 DEF Behind

\* What an interruption adds to the interrupted runs of the lane.
LEMMA OneInterrupted ==
  ASSUME QueueInv, NEW j \in Jobs, NEW v \in Jobs, Interrupt(j, v)
  PROVE  /\ Lane(v) = sched.lane
         /\ InLane(preempted', sched.lane) = InLane(preempted, sched.lane) \cup {v}
         /\ Cardinality(InLane(preempted, sched.lane)) \in Nat
         /\ Cardinality(InLane(preempted', sched.lane))
              = Cardinality(InLane(preempted, sched.lane)) + 1
<1>1. Lane(v) = sched.lane /\ v \notin preempted
  BY DEF Interrupt, Lowest, Yielding, InLane
<1>2. InLane(preempted', sched.lane) = InLane(preempted, sched.lane) \cup {v}
  BY <1>1 DEF Interrupt, InLane
<1>3. InLane(preempted, sched.lane) \subseteq Jobs /\ v \notin InLane(preempted, sched.lane)
  BY <1>1 DEF InLane, QueueInv, TypeOK, Handling
<1>4. /\ IsFiniteSet(InLane(preempted, sched.lane))
      /\ Cardinality(InLane(preempted, sched.lane)) \in Nat
  BY <1>3, JobSetsFinite
<1>5. Cardinality(InLane(preempted, sched.lane) \cup {v})
        = Cardinality(InLane(preempted, sched.lane)) + 1
  BY <1>3, <1>4, FS_AddElement
<1> QED
  BY <1>1, <1>2, <1>4, <1>5

LEMMA MatchStep == QueueInv /\ InHand /\ Matched /\ [Next]_vars => Matched'
<1> SUFFICES ASSUME QueueInv, InHand, Matched, [Next]_vars PROVE Matched'
  OBVIOUS
<1>t. TypeOK /\ sched \in SchedStates /\ sched.rows \cup sched.next \subseteq Jobs
  BY DEF QueueInv, TypeOK, SchedStates
<1>p. /\ \A k \in preempted : run[k] = "handling" /\ row[k] = "running"
      /\ preempted \subseteq Jobs
  BY <1>t DEF QueueInv, RowsMatchRuns, TypeOK, Handling
\* A step that leaves no row to look at.
<1>e. ASSUME sched'.rows = {} PROVE Matched'
  BY <1>e DEF Matched
\* A step that leaves the pass as it is, or with fewer rows to look at.
<1>k. ASSUME sched'.rows \subseteq sched.rows, sched'.rows # {} => sched'.lane = sched.lane,
             sched'.rows # {} => sched'.promised = sched.promised, preempted' = preempted,
             \A k \in Jobs : row[k] # "none" => spec'[k] = spec[k],
             \A k \in Jobs : row[k] \in {"queued", "cancelled"}
                               => row'[k] \in {"queued", "cancelled"}
      PROVE  Matched'
  <2>1. SUFFICES ASSUME sched'.rows # {} PROVE \E D : Behind(D)'
    BY DEF Matched
  <2>2. PICK D : Behind(D)
    BY <1>k, <2>1 DEF Matched
  <2>3. \A k \in D \cup sched.rows \cup preempted : k \in Jobs /\ row[k] # "none"
    BY <1>t, <1>p, <2>2 DEF Behind, InHand
  <2>4. \A d \in D : row'[d] \in {"queued", "cancelled"}
    BY <1>k, <2>2, <2>3 DEF Behind
  <2> QED
    BY <1>k, <2>1, <2>2, <2>3, <2>4, BehindKept
<1>1. CASE UNCHANGED vars
  BY <1>1, <1>k DEF vars
<1>2. ASSUME NEW j \in Jobs, (\E s \in Specs : Enqueue(j, s)) \/ Retry(j) PROVE Matched'
  <2>1. CASE \E s \in Specs : Enqueue(j, s)
    <3>1. row[j] = "none"
      BY <2>1, QueueConstants DEF Enqueue
    <3>2. \A k \in Jobs \ {j} : spec'[k] = spec[k] /\ row'[k] = row[k]
      BY <1>t, <2>1 DEF Enqueue, TypeOK
    <3> QED
      BY <1>k, <2>1, <3>1, <3>2 DEF Enqueue, flags
  <2>2. CASE Retry(j)
    BY <1>k, <1>t, <2>2 DEF Retry, flags, TypeOK
  <2> QED
    BY <1>2, <2>1, <2>2
<1>3. ASSUME NEW j \in Jobs, \E err \in BOOLEAN : Settle(j, err) PROVE Matched'
  BY <1>3, <1>e, IdleShape DEF Settle
<1>4. ASSUME NEW j \in Jobs, Record(j) PROVE Matched'
  <2>1. row[j] = "running"
    BY <1>4 DEF Record, QueueInv, RowsMatchRuns
  <2>2. \A k \in Jobs \ {j} : row'[k] = row[k]
    BY <1>4, <1>t DEF Record, TypeOK
  <2> QED
    BY <1>4, <1>k, <2>1, <2>2 DEF Record
<1>5. ASSUME NEW c \in Stoppers, StopStep(c) \/ \E u \in Subjects : StopSelect(c, u) PROVE Matched'
  <2>1. CASE StopUpdate(c)
    BY <1>k, <1>t, <2>1 DEF StopUpdate, flags, TypeOK
  <2>2. CASE (\E j \in Jobs : StopLock(c, j)) \/ \E u \in Subjects : StopSelect(c, u)
    BY <1>k, <2>2 DEF StopLock, StopSelect, flags
  <2> QED
    BY <1>5, <2>1, <2>2 DEF StopStep
<1>6. ASSUME NEW r \in Resetters, Pause(r) \/ PauseReturn(r) \/ Resume(r) PROVE Matched'
  BY <1>6, <1>k DEF Pause, PauseReturn, Resume, flags
<1>7. CASE ScheduleBegin \/ ScheduleAbort
  BY <1>7, <1>e, IdleShape DEF ScheduleBegin, ScheduleAbort, Idle
<1>8. ASSUME NEW l \in Lanes, VisitLane(l) PROVE Matched'
  <2>1. SUFFICES ASSUME sched'.rows # {} PROVE Behind({})'
    BY DEF Matched
  <2>2. sched'.lane = l /\ sched'.promised = Promised(l)
    BY <1>8, <2>1 DEF VisitLane, Onward, Idle
  <2>3. InLane(preempted, sched.lane)' = InLane(Handling \cap preempted, l)
    BY <1>8, <1>t, <2>2 DEF VisitLane, InLane, Lane, Kind, TypeOK, flags
  <2>4. InLane(Handling \cap preempted, l) \subseteq Jobs
    BY DEF InLane, Handling
  <2>5. Promised(l) = Cardinality(InLane(preempted, sched.lane))' /\ Promised(l) \in Nat
    BY <2>3, <2>4, JobSetsFinite DEF Promised
  <2>6. Cardinality({}) = 0
    BY FS_EmptySet
  <2> QED
    BY <2>2, <2>5, <2>6 DEF Behind
<1>9. ASSUME NEW j \in Jobs, ConsiderRow(j) PROVE Matched'
  <2>1. CASE SkipBusy(j) \/ PickRow(j) \/ GiveUp(j)
    <3>1. /\ sched'.rows \subseteq sched.rows
          /\ sched'.rows # {} => sched'.lane = sched.lane /\ sched'.promised = sched.promised
      BY <1>t, <2>1 DEF SkipBusy, PickRow, GiveUp, Onward, Idle, SchedStates
    <3>2. spec' = spec /\ row' = row /\ preempted' = preempted
      BY <2>1 DEF SkipBusy, PickRow, GiveUp, flags
    <3>3. CASE sched'.rows # {}
      BY <1>k, <3>1, <3>2, <3>3
    <3> QED
      BY <1>e, <3>3
  <2>2. CASE PromiseSlot(j)
    <3>1. SUFFICES ASSUME sched'.rows # {} PROVE \E D : Behind(D)'
      BY DEF Matched
    <3>2. /\ sched'.rows = sched.rows \ {j} /\ sched'.lane = sched.lane
          /\ sched'.promised = sched.promised - 1 /\ sched.promised > 0
      BY <1>t, <2>2, <3>1 DEF PromiseSlot, Onward, Idle, SchedStates
    <3>3. PICK D : Behind(D)
      BY <3>1, <3>2 DEF Matched
    <3>4. UNCHANGED <<spec, row, preempted>> /\ Row(j)
      BY <2>2 DEF PromiseSlot, flags
    <3>5. InLane(preempted, sched.lane) \subseteq Jobs
      BY <1>p DEF InLane
    <3>6. Cardinality(InLane(preempted, sched.lane)) \in Nat
      BY <3>5, JobSetsFinite
    <3>7. InLane(preempted, sched.lane)' = InLane(preempted, sched.lane)
      BY <3>2, <3>4 DEF InLane, Lane, Kind
    <3>8. Cardinality(InLane(preempted, sched.lane))' = Cardinality(InLane(preempted, sched.lane))
      BY <3>7
    <3>9. sched.promised \in Nat /\ sched'.promised \in Nat
      BY <1>t, <3>2 DEF SchedStates
    <3>10. Behind(D \cup {j})'
      BY <3>2, <3>3, <3>4, <3>6, <3>8, <3>9, BehindGrows
    <3> QED
      BY <3>10
  <2>3. ASSUME NEW v \in Jobs, Interrupt(j, v) PROVE Matched'
    <3>1. SUFFICES ASSUME sched'.rows # {} PROVE \E D : Behind(D)'
      BY DEF Matched
    <3>2. /\ sched'.rows = sched.rows \ {j} /\ sched'.lane = sched.lane
          /\ sched'.promised = sched.promised
      BY <1>t, <2>3, <3>1 DEF Interrupt, Onward, Idle, SchedStates
    <3>3. PICK D : Behind(D)
      BY <3>1, <3>2 DEF Matched
    <3>4. UNCHANGED <<spec, row>> /\ Row(j)
      BY <2>3 DEF Interrupt
    <3>5. InLane(preempted, sched.lane)' = InLane(preempted', sched.lane)
      BY <3>2, <3>4 DEF InLane, Lane, Kind
    <3>6. /\ Cardinality(InLane(preempted, sched.lane)) \in Nat
          /\ Cardinality(InLane(preempted, sched.lane))'
               = Cardinality(InLane(preempted, sched.lane)) + 1
      BY <2>3, <3>5, OneInterrupted
    <3>7. sched.promised \in Nat /\ sched'.promised \in Nat
      BY <1>t, <3>2 DEF SchedStates
    <3>8. Behind(D \cup {j})'
      BY <3>2, <3>3, <3>4, <3>6, <3>7, BehindGrows
    <3> QED
      BY <3>8
  <2> QED
    BY <1>9, <2>1, <2>2, <2>3 DEF ConsiderRow
<1>10. ASSUME NEW j \in Jobs, StartJob(j) PROVE Matched'
  <2>1. sched'.rows = {}
    BY <1>10, <1>t DEF StartJob, Onward, Idle, SchedStates
  <2> QED
    BY <1>e, <2>1
<1>11. CASE Serve \/ Shutdown
  BY <1>11, <1>k DEF Serve, Shutdown, flags
<1>12. CASE Recover
  <2>1. sched'.rows = {}
    BY <1>12, IdleShape DEF Recover, QueueInv, PassInv
  <2> QED
    BY <1>e, <2>1
<1>13. CASE Exit \/ Crash
  BY <1>13, <1>e DEF Exit, Crash, Forget, Idle
<1> QED
  BY <1>1, <1>2, <1>3, <1>4, <1>5, <1>6, <1>7, <1>8, <1>9, <1>10, <1>11, <1>12, <1>13
     DEF Next, Schedule

\* When a run is interrupted, the rows behind the pass and the row it looks at are as many as the
\* lane's interrupted runs, and all of them come before it.
LEMMA InterruptMatched ==
  ASSUME QueueInv, InHand, Matched, NEW j \in Jobs, NEW v \in Jobs, Interrupt(j, v)
  PROVE  Cardinality(InLane(preempted', Lane(v)))
           <= Cardinality({k \in Jobs : /\ row[k] \in {"queued", "cancelled"}
                                        /\ Lane(k) = Lane(v) /\ Priority(k) > Priority(v)})
<1> DEFINE waiting == {k \in Jobs : /\ row[k] \in {"queued", "cancelled"}
                                    /\ Lane(k) = Lane(v) /\ Priority(k) > Priority(v)}
<1>1. j \in sched.rows /\ sched.promised = 0 /\ Priority(v) < Priority(j)
  BY DEF Interrupt, Row, IsFirst
<1>2. PICK D : Behind(D)
  BY <1>1 DEF Matched
<1>3. D \subseteq Jobs /\ j \notin D
  BY <1>1, <1>2 DEF Behind
<1>4. \A k \in Jobs : Priority(k) \in Int
  BY QueueConstants DEF QueueInv, TypeOK, Priority
<1>5. ASSUME NEW d \in D PROVE d \in waiting
  <2>1. d \in Jobs /\ row[d] \in {"queued", "cancelled"} /\ Lane(d) = sched.lane /\ Before(d, j)
    BY <1>1, <1>2, <1>3 DEF Behind
  <2>2. Priority(d) > Priority(v)
    BY <1>1, <1>4, <2>1 DEF Before
  <2> QED
    BY <2>1, <2>2, OneInterrupted
<1>6. j \in waiting
  BY <1>1, OneInterrupted DEF InHand, QueueInv, PassInv
<1>7. D \cup {j} \subseteq waiting
  BY <1>5, <1>6
<1>8. IsFiniteSet(D) /\ Cardinality(D) \in Nat /\ IsFiniteSet(waiting) /\ Cardinality(waiting) \in Nat
  BY <1>3, JobSetsFinite
<1>9. Cardinality(D \cup {j}) = Cardinality(D) + 1
  BY <1>3, <1>8, FS_AddElement
<1>10. Cardinality(D \cup {j}) <= Cardinality(waiting)
  BY <1>7, <1>8, FS_Subset
<1>11. Cardinality(InLane(preempted', Lane(v))) = Cardinality(D) + 1
  BY <1>1, <1>2, <1>8, OneInterrupted DEF Behind
<1> QED
  BY <1>9, <1>10, <1>11

\* Runs are interrupted one for one, over every pass: a lane never has more interrupted runs than
\* higher jobs waiting when it interrupts another.
THEOREM InterruptsMatchWaitersHolds == Spec => InterruptsMatchWaiters
<1> DEFINE OneForOne ==
      \A v \in preempted' \ preempted :
        LET gone == InLane(preempted', Lane(v))
            waiting == {j \in Jobs : /\ row[j] \in {"queued", "cancelled"}
                                     /\ Lane(j) = Lane(v) /\ Priority(j) > Priority(v)}
        IN Cardinality(gone) <= Cardinality(waiting)
<1>1. Init => Matched
  BY DEF Init, Matched, Idle
<1>2. QueueInv /\ InHand /\ Matched /\ [Next]_vars => Matched'
  BY MatchStep
<1>3. QueueInv /\ InHand /\ Matched /\ [Next]_vars => [OneForOne]_vars
  <2> SUFFICES ASSUME QueueInv, InHand, Matched, Next, NEW v \in preempted' \ preempted
               PROVE  Cardinality(InLane(preempted', Lane(v)))
                        <= Cardinality({k \in Jobs : /\ row[k] \in {"queued", "cancelled"}
                                          /\ Lane(k) = Lane(v) /\ Priority(k) > Priority(v)})
    BY DEF vars
  <2>1. PICK j \in Jobs, u \in Jobs : Interrupt(j, u)
    BY DEF Next, Enqueue, Retry, Settle, Record, StopStep, StopLock, StopUpdate,
           StopSelect, Pause, PauseReturn, Resume, Schedule, ScheduleBegin,
           VisitLane, ConsiderRow, SkipBusy, PickRow, PromiseSlot, GiveUp,
           StartJob, ScheduleAbort, Serve, Recover, Shutdown, Exit, Crash, Forget, flags
  <2>2. v = u
    BY <2>1 DEF Interrupt
  <2> QED
    BY <2>1, <2>2, InterruptMatched
<1> QED
  BY <1>1, <1>2, <1>3, QueueInvariant, HandInvariant, PTL DEF Spec, InterruptsMatchWaiters
=============================================================================
