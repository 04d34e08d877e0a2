----------------------- MODULE JobQueueContractProofs -----------------------
(***************************************************************************)
(* JobQueue implements QueueContract, for every set of jobs, lanes,        *)
(* limits, specs, stoppers and resetters, with and without failing         *)
(* statements: every step of the code is one of the contract, or none.     *)
(***************************************************************************)
EXTENDS JobQueueContract, JobQueueProofs

\* What the contract sees.
St == [j \in Jobs |-> Status(j)]
Pl == [j \in Jobs |-> [lane |-> Lane(j), key |-> Key(j)]]

\* The status of a job, told by its goroutine, the pass and its row in turn.
StatusRead(j) ==
  Status(j) = IF j \in Holders THEN "working"
              ELSE IF run[j] # "none" THEN "leaving"
              ELSE IF j \in sched.rows \/ row[j] \in {"queued", "running"} THEN "waiting"
              ELSE row[j]

LEMMA StatusIs == QueueInv => \A j \in Jobs : StatusRead(j)
<1> SUFFICES ASSUME QueueInv, NEW j \in Jobs PROVE StatusRead(j)
  OBVIOUS
<1>1. /\ j \in Handling <=> run[j] = "handling"
      /\ j \in sched.next => run[j] = "none"
  BY DEF Handling, QueueInv, PassInv
<1> QED
  BY <1>1 DEF StatusRead, Status, Holders

LEMMA StatusIsNext == QueueInv' => (\A j \in Jobs : StatusRead(j))'
BY StatusIs, PTL

-----------------------------------------------------------------------------
(* Steps of the code are steps of the contract.                            *)

\* One job moves.
LEMMA OneMoves ==
  ASSUME NEW j \in Jobs, NEW s, Status(j)' = s, \A k \in Jobs \ {j} : Status(k)' = Status(k)
  PROVE  St' = [St EXCEPT ![j] = s] /\ St[j] = Status(j)
BY DEF St

\* The table keeps where a job was put.
LEMMA PlacesKept == spec' = spec => Pl' = Pl
BY DEF Pl, Lane, Kind, Key

\* Nothing moves, as the contract sees it.
LEMMA NoneMoves ==
  ASSUME spec' = spec, \A j \in Jobs : Status(j)' = Status(j)
  PROVE  UNCHANGED Contract!cvars
BY PlacesKept DEF Contract!cvars, St, Pl

\* What a pass, a Stop or the end of the process takes back.
LEMMA Unwound ==
  ASSUME QueueInv, QueueInv', spec' = spec,
         \A j \in Jobs : \/ Status(j)' = Status(j)
                         \/ /\ Status(j) \in {"waiting", "working", "leaving"}
                            /\ Status(j)' \in {"waiting", "cancelled"}
  PROVE  Contract!Unwind
<1>1. \A j \in Jobs : Status(j)' \in {"none", "waiting", "working", "leaving", "done", "failed",
                                      "cancelled"}
  <2> SUFFICES ASSUME NEW j \in Jobs
               PROVE  Status(j)' \in {"none", "waiting", "working", "leaving", "done", "failed",
                                      "cancelled"}
    OBVIOUS
  <2>1. StatusRead(j)' /\ row'[j] \in RowStates
    BY StatusIsNext DEF QueueInv, TypeOK
  <2> QED
    BY <2>1 DEF StatusRead, RowStates
<1> QED
  BY <1>1, PlacesKept DEF Contract!Unwind, Pl

LEMMA ContractInit == Init => Contract!CInit
<1> SUFFICES ASSUME Init PROVE Contract!CInit
  OBVIOUS
<1>1. QueueInv
  BY QueueInit
<1>2. \A j \in Jobs : Status(j) \in {"none", "waiting"}
  <2> SUFFICES ASSUME NEW j \in Jobs PROVE Status(j) \in {"none", "waiting"}
    OBVIOUS
  <2>1. StatusRead(j)
    BY <1>1, StatusIs
  <2>2. row[j] \in {"none", "queued", "running"} /\ run[j] = "none" /\ j \notin Holders /\ j \notin sched.rows
    BY DEF Init, Idle, Holders, Handling
  <2> QED
    BY <2>1, <2>2 DEF StatusRead
<1>3. \A j \in Jobs : Lane(j) \in Lanes /\ Key(j) \in Keys \cup {NoKey}
  BY <1>1, QueueConstants DEF QueueInv, TypeOK, Lane, Kind, Key
<1> QED
  BY <1>2, <1>3 DEF Contract!CInit

LEMMA ContractStep ==
  QueueInv /\ SlotInv /\ InHand /\ [Next]_vars => [Contract!CNext]_(Contract!cvars)
<1> SUFFICES ASSUME QueueInv, SlotInv, InHand, [Next]_vars
             PROVE  Contract!CNext \/ UNCHANGED Contract!cvars
  OBVIOUS
<1>q. QueueInv'
  BY QueueStep
<1>t. TypeOK /\ sched \in SchedStates /\ sched.rows \cup sched.next \subseteq Jobs
  BY DEF QueueInv, TypeOK, SchedStates
<1>s. \A j \in Jobs : StatusRead(j) /\ StatusRead(j)'
  BY <1>q, StatusIs, StatusIsNext
<1>p. \A j \in sched.rows \cup sched.next : run[j] = "none" /\ row[j] \in {"queued", "cancelled"}
  BY DEF QueueInv, PassInv, InHand
\* Neither the table nor a goroutine moves, and no pick is made.
<1>d. ASSUME UNCHANGED <<spec, row, run>>, sched'.rows \subseteq sched.rows, sched'.next \subseteq sched.next
      PROVE  Contract!CNext
  <2> SUFFICES ASSUME NEW j \in Jobs
               PROVE  \/ Status(j)' = Status(j)
                      \/ /\ Status(j) \in {"waiting", "working", "leaving"}
                         /\ Status(j)' \in {"waiting", "cancelled"}
    BY <1>d, <1>q, Unwound DEF Contract!CNext
  <2>1. (j \in Handling)' = (j \in Handling)
    BY <1>d DEF Handling
  <2>2. CASE j \in sched.rows \cup sched.next
    <3>1. run[j] = "none" /\ row[j] \in {"queued", "cancelled"} /\ j \notin Handling
      BY <1>p, <2>2 DEF Handling
    <3> QED
      BY <1>d, <1>s, <2>1, <2>2, <3>1 DEF StatusRead, Holders
  <2>3. CASE j \notin sched.rows \cup sched.next
    BY <1>d, <1>s, <2>1, <2>3 DEF StatusRead, Holders
  <2> QED
    BY <2>2, <2>3
\* Nothing moves at all.
<1>k. ASSUME UNCHANGED <<spec, row, run>>, sched'.rows = sched.rows, sched'.next = sched.next
      PROVE  UNCHANGED Contract!cvars
  <2>1. \A j \in Jobs : Status(j)' = Status(j)
    BY <1>k, <1>s DEF StatusRead, Holders, Handling
  <2> QED
    BY <1>k, <2>1, NoneMoves
<1>1. CASE UNCHANGED vars
  BY <1>1, <1>k DEF vars
<1>2. ASSUME NEW j \in Jobs, NEW s \in Specs, Enqueue(j, s) PROVE Contract!CNext
  <2>1. row[j] = "none" /\ run[j] = "none" /\ j \notin sched.rows \cup sched.next
    <3>1. row[j] = "none"
      BY <1>2, QueueConstants DEF Enqueue
    <3> QED
      BY <3>1 DEF QueueInv, PassInv, RowsMatchRuns
  <2>2. UNCHANGED <<run, sched>> /\ row' = [row EXCEPT ![j] = "queued"] /\ spec' = [spec EXCEPT ![j] = s]
    BY <1>2 DEF Enqueue
  <2>3. Status(j) = "none" /\ Status(j)' = "waiting"
    BY <1>s, <1>t, <2>1, <2>2 DEF StatusRead, Holders, Handling, TypeOK
  <2>4. \A k \in Jobs \ {j} : Status(k)' = Status(k)
    BY <1>s, <1>t, <2>2 DEF StatusRead, Holders, Handling, TypeOK
  <2>5. St' = [St EXCEPT ![j] = "waiting"] /\ St[j] = "none"
    BY <2>3, <2>4, OneMoves
  <2>6. LaneOf[s.kind] \in Lanes /\ s.key \in Keys \cup {NoKey}
    BY QueueConstants
  <2>7. Pl' = [Pl EXCEPT ![j] = [lane |-> LaneOf[s.kind], key |-> s.key]]
    BY <1>t, <2>2 DEF Pl, Lane, Kind, Key, TypeOK
  <2>8. Contract!Submit(j)
    BY <2>5, <2>6, <2>7 DEF Contract!Submit, St, Pl
  <2> QED
    BY <2>8 DEF Contract!CNext
<1>3. ASSUME NEW j \in Jobs, Retry(j) PROVE Contract!CNext \/ UNCHANGED Contract!cvars
  <2>1. UNCHANGED <<spec, run, sched>> /\ row' = [row EXCEPT ![j] = "queued"] /\ row[j] \in {"failed", "cancelled"}
    BY <1>3 DEF Retry, Retryable
  <2>2. \A k \in Jobs \ {j} : Status(k)' = Status(k)
    BY <1>s, <1>t, <2>1 DEF StatusRead, Holders, Handling, TypeOK
  <2>3. run[j] = "none" /\ row'[j] = "queued" /\ Holders' = Holders
    BY <1>t, <2>1 DEF QueueInv, RowsMatchRuns, TypeOK, Holders, Handling
  <2>4. CASE j \in Holders \cup sched.rows
    <3>1. Status(j)' = Status(j)
      BY <1>s, <2>1, <2>3, <2>4 DEF StatusRead
    <3> QED
      BY <2>1, <2>2, <3>1, NoneMoves
  <2>5. CASE j \notin Holders \cup sched.rows
    <3>1. Status(j) \in {"failed", "cancelled"} /\ Status(j)' = "waiting"
      BY <1>s, <2>1, <2>3, <2>5 DEF StatusRead
    <3>2. St' = [St EXCEPT ![j] = "waiting"] /\ St[j] \in {"failed", "cancelled"} /\ Pl' = Pl
      BY <2>1, <2>2, <3>1, OneMoves, PlacesKept
    <3>3. Contract!Again(j)
      BY <3>2 DEF Contract!Again, St, Pl
    <3> QED
      BY <3>3 DEF Contract!CNext
  <2> QED
    BY <2>4, <2>5
<1>4. ASSUME NEW j \in Jobs, NEW err \in BOOLEAN, Settle(j, err) PROVE Contract!CNext
  <2>1. /\ UNCHANGED <<spec, row, sched>> /\ run[j] = "handling" /\ sched.next = {} /\ sched.rows = {}
        /\ run'[j] \notin {"none", "handling"} /\ \A k \in Jobs \ {j} : run'[k] = run[k]
    BY <1>4, <1>t, IdleShape DEF Settle, TypeOK
  <2>2. Status(j) = "working" /\ Status(j)' = "leaving" /\ \A k \in Jobs \ {j} : Status(k)' = Status(k)
    BY <1>s, <2>1 DEF StatusRead, Holders, Handling
  <2>3. St' = [St EXCEPT ![j] = "leaving"] /\ St[j] = "working" /\ Pl' = Pl
    BY <2>1, <2>2, OneMoves, PlacesKept
  <2>4. Contract!Return(j)
    BY <2>3 DEF Contract!Return, St, Pl
  <2> QED
    BY <2>4 DEF Contract!CNext
<1>5. ASSUME NEW j \in Jobs, Record(j) PROVE Contract!CNext
  <2>1. /\ UNCHANGED <<spec, sched>> /\ run[j] \notin {"none", "handling"} /\ run'[j] = "none"
        /\ \A k \in Jobs \ {j} : run'[k] = run[k] /\ row'[k] = row[k]
        /\ row'[j] = Verdict(j) \/ row'[j] = row[j]
    BY <1>5, <1>t DEF Record, TypeOK
  <2>2. row[j] = "running" /\ Verdict(j) \in {"queued", "done", "failed", "cancelled"}
    BY <1>t, <2>1 DEF QueueInv, RowsMatchRuns, Verdict, TypeOK, RunStates
  <2>3. j \notin sched.rows \cup sched.next
    BY <1>p, <2>1
  <2>4. Status(j) = "leaving" /\ \A k \in Jobs \ {j} : Status(k)' = Status(k)
    BY <1>s, <2>1, <2>3 DEF StatusRead, Holders, Handling
  <2>5. Status(j)' \in {"waiting", "done", "failed", "cancelled"}
    BY <1>s, <2>1, <2>2, <2>3 DEF StatusRead, Holders, Handling
  <2>6. PICK s \in {"waiting", "done", "failed", "cancelled"} : Status(j)' = s
    BY <2>5
  <2>7. St' = [St EXCEPT ![j] = s] /\ St[j] = "leaving" /\ Pl' = Pl
    BY <2>1, <2>4, <2>6, OneMoves, PlacesKept
  <2>8. Contract!End(j)
    BY <2>7 DEF Contract!End, St, Pl
  <2> QED
    BY <2>8 DEF Contract!CNext
<1>6. ASSUME NEW c \in Stoppers, StopUpdate(c) PROVE Contract!CNext
  <2>1. /\ UNCHANGED <<spec, run, sched>>
        /\ \A k \in Jobs : row'[k] = row[k] \/ (row[k] = "queued" /\ row'[k] = "cancelled")
    BY <1>6, <1>t DEF StopUpdate, TypeOK
  <2>2. ASSUME NEW k \in Jobs
        PROVE  Status(k)' = Status(k) \/ (Status(k) = "waiting" /\ Status(k)' = "cancelled")
    <3>1. row[k] = "queued" => run[k] = "none"
      BY DEF QueueInv, RowsMatchRuns
    <3> QED
      BY <1>s, <2>1, <3>1 DEF StatusRead, Holders, Handling
  <2> QED
    BY <1>q, <2>1, <2>2, Unwound DEF Contract!CNext
<1>7. ASSUME NEW c \in Stoppers, \/ \E j \in Jobs : StopLock(c, j)
                                 \/ \E u \in Subjects : StopSelect(c, u)
      PROVE  UNCHANGED Contract!cvars
  BY <1>7, <1>k DEF StopLock, StopSelect
<1>8. ASSUME NEW r \in Resetters, Pause(r) \/ PauseReturn(r) \/ Resume(r) PROVE UNCHANGED Contract!cvars
  BY <1>8, <1>k DEF Pause, PauseReturn, Resume
<1>9. CASE ScheduleBegin
  <2>1. UNCHANGED <<spec, row, run>> /\ sched'.rows = sched.rows /\ sched'.next = sched.next
    BY <1>9, IdleShape DEF ScheduleBegin, Idle
  <2> QED
    BY <1>k, <2>1
<1>10. ASSUME NEW l \in Lanes, VisitLane(l) PROVE UNCHANGED Contract!cvars
  <2>1. /\ UNCHANGED <<spec, row, run>> /\ sched'.next = {} /\ sched.next = {} /\ sched.rows = {}
        /\ \A j \in sched'.rows : row[j] = "queued"
    BY <1>10 DEF VisitLane, Onward, Idle, QueueInv, PassInv
  <2>2. \A j \in Jobs : Status(j)' = Status(j)
    BY <1>s, <2>1 DEF StatusRead, Holders, Handling
  <2> QED
    BY <2>1, <2>2, NoneMoves
<1>11. ASSUME NEW j \in Jobs, \/ SkipBusy(j) \/ PromiseSlot(j) \/ GiveUp(j)
                              \/ \E v \in Jobs : Interrupt(j, v)
       PROVE  Contract!CNext
  <2>1. UNCHANGED <<spec, row, run>>
    BY <1>11 DEF SkipBusy, PromiseSlot, GiveUp, Interrupt
  <2>2. sched'.rows \subseteq sched.rows /\ sched'.next \subseteq sched.next
    BY <1>11, <1>t DEF SkipBusy, PromiseSlot, GiveUp, Interrupt, Onward, Idle, SchedStates
  <2> QED
    BY <1>d, <2>1, <2>2
<1>12. ASSUME NEW j \in Jobs, PickRow(j) PROVE Contract!CNext
  <2>1. /\ j \in sched.rows /\ ~Busy(j) /\ SlotFree(sched.lane) /\ UNCHANGED <<spec, row, run>>
        /\ Lane(j) = sched.lane /\ run[j] = "none"
    BY <1>12 DEF PickRow, Row, IsFirst, QueueInv, PassInv
  <2>2. sched'.rows = sched.rows \ {j} /\ sched'.next = sched.next \cup {j}
    BY <1>12, <1>t DEF PickRow, SchedStates
  <2>3. j \notin Holders
    BY <2>1 DEF InHand, Holders, Handling
  <2>4. Status(j) = "waiting" /\ Status(j)' = "working" /\ \A k \in Jobs \ {j} : Status(k)' = Status(k)
    BY <1>s, <2>1, <2>2, <2>3 DEF StatusRead, Holders, Handling
  <2>5. St' = [St EXCEPT ![j] = "working"] /\ St[j] = "waiting" /\ Pl' = Pl
    BY <2>1, <2>4, OneMoves, PlacesKept
  <2>6. \A k \in Jobs : St[k] = "working" <=> k \in Holders
    <3>1. \A k \in Jobs : run[k] # "none" => row[k] = "running"
      BY DEF QueueInv, RowsMatchRuns
    <3>2. \A k \in Jobs : row[k] # "working"
      BY <1>t DEF TypeOK, RowStates
    <3> QED
      BY <1>s, <3>2 DEF StatusRead, St
  <2>7. Holders \subseteq Jobs
    BY <1>t DEF Holders, Handling
  <2>8. {k \in {i \in Jobs : St[i] = "working"} \ {j} : Pl[k].lane = Pl[j].lane} = Slots(sched.lane)
    BY <2>1, <2>3, <2>6, <2>7 DEF Pl, Slots, InLane, Holders
  <2>9. Pl[j].key # NoKey => \A k \in Slots(sched.lane) : Pl[k].key # Pl[j].key
    <3>1. \A k \in Slots(sched.lane) : k \in Jobs
      BY <2>7 DEF Slots, InLane, Holders
    <3> QED
      BY <2>1, <3>1 DEF Busy, Pl
  <2>10. Cardinality(Slots(sched.lane)) < Limit[Pl[j].lane]
    BY <2>1 DEF SlotFree, Pl
  <2>11. Contract!HasRoom(j)
    BY <2>8, <2>9, <2>10 DEF Contract!HasRoom, Contract!Working, Contract!Cardinality, Cardinality, St, Pl
  <2>12. Contract!Begin(j)
    BY <2>5, <2>11 DEF Contract!Begin, St, Pl
  <2> QED
    BY <2>12 DEF Contract!CNext
<1>13. ASSUME NEW j \in Jobs, StartJob(j) PROVE Contract!CNext \/ UNCHANGED Contract!cvars
  <2>1. /\ j \in sched.next /\ sched.rows = {} /\ UNCHANGED spec /\ run[j] = "none"
        /\ \A k \in Jobs \ {j} : run'[k] = run[k] /\ row'[k] = row[k]
        /\ \/ run'[j] = "handling" /\ row'[j] = "running"
           \/ run'[j] = "none" /\ row'[j] = "failed"
    BY <1>13, <1>p, <1>t DEF StartJob, IsFirst, TypeOK
  <2>2. sched'.rows = {} /\ sched'.next = sched.next \ {j}
    BY <1>13, <1>t, <2>1 DEF StartJob, Onward, Idle, SchedStates
  <2>3. Status(j) = "working" /\ \A k \in Jobs \ {j} : Status(k)' = Status(k)
    BY <1>s, <2>1, <2>2 DEF StatusRead, Holders, Handling
  <2>4. CASE run'[j] = "handling"
    <3>1. Status(j)' = "working"
      BY <1>s, <2>4 DEF StatusRead, Holders, Handling
    <3> QED
      BY <2>1, <2>3, <3>1, NoneMoves
  <2>5. CASE run'[j] = "none" /\ row'[j] = "failed"
    <3>1. Status(j)' = "failed"
      BY <1>s, <2>2, <2>5 DEF StatusRead, Holders, Handling
    <3>2. St' = [St EXCEPT ![j] = "failed"] /\ St[j] = "working" /\ Pl' = Pl
      BY <2>1, <2>3, <3>1, OneMoves, PlacesKept
    <3>3. Contract!Reject(j)
      BY <3>2 DEF Contract!Reject, St, Pl
    <3> QED
      BY <3>3 DEF Contract!CNext
  <2> QED
    BY <2>1, <2>4, <2>5
<1>14. CASE ScheduleAbort
  <2>1. UNCHANGED <<spec, row, run>> /\ sched'.rows = {} /\ sched'.next = {}
    BY <1>14 DEF ScheduleAbort, Idle
  <2> QED
    BY <1>d, <2>1
<1>15. CASE Serve \/ Shutdown
  BY <1>15, <1>k DEF Serve, Shutdown
<1>16. CASE Recover
  <2>1. /\ \A j \in Jobs : run[j] = "none"
        /\ sched.rows = {} /\ sched.next = {} /\ UNCHANGED <<spec, run, sched>>
    BY <1>16, IdleShape DEF Recover, QueueInv, PassInv, NothingRuns
  <2>2. PICK old \in SUBSET {j \in Jobs : row[j] \in {"done", "cancelled"}} :
          \A j \in Jobs : row'[j] = IF j \in old THEN "none" ELSE Requeued(j)
    BY <1>16 DEF Recover
  <2>3. \A j \in Jobs : Status(j) = IF row[j] \in {"queued", "running"} THEN "waiting" ELSE row[j]
    BY <1>s, <2>1 DEF StatusRead, Holders, Handling
  <2>4. \A j \in Jobs : Status(j)' = IF row'[j] \in {"queued", "running"} THEN "waiting" ELSE row'[j]
    BY <1>s, <2>1 DEF StatusRead, Holders, Handling
  <2>5. \A j \in Jobs : Status(j)' = IF j \in old THEN "none" ELSE Status(j)
    BY <2>2, <2>3, <2>4 DEF Requeued
  <2>6. old \in SUBSET {j \in Jobs : St[j] \in {"done", "cancelled"}}
    BY <2>3 DEF St
  <2>7. St' = [j \in Jobs |-> IF j \in old THEN "none" ELSE St[j]] /\ Pl' = Pl
    BY <2>1, <2>5, PlacesKept DEF St
  <2>8. Contract!Prune
    BY <2>6, <2>7 DEF Contract!Prune, St, Pl
  <2> QED
    BY <2>8 DEF Contract!CNext
<1>17. CASE Exit \/ Crash
  <2>1. /\ UNCHANGED <<spec, row>> /\ sched'.rows = {} /\ sched'.next = {}
        /\ \A j \in Jobs : run'[j] = "none"
    BY <1>17 DEF Exit, Crash, Forget, Idle
  <2>2. ASSUME NEW j \in Jobs
        PROVE  \/ Status(j)' = Status(j)
               \/ /\ Status(j) \in {"waiting", "working", "leaving"}
                  /\ Status(j)' \in {"waiting", "cancelled"}
    <3>1. Status(j)' = IF row[j] \in {"queued", "running"} THEN "waiting" ELSE row[j]
      BY <1>s, <2>1 DEF StatusRead, Holders, Handling
    <3>2. run[j] # "none" => row[j] = "running"
      BY DEF QueueInv, RowsMatchRuns
    <3> QED
      BY <1>p, <1>s, <3>1, <3>2 DEF StatusRead, Holders, Handling
  <2> QED
    BY <1>q, <2>1, <2>2, Unwound DEF Contract!CNext
<1> QED
  BY <1>1, <1>2, <1>3, <1>4, <1>5, <1>6, <1>7, <1>8, <1>9, <1>10, <1>11, <1>12, <1>13, <1>14, <1>15,
     <1>16, <1>17 DEF Next, Schedule, ConsiderRow, StopStep

\* The queue keeps the contract: what features rely on of a job, its lane and its key holds of
\* every interleaving of passes, runs, Stops, Retries, Resets, crashes and failing statements.
THEOREM QueueKeepsContract == Spec => KeepsContract
<1>1. Spec => [][Contract!CNext]_(Contract!cvars)
  BY ContractStep, QueueInvariant, SlotInvariant, HandInvariant, PTL DEF Spec
<1> QED
  BY <1>1, ContractInit, PTL DEF Spec, KeepsContract, Contract!CSpec
=============================================================================
