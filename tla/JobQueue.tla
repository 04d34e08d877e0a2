------------------------------ MODULE JobQueue ------------------------------
(***************************************************************************)
(* The durable job queue of internal/jobs/jobs.go: the jobs table, the     *)
(* in-memory map of runs, the scheduler with its lanes, keys, priorities   *)
(* and interruptions, Stop, Retry, Pause and the recovery at start.        *)
(*                                                                         *)
(* Steps are cut where the code lets another goroutine in: at each         *)
(* statement sent to SQLite outside q.mu, and at each taking of q.mu.  The *)
(* scheduler holds q.mu for a whole pass, so nothing guarded by MuFree     *)
(* interleaves with it, while a Stop's or a settle's UPDATE may.           *)
(*                                                                         *)
(* A definition named Op_Slip is Op with a plausible slip.  Next never     *)
(* uses it: put in Op's place, it breaks the property PROJECT.json names.  *)
(***************************************************************************)
EXTENDS Integers, FiniteSets

CONSTANTS
  Jobs,        \* job ids, numbered in the order of created_at, rowid
  Lanes,       \* the lanes of main.go
  Limit,       \* Limit[l]: how many jobs of lane l run at once
  Kinds,       \* job kinds
  LaneOf,      \* LaneOf[k]: the lane kind k is registered in
  Resumable,   \* the kinds registered with q.Resumable
  Handled,     \* the kinds this build registers; a row left by another
               \* version of the program may have a kind outside it
  Subjects,    \* rows of the features that jobs work on
  Keys, NoKey, \* serialisation keys; NoKey is the empty string
  Specs,       \* the specs callers enqueue: [kind, subject, key, priority]
  Leftover,    \* jobs whose rows an earlier run may have left behind
  Stoppers,    \* goroutines that may be inside StopSubject
  Resetters,   \* goroutines that may be inside settings.Reset
  Ticks,       \* does the poll of two seconds fire?
  DbFaults,    \* may a statement fail?
  MaxTrouble,  \* bound: retries, pauses, crashes and shutdowns of a behaviour
  NoLane, NoJob

ASSUME QueueConstants ==
  /\ Jobs \subseteq Nat /\ IsFiniteSet(Jobs)
  /\ Limit \in [Lanes -> Nat]
  /\ LaneOf \in [Kinds -> Lanes]
  /\ Resumable \subseteq Kinds /\ Handled \subseteq Kinds
  /\ Specs \subseteq [kind: Kinds, subject: Subjects,
                      key: Keys \cup {NoKey}, priority: Int]
  /\ Specs # {}
  /\ Leftover \subseteq Jobs
  /\ Ticks \in BOOLEAN /\ DbFaults \in BOOLEAN
  /\ MaxTrouble \in Nat
  /\ NoLane \notin Lanes /\ NoJob \notin Jobs

VARIABLES
  spec,       \* the columns of a row Enqueue writes and nothing changes
  row,        \* the state column of each job, "none" when there is no row
  run,        \* the goroutine of each job, see RunStates
  stopped,    \* runs Stop has marked
  preempted,  \* runs interrupted for a higher priority
  ended,      \* runs whose context was cancelled while they ran
  paused,     \* q.paused
  wake,       \* is there a token in q.wake?
  sched,      \* the scheduling pass under way, Idle when q.mu is free
  proc,       \* the process: down, serving HTTP, up (queue running), closing
  stopper,    \* where each stopper is in StopSubject
  reset,      \* where each resetter is in Reset
  trouble     \* how many retries, pauses, crashes and shutdowns so far

vars == <<spec, row, run, stopped, preempted, ended, paused, wake, sched,
          proc, stopper, reset, trouble>>
flags == <<stopped, preempted, ended>>
clients == <<stopper, reset>>

(* "erred": the handler failed, and settle has not asked rootDone yet.     *)
(* "done", "cancelled", "queued": settle has dropped the run from          *)
(* q.running and its UPDATE to that state is still to come.                *)
RunStates == {"none", "handling", "erred", "done", "cancelled", "queued"}
RowStates == {"none", "queued", "running", "done", "failed", "cancelled"}

-----------------------------------------------------------------------------
(* Reading the state.                                                      *)

Kind(j) == spec[j].kind
Lane(j) == LaneOf[Kind(j)]
Key(j) == spec[j].key
Priority(j) == spec[j].priority

\* q.running
Handling == {j \in Jobs : run[j] = "handling"}

\* ORDER BY priority DESC, created_at, rowid
Before(j, k) == \/ Priority(j) > Priority(k)
                \/ Priority(j) = Priority(k) /\ j < k

IsFirst(j, S) == j \in S /\ \A k \in S \ {j} : Before(j, k)

InLane(S, l) == {j \in S : Lane(j) = l}

\* The passes of schedule: lanes left to visit, then in one lane the rows of
\* the SELECT not yet looked at, the jobs picked so far, and the slots
\* promised by interrupted runs still settling.
Idle == [left |-> {}, lane |-> NoLane, rows |-> {}, next |-> {}, promised |-> 0]

MuFree == sched = Idle

\* The lane's loop is over once no row and no pick remains.
Onward(s) == IF s.rows = {} /\ s.next = {}
               THEN [Idle EXCEPT !.left = s.left]
               ELSE s

\* Runs and picks that hold a slot of the lane: n + len(next).
Slots(l) == InLane(Handling \cup sched.next, l)

SlotFree_OffByOne(l) == Cardinality(Slots(l)) <= Limit[l]

SlotFree(l) == Cardinality(Slots(l)) < Limit[l]

Busy_ForgetsPicks(j) ==
  \/ run[j] = "handling"
  \/ Key(j) # NoKey /\ \E k \in InLane(Handling, sched.lane) : Key(k) = Key(j)

\* A busy job shares its key with a run or a pick of the lane.
Busy(j) == \/ run[j] = "handling"
           \/ Key(j) # NoKey /\ \E k \in Slots(sched.lane) : Key(k) = Key(j)

Yielding(l) == {j \in InLane(Handling, l) :
                  Kind(j) \in Resumable /\ j \notin preempted}

\* The slots of interrupted runs still settling.
Promised_None(l) == 0
Promised(l) == Cardinality(InLane(Handling \cap preempted, l))

\* lowest: on a tie the map's order decides.
Lowest(S) == {v \in S : \A u \in S : Priority(v) <= Priority(u)}

\* wg is at zero: every run has settled and written its row.
NothingRuns_Handlers == Handling = {}
NothingRuns == \A j \in Jobs : run[j] = "none"

\* The token in q.wake, of which there is at most one.
Wake_Dropped == UNCHANGED wake
Wake == wake' = TRUE

Troubled == trouble < MaxTrouble /\ trouble' = trouble + 1

-----------------------------------------------------------------------------
(* Callers of the queue.                                                   *)

\* Enqueue, in a transaction or not, taken at its commit with the Wake that
\* follows it.  Ids are created in order.
Enqueue(j, s) ==
  /\ proc # "down"
  /\ s.kind \in Handled
  /\ \A k \in Jobs : k >= j => row[k] = "none"
  /\ \A k \in Jobs : k < j => \E m \in Jobs : m >= k /\ m < j /\ row[m] # "none"
  /\ spec' = [spec EXCEPT ![j] = s]
  /\ row' = [row EXCEPT ![j] = "queued"]
  /\ Wake
  /\ UNCHANGED <<run, flags, paused, sched, proc, clients, trouble>>

Retryable_Done(j) == row[j] \in {"failed", "cancelled", "done"}
Retryable_Running(j) == row[j] \in {"failed", "cancelled", "running"}
Retryable(j) == row[j] \in {"failed", "cancelled"}

Retry(j) ==
  /\ proc # "down"
  /\ Troubled
  /\ Retryable(j)
  /\ row' = [row EXCEPT ![j] = "queued"]
  /\ Wake
  /\ UNCHANGED <<spec, run, flags, paused, sched, proc, clients>>

\* StopSubject's SELECT of the subject's unfinished jobs.
StopSelect(c, subject) ==
  LET found == {j \in Jobs : spec[j].subject = subject
                             /\ row[j] \in {"queued", "running"}}
  IN /\ proc # "down"
     /\ stopper[c] = [todo |-> {}, at |-> NoJob]
     /\ found # {}
     /\ stopper' = [stopper EXCEPT ![c].todo = found]
     /\ UNCHANGED <<spec, row, run, flags, paused, wake, sched, proc, reset,
                    trouble>>

\* Stop under q.mu: a run is marked and its context cancelled; anything else
\* is left to the UPDATE that follows the unlock.
StopLock(c, j) ==
  /\ stopper[c].at = NoJob /\ j \in stopper[c].todo
  /\ MuFree
  /\ IF run[j] = "handling"
       THEN /\ stopped' = stopped \cup {j}
            /\ ended' = ended \cup {j}
            /\ stopper' = [stopper EXCEPT ![c].todo = @ \ {j}]
       ELSE /\ stopper' = [stopper EXCEPT ![c] = [todo |-> @.todo \ {j}, at |-> j]]
            /\ UNCHANGED <<stopped, ended>>
  /\ UNCHANGED <<spec, row, run, preempted, paused, wake, sched, proc, reset,
                 trouble>>

\* Stop's UPDATE ... WHERE state = 'queued'.  A failure ends StopSubject.
StopUpdate(c) ==
  LET j == stopper[c].at
  IN /\ j # NoJob
     /\ \/ /\ row' = IF row[j] = "queued" THEN [row EXCEPT ![j] = "cancelled"]
                                          ELSE row
           /\ stopper' = [stopper EXCEPT ![c].at = NoJob]
        \/ /\ DbFaults
           /\ stopper' = [stopper EXCEPT ![c] = [todo |-> {}, at |-> NoJob]]
           /\ UNCHANGED row
     /\ UNCHANGED <<spec, run, flags, paused, wake, sched, proc, reset, trouble>>

\* Pause up to its wg.Wait.
Pause(r) ==
  /\ proc # "down" /\ reset[r] = "out" /\ MuFree
  /\ Troubled
  /\ paused' = TRUE
  /\ ended' = ended \cup Handling
  /\ reset' = [reset EXCEPT ![r] = "waiting"]
  /\ UNCHANGED <<spec, row, run, stopped, preempted, wake, sched, proc, stopper>>

\* wg.Wait is over.
PauseReturn(r) ==
  /\ reset[r] = "waiting"
  /\ NothingRuns
  /\ reset' = [reset EXCEPT ![r] = "wiping"]
  /\ UNCHANGED <<spec, row, run, flags, paused, wake, sched, proc, stopper,
                 trouble>>

Resume(r) ==
  /\ reset[r] = "wiping" /\ MuFree
  /\ paused' = FALSE
  /\ Wake
  /\ reset' = [reset EXCEPT ![r] = "out"]
  /\ UNCHANGED <<spec, row, run, flags, sched, proc, stopper, trouble>>

-----------------------------------------------------------------------------
(* The scheduler.                                                          *)

\* Run's loop reaches schedule, woken by the token or by the ticker.
ScheduleBegin ==
  /\ proc = "up" /\ MuFree
  /\ \/ wake /\ wake' = FALSE
     \/ Ticks /\ UNCHANGED wake
  /\ sched' = IF paused THEN sched ELSE [Idle EXCEPT !.left = Lanes]
  /\ UNCHANGED <<spec, row, run, flags, paused, proc, clients, trouble>>

\* A lane's counts and its SELECT of queued rows.
VisitLane(l) ==
  LET full == ~SlotFree(l) /\ Yielding(l) = {}
      rows == {j \in Jobs : row[j] = "queued" /\ Lane(j) = l}
  IN /\ sched.lane = NoLane /\ l \in sched.left
     /\ sched' = Onward(
          [left |-> sched.left \ {l}, lane |-> l,
           rows |-> IF full THEN {} ELSE rows, next |-> {},
           promised |-> Promised(l)])
     /\ UNCHANGED <<spec, row, run, flags, paused, wake, proc, clients, trouble>>

\* The next row of the SELECT, in its order.
Row(j) == IsFirst(j, sched.rows)

SkipBusy(j) ==
  /\ Row(j) /\ Busy(j)
  /\ sched' = Onward([sched EXCEPT !.rows = @ \ {j}])
  /\ UNCHANGED <<spec, row, run, flags, paused, wake, proc, clients, trouble>>

PickRow(j) ==
  /\ Row(j) /\ ~Busy(j) /\ SlotFree(sched.lane)
  /\ sched' = [sched EXCEPT !.rows = @ \ {j}, !.next = @ \cup {j}]
  /\ UNCHANGED <<spec, row, run, flags, paused, wake, proc, clients, trouble>>

PromiseSlot_Unguarded(j) ==
  /\ Row(j) /\ ~Busy(j) /\ ~SlotFree(sched.lane)
  /\ sched' = Onward([sched EXCEPT !.rows = @ \ {j}, !.promised = @ - 1])
  /\ UNCHANGED <<spec, row, run, flags, paused, wake, proc, clients, trouble>>

\* An interrupted job's slot is already this one's.
PromiseSlot(j) ==
  /\ Row(j) /\ ~Busy(j) /\ ~SlotFree(sched.lane) /\ sched.promised > 0
  /\ sched' = Onward([sched EXCEPT !.rows = @ \ {j}, !.promised = @ - 1])
  /\ UNCHANGED <<spec, row, run, flags, paused, wake, proc, clients, trouble>>

\* The lowest resumable run gives way to a strictly higher job.
Interrupt(j, v) ==
  /\ Row(j) /\ ~Busy(j) /\ ~SlotFree(sched.lane) /\ sched.promised = 0
  /\ v \in Lowest(Yielding(sched.lane))
  /\ Priority(v) < Priority(j)
  /\ preempted' = preempted \cup {v}
  /\ ended' = ended \cup {v}
  /\ sched' = Onward([sched EXCEPT !.rows = @ \ {j}])
  /\ UNCHANGED <<spec, row, run, stopped, paused, wake, proc, clients, trouble>>

\* The queue runs highest first: once a job can take no slot, none after it can.
GiveUp(j) ==
  /\ Row(j) /\ ~Busy(j) /\ ~SlotFree(sched.lane) /\ sched.promised = 0
  /\ \A v \in Yielding(sched.lane) : Priority(v) >= Priority(j)
  /\ sched' = Onward([sched EXCEPT !.rows = {}])
  /\ UNCHANGED <<spec, row, run, flags, paused, wake, proc, clients, trouble>>

\* start, which writes the row whatever its state has become since the SELECT.
StartJob(j) ==
  /\ sched.rows = {} /\ IsFirst(j, sched.next)
  /\ proc = "up"
  /\ IF Kind(j) \in Handled
       THEN /\ row' = [row EXCEPT ![j] = "running"]
            /\ run' = [run EXCEPT ![j] = "handling"]
       ELSE /\ row' = [row EXCEPT ![j] = "failed"]
            /\ UNCHANGED run
  /\ sched' = Onward([sched EXCEPT !.next = @ \ {j}])
  /\ UNCHANGED <<spec, flags, paused, wake, proc, clients, trouble>>

\* A statement failed, or the root context is done: the pass ends there.
ScheduleAbort ==
  /\ ~MuFree
  /\ DbFaults \/ proc = "closing"
  /\ sched' = Idle
  /\ UNCHANGED <<spec, row, run, flags, paused, wake, proc, clients, trouble>>

-----------------------------------------------------------------------------
(* A run's end.                                                            *)

\* Paused or interrupted: it runs again later.
Again_NotPaused(j) == j \in preempted
Again(j) == paused \/ j \in preempted

\* The handler returned or panicked (err), and settle's section under q.mu.
Settle(j, err) ==
  /\ run[j] = "handling" /\ MuFree
  /\ run' = [run EXCEPT ![j] =
       IF j \in stopped THEN "cancelled"
       ELSE IF ~err THEN "done"
       ELSE IF Again(j) THEN "queued"
       ELSE "erred"]
  /\ stopped' = stopped \ {j} /\ preempted' = preempted \ {j}
  /\ UNCHANGED <<spec, row, ended, paused, wake, sched, proc, clients, trouble>>

\* The state settle writes; rootDone is asked only of a failure.
Verdict(j) == CASE run[j] # "erred" -> run[j]
                [] run[j] = "erred" /\ proc = "closing" -> "queued"
                [] OTHER -> "failed"

\* settle's UPDATE, its Wake, and wg.Done.
Record(j) ==
  /\ run[j] \notin {"none", "handling"}
  /\ run[j] = "erred" => MuFree
  /\ \/ row' = [row EXCEPT ![j] = Verdict(j)]
     \/ DbFaults /\ UNCHANGED row
  /\ run' = [run EXCEPT ![j] = "none"]
  /\ ended' = ended \ {j}
  /\ Wake
  /\ UNCHANGED <<spec, stopped, preempted, paused, sched, proc, clients, trouble>>

-----------------------------------------------------------------------------
(* The process.                                                            *)

\* The port is taken, New has made an empty queue and the server answers.
Serve ==
  /\ proc = "down"
  /\ proc' = "serving"
  /\ UNCHANGED <<spec, row, run, flags, paused, wake, sched, clients, trouble>>

Requeued(j) == IF row[j] = "running" THEN "queued" ELSE row[j]

\* Run: what a crash left running is queued, old history goes, and the first
\* pass of schedule follows (here: it finds the token).
Recover ==
  /\ proc = "serving"
  /\ \E old \in SUBSET {j \in Jobs : row[j] \in {"done", "cancelled"}} :
       row' = [j \in Jobs |-> IF j \in old THEN "none"
                              ELSE Requeued(j)]
  /\ proc' = "up"
  /\ Wake
  /\ UNCHANGED <<spec, run, flags, paused, sched, clients, trouble>>

\* SIGTERM ends the root context, and with it the context of every run.
Shutdown ==
  /\ proc \in {"serving", "up"}
  /\ Troubled
  /\ proc' = "closing"
  /\ ended' = ended \cup Handling
  /\ UNCHANGED <<spec, row, run, stopped, preempted, paused, wake, sched, clients>>

Forget ==
  /\ proc' = "down"
  /\ run' = [j \in Jobs |-> "none"]
  /\ stopped' = {} /\ preempted' = {} /\ ended' = {}
  /\ paused' = FALSE /\ wake' = FALSE /\ sched' = Idle
  /\ stopper' = [c \in Stoppers |-> [todo |-> {}, at |-> NoJob]]
  /\ reset' = [r \in Resetters |-> "out"]
  /\ UNCHANGED <<spec, row>>

\* Run returned: its wg.Wait saw every run settle.
Exit ==
  /\ proc = "closing" /\ MuFree
  /\ NothingRuns
  /\ Forget
  /\ UNCHANGED trouble

\* The process dies, or main's wait of 30 seconds for the queue runs out.
Crash == proc # "down" /\ Troubled /\ Forget

-----------------------------------------------------------------------------
Init ==
  /\ \E kept \in SUBSET Leftover :
       /\ spec \in {f \in [Jobs -> Specs] :
                      \A j \in Jobs \ kept : f[j] = CHOOSE s \in Specs : TRUE}
       /\ row \in {f \in [Jobs -> {"none", "queued", "running"}] :
                      \A j \in Jobs : f[j] = "none" <=> j \notin kept}
  /\ run = [j \in Jobs |-> "none"]
  /\ stopped = {} /\ preempted = {} /\ ended = {}
  /\ paused = FALSE /\ wake = FALSE /\ sched = Idle
  /\ proc = "down"
  /\ stopper = [c \in Stoppers |-> [todo |-> {}, at |-> NoJob]]
  /\ reset = [r \in Resetters |-> "out"]
  /\ trouble = 0

ConsiderRow(j) == \/ SkipBusy(j) \/ PickRow(j) \/ PromiseSlot(j) \/ GiveUp(j)
                  \/ \E v \in Jobs : Interrupt(j, v)

Schedule == \/ ScheduleBegin
            \/ \E l \in Lanes : VisitLane(l)
            \/ \E j \in Jobs : ConsiderRow(j) \/ StartJob(j)
            \/ ScheduleAbort

StopStep(c) == (\E j \in Jobs : StopLock(c, j)) \/ StopUpdate(c)

Next ==
  \/ \E j \in Jobs : \/ \E s \in Specs : Enqueue(j, s)
                     \/ Retry(j)
                     \/ \E err \in BOOLEAN : Settle(j, err)
                     \/ Record(j)
  \/ \E c \in Stoppers : StopStep(c) \/ \E s \in Subjects : StopSelect(c, s)
  \/ \E r \in Resetters : Pause(r) \/ PauseReturn(r) \/ Resume(r)
  \/ Schedule
  \/ Serve \/ Recover \/ Shutdown \/ Exit \/ Crash

Spec == Init /\ [][Next]_vars

(***************************************************************************)
(* Fairness.  Go runs every runnable goroutine, and its mutex hands the    *)
(* lock to a waiter of more than a millisecond, so a step that needs only  *)
(* q.mu happens: strong fairness, since passes of the scheduler may take   *)
(* q.mu between any two of its chances.  A handler returns: its rounds,    *)
(* pages and calls are bounded and its client has a deadline.  Nobody has  *)
(* to enqueue, retry, stop, pause, shut down or crash; but Reset resumes   *)
(* by a defer, StopSubject runs to its end, and a closing process exits.   *)
(***************************************************************************)
Fairness ==
  /\ WF_vars(Serve) /\ WF_vars(Recover) /\ WF_vars(Exit)
  /\ WF_vars(Schedule)
  /\ \A j \in Jobs : SF_vars(\E err \in BOOLEAN : Settle(j, err))
                     /\ SF_vars(Record(j))
  /\ \A c \in Stoppers : SF_vars(StopStep(c))
  /\ \A r \in Resetters : WF_vars(PauseReturn(r)) /\ SF_vars(Resume(r))

FairSpec == Spec /\ Fairness

-----------------------------------------------------------------------------
(* Properties.                                                             *)

SchedStates == [left: SUBSET Lanes, lane: Lanes \cup {NoLane},
                rows: SUBSET Jobs, next: SUBSET Jobs, promised: Nat]

\* Every variable has its type.
TypeOK ==
  /\ spec \in [Jobs -> Specs]
  /\ row \in [Jobs -> RowStates]
  /\ run \in [Jobs -> RunStates]
  /\ stopped \subseteq Handling /\ preempted \subseteq Handling
  /\ ended \subseteq Jobs
  /\ paused \in BOOLEAN /\ wake \in BOOLEAN
  /\ sched \in SchedStates
  /\ proc \in {"down", "serving", "up", "closing"}
  /\ stopper \in [Stoppers -> [todo: SUBSET Jobs, at: Jobs \cup {NoJob}]]
  /\ reset \in [Resetters -> {"out", "waiting", "wiping"}]
  /\ trouble \in Nat

\* The table and the goroutines agree: whatever has a goroutine, from start to
\* the UPDATE of settle, is "running" in its row, so it can't be queued, retried
\* or started a second time; and while the queue is up a row says "running" only
\* if a goroutine answers for it, so no job is forgotten there.  (A settle whose
\* UPDATE fails leaves its row to the next start: settle only logs it.)
RowsMatchRuns ==
  \A j \in Jobs : /\ run[j] # "none" => row[j] = "running"
                  /\ proc = "up" /\ ~DbFaults /\ row[j] = "running" => run[j] # "none"

\* A lane never runs more jobs than its limit, the picks of a pass under way
\* and the runs interrupted but not yet settled included.
LaneLimit == \A l \in Lanes : Cardinality(Slots(l)) <= Limit[l]

\* README: "Jobs sharing a key never run together" (within their lane, which
\* is where the scheduler looks for busy keys).
KeyExclusive ==
  \A j, k \in Handling \cup sched.next :
    j # k /\ Lane(j) = Lane(k) /\ Key(j) # NoKey => Key(j) # Key(k)

\* "It returns once nothing runs. Reset uses it to wipe safely": between
\* Pause's return and Resume no goroutine of the queue runs or writes.
WipeAlone ==
  \A r \in Resetters : reset[r] = "wiping" =>
    sched = Idle /\ \A j \in Jobs : run[j] = "none"

\* "Shutdown and Pause put running jobs back to queued", and an interrupted
\* run "settles back to queued": a run whose context the queue itself
\* cancelled is never recorded as failed, however its handler ends.
InterruptedNeverFails ==
  [][\A j \in ended : run[j] # "none" /\ run'[j] = "none" /\ proc' # "down"
        => row'[j] # "failed"]_vars

\* Runs are interrupted one for one: when a run is interrupted, its lane holds
\* at least as many higher jobs waiting as it has interrupted runs not yet
\* settled, however many passes have asked them.  (A Stop may have cancelled
\* some of those jobs since the pass read them.)
InterruptsMatchWaiters ==
  [][\A v \in preempted' \ preempted :
       LET gone == InLane(preempted', Lane(v))
           waiting == {j \in Jobs : /\ row[j] \in {"queued", "cancelled"}
                                    /\ Lane(j) = Lane(v) /\ Priority(j) > Priority(v)}
       IN Cardinality(gone) <= Cardinality(waiting)]_vars

\* "Stop ends a job: a queued one is cancelled on the spot, a running one has
\* its context cancelled": when Stop returns, its job has ended or is marked.
StopTakesEffect ==
  [][\A c \in Stoppers :
       LET j == stopper[c].at
       IN j # NoJob /\ stopper'[c].at = NoJob /\ proc' # "down"
          => j \in stopped' \/ row'[j] \notin {"queued", "running"}]_vars

\* Once a job is in the table it ends, whatever is interrupted, paused,
\* crashed or shut down meanwhile (MaxTrouble times).
EveryJobEnds ==
  \A j \in Jobs : row[j] = "queued" ~> row[j] \in {"done", "failed", "cancelled"}

=============================================================================
