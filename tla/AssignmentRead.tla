---------------------------- MODULE AssignmentRead ----------------------------
(***************************************************************************)
(* An assignment being read in the background: the row that waits for its  *)
(* review and the jobs that read it.  What it was read from, what the      *)
(* model makes of it and the import that follows are data; a file is kept  *)
(* in the row, an address or a pasted text stays there in any case.        *)
(* Bounds: Readers (a retry meets the job before it on its way out),       *)
(* MaxMishaps.                                                             *)
(***************************************************************************)
EXTENDS Integers

CONSTANTS
  Readers,   \* ids of jobs
  MaxMishaps \* bound: failures, interruptions, crashes, hung-up requests

VARIABLES
  read,      \* the row of assignment_reads
  reader,    \* the jobs, and the run of each
  dismissal, \* a DismissRead under way
  stranded,  \* its job failed on a fault before it had settled the read
  rerun,     \* a job was run again that had settled its read, or was stopped
  broken,    \* a dismissal died after it had stopped the jobs
  mishaps

vars == <<read, reader, dismissal, stranded, rerun, broken, mishaps>>

NoJob == [at |-> "none", whole |-> FALSE, good |-> FALSE, stopped |-> FALSE]
Queued == [NoJob EXCEPT !.at = "waiting"]

Pending == {j \in Readers : reader[j].at \in {"waiting", "asking", "settling"}}
Mishap == mishaps < MaxMishaps /\ mishaps' = mishaps + 1

\* RetryRead's and StartRead's job, of a free id.
Enqueue == \E j \in Readers : /\ reader[j].at = "none"
                              /\ reader' = [reader EXCEPT ![j] = Queued]

-----------------------------------------------------------------------------

\* The run reads what it is to read from; a dismissed read has nothing to do.
ReadStarts(j) ==
  /\ reader[j].at = "waiting"
  /\ reader' = [reader EXCEPT ![j] =
       IF read.state = "gone" THEN [NoJob EXCEPT !.at = "back"]
       ELSE [NoJob EXCEPT !.at = "asking", !.whole = read.input]]
  /\ UNCHANGED <<read, dismissal, stranded, rerun, broken, mishaps>>

\* readOut, and what went wrong on the way to it.  An empty document has no homework.
ReadOut(j, good) ==
  /\ reader[j].at = "asking" /\ ~reader[j].stopped
  /\ IF good THEN reader[j].whole /\ UNCHANGED mishaps
     ELSE IF reader[j].whole THEN Mishap ELSE UNCHANGED mishaps
  /\ reader' = [reader EXCEPT ![j].at = "settling", ![j].good = good]
  /\ UNCHANGED <<read, dismissal, stranded, rerun, broken>>

\* The error is taken for the read's own.
ReadCut_Failed(j) ==
  /\ Mishap /\ reader[j].at = "asking" /\ ~reader[j].stopped
  /\ reader' = [reader EXCEPT ![j] = Queued]
  /\ read' = IF read.state = "gone" THEN read
             ELSE [read EXCEPT !.state = "failed", !.result = FALSE]
  /\ UNCHANGED <<dismissal, stranded, rerun, broken>>

\* Interrupted, or paused: it waits again, the row as it was.
ReadCut(j) ==
  /\ Mishap /\ reader[j].at = "asking" /\ ~reader[j].stopped
  /\ reader' = [reader EXCEPT ![j] = Queued]
  /\ UNCHANGED <<read, dismissal, stranded, rerun, broken>>

ReadStopped(j) ==
  /\ reader[j].at = "asking" /\ reader[j].stopped
  /\ reader' = [reader EXCEPT ![j].at = "back"]
  /\ UNCHANGED <<read, dismissal, stranded, rerun, broken, mishaps>>

\* settleRead, on a context of its own: what a read was made from goes once it is read.
SettleRead(j) ==
  /\ reader[j].at = "settling"
  /\ read' = IF read.state = "gone" THEN read
             ELSE IF reader[j].good
               THEN [read EXCEPT !.state = "ready", !.result = TRUE, !.input = ~read.file]
             ELSE [read EXCEPT !.state = "failed", !.result = FALSE]
  /\ reader' = [reader EXCEPT ![j].at = "back"]
  /\ UNCHANGED <<dismissal, stranded, rerun, broken, mishaps>>

\* The SELECT of the row fails, ParseRefs panics on a line of the reply (a part after a
\* range: see References), which the queue takes for a failure, or the UPDATE fails: nothing
\* is written of the read.
Fault(j) ==
  /\ Mishap /\ reader[j].at \in {"waiting", "asking", "settling"}
  /\ reader' = [reader EXCEPT ![j].at = "faulted"] /\ stranded' = TRUE
  /\ UNCHANGED <<read, dismissal, rerun, broken>>

\* The queue has settled the job, as done, failed or cancelled.
ReaderReturns(j) ==
  /\ reader[j].at \in {"back", "faulted"}
  /\ reader' = [reader EXCEPT ![j] = NoJob]
  /\ UNCHANGED <<read, dismissal, stranded, rerun, broken, mishaps>>

\* It has failed, the read settled (when that cannot be told) or not, and is paused before the
\* queue settles it: it waits again.
ReaderAgain(j) ==
  /\ Mishap /\ reader[j].at \in {"back", "faulted"} /\ ~reader[j].stopped
  /\ reader' = [reader EXCEPT ![j] = Queued]
  /\ stranded' = (stranded /\ reader[j].at = "back")
  /\ rerun' = (rerun \/ reader[j].at = "back")
  /\ UNCHANGED <<read, dismissal, broken>>

-----------------------------------------------------------------------------

RetryRead ==
  /\ read.state = "failed"
  /\ read' = [read EXCEPT !.state = "reading"]
  /\ Enqueue
  /\ UNCHANGED <<dismissal, stranded, rerun, broken, mishaps>>

\* DismissRead stops the jobs,
Dismiss ==
  /\ read.state # "gone" /\ dismissal = "none"
  /\ reader' = [j \in Readers |->
       IF reader[j].at \in {"none", "waiting"} THEN NoJob
       ELSE [reader[j] EXCEPT !.stopped = TRUE]]
  /\ dismissal' = "stopped"
  /\ UNCHANGED <<read, stranded, rerun, broken, mishaps>>

\* and deletes the row.
Delete ==
  /\ dismissal = "stopped"
  /\ read' = [read EXCEPT !.state = "gone", !.result = FALSE]
  /\ dismissal' = "none"
  /\ UNCHANGED <<reader, stranded, rerun, broken, mishaps>>

DismissCut ==
  /\ Mishap /\ dismissal = "stopped"
  /\ dismissal' = "none" /\ broken' = TRUE
  /\ UNCHANGED <<read, reader, stranded, rerun>>

\* The next start puts every job that was under way back to wait.
Crash ==
  /\ Mishap
  /\ reader' = [j \in Readers |-> IF reader[j].at = "none" THEN NoJob ELSE Queued]
  /\ rerun' = (rerun \/ \E j \in Readers : reader[j].at = "back" \/ reader[j].stopped)
  /\ stranded' = (stranded /\ \A j \in Readers : reader[j].at # "faulted")
  /\ broken' = (broken \/ dismissal = "stopped")
  /\ dismissal' = "none"
  /\ UNCHANGED read

-----------------------------------------------------------------------------

Init ==
  /\ \E file \in BOOLEAN :
       read = [state |-> "reading", file |-> file, input |-> TRUE, result |-> FALSE]
  /\ \E j \in Readers : reader = [k \in Readers |-> IF k = j THEN Queued ELSE NoJob]
  /\ dismissal = "none" /\ stranded = FALSE /\ rerun = FALSE /\ broken = FALSE /\ mishaps = 0

Next ==
  \/ \E j \in Readers : \/ ReadStarts(j) \/ ReadCut(j) \/ ReadStopped(j) \/ SettleRead(j)
                        \/ Fault(j) \/ ReaderReturns(j) \/ ReaderAgain(j)
                        \/ \E good \in BOOLEAN : ReadOut(j, good)
  \/ RetryRead \/ Dismiss \/ Delete \/ DismissCut \/ Crash

Spec == Init /\ [][Next]_vars

-----------------------------------------------------------------------------

TypeOK ==
  /\ read \in [state: {"reading", "ready", "failed", "gone"}, file: BOOLEAN,
               input: BOOLEAN, result: BOOLEAN]
  /\ reader \in [Readers -> [at: {"none", "waiting", "asking", "settling", "back",
                                  "faulted"}, whole: BOOLEAN, good: BOOLEAN, stopped: BOOLEAN]]
  /\ dismissal \in {"none", "stopped"} /\ stranded \in BOOLEAN
  /\ rerun \in BOOLEAN /\ broken \in BOOLEAN /\ mishaps \in 0..MaxMishaps

\* A read that is being read has a job that will settle it, one at a time, unless that job
\* failed on a fault: then it has none, and since only a failed read is retried it is read no
\* more.  One that is not being read has none; what it is read from is kept until it has
\* been, so that a failed one can be tried again.  Except for a job run again though it had
\* settled its read or been stopped, and after a dismissal that died halfway.
ReadIsOwed ==
  /\ read.state = "ready" => read.result
  /\ rerun \/ broken \/ dismissal = "stopped" \/
       /\ read.state = "reading" =>
            IF stranded THEN Pending = {} ELSE \E j \in Pending : Pending = {j}
       /\ read.state \in {"ready", "failed"} => Pending = {}
       /\ read.state \in {"reading", "failed"} => read.input
=============================================================================
