-------------------------- MODULE JobQueueContract --------------------------
(***************************************************************************)
(* JobQueue implements QueueContract.  A row a pass has read stays waiting *)
(* until the pass is past it, and a pick works from the moment its slot is *)
(* taken, whatever a Stop writes to the row before start does: start never *)
(* looks at the row again.  A "running" row nobody is answerable for is    *)
(* waiting for the recovery of the next start.                             *)
(***************************************************************************)
EXTENDS JobQueue

Status(j) ==
  CASE j \in Handling \cup sched.next -> "working"
    [] run[j] \notin {"none", "handling"} -> "leaving"
    [] OTHER -> IF j \in sched.rows \/ row[j] \in {"queued", "running"}
                  THEN "waiting" ELSE row[j]

Contract == INSTANCE QueueContract WITH
  status <- [j \in Jobs |-> Status(j)],
  place <- [j \in Jobs |-> [lane |-> Lane(j), key |-> Key(j)]]

\* The queue keeps the contract: every step of the code is a step of the
\* contract or none, so a job starts only from waiting and into a free slot,
\* what is done is never run again, and what a crash, a shutdown, a pause or
\* an interruption cuts short waits again.
KeepsContract == Contract!CSpec
=============================================================================
