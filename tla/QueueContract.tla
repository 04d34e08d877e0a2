---------------------------- MODULE QueueContract ----------------------------
(***************************************************************************)
(* What internal/jobs promises a feature, and no more: the life of a job,  *)
(* the slots of a lane and the keys.  No table, no goroutines, no passes.  *)
(***************************************************************************)
EXTENDS Integers, FiniteSets

CONSTANTS Jobs, Lanes, Limit, Keys, NoKey

VARIABLES status, \* where each job is in its life
          place   \* the lane and the key it was enqueued with

cvars == <<status, place>>

Working == {j \in Jobs : status[j] = "working"}

HasRoom(j) ==
  LET beside == {k \in Working \ {j} : place[k].lane = place[j].lane}
  IN /\ Cardinality(beside) < Limit[place[j].lane]
     /\ place[j].key # NoKey => \A k \in beside : place[k].key # place[j].key

\* A new job, with the row it fills.
Submit(j) ==
  /\ status[j] = "none"
  /\ status' = [status EXCEPT ![j] = "waiting"]
  /\ \E l \in Lanes, k \in Keys \cup {NoKey} :
       place' = [place EXCEPT ![j] = [lane |-> l, key |-> k]]

\* A job starts only from waiting, into a free slot, beside no job of its key.
Begin(j) ==
  /\ status[j] = "waiting" /\ HasRoom(j)
  /\ status' = [status EXCEPT ![j] = "working"]
  /\ UNCHANGED place

\* Its handler is back and its slot free; what became of it is being written.
Return(j) ==
  /\ status[j] = "working"
  /\ status' = [status EXCEPT ![j] = "leaving"]
  /\ UNCHANGED place

End(j) ==
  /\ status[j] = "leaving"
  /\ \E s \in {"waiting", "done", "failed", "cancelled"} :
       status' = [status EXCEPT ![j] = s]
  /\ UNCHANGED place

\* No handler for its kind.
Reject(j) ==
  /\ status[j] = "working"
  /\ status' = [status EXCEPT ![j] = "failed"]
  /\ UNCHANGED place

\* What waits may be cancelled, and what was under way when a pass broke off
\* or the process went waits again.  What had ended stays ended.
Unwind ==
  /\ status' \in [Jobs -> {"none", "waiting", "working", "leaving", "done",
                           "failed", "cancelled"}]
  /\ \A j \in Jobs : \/ status'[j] = status[j]
                     \/ /\ status[j] \in {"waiting", "working", "leaving"}
                        /\ status'[j] \in {"waiting", "cancelled"}
  /\ UNCHANGED place

Again(j) ==
  /\ status[j] \in {"failed", "cancelled"}
  /\ status' = [status EXCEPT ![j] = "waiting"]
  /\ UNCHANGED place

Prune ==
  /\ \E old \in SUBSET {j \in Jobs : status[j] \in {"done", "cancelled"}} :
       status' = [j \in Jobs |-> IF j \in old THEN "none" ELSE status[j]]
  /\ UNCHANGED place

CInit ==
  /\ status \in [Jobs -> {"none", "waiting"}]
  /\ place \in [Jobs -> [lane: Lanes, key: Keys \cup {NoKey}]]

CNext == \/ \E j \in Jobs : \/ Submit(j) \/ Begin(j) \/ Return(j) \/ End(j)
                            \/ Reject(j) \/ Again(j)
         \/ Unwind \/ Prune

CSpec == CInit /\ [][CNext]_cvars
=============================================================================
