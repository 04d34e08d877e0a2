----------------------------- MODULE TutorProofs -----------------------------
(***************************************************************************)
(* What holds of Tutor for every set of turns and of requests, however     *)
(* far the page is behind, and however many rounds, Stops, Clears,         *)
(* failures, interruptions and crashes there are.                          *)
(***************************************************************************)
EXTENDS Tutor, TLAPS

\* The run is of the job that works, it knows how it ends when it finishes and where it
\* goes on when it has announced, and a turn that was never asked has no job.
JobsMatch ==
  /\ status \in [Turns -> {"none", "waiting", "working", "leaving", "done", "failed",
                           "cancelled"}]
  /\ IF At("idle") THEN run.turn = 0 /\ ~run.stopped ELSE run.turn \in Turns
  /\ At("finish") => run.end \in Ended \cup {"again"}
  /\ run.at \in {"read", "tell"} => run.then \in {"calling", "back"}
  /\ \A t \in Turns : /\ status[t] = "working" <=> run.turn = t
                      /\ status[t] = "none" <=> turn[t].state = "absent"
                      /\ turn[t].state = "absent" => turn[t] = Absent

\* How far each kind of request goes.
RequestsMatch ==
  \A r \in Requests :
    /\ req[r].op \in {"ask", "stop"} => req[r].turn \in Turns
    /\ req[r].at = "update" => req[r].op = "stop"
    /\ req[r].at \in {"read", "publish", "reply"} => req[r].op \in {"ask", "stop"}
    /\ req[r].at = "stop" => req[r].op \in {"stop", "clear"}
    /\ req[r].at = "forget" => req[r].op = "clear"
    /\ req[r].at = "none" => req[r] = NoRequest
    /\ req[r].stop \subseteq req[r].todo
    /\ req[r].at # "stop" => req[r].stop = {}
    /\ req[r].todo # {} => req[r].op = "clear"

-----------------------------------------------------------------------------
(* What the steps share.                                                   *)

LEMMA CopyShapes ==
  /\ Absent \in Copies /\ Gone \in Copies /\ Idle \in Runs /\ NoRequest \in Reqs
  /\ Absent.state = "absent" /\ Absent.at = 0 /\ Gone.state = "gone"
  /\ Idle.at = "idle" /\ Idle.turn = 0 /\ ~Idle.stopped /\ Idle.copy = Absent
  /\ NoRequest.op = "none" /\ NoRequest.at = "none" /\ NoRequest.turn = 0
  /\ NoRequest.stop = {} /\ NoRequest.todo = {} /\ NoRequest.copy = Absent
<1>1. Absent \in Copies /\ Absent.state = "absent" /\ Absent.at = 0
  BY DEF Absent, Copies
<1>2. Gone \in Copies /\ Gone.state = "gone"
  BY <1>1 DEF Gone, Copies
<1>3. 0 \in 0..Blocks
  BY TutorConstants
<1>4. Idle \in Runs /\ Idle.at = "idle" /\ Idle.turn = 0 /\ ~Idle.stopped /\ Idle.copy = Absent
  BY <1>1, <1>3 DEF Idle, Runs
<1>5. /\ NoRequest \in Reqs
      /\ NoRequest.op = "none" /\ NoRequest.at = "none" /\ NoRequest.turn = 0
      /\ NoRequest.stop = {} /\ NoRequest.todo = {} /\ NoRequest.copy = Absent
  BY <1>1 DEF NoRequest, Reqs
<1> QED
  BY <1>1, <1>2, <1>4, <1>5

LEMMA WriteShape ==
  ASSUME turn \in [Turns -> Copies], NEW t \in Turns, NEW s, NEW n \in Nat, Write(t, s, n),
         s \in {"absent", "gone", "running"} \cup Ended
  PROVE  /\ turn' \in [Turns -> Copies]
         /\ \A u \in Turns \ {t} : turn'[u] = turn[u]
         /\ IF Exists(t) THEN /\ turn'[t].state = s /\ turn'[t].answer = n
                              /\ turn'[t].at = turn[t].at + 1
                         ELSE turn'[t] = turn[t]
<1> DEFINE new == [state |-> s, answer |-> n, at |-> turn[t].at + 1]
<1>1. new \in Copies /\ new.state = s /\ new.answer = n /\ new.at = turn[t].at + 1
  BY DEF Copies
<1>2. turn' = IF Exists(t) THEN [turn EXCEPT ![t] = new] ELSE turn
  BY DEF Write
<1> HIDE DEF new
<1> QED
  BY <1>1, <1>2

LEMMA RunShape ==
  ASSUME run \in Runs
  PROVE  /\ run.wrote \in Nat /\ run.copy \in Copies
         /\ \A p \in {"idle", "begun", "calling", "saving", "step", "finish", "read", "tell", "back"} :
              /\ [run EXCEPT !.at = p] \in Runs
              /\ \A e \in {"none", "erred", "again"} \cup Ended :
                   [run EXCEPT !.at = p, !.end = e] \in Runs
              /\ \A q \in {"idle", "calling", "back"} : [run EXCEPT !.at = p, !.then = q] \in Runs
<1>1. run.wrote \in Nat
  BY TutorConstants DEF Runs
<1>2. ASSUME NEW p \in {"idle", "begun", "calling", "saving", "step", "finish", "read", "tell", "back"}
      PROVE  [run EXCEPT !.at = p] \in Runs
  BY DEF Runs
<1>3. ASSUME NEW p \in {"idle", "begun", "calling", "saving", "step", "finish", "read", "tell", "back"},
             NEW e \in {"none", "erred", "again"} \cup Ended
      PROVE  [run EXCEPT !.at = p, !.end = e] \in Runs
  BY DEF Runs
<1>4. ASSUME NEW p \in {"idle", "begun", "calling", "saving", "step", "finish", "read", "tell", "back"},
             NEW q \in {"idle", "calling", "back"}
      PROVE  [run EXCEPT !.at = p, !.then = q] \in Runs
  BY DEF Runs
<1>5. run.copy \in Copies
  BY DEF Runs
<1> QED
  BY <1>1, <1>2, <1>3, <1>4, <1>5

LEMMA CopyGrows == \A c \in Copies : [c EXCEPT !.answer = @ + 1] \in Copies
BY DEF Copies

LEMMA PublishShape ==
  ASSUME wire \in Seq(Events), NEW e \in Events, Publish(e)
  PROVE  wire' \in Seq(Events) /\ page' = page
BY DEF Publish

LEMMA EventShapes ==
  /\ Cleared \in Events /\ Cleared \in Replies
  /\ \A t \in Turns, c \in Copies : Changed(t, c) \in Events /\ Block(t) \in Events
BY CopyShapes DEF Cleared, Changed, Block, Events, Replies

\* What is said of a copy that is typed, read from the row it is of.
LEMMA RowShape ==
  ASSUME turn \in [Turns -> Copies], NEW t \in Turns
  PROVE  /\ turn[t] \in Copies /\ turn[t].state \in {"absent", "gone", "running"} \cup Ended
         /\ turn[t].answer \in Nat /\ turn[t].at \in Nat
BY DEF Copies

\* StopJob marks the run of a turn, or cancels its job.
LEMMA StopShape ==
  ASSUME run \in Runs, NEW t \in Turns, StopJob(t)
  PROVE  /\ run' = [run EXCEPT !.stopped = @ \/ run.turn = t] /\ run' \in Runs
         /\ verdict' = verdict
         /\ \/ status[t] = "waiting" /\ status' = [status EXCEPT ![t] = "cancelled"]
            \/ status[t] # "waiting" /\ status' = status
<1>1. run' = [run EXCEPT !.stopped = run.stopped \/ run.turn = t]
  BY DEF StopJob
<1>2. (run.stopped \/ run.turn = t) \in BOOLEAN
  OBVIOUS
<1>3. run' \in Runs
  BY <1>1, <1>2 DEF Runs
<1> QED
  BY <1>3 DEF StopJob

-----------------------------------------------------------------------------
(* Type correctness.                                                       *)

LEMMA TypeInit == Init => TypeOK /\ JobsMatch /\ RequestsMatch
<1> SUFFICES ASSUME Init PROVE TypeOK /\ JobsMatch /\ RequestsMatch
  OBVIOUS
<1>1. TypeOK
  BY CopyShapes DEF Init, TypeOK
<1>2. JobsMatch
  BY CopyShapes DEF Init, JobsMatch, At
<1>3. RequestsMatch
  BY CopyShapes DEF Init, RequestsMatch
<1> QED
  BY <1>1, <1>2, <1>3

LEMMA HandlerType == TypeOK /\ JobsMatch /\ Handler => TypeOK'
<1> SUFFICES ASSUME TypeOK, JobsMatch, Handler PROVE TypeOK'
  OBVIOUS
<1> USE TutorConstants DEF TypeOK, queue, usage, history, Elsewhere
<1>0. ~At("idle") => run.turn \in Turns
  BY DEF JobsMatch
<1>1. CASE GetTurn
  <2>1. run' \in Runs
    BY <1>1 DEF GetTurn, Runs
  <2> QED
    BY <1>1, <2>1 DEF GetTurn
<1>2. CASE TellBlock
  <2>1. run' \in Runs
    <3>1. run.wrote + 1 \in 0..Blocks
      BY <1>2 DEF TellBlock, Runs
    <3> QED
      BY <1>2, <3>1 DEF TellBlock, Runs
  <2>2. Block(run.turn) \in Events
    BY <1>0, <1>2, CopyShapes, EventShapes DEF TellBlock, At
  <2> QED
    BY <1>2, <2>1, <2>2, PublishShape DEF TellBlock
<1>3. CASE Save
  <2>1. run' \in Runs /\ run.wrote \in Nat /\ run.turn \in Turns
    BY <1>0, <1>3, RunShape DEF Save, GoTo, At
  <2>2. turn' \in [Turns -> Copies]
    BY <1>3, <2>1, RowShape, WriteShape DEF Save
  <2> QED
    BY <1>3, <2>1, <2>2 DEF Save
<1>4. CASE CallEnds
  <2>1. run' \in Runs
    <3>1. Cause \in {"none", "erred", "again"} \cup Ended /\ {"done", "failed"} \subseteq Ended
      BY DEF Cause, Ended
    <3>2. \/ GoTo("step")
          \/ \E e \in {"none", "erred", "again"} \cup Ended : GoToEnd(e)
      BY <1>4, <3>1 DEF CallEnds
    <3>3. GoTo("step") => run' \in Runs
      BY RunShape DEF GoTo
    <3>4. ASSUME NEW e \in {"none", "erred", "again"} \cup Ended, GoToEnd(e) PROVE run' \in Runs
      BY <3>4, RunShape DEF GoToEnd
    <3> QED
      BY <3>2, <3>3, <3>4
  <2>2. calls' \subseteq Turns
    BY <1>0, <1>4 DEF CallEnds, Sink, At
  <2> QED
    BY <1>4, <2>1, <2>2 DEF CallEnds
<1>5. CASE Step
  <2>1. run' \in Runs /\ run.wrote \in Nat /\ run.turn \in Turns
    BY <1>0, <1>5, RunShape DEF Step, At
  <2>2. turn' \in [Turns -> Copies]
    BY <1>5, <2>1, RowShape, WriteShape DEF Step
  <2> QED
    BY <1>5, <2>1, <2>2 DEF Step
<1>6. CASE Finish
  <2>1. run' \in Runs /\ run.wrote \in Nat /\ run.turn \in Turns
    BY <1>0, <1>6, RunShape DEF Finish, At
  <2>2. turn' \in [Turns -> Copies]
    <3>1. CASE run.end = "again"
      BY <1>6, <2>1, <3>1, RowShape, WriteShape DEF Finish
    <3>2. CASE run.end # "again"
      <4>1. run.end \in Ended
        BY <1>6, <3>2 DEF JobsMatch, Finish, At
      <4> QED
        BY <1>6, <2>1, <3>2, <4>1, WriteShape DEF Finish
    <3> QED
      BY <3>1, <3>2
  <2> QED
    BY <1>6, <2>1, <2>2 DEF Finish
<1>7. CASE Announce
  <2>1. run' \in Runs
    BY <1>0, <1>7, RowShape DEF Announce, Runs, At
  <2> QED
    BY <1>7, <2>1 DEF Announce
<1>8. CASE Tell
  <2>1. run' \in Runs
    BY <1>8, CopyShapes DEF Tell, Runs
  <2>2. Changed(run.turn, run.copy) \in Events
    BY <1>0, <1>8, EventShapes DEF Tell, At, Runs
  <2> QED
    BY <1>8, <2>1, <2>2, PublishShape DEF Tell
<1>9. CASE Return
  <2>1. Verdict \in {"waiting", "done", "failed", "cancelled"}
    BY DEF Verdict
  <2> QED
    BY <1>9, <2>1, CopyShapes DEF Return
<1> QED
  BY <1>1, <1>2, <1>3, <1>4, <1>5, <1>6, <1>7, <1>8, <1>9 DEF Handler

LEMMA RequestType ==
  ASSUME TypeOK, JobsMatch, RequestsMatch, NEW r \in Requests, Request(r)
  PROVE  TypeOK'
<1> USE TutorConstants DEF TypeOK, queue, usage, history, browser
<1>t. req[r].op \in {"ask", "stop"} => req[r].turn \in Turns
  BY DEF RequestsMatch
<1>o. ASSUME NEW p \in {"none", "read", "publish", "reply", "stop", "update", "forget"}, Onward(r, p)
      PROVE  req' \in [Requests -> Reqs]
  BY <1>o DEF Onward, Reqs
<1>1. CASE StopTurn(r)
  <2>1. run' \in Runs /\ verdict' = verdict
    BY <1>1, <1>t, StopShape DEF StopTurn
  <2> QED
    BY <1>1, <1>o, <2>1 DEF StopTurn
<1>2. CASE StopUpdate(r)
  <2>1. turn' \in [Turns -> Copies]
    BY <1>2, <1>t, RowShape, WriteShape DEF StopUpdate, Ended
  <2> QED
    BY <1>2, <1>o, <2>1 DEF StopUpdate
<1>3. CASE ReadBack(r)
  <2>1. req[r].turn \in Turns
    BY <1>3, <1>t DEF ReadBack, RequestsMatch
  <2>2. req' \in [Requests -> Reqs]
    <3>1. CASE Exists(req[r].turn)
      <4>1. turn[req[r].turn] \in Copies
        BY <2>1, RowShape
      <4>2. [req[r] EXCEPT !.at = "publish", !.copy = turn[req[r].turn]] \in Reqs
        BY <4>1 DEF Reqs
      <4>3. req' = [req EXCEPT ![r] = [req[r] EXCEPT !.at = "publish", !.copy = turn[req[r].turn]]]
        BY <1>3, <3>1 DEF ReadBack
      <4> QED
        BY <4>2, <4>3
    <3>2. CASE ~Exists(req[r].turn)
      BY <1>3, <3>2, CopyShapes DEF ReadBack
    <3> QED
      BY <3>1, <3>2
  <2> QED
    BY <1>3, <2>2 DEF ReadBack
<1>4. CASE PublishTurn(r)
  <2>1. Changed(req[r].turn, req[r].copy) \in Events
    BY <1>4, <1>t, EventShapes DEF PublishTurn, RequestsMatch, Reqs
  <2> QED
    BY <1>4, <1>o, <2>1, PublishShape DEF PublishTurn
<1>5. CASE Reply(r)
  <2>1. [type |-> IF req[r].op = "ask" THEN "asked" ELSE "stopped",
         turn |-> req[r].turn, copy |-> req[r].copy] \in Replies
    BY DEF Replies, Reqs
  <2> QED
    BY <1>5, <2>1, CopyShapes DEF Reply
<1>6. CASE ClearDelete(r)
  <2>1. turn' \in [Turns -> Copies]
    BY <1>6, CopyShapes DEF ClearDelete
  <2> QED
    BY <1>6, <1>o, <2>1 DEF ClearDelete
<1>7. CASE ClearTell(r)
  BY <1>7, CopyShapes, EventShapes, PublishShape DEF ClearTell
<1>8. ASSUME NEW t \in Turns, ClearStop(r, t) PROVE TypeOK'
  <2>1. run' \in Runs /\ verdict' = verdict
    BY <1>8, StopShape DEF ClearStop
  <2>2. req' \in [Requests -> Reqs]
    BY <1>8 DEF ClearStop, Reqs
  <2> QED
    BY <1>8, <2>1, <2>2 DEF ClearStop
<1>9. ASSUME NEW t \in Turns, Forget(r, t) PROVE TypeOK'
  <2>1. req' \in [Requests -> Reqs]
    BY <1>9 DEF Forget, Reqs
  <2> QED
    BY <1>9, <2>1 DEF Forget
<1> QED
  BY <1>1, <1>2, <1>3, <1>4, <1>5, <1>6, <1>7, <1>8, <1>9 DEF Request

LEMMA TypeStep == TypeOK /\ JobsMatch /\ RequestsMatch /\ [Next]_vars => TypeOK'
<1> SUFFICES ASSUME TypeOK, JobsMatch, RequestsMatch, [Next]_vars PROVE TypeOK'
  OBVIOUS
<1> USE TutorConstants DEF TypeOK, queue, usage, history, browser, Elsewhere
<1>1. CASE UNCHANGED vars
  BY <1>1 DEF vars
<1>2. CASE Handler
  BY <1>2, HandlerType
<1>3. ASSUME NEW r \in Requests, Request(r) PROVE TypeOK'
  BY <1>3, RequestType
<1>4. ASSUME NEW t \in Turns, Begin(t) PROVE TypeOK'
  <2>1. run' = [Idle EXCEPT !.turn = t, !.at = "begun", !.from = turn[t].state]
    BY <1>4 DEF Begin
  <2>2. run' \in Runs
    BY <2>1, CopyShapes, RowShape DEF Runs
  <2> QED
    BY <1>4, <2>2 DEF Begin
<1>5. ASSUME NEW t \in Turns, End(t) PROVE TypeOK'
  BY <1>5 DEF End
<1>6. ASSUME NEW r \in Requests, Ask(r) PROVE TypeOK'
  <2>1. PICK t \in Turns :
          /\ turn' = [turn EXCEPT ![t] = [state |-> "running", answer |-> 0, at |-> 1]]
          /\ req' = [req EXCEPT ![r] = [NoRequest EXCEPT !.op = "ask", !.at = "read", !.turn = t]]
    BY <1>6 DEF Ask
  <2>2. [state |-> "running", answer |-> 0, at |-> 1] \in Copies
    BY DEF Copies
  <2>3. [NoRequest EXCEPT !.op = "ask", !.at = "read", !.turn = t] \in Reqs
    BY CopyShapes DEF Reqs
  <2> QED
    BY <1>6, <2>1, <2>2, <2>3 DEF Ask
<1>7. ASSUME NEW r \in Requests, NEW t \in Turns, Stop(r, t) PROVE TypeOK'
  <2> DEFINE new == [NoRequest EXCEPT !.op = "stop", !.turn = t, !.copy = turn[t],
               !.at = IF turn[t].state = "running" THEN "stop" ELSE "reply"]
  <2>1. new \in Reqs
    BY CopyShapes, RowShape DEF Reqs
  <2>2. req' = [req EXCEPT ![r] = new]
    BY <1>7 DEF Stop
  <2> HIDE DEF new
  <2> QED
    BY <1>7, <2>1, <2>2 DEF Stop
<1>8. ASSUME NEW r \in Requests, Clear(r) PROVE TypeOK'
  <2> DEFINE new == [NoRequest EXCEPT !.op = "clear", !.at = "stop",
               !.todo = {t \in Turns : Exists(t)},
               !.stop = {t \in Turns : turn[t].state = "running"}]
  <2>1. new \in Reqs
    BY CopyShapes DEF Reqs
  <2>2. req' = [req EXCEPT ![r] = new]
    BY <1>8 DEF Clear
  <2> HIDE DEF new
  <2> QED
    BY <1>8, <2>1, <2>2 DEF Clear
<1>9. CASE HearEvent
  <2>1. wire # <<>> /\ Head(wire) \in Events /\ wire' \in Seq(Events)
    BY <1>9 DEF HearEvent
  <2>2. page' \in [Turns -> Copies]
    <3> DEFINE e == Head(wire)
    <3>1. e.copy \in Copies
      BY <2>1 DEF Events
    <3>2. CASE ApplyTurn(e.turn, e.copy)
      BY <3>1, <3>2 DEF ApplyTurn
    <3>3. CASE Empty
      BY <3>3, CopyShapes DEF Empty
    <3>4. CASE page' = IF page[e.turn] = Absent THEN page ELSE [page EXCEPT ![e.turn].answer = @ + 1]
      <4>1. CASE e.turn \in Turns
        <5>1. [page[e.turn] EXCEPT !.answer = @ + 1] \in Copies
          BY <4>1, CopyGrows
        <5> QED
          BY <3>4, <5>1
      <4>2. CASE e.turn \notin Turns
        BY <3>4, <4>2
      <4> QED
        BY <4>1, <4>2
    <3> QED
      BY <1>9, <3>2, <3>3, <3>4 DEF HearEvent
  <2> QED
    BY <1>9, <2>1, <2>2 DEF HearEvent
<1>10. CASE HearReply
  <2>1. PICK m \in replies :
          /\ replies' = replies \ {m}
          /\ \/ m.type \in {"asked", "stopped"} /\ ApplyTurn(m.turn, m.copy)
             \/ m.type = "cleared" /\ Empty
             \/ /\ m.type = "list"
                /\ page' = [t \in Turns |-> IF m.rows[t].state = "gone" THEN Absent ELSE m.rows[t]]
          /\ lost' = IF m.type = "cleared" THEN lost \cup {t \in Turns : Exists(t)} ELSE lost
    BY <1>10 DEF HearReply
  <2>2. page' \in [Turns -> Copies]
    <3>1. CASE m.type \in {"asked", "stopped"} /\ ApplyTurn(m.turn, m.copy)
      BY <3>1 DEF ApplyTurn, Replies
    <3>2. CASE Empty
      BY <3>2, CopyShapes DEF Empty
    <3>3. CASE /\ m.type = "list"
               /\ page' = [t \in Turns |-> IF m.rows[t].state = "gone" THEN Absent ELSE m.rows[t]]
      <4>1. m.rows \in [Turns -> Copies]
        BY <3>3 DEF Replies
      <4> QED
        BY <3>3, <4>1, CopyShapes
    <3> QED
      BY <2>1, <3>1, <3>2, <3>3
  <2> QED
    BY <1>10, <2>1, <2>2 DEF HearReply
<1>11. CASE Cut
  BY <1>11 DEF Cut, Runs
<1>12. CASE Crash
  <2>1. wire' \in Seq(Events)
    BY <1>12 DEF Crash
  <2>2. page' \in [Turns -> Copies]
    BY <1>12, CopyShapes DEF Crash
  <2> QED
    BY <1>12, <2>1, <2>2, CopyShapes DEF Crash
<1> QED
  BY <1>1, <1>2, <1>3, <1>4, <1>5, <1>6, <1>7, <1>8, <1>9, <1>10, <1>11, <1>12 DEF Next

-----------------------------------------------------------------------------
(* The jobs, the runs and the requests.                                    *)

\* The handler goes on.
LEMMA JobsGoOn ==
  ASSUME TypeOK, JobsMatch, ~At("idle"), UNCHANGED status,
         run'.turn = run.turn, run'.at # "idle",
         run'.at = "finish" => run'.end \in Ended \cup {"again"},
         run'.at \in {"read", "tell"} => run'.then \in {"calling", "back"},
         \A t \in Turns : IF Exists(t) THEN turn'[t].state # "absent" ELSE turn'[t] = turn[t]
  PROVE  JobsMatch'
<1>1. run'.turn \in Turns
  BY DEF JobsMatch
<1> QED
  BY <1>1 DEF JobsMatch, At, Exists

\* A write of a row that is there leaves it there.
LEMMA WriteLeaves ==
  ASSUME TypeOK, NEW t \in Turns, NEW s, NEW n \in Nat, Write(t, s, n),
         s \in {"running"} \cup Ended \cup {turn[t].state}
  PROVE  \A u \in Turns : IF Exists(u) THEN turn'[u].state # "absent" ELSE turn'[u] = turn[u]
<1>1. s \in {"absent", "gone", "running"} \cup Ended
  BY RowShape DEF TypeOK
<1>2. /\ \A u \in Turns \ {t} : turn'[u] = turn[u]
      /\ IF Exists(t) THEN turn'[t].state = s ELSE turn'[t] = turn[t]
  BY <1>1, WriteShape DEF TypeOK
<1>3. Exists(t) => s # "absent"
  BY DEF Exists, Ended
<1> QED
  BY <1>2, <1>3 DEF Exists

LEMMA HandlerJobs == TypeOK /\ JobsMatch /\ Handler => JobsMatch'
<1> SUFFICES ASSUME TypeOK, JobsMatch, Handler PROVE JobsMatch'
  OBVIOUS
<1> USE DEF queue
<1>0. \A p : At(p) /\ p # "idle" => run.turn \in Turns /\ ~At("idle")
  BY DEF JobsMatch, At
<1>k. turn' = turn => \A t \in Turns : IF Exists(t) THEN turn'[t].state # "absent" ELSE turn'[t] = turn[t]
  BY DEF Exists
<1>w. run.wrote \in Nat
  BY RunShape DEF TypeOK
<1>1. CASE GetTurn
  <2>1. run'.turn = run.turn /\ run'.at \in {"calling", "back"}
    BY <1>1 DEF GetTurn, TypeOK, Runs
  <2> QED
    BY <1>0, <1>1, <1>k, <2>1, JobsGoOn DEF GetTurn
<1>2. CASE TellBlock
  <2>1. run'.turn = run.turn /\ run'.at = "saving"
    BY <1>2 DEF TellBlock, TypeOK, Runs
  <2> QED
    BY <1>0, <1>2, <1>k, <2>1, JobsGoOn DEF TellBlock
<1>3. CASE Save
  <2>1. run'.turn = run.turn /\ run'.at = "calling"
    BY <1>3 DEF Save, GoTo, TypeOK, Runs
  <2>2. \A t \in Turns : IF Exists(t) THEN turn'[t].state # "absent" ELSE turn'[t] = turn[t]
    BY <1>0, <1>3, <1>k, <1>w, WriteLeaves DEF Save
  <2> QED
    BY <1>0, <1>3, <2>1, <2>2, JobsGoOn DEF Save
<1>4. CASE CallEnds
  <2>1. /\ run'.turn = run.turn /\ run'.at \in {"step", "finish"}
        /\ run'.at = "finish" => run'.end \in Ended \cup {"again"}
    <3>1. Cause \in Ended \cup {"again"} /\ {"done", "failed"} \subseteq Ended
      BY DEF Cause, Ended
    <3>2. GoTo("step") \/ \E e \in Ended \cup {"again"} : GoToEnd(e)
      BY <1>4, <3>1 DEF CallEnds
    <3> QED
      BY <3>2 DEF GoTo, GoToEnd, TypeOK, Runs
  <2> QED
    BY <1>0, <1>4, <1>k, <2>1, JobsGoOn DEF CallEnds
<1>5. CASE Step
  <2>1. run'.turn = run.turn /\ run'.at = "read" /\ run'.then = "calling"
    BY <1>5 DEF Step, TypeOK, Runs
  <2>2. \A t \in Turns : IF Exists(t) THEN turn'[t].state # "absent" ELSE turn'[t] = turn[t]
    BY <1>0, <1>5, <1>k, <1>w, WriteLeaves DEF Step
  <2> QED
    BY <1>0, <1>5, <2>1, <2>2, JobsGoOn DEF Step
<1>6. CASE Finish
  <2>1. run'.turn = run.turn /\ run'.at = "read" /\ run'.then = "back"
    BY <1>6 DEF Finish, TypeOK, Runs
  <2>2. run.end \in Ended \cup {"again"}
    BY <1>6 DEF Finish, JobsMatch
  <2>3. \A t \in Turns : IF Exists(t) THEN turn'[t].state # "absent" ELSE turn'[t] = turn[t]
    <3>1. CASE run.end = "again"
      BY <1>0, <1>6, <3>1, WriteLeaves DEF Finish
    <3>2. CASE run.end # "again"
      BY <1>0, <1>6, <1>w, <2>2, <3>2, WriteLeaves DEF Finish
    <3> QED
      BY <3>1, <3>2
  <2> QED
    BY <1>0, <1>6, <2>1, <2>3, JobsGoOn DEF Finish
<1>7. CASE Announce
  <2>1. /\ run'.turn = run.turn /\ run'.then = run.then /\ run'.at \in {"tell", "calling", "back"}
    BY <1>7 DEF Announce, JobsMatch, At, TypeOK, Runs
  <2>2. run.then \in {"calling", "back"}
    BY <1>7 DEF Announce, JobsMatch, At
  <2> QED
    BY <1>0, <1>7, <1>k, <2>1, <2>2, JobsGoOn DEF Announce
<1>8. CASE Tell
  <2>1. run'.turn = run.turn /\ run'.at \in {"calling", "back"}
    BY <1>8 DEF Tell, JobsMatch, At, TypeOK, Runs
  <2> QED
    BY <1>0, <1>8, <1>k, <2>1, JobsGoOn DEF Tell
<1>9. CASE Return
  <2>1. /\ status' = [status EXCEPT ![run.turn] = "leaving"] /\ run.turn \in Turns
        /\ run' = Idle /\ turn' = turn
    BY <1>0, <1>9 DEF Return, Queue!Return
  <2>2. status' \in [Turns -> {"none", "waiting", "working", "leaving", "done", "failed", "cancelled"}]
    BY <2>1 DEF JobsMatch
  <2>3. \A t \in Turns : status'[t] = IF t = run.turn THEN "leaving" ELSE status[t]
    BY <2>1 DEF JobsMatch
  <2>4. status[run.turn] = "working" /\ 0 \notin Turns
    BY <2>1, TutorConstants DEF JobsMatch
  <2> QED
    BY <2>1, <2>2, <2>3, <2>4, CopyShapes DEF JobsMatch, At
<1> QED
  BY <1>1, <1>2, <1>3, <1>4, <1>5, <1>6, <1>7, <1>8, <1>9 DEF Handler

LEMMA JobsStep == TypeOK /\ JobsMatch /\ RequestsMatch /\ [Next]_vars => JobsMatch'
<1> SUFFICES ASSUME TypeOK, JobsMatch, RequestsMatch, [Next]_vars PROVE JobsMatch'
  OBVIOUS
<1> USE DEF queue, usage, history, browser, Elsewhere
<1>z. 0 \notin Turns
  BY TutorConstants
\* StopJob leaves a working job working.
<1>s. ASSUME NEW t \in Turns, StopJob(t), turn' = turn PROVE JobsMatch'
  <2>0. run' = [run EXCEPT !.stopped = @ \/ run.turn = t]
    BY <1>s, StopShape DEF TypeOK
  <2>1. run'.at = run.at /\ run'.turn = run.turn /\ run'.end = run.end /\ run'.then = run.then
    BY <2>0 DEF TypeOK, Runs
  <2>3. /\ status' \in [Turns -> {"none", "waiting", "working", "leaving", "done", "failed", "cancelled"}]
        /\ \A u \in Turns : status'[u] = status[u] \/ {status[u], status'[u]} \subseteq {"waiting", "cancelled"}
    <3>1. status' = status \/ (status[t] = "waiting" /\ status' = [status EXCEPT ![t] = "cancelled"])
      BY <1>s, StopShape DEF TypeOK
    <3> QED
      BY <3>1 DEF JobsMatch
  <2>2. At("idle") => ~run'.stopped
    <3>1. At("idle") => ~run.stopped /\ run.turn # t
      BY <1>z DEF JobsMatch
    <3> QED
      BY <2>0, <3>1 DEF TypeOK, Runs
  <2> QED
    BY <1>s, <2>1, <2>2, <2>3 DEF JobsMatch, At
<1>1. CASE UNCHANGED vars
  BY <1>1 DEF vars, JobsMatch, At
<1>2. CASE Handler
  BY <1>2, HandlerJobs
<1>3. ASSUME NEW t \in Turns, Begin(t) PROVE JobsMatch'
  <2>1. /\ status[t] = "waiting" /\ status' = [status EXCEPT ![t] = "working"] /\ At("idle")
        /\ run' = [Idle EXCEPT !.turn = t, !.at = "begun", !.from = turn[t].state] /\ turn' = turn
    BY <1>3 DEF Begin, Queue!Begin
  <2>2. run'.at = "begun" /\ run'.turn = t
    BY <2>1 DEF Idle
  <2>3. \A u \in Turns : status'[u] = IF u = t THEN "working" ELSE status[u]
    BY <2>1 DEF JobsMatch
  <2>4. status' \in [Turns -> {"none", "waiting", "working", "leaving", "done", "failed", "cancelled"}]
    BY <2>1 DEF JobsMatch
  <2>5. \A u \in Turns : status[u] # "working"
    BY <2>1, <1>z, CopyShapes DEF JobsMatch
  <2> QED
    BY <2>1, <2>2, <2>3, <2>4, <2>5 DEF JobsMatch, At
<1>4. ASSUME NEW t \in Turns, End(t) PROVE JobsMatch'
  <2>1. /\ status[t] = "leaving" /\ UNCHANGED <<turn, run>>
        /\ \E s \in {"waiting", "done", "failed", "cancelled"} : status' = [status EXCEPT ![t] = s]
    BY <1>4 DEF End, Queue!End
  <2> QED
    BY <2>1 DEF JobsMatch, At
<1>5. ASSUME NEW r \in Requests, Ask(r) PROVE JobsMatch'
  <2>1. PICK t \in Turns :
          /\ turn[t] = Absent /\ status[t] = "none" /\ status' = [status EXCEPT ![t] = "waiting"]
          /\ turn' = [turn EXCEPT ![t] = [state |-> "running", answer |-> 0, at |-> 1]]
    BY <1>5 DEF Ask, NewTurn, Queue!Submit
  <2>2. run' = run
    BY <1>5 DEF Ask
  <2>3. \A u \in Turns : /\ status'[u] = IF u = t THEN "waiting" ELSE status[u]
                         /\ u # t => turn'[u] = turn[u]
    BY <2>1 DEF JobsMatch, TypeOK
  <2>4. turn'[t].state = "running"
    BY <2>1 DEF TypeOK
  <2>5. status' \in [Turns -> {"none", "waiting", "working", "leaving", "done", "failed", "cancelled"}]
    BY <2>1 DEF JobsMatch
  <2> QED
    BY <2>1, <2>2, <2>3, <2>4, <2>5 DEF JobsMatch, At
<1>6. ASSUME NEW r \in Requests, Clear(r) \/ \E t \in Turns : Stop(r, t) PROVE JobsMatch'
  <2>1. UNCHANGED <<turn, status, run>>
    BY <1>6 DEF Stop, Clear
  <2> QED
    BY <2>1 DEF JobsMatch, At
<1>7. ASSUME NEW r \in Requests, StopTurn(r) PROVE JobsMatch'
  BY <1>7, <1>s DEF StopTurn, RequestsMatch
<1>8. ASSUME NEW r \in Requests, StopUpdate(r) PROVE JobsMatch'
  <2>1. /\ UNCHANGED <<status, run>> /\ req[r].turn \in Turns
        /\ \/ Write(req[r].turn, "stopped", turn[req[r].turn].answer)
           \/ turn' = turn
    BY <1>8 DEF StopUpdate, RequestsMatch
  <2>2. \A t \in Turns : IF Exists(t) THEN turn'[t].state # "absent" ELSE turn'[t] = turn[t]
    BY <2>1, RowShape, WriteLeaves DEF Exists, TypeOK, Ended
  <2> QED
    BY <2>1, <2>2 DEF JobsMatch, At, Exists
<1>9. ASSUME NEW r \in Requests, ReadBack(r) \/ PublishTurn(r) \/ Reply(r) \/ ClearTell(r)
      PROVE  JobsMatch'
  BY <1>9 DEF ReadBack, PublishTurn, Reply, ClearTell, JobsMatch, At
<1>10. ASSUME NEW r \in Requests, ClearDelete(r) PROVE JobsMatch'
  <2>1. UNCHANGED <<status, run>> /\ \A t \in Turns : turn'[t] = IF Exists(t) THEN Gone ELSE turn[t]
    BY <1>10 DEF ClearDelete
  <2> QED
    BY <2>1, CopyShapes DEF JobsMatch, At, Exists
<1>11. ASSUME NEW r \in Requests, NEW t \in Turns, ClearStop(r, t) PROVE JobsMatch'
  BY <1>11, <1>s DEF ClearStop
<1>12. ASSUME NEW r \in Requests, NEW t \in Turns, Forget(r, t) PROVE JobsMatch'
  BY <1>12 DEF Forget, JobsMatch, At
<1>13. CASE HearEvent \/ HearReply
  BY <1>13 DEF HearEvent, HearReply, JobsMatch, At
<1>14. CASE Cut
  <2>1. /\ run'.at = run.at /\ run'.turn = run.turn /\ run'.end = run.end /\ run'.then = run.then
        /\ ~At("idle") /\ UNCHANGED <<turn, status>>
    BY <1>14 DEF Cut, TypeOK, Runs
  <2> QED
    BY <2>1 DEF JobsMatch, At
<1>15. CASE Crash
  <2>1. /\ \A t \in Turns : status'[t] = IF status[t] \in {"working", "leaving"} THEN "waiting" ELSE status[t]
        /\ turn' = turn /\ run' = Idle
        /\ status' \in [Turns -> {"none", "waiting", "working", "leaving", "done", "failed", "cancelled"}]
    BY <1>15 DEF Crash, JobsMatch
  <2> QED
    BY <1>z, <2>1, CopyShapes DEF JobsMatch, At
<1> QED
  BY <1>1, <1>2, <1>3, <1>4, <1>5, <1>6, <1>7, <1>8, <1>9, <1>10, <1>11, <1>12, <1>13, <1>14, <1>15
     DEF Next, Request

LEMMA RequestsStep == TypeOK /\ RequestsMatch /\ [Next]_vars => RequestsMatch'
<1> SUFFICES ASSUME TypeOK, RequestsMatch, [Next]_vars PROVE RequestsMatch'
  OBVIOUS
<1> USE DEF queue, usage, history, browser, Elsewhere
\* One request goes on.
<1>o. ASSUME NEW r \in Requests, NEW n, req' = [req EXCEPT ![r] = n],
             /\ n.op \in {"ask", "stop"} => n.turn \in Turns
             /\ n.at = "update" => n.op = "stop"
             /\ n.at \in {"read", "publish", "reply"} => n.op \in {"ask", "stop"}
             /\ n.at = "stop" => n.op \in {"stop", "clear"}
             /\ n.at = "forget" => n.op = "clear"
             /\ n.at = "none" => n = NoRequest
             /\ n.stop \subseteq n.todo
             /\ n.at # "stop" => n.stop = {}
             /\ n.todo # {} => n.op = "clear"
      PROVE  RequestsMatch'
  <2>1. req'[r] = n /\ \A q \in Requests \ {r} : req'[q] = req[q]
    BY <1>o DEF TypeOK
  <2> QED
    BY <1>o, <2>1 DEF RequestsMatch
<1>n. ASSUME NEW r \in Requests, req' = [req EXCEPT ![r] = NoRequest] PROVE RequestsMatch'
  BY <1>n, <1>o, CopyShapes
<1>p. ASSUME NEW r \in Requests, NEW p, Onward(r, p),
             /\ p = "update" => req[r].op = "stop"
             /\ p \in {"read", "publish", "reply"} => req[r].op \in {"ask", "stop"}
             /\ p = "forget" => req[r].op = "clear"
             /\ p \notin {"none", "stop"}
             /\ req[r].stop = {}
      PROVE  RequestsMatch'
  <2>1. req' = [req EXCEPT ![r] = [req[r] EXCEPT !.at = p]]
    BY <1>p DEF Onward
  <2>2. /\ [req[r] EXCEPT !.at = p].at = p /\ [req[r] EXCEPT !.at = p].op = req[r].op
        /\ [req[r] EXCEPT !.at = p].turn = req[r].turn /\ [req[r] EXCEPT !.at = p].stop = req[r].stop
        /\ [req[r] EXCEPT !.at = p].todo = req[r].todo
    BY DEF TypeOK, Reqs
  <2> HIDE DEF Onward
  <2>3. /\ req[r].op \in {"ask", "stop"} => req[r].turn \in Turns
        /\ req[r].todo # {} => req[r].op = "clear"
    BY DEF RequestsMatch
  <2> QED
    BY <1>o, <1>p, <2>1, <2>2, <2>3
<1>1. ASSUME UNCHANGED req PROVE RequestsMatch'
  BY <1>1 DEF RequestsMatch
<1>2. CASE UNCHANGED vars
  BY <1>1, <1>2 DEF vars
<1>3. CASE Handler \/ HearEvent \/ HearReply \/ Cut \/ \E t \in Turns : Begin(t) \/ End(t)
  BY <1>1, <1>3 DEF Handler, GetTurn, TellBlock, Save, CallEnds, Step, Finish, Announce, Tell, Return,
                    HearEvent, HearReply, Cut, Begin, End
<1>4. ASSUME NEW r \in Requests, Ask(r) PROVE RequestsMatch'
  <2>1. PICK t \in Turns :
          req' = [req EXCEPT ![r] = [NoRequest EXCEPT !.op = "ask", !.at = "read", !.turn = t]]
    BY <1>4 DEF Ask
  <2>2. \E n : /\ req' = [req EXCEPT ![r] = n] /\ n.op = "ask" /\ n.at = "read" /\ n.turn = t
               /\ n.stop = {} /\ n.todo = {}
    <3> DEFINE new == [NoRequest EXCEPT !.op = "ask", !.at = "read", !.turn = t]
    <3>1. new.op = "ask" /\ new.at = "read" /\ new.turn = t /\ new.stop = {} /\ new.todo = {}
      BY DEF NoRequest
    <3> QED
      BY <2>1, <3>1
  <2> QED
    BY <1>o, <2>2
<1>5. ASSUME NEW r \in Requests, NEW t \in Turns, Stop(r, t) PROVE RequestsMatch'
  <2>1. \E n : /\ req' = [req EXCEPT ![r] = n] /\ n.op = "stop" /\ n.at \in {"stop", "reply"}
               /\ n.turn = t /\ n.stop = {} /\ n.todo = {}
    <3> DEFINE new == [NoRequest EXCEPT !.op = "stop", !.turn = t, !.copy = turn[t],
               !.at = IF turn[t].state = "running" THEN "stop" ELSE "reply"]
    <3>1. /\ new.op = "stop" /\ new.at \in {"stop", "reply"}
          /\ new.turn = t /\ new.stop = {} /\ new.todo = {}
      BY DEF NoRequest
    <3>2. req' = [req EXCEPT ![r] = new]
      BY <1>5 DEF Stop
    <3> QED
      BY <3>1, <3>2
  <2> QED
    BY <1>o, <2>1
<1>6. ASSUME NEW r \in Requests, Clear(r) PROVE RequestsMatch'
  <2>1. \E n : /\ req' = [req EXCEPT ![r] = n] /\ n.op = "clear" /\ n.at = "stop"
               /\ n.stop \subseteq n.todo
    <3> DEFINE new == [NoRequest EXCEPT !.op = "clear", !.at = "stop",
               !.todo = {t \in Turns : Exists(t)},
               !.stop = {t \in Turns : turn[t].state = "running"}]
    <3>1. new.op = "clear" /\ new.at = "stop" /\ new.stop \subseteq new.todo
      BY DEF NoRequest, Exists
    <3>2. req' = [req EXCEPT ![r] = new]
      BY <1>6 DEF Clear
    <3> QED
      BY <3>1, <3>2
  <2> QED
    BY <1>o, <2>1
<1>7. ASSUME NEW r \in Requests, StopTurn(r) \/ StopUpdate(r) \/ PublishTurn(r) \/ ClearDelete(r)
      PROVE  RequestsMatch'
  <2>1. req[r].stop = {}
    BY <1>7 DEF StopTurn, StopUpdate, PublishTurn, ClearDelete, RequestsMatch
  <2> QED
    BY <1>7, <1>p, <2>1 DEF StopTurn, StopUpdate, PublishTurn, ClearDelete, RequestsMatch
<1>8. ASSUME NEW r \in Requests, Reply(r) \/ ClearTell(r) PROVE RequestsMatch'
  BY <1>8, <1>n DEF Reply, ClearTell
<1>9. ASSUME NEW r \in Requests, ReadBack(r) PROVE RequestsMatch'
  <2>1. CASE ~Exists(req[r].turn)
    BY <1>9, <1>n, <2>1 DEF ReadBack
  <2>2. CASE Exists(req[r].turn)
    <3>1. \E n : /\ req' = [req EXCEPT ![r] = n] /\ n.op = req[r].op /\ n.at = "publish"
                 /\ n.turn = req[r].turn /\ n.stop = req[r].stop /\ n.todo = req[r].todo
      <4> DEFINE new == [req[r] EXCEPT !.at = "publish", !.copy = turn[req[r].turn]]
      <4>1. /\ new.op = req[r].op /\ new.at = "publish" /\ new.turn = req[r].turn
            /\ new.stop = req[r].stop /\ new.todo = req[r].todo
        BY DEF TypeOK, Reqs
      <4>2. req' = [req EXCEPT ![r] = new]
        BY <1>9, <2>2 DEF ReadBack
      <4> QED
        BY <4>1, <4>2
    <3>2. /\ req[r].op \in {"ask", "stop"} /\ req[r].turn \in Turns
          /\ req[r].stop = {} /\ (req[r].todo # {} => req[r].op = "clear")
      BY <1>9 DEF ReadBack, RequestsMatch
    <3> QED
      BY <1>o, <3>1, <3>2
  <2> QED
    BY <2>1, <2>2
<1>10. ASSUME NEW r \in Requests, NEW t \in Turns, ClearStop(r, t) PROVE RequestsMatch'
  <2>1. \E n : /\ req' = [req EXCEPT ![r] = n] /\ n.op = req[r].op /\ n.at = req[r].at
               /\ n.turn = req[r].turn /\ n.stop = req[r].stop \ {t} /\ n.todo = req[r].todo
    <3> DEFINE new == [req[r] EXCEPT !.stop = @ \ {t}]
    <3>1. /\ new.op = req[r].op /\ new.at = req[r].at /\ new.turn = req[r].turn
          /\ new.stop = req[r].stop \ {t} /\ new.todo = req[r].todo
      BY DEF TypeOK, Reqs
    <3>2. req' = [req EXCEPT ![r] = new]
      BY <1>10 DEF ClearStop
    <3> QED
      BY <3>1, <3>2
  <2>2. t \in req[r].todo /\ req[r].op = "clear" /\ req[r].at # "none"
    BY <1>10, CopyShapes DEF ClearStop, RequestsMatch
  <2> QED
    BY <1>o, <2>1, <2>2 DEF RequestsMatch
<1>11. ASSUME NEW r \in Requests, NEW t \in Turns, Forget(r, t) PROVE RequestsMatch'
  <2>1. \E n : /\ req' = [req EXCEPT ![r] = n] /\ n.op = "clear" /\ n.at = "forget"
               /\ n.stop = {}
    <3> DEFINE new == [req[r] EXCEPT !.todo = @ \ {t}]
    <3>1. /\ new.op = req[r].op /\ new.at = req[r].at /\ new.stop = req[r].stop
      BY DEF TypeOK, Reqs
    <3>2. req' = [req EXCEPT ![r] = new]
      BY <1>11 DEF Forget
    <3>3. req[r].op = "clear" /\ req[r].at = "forget" /\ req[r].stop = {}
      BY <1>11 DEF Forget, RequestsMatch
    <3> QED
      BY <3>1, <3>2, <3>3
  <2> QED
    BY <1>o, <2>1
<1>12. CASE Crash
  BY <1>12, CopyShapes DEF Crash, RequestsMatch
<1> QED
  BY <1>2, <1>3, <1>4, <1>5, <1>6, <1>7, <1>8, <1>9, <1>10, <1>11, <1>12 DEF Next, Request

-----------------------------------------------------------------------------
\* Every variable of a conversation, of its jobs, its requests and its page has its type in
\* every state: nothing that is written, published or heard makes another row.
THEOREM TutorTypeCorrect == Spec => []TypeOK
<1>1. Init => TypeOK /\ JobsMatch /\ RequestsMatch
  BY TypeInit
<1>2. TypeOK /\ JobsMatch /\ RequestsMatch /\ [Next]_vars => (TypeOK /\ JobsMatch /\ RequestsMatch)'
  BY TypeStep, JobsStep, RequestsStep
<1> QED
  BY <1>1, <1>2, PTL DEF Spec

-----------------------------------------------------------------------------
(* What becomes of the rows.                                               *)

\* A row is left alone, asked for, written, or deleted.
Stays(t) == turn'[t] = turn[t]
Asked(t) == turn[t] = Absent /\ status[t] = "none" /\ turn'[t].state = "running" /\ turn'[t].at = 1
Written(t) == /\ Exists(t) /\ Exists(t)' /\ turn'[t].at = turn[t].at + 1
              /\ turn'[t].state = "running" => turn[t].state = "running"
Deleted(t) == Exists(t) /\ turn'[t] = Gone

LEMMA WriteRow ==
  ASSUME TypeOK, NEW t \in Turns, NEW s, NEW n \in Nat, Write(t, s, n),
         s \in Ended \cup {turn[t].state}
  PROVE  /\ \A u \in Turns \ {t} : Stays(u)
         /\ IF Exists(t) THEN Written(t) /\ turn'[t].state = s ELSE Stays(t)
<1>1. s \in {"absent", "gone", "running"} \cup Ended
  BY RowShape DEF TypeOK
<1>2. /\ \A u \in Turns \ {t} : turn'[u] = turn[u]
      /\ IF Exists(t) THEN turn'[t].state = s /\ turn'[t].at = turn[t].at + 1
                      ELSE turn'[t] = turn[t]
  BY <1>1, WriteShape DEF TypeOK
<1>3. Exists(t) => s \notin {"absent", "gone"} /\ (s = "running" => turn[t].state = "running")
  BY DEF Exists, Ended
<1> QED
  BY <1>2, <1>3 DEF Stays, Written, Exists

\* The handler writes the row of its own turn, as its run goes on.
LEMMA HandlerRows ==
  ASSUME TypeOK, JobsMatch, Handler
  PROVE  /\ ~At("idle") /\ \A t \in Turns \ {run.turn} : Stays(t)
         /\ Stays(run.turn) \/ (Written(run.turn) /\ run.at \in {"saving", "step", "finish"})
         /\ At("finish") /\ run.end # "again" /\ Exists(run.turn) => turn'[run.turn].state # "running"
<1>0. \A p : At(p) /\ p # "idle" => run.turn \in Turns /\ ~At("idle")
  BY DEF JobsMatch, At
<1>w. run.wrote \in Nat
  BY RunShape DEF TypeOK
<1>1. CASE GetTurn \/ TellBlock \/ CallEnds \/ Announce \/ Tell \/ Return
  BY <1>0, <1>1 DEF GetTurn, TellBlock, CallEnds, Announce, Tell, Return, Stays, At
<1>2. CASE Save
  BY <1>0, <1>w, <1>2, WriteRow DEF Save, Stays, At
<1>3. CASE Step
  BY <1>0, <1>w, <1>3, WriteRow DEF Step, Stays, At
<1>4. CASE Finish
  <2>1. CASE run.end = "again"
    BY <1>0, <1>4, <2>1, WriteRow DEF Finish, Stays, At
  <2>2. CASE run.end # "again"
    <3>1. run.end \in Ended /\ run.end # "running"
      BY <1>4, <2>2 DEF Finish, JobsMatch, Ended
    <3> QED
      BY <1>0, <1>w, <1>4, <2>2, <3>1, WriteRow DEF Finish, Stays, At
  <2> QED
    BY <2>1, <2>2
<1> QED
  BY <1>1, <1>2, <1>3, <1>4 DEF Handler

LEMMA AskRows ==
  ASSUME TypeOK, NEW r \in Requests, Ask(r)
  PROVE  \E t \in Turns : /\ Asked(t) /\ \A u \in Turns \ {t} : Stays(u)
                          /\ status' = [status EXCEPT ![t] = "waiting"]
                          /\ req' = [req EXCEPT ![r] = [NoRequest EXCEPT !.op = "ask", !.at = "read",
                                                                         !.turn = t]]
<1>1. PICK t \in Turns :
        /\ turn[t] = Absent /\ status[t] = "none" /\ status' = [status EXCEPT ![t] = "waiting"]
        /\ turn' = [turn EXCEPT ![t] = [state |-> "running", answer |-> 0, at |-> 1]]
        /\ req' = [req EXCEPT ![r] = [NoRequest EXCEPT !.op = "ask", !.at = "read", !.turn = t]]
  BY DEF Ask, NewTurn, Queue!Submit
<1>2. Asked(t) /\ \A u \in Turns \ {t} : Stays(u)
  BY <1>1 DEF Asked, Stays, TypeOK
<1> QED
  BY <1>1, <1>2

LEMMA StopRows ==
  ASSUME TypeOK, RequestsMatch, NEW r \in Requests, StopUpdate(r)
  PROVE  /\ req[r].turn \in Turns /\ \A t \in Turns \ {req[r].turn} : Stays(t)
         /\ IF turn[req[r].turn].state = "running"
              THEN Written(req[r].turn) /\ turn'[req[r].turn].state = "stopped"
              ELSE Stays(req[r].turn)
<1>1. req[r].turn \in Turns
  BY DEF StopUpdate, RequestsMatch
<1>2. CASE turn[req[r].turn].state = "running"
  <2>1. /\ Write(req[r].turn, "stopped", turn[req[r].turn].answer) /\ Exists(req[r].turn)
        /\ turn[req[r].turn].answer \in Nat /\ "stopped" \in Ended
    BY <1>1, <1>2, RowShape DEF StopUpdate, TypeOK, Ended, Exists
  <2> QED
    BY <1>1, <1>2, <2>1, WriteRow
<1>3. CASE turn[req[r].turn].state # "running"
  BY <1>1, <1>3 DEF StopUpdate, Stays
<1> QED
  BY <1>1, <1>2, <1>3

LEMMA DeleteRows ==
  ASSUME TypeOK, NEW r \in Requests, ClearDelete(r)
  PROVE  \A t \in Turns : IF Exists(t) THEN Deleted(t) ELSE Stays(t)
BY DEF ClearDelete, Deleted, Stays

\* The other steps leave the rows alone.
LEMMA OtherRows ==
  ASSUME [Next]_vars, ~Handler, \A r \in Requests : ~Ask(r) /\ ~StopUpdate(r) /\ ~ClearDelete(r)
  PROVE  turn' = turn
<1>1. CASE UNCHANGED vars
  BY <1>1 DEF vars
<1>2. CASE Cut \/ Crash \/ HearEvent \/ HearReply \/ \E t \in Turns : Begin(t) \/ End(t)
  BY <1>2 DEF Cut, Crash, HearEvent, HearReply, Begin, End
<1>3. ASSUME NEW r \in Requests, Clear(r) \/ \E t \in Turns : Stop(r, t) PROVE turn' = turn
  BY <1>3 DEF Clear, Stop
<1>4. ASSUME NEW r \in Requests, Request(r) PROVE turn' = turn
  BY <1>4 DEF Request, StopTurn, ReadBack, PublishTurn, Reply, ClearTell, ClearStop, Forget
<1> QED
  BY <1>1, <1>2, <1>3, <1>4 DEF Next

-----------------------------------------------------------------------------
(* A turn that was cleared leaves no calls.                                *)

\* Nothing is recorded for a turn that is marked, and a turn that a Clear listed and
\* that is gone is marked, or will be.
GoneMarked ==
  /\ marks \cap calls = {}
  /\ \A r \in Requests : \A t \in req[r].todo :
       turn[t].state # "absent" /\ (req[r].at = "forget" => turn[t].state = "gone")
  /\ \A t \in Turns \ (late \cup broken) :
       turn[t].state = "gone" => t \in marks \/ \E r \in Requests : t \in req[r].todo

LEMMA GoneStep == TypeOK /\ JobsMatch /\ RequestsMatch /\ GoneMarked /\ [Next]_vars => GoneMarked'
<1> SUFFICES ASSUME TypeOK, JobsMatch, RequestsMatch, GoneMarked, [Next]_vars PROVE GoneMarked'
  OBVIOUS
<1> USE DEF queue, usage, history, browser, Elsewhere
\* What is gone stays gone, and nothing else goes.
<1>k. ASSUME \A t \in Turns : Stays(t) \/ Asked(t) \/ Written(t),
             calls' \subseteq calls \cup (Turns \ marks), UNCHANGED <<marks, late, broken>>,
             \A r \in Requests : /\ req'[r].todo = req[r].todo
                                 /\ req'[r].at = "forget" /\ req'[r].todo # {} => req[r].at = "forget"
      PROVE  GoneMarked'
  <2>1. \A t \in Turns : /\ turn'[t].state = "gone" <=> turn[t].state = "gone"
                         /\ turn[t].state # "absent" => turn'[t].state # "absent"
    BY <1>k, CopyShapes DEF Stays, Asked, Written, Exists
  <2>2. \A r \in Requests : req[r].todo \subseteq Turns
    BY DEF TypeOK, Reqs
  <2> QED
    BY <1>k, <2>1, <2>2 DEF GoneMarked
<1>u. ASSUME UNCHANGED <<turn, calls, marks, late, broken>>,
             \A r \in Requests : /\ req'[r].todo = req[r].todo
                                 /\ req'[r].at = "forget" /\ req'[r].todo # {} => req[r].at = "forget"
      PROVE  GoneMarked'
  BY <1>k, <1>u DEF Stays
\* A request that ends, or that is begun, and has nothing to forget.
<1>n. ASSUME NEW r \in Requests, NEW n, req' = [req EXCEPT ![r] = n], n.todo = {}, req[r].todo = {}
      PROVE  \A q \in Requests : /\ req'[q].todo = req[q].todo
                                 /\ req'[q].at = "forget" /\ req'[q].todo # {} => req[q].at = "forget"
  BY <1>n DEF TypeOK
<1>1. CASE UNCHANGED vars
  BY <1>1, <1>u DEF vars
<1>2. CASE Handler
  <2>1. \A t \in Turns : Stays(t) \/ Written(t)
    BY <1>2, HandlerRows DEF JobsMatch
  <2>2. UNCHANGED <<req, marks, late, broken>>
    BY <1>2 DEF Handler, GetTurn, TellBlock, Save, CallEnds, Step, Finish, Announce, Tell, Return
  <2>3. calls' \subseteq calls \cup (Turns \ marks)
    <3>1. CASE CallEnds
      BY <3>1 DEF CallEnds, Sink, JobsMatch, At
    <3>2. CASE ~CallEnds
      BY <1>2, <3>2 DEF Handler, GetTurn, TellBlock, Save, Step, Finish, Announce, Tell, Return
    <3> QED
      BY <3>1, <3>2
  <2> QED
    BY <1>k, <2>1, <2>2, <2>3
<1>3. CASE HearEvent \/ HearReply \/ Cut \/ \E t \in Turns : Begin(t) \/ End(t)
  <2>1. UNCHANGED <<turn, calls, marks, late, broken, req>>
    BY <1>3 DEF HearEvent, HearReply, Cut, Begin, End
  <2> QED
    BY <1>u, <2>1
<1>4. ASSUME NEW r \in Requests, Ask(r) PROVE GoneMarked'
  <2>1. PICK t \in Turns : /\ Asked(t) /\ \A u \in Turns \ {t} : Stays(u)
                           /\ req' = [req EXCEPT ![r] = [NoRequest EXCEPT !.op = "ask", !.at = "read",
                                                                         !.turn = t]]
    BY <1>4, AskRows
  <2>2. [NoRequest EXCEPT !.op = "ask", !.at = "read", !.turn = t].todo = {} /\ req[r].todo = {}
    BY <1>4, CopyShapes DEF Ask, NoRequest
  <2>3. UNCHANGED <<calls, marks, late, broken>>
    BY <1>4 DEF Ask
  <2> QED
    BY <1>k, <1>n, <2>1, <2>2, <2>3
<1>5. ASSUME NEW r \in Requests, NEW t \in Turns, Stop(r, t) PROVE GoneMarked'
  <2> DEFINE new == [NoRequest EXCEPT !.op = "stop", !.turn = t, !.copy = turn[t],
               !.at = IF turn[t].state = "running" THEN "stop" ELSE "reply"]
  <2>1. new.todo = {} /\ req[r].todo = {}
    BY <1>5, CopyShapes DEF Stop, NoRequest
  <2>2. req' = [req EXCEPT ![r] = new] /\ UNCHANGED <<turn, calls, marks, late, broken>>
    BY <1>5 DEF Stop
  <2> HIDE DEF new
  <2> QED
    BY <1>n, <1>u, <2>1, <2>2
<1>6. ASSUME NEW r \in Requests, Clear(r) PROVE GoneMarked'
  <2> DEFINE new == [NoRequest EXCEPT !.op = "clear", !.at = "stop",
               !.todo = {t \in Turns : Exists(t)},
               !.stop = {t \in Turns : turn[t].state = "running"}]
  <2>1. new.todo = {t \in Turns : Exists(t)} /\ new.at = "stop"
    BY DEF NoRequest
  <2>2. /\ req' = [req EXCEPT ![r] = new] /\ UNCHANGED <<turn, calls, marks, late, broken>>
        /\ req[r].todo = {}
    BY <1>6, CopyShapes DEF Clear
  <2> HIDE DEF new
  <2>3. req'[r] = new /\ \A q \in Requests \ {r} : req'[q] = req[q]
    BY <2>2 DEF TypeOK
  <2> QED
    BY <2>1, <2>2, <2>3 DEF GoneMarked, Exists
<1>7. ASSUME NEW r \in Requests,
             StopTurn(r) \/ StopUpdate(r) \/ ReadBack(r) \/ PublishTurn(r) \/ Reply(r) \/ ClearTell(r)
      PROVE  GoneMarked'
  <2>1. UNCHANGED <<calls, marks, late, broken>>
    BY <1>7 DEF StopTurn, StopUpdate, ReadBack, PublishTurn, Reply, ClearTell
  <2>2. \A t \in Turns : Stays(t) \/ Written(t)
    <3>1. CASE StopUpdate(r)
      BY <3>1, StopRows
    <3>2. CASE ~StopUpdate(r)
      BY <1>7, <3>2 DEF StopTurn, ReadBack, PublishTurn, Reply, ClearTell, Stays
    <3> QED
      BY <3>1, <3>2
  <2>3. req[r].todo = {} /\ \E n : req' = [req EXCEPT ![r] = n] /\ n.todo = {}
    <3>1. req[r].todo = {}
      BY <1>7 DEF StopTurn, StopUpdate, ReadBack, PublishTurn, Reply, ClearTell, RequestsMatch
    <3>2. CASE \E p : Onward(r, p)
      <4>1. PICK p : Onward(r, p)
        BY <3>2
      <4>2. req' = [req EXCEPT ![r] = [req[r] EXCEPT !.at = p]]
        BY <4>1 DEF Onward
      <4>3. [req[r] EXCEPT !.at = p].todo = {}
        BY <3>1 DEF TypeOK, Reqs
      <4> QED
        BY <3>1, <4>2, <4>3
    <3>3. CASE req' = [req EXCEPT ![r] = NoRequest]
      BY <3>1, <3>3, CopyShapes
    <3>4. CASE ReadBack(r) /\ Exists(req[r].turn)
      <4> DEFINE new == [req[r] EXCEPT !.at = "publish", !.copy = turn[req[r].turn]]
      <4>1. req' = [req EXCEPT ![r] = new]
        BY <3>4 DEF ReadBack
      <4>2. new.todo = {}
        BY <3>1 DEF TypeOK, Reqs
      <4> QED
        BY <3>1, <4>1, <4>2
    <3>5. CASE StopTurn(r) \/ StopUpdate(r) \/ PublishTurn(r)
      BY <3>2, <3>5 DEF StopTurn, StopUpdate, PublishTurn
    <3>6. CASE Reply(r) \/ ClearTell(r) \/ (ReadBack(r) /\ ~Exists(req[r].turn))
      BY <3>3, <3>6 DEF Reply, ClearTell, ReadBack
    <3> QED
      BY <1>7, <3>4, <3>5, <3>6
  <2> QED
    BY <1>k, <1>n, <2>1, <2>2, <2>3
<1>8. ASSUME NEW r \in Requests, ClearDelete(r) PROVE GoneMarked'
  <2>1. \A t \in Turns : IF Exists(t) THEN turn'[t].state = "gone" ELSE turn'[t] = turn[t]
    BY <1>8, DeleteRows, CopyShapes DEF Deleted, Stays
  <2>2. /\ late' = late \cup {t \in Turns : Exists(t) /\ t \notin req[r].todo}
        /\ UNCHANGED <<calls, marks, broken>>
    BY <1>8 DEF ClearDelete
  <2>3. \A q \in Requests : /\ req'[q].todo = req[q].todo /\ req[q].todo \subseteq Turns
                            /\ q # r => req'[q].at = req[q].at
    BY <1>8 DEF ClearDelete, Onward, TypeOK, Reqs
  <2>4. \A t \in req[r].todo : turn[t].state # "absent" /\ turn'[t].state = "gone"
    BY <2>1, <2>3 DEF GoneMarked, Exists
  <2>5. marks' \cap calls' = {}
    BY <2>2 DEF GoneMarked
  <2>6. \A q \in Requests : \A t \in req'[q].todo :
          turn'[t].state # "absent" /\ (req'[q].at = "forget" => turn'[t].state = "gone")
    BY <2>1, <2>3, <2>4 DEF GoneMarked, Exists
  <2>7. \A t \in Turns \ (late' \cup broken') :
          turn'[t].state = "gone" => t \in marks' \/ \E q \in Requests : t \in req'[q].todo
    BY <2>1, <2>2, <2>3 DEF GoneMarked
  <2> QED
    BY <2>5, <2>6, <2>7 DEF GoneMarked
<1>9. ASSUME NEW r \in Requests, NEW t \in Turns, ClearStop(r, t) PROVE GoneMarked'
  <2>1. \A q \in Requests : req'[q].todo = req[q].todo /\ req'[q].at = req[q].at
    BY <1>9 DEF ClearStop, TypeOK, Reqs
  <2> QED
    BY <1>9, <1>u, <2>1 DEF ClearStop
<1>10. ASSUME NEW r \in Requests, NEW t \in Turns, Forget(r, t) PROVE GoneMarked'
  <2>1. /\ req'[r].todo = req[r].todo \ {t} /\ req'[r].at = req[r].at
        /\ \A q \in Requests \ {r} : req'[q] = req[q]
    BY <1>10 DEF Forget, TypeOK, Reqs
  <2>2. marks' = marks \cup {t} /\ calls' = calls \ {t} /\ UNCHANGED <<turn, late, broken>>
    BY <1>10 DEF Forget
  <2> QED
    BY <2>1, <2>2 DEF GoneMarked
<1>11. CASE Crash
  <2>1. UNCHANGED <<turn, calls, marks, late>> /\ \A r \in Requests : req'[r].todo = {}
    BY <1>11, CopyShapes DEF Crash
  <2>2. \A r \in Requests : req[r].todo \subseteq broken'
    BY <1>11 DEF Crash, RequestsMatch, TypeOK, Reqs
  <2>3. broken \subseteq broken'
    BY <1>11 DEF Crash
  <2> QED
    BY <2>1, <2>2, <2>3 DEF GoneMarked
<1> QED
  BY <1>1, <1>2, <1>3, <1>4, <1>5, <1>6, <1>7, <1>8, <1>9, <1>10, <1>11 DEF Next, Request

LEMMA GoneInit == Init => GoneMarked
<1> SUFFICES ASSUME Init PROVE GoneMarked
  OBVIOUS
<1>1. \A t \in Turns : turn[t].state = "absent"
  BY CopyShapes DEF Init
<1>2. marks = {} /\ \A r \in Requests : req[r].todo = {}
  BY CopyShapes DEF Init
<1> QED
  BY <1>1, <1>2 DEF GoneMarked

\* "The rows go when their subject does": a turn that a Clear listed and deleted leaves no
\* calls, though its run, or another one of it, goes on calling, unless a crash cut the
\* Clear short.
THEOREM GoneLeavesNoCallsHolds == Spec => []GoneLeavesNoCalls
<1>1. Init => TypeOK /\ JobsMatch /\ RequestsMatch /\ GoneMarked
  BY TypeInit, GoneInit
<1>2. TypeOK /\ JobsMatch /\ RequestsMatch /\ GoneMarked /\ [Next]_vars
        => (TypeOK /\ JobsMatch /\ RequestsMatch /\ GoneMarked)'
  BY TypeStep, JobsStep, RequestsStep, GoneStep
<1>3. GoneMarked => GoneLeavesNoCalls
  BY DEF GoneMarked, GoneLeavesNoCalls
<1> QED
  BY <1>1, <1>2, <1>3, PTL DEF Spec

-----------------------------------------------------------------------------
(* A turn that was stopped stays stopped.                                  *)

\* A run that has got past the look at its row found it running as it began.
BegunRunning ==
  /\ run.at \in {"calling", "saving", "step", "finish", "read", "tell"} => run.from = "running"
  /\ At("begun") /\ turn[run.turn].state = "running" => run.from = "running"

LEMMA BegunStep == TypeOK /\ JobsMatch /\ RequestsMatch /\ BegunRunning /\ [Next]_vars => BegunRunning'
<1> SUFFICES ASSUME TypeOK, JobsMatch, RequestsMatch, BegunRunning, [Next]_vars PROVE BegunRunning'
  OBVIOUS
<1> USE DEF queue, usage, history, browser, Elsewhere
<1>b. At("begun") => run.turn \in Turns /\ status[run.turn] = "working"
  BY DEF At, JobsMatch
<1>u. ASSUME run'.at = run.at, run'.turn = run.turn, run'.from = run.from,
             At("begun") /\ turn'[run.turn].state = "running" => turn[run.turn].state = "running"
      PROVE  BegunRunning'
  BY <1>u DEF BegunRunning, At
<1>1. CASE UNCHANGED vars
  BY <1>1, <1>u DEF vars
<1>2. CASE GetTurn
  <2>1. /\ run'.from = run.from /\ run'.at \in {"calling", "back"}
        /\ run'.at = "calling" => turn[run.turn].state = "running"
    BY <1>2 DEF GetTurn, TypeOK, Runs
  <2> QED
    BY <1>2, <2>1 DEF GetTurn, BegunRunning, At
<1>3. CASE TellBlock \/ Save \/ CallEnds \/ Step \/ Finish \/ Announce \/ Tell
  <2>1. run.at \in {"calling", "saving", "step", "finish", "read", "tell"}
    BY <1>3 DEF TellBlock, Save, CallEnds, Step, Finish, Announce, Tell, At
  <2>2. run'.from = run.from /\ run'.at # "begun"
    <3>1. CASE TellBlock
      BY <3>1 DEF TellBlock, TypeOK, Runs
    <3>2. CASE Save \/ CallEnds
      BY <3>2 DEF Save, CallEnds, GoTo, GoToEnd, TypeOK, Runs
    <3>3. CASE Step \/ Finish
      BY <3>3 DEF Step, Finish, TypeOK, Runs
    <3>4. CASE Announce
      BY <3>4 DEF Announce, TypeOK, Runs
    <3>5. CASE Tell
      BY <3>5 DEF Tell, TypeOK, Runs
    <3> QED
      BY <1>3, <3>1, <3>2, <3>3, <3>4, <3>5
  <2> QED
    BY <2>1, <2>2 DEF BegunRunning, At
<1>4. CASE Return \/ Crash
  <2>1. run'.at = "idle"
    BY <1>4, CopyShapes DEF Return, Crash
  <2> QED
    BY <2>1 DEF BegunRunning, At
<1>5. ASSUME NEW t \in Turns, Begin(t) PROVE BegunRunning'
  <2>1. run' = [Idle EXCEPT !.turn = t, !.at = "begun", !.from = turn[t].state] /\ turn' = turn
    BY <1>5 DEF Begin
  <2>2. run'.at = "begun" /\ run'.turn = t /\ run'.from = turn[t].state
    BY <2>1 DEF Idle
  <2> QED
    BY <2>1, <2>2 DEF BegunRunning, At
<1>6. ASSUME NEW r \in Requests, Ask(r) PROVE BegunRunning'
  <2>1. PICK t \in Turns : status[t] = "none" /\ \A u \in Turns \ {t} : turn'[u] = turn[u]
    BY <1>6, AskRows DEF Asked, Stays
  <2>2. run' = run
    BY <1>6 DEF Ask
  <2> QED
    BY <1>b, <1>u, <2>1, <2>2
<1>7. ASSUME NEW r \in Requests, StopUpdate(r) PROVE BegunRunning'
  <2>1. \A t \in Turns : turn'[t].state = "running" => turn[t].state = "running"
    BY <1>7, StopRows DEF Stays, Written
  <2>2. run' = run
    BY <1>7 DEF StopUpdate
  <2> QED
    BY <1>b, <1>u, <2>1, <2>2
<1>8. ASSUME NEW r \in Requests, ClearDelete(r) PROVE BegunRunning'
  <2>1. \A t \in Turns : turn'[t].state = "running" => turn[t].state = "running"
    BY <1>8, DeleteRows, CopyShapes DEF Stays, Deleted
  <2>2. run' = run
    BY <1>8 DEF ClearDelete
  <2> QED
    BY <1>b, <1>u, <2>1, <2>2
<1>9. ASSUME NEW r \in Requests, StopTurn(r) \/ \E t \in Turns : ClearStop(r, t) PROVE BegunRunning'
  <2>1. PICK t \in Turns : StopJob(t)
    BY <1>9 DEF StopTurn, ClearStop, RequestsMatch
  <2>2. run' = [run EXCEPT !.stopped = @ \/ run.turn = t]
    BY <2>1, StopShape DEF TypeOK
  <2>3. run'.at = run.at /\ run'.turn = run.turn /\ run'.from = run.from
    BY <2>2 DEF TypeOK, Runs
  <2>4. turn' = turn
    BY <1>9 DEF StopTurn, ClearStop
  <2> QED
    BY <1>u, <2>3, <2>4
<1>10. CASE Cut
  <2>1. run'.at = run.at /\ run'.turn = run.turn /\ run'.from = run.from /\ turn' = turn
    BY <1>10 DEF Cut, TypeOK, Runs
  <2> QED
    BY <1>u, <2>1
<1>11. ASSUME NEW r \in Requests,
              ReadBack(r) \/ PublishTurn(r) \/ Reply(r) \/ ClearTell(r) \/ Clear(r)
              \/ \E t \in Turns : Forget(r, t) \/ Stop(r, t)
       PROVE  BegunRunning'
  <2>1. UNCHANGED <<run, turn>>
    BY <1>11 DEF ReadBack, PublishTurn, Reply, ClearTell, Clear, Forget, Stop
  <2> QED
    BY <1>u, <2>1
<1>12. CASE HearEvent \/ HearReply \/ \E t \in Turns : End(t)
  <2>1. UNCHANGED <<run, turn>>
    BY <1>12 DEF HearEvent, HearReply, End
  <2> QED
    BY <1>u, <2>1
<1> QED
  BY <1>1, <1>2, <1>3, <1>4, <1>5, <1>6, <1>7, <1>8, <1>9, <1>10, <1>11, <1>12
     DEF Next, Handler, Request

\* No step but one of a run that found the turn running as it began writes a turn that is
\* stopped: a job that an interruption or a lost Stop has left behind never starts it.
THEOREM StoppedStaysHolds == Spec => StoppedStays
<1> DEFINE Kept == \A t \in Turns :
             turn[t].state = "stopped" /\ turn'[t] \notin {turn[t], Gone}
               => run.turn = t /\ run.from = "running"
<1>1. Init => TypeOK /\ JobsMatch /\ RequestsMatch /\ BegunRunning
  <2>1. Init => BegunRunning
    BY CopyShapes DEF Init, BegunRunning, At
  <2> QED
    BY <2>1, TypeInit
<1>2. TypeOK /\ JobsMatch /\ RequestsMatch /\ BegunRunning /\ [Next]_vars
        => (TypeOK /\ JobsMatch /\ RequestsMatch /\ BegunRunning)'
  BY TypeStep, JobsStep, RequestsStep, BegunStep
<1>3. TypeOK /\ JobsMatch /\ RequestsMatch /\ BegunRunning /\ [Next]_vars => Kept
  <2> SUFFICES ASSUME TypeOK, JobsMatch, RequestsMatch, BegunRunning, [Next]_vars,
                      NEW t \in Turns, turn[t].state = "stopped", turn'[t] \notin {turn[t], Gone}
               PROVE  run.turn = t /\ run.from = "running"
    OBVIOUS
  <2>1. CASE Handler
    BY <2>1, HandlerRows DEF Stays, BegunRunning
  <2>2. ASSUME NEW r \in Requests, Ask(r) PROVE FALSE
    BY <2>2, AskRows, CopyShapes DEF Stays, Asked
  <2>3. ASSUME NEW r \in Requests, StopUpdate(r) PROVE FALSE
    BY <2>3, StopRows DEF Stays
  <2>4. ASSUME NEW r \in Requests, ClearDelete(r) PROVE FALSE
    BY <2>4, DeleteRows DEF Stays, Deleted
  <2> QED
    BY <2>1, <2>2, <2>3, <2>4, OtherRows
<1>4. TypeOK /\ JobsMatch /\ RequestsMatch /\ BegunRunning /\ [Next]_vars => [Kept]_vars
  BY <1>3
<1> HIDE DEF Kept
<1>5. Spec => [][Kept]_vars
  BY <1>1, <1>2, <1>4, PTL DEF Spec
<1> QED
  BY <1>5 DEF StoppedStays, Kept

-----------------------------------------------------------------------------
(* A turn that runs is owed its end.                                       *)

\* A Stop or a Clear of the turn that has not done with it.
Ending(r, t) == \/ /\ req[r].op = "stop" /\ req[r].turn = t
                   /\ req[r].at \in {"stop", "update"}
                \/ t \in req[r].todo

\* The run has done with its row, but for saying so.
Past == At("back") \/ (run.at \in {"read", "tell"} /\ run.then = "back")

\* A job that will go on with the turn: one that waits, or will; or one whose run is not
\* stopped, and that waits again if it leaves the row as it is.
Carries(t) == \/ status[t] = "waiting"
              \/ status[t] = "leaving" /\ verdict[t] = "waiting"
              \/ /\ run.turn = t /\ ~run.stopped
                 /\ Past => run.end \in {"erred", "again"}
                 /\ run.end \in {"erred", "again"} => run.cut

Owing == \A t \in Turns :
           turn[t].state = "running" /\ t \notin broken /\ (\A r \in Requests : ~Ending(r, t))
             => Carries(t)

LEMMA HandlerOwes ==
  ASSUME TypeOK, JobsMatch, Owing, Handler
  PROVE  Owing'
<1> USE DEF queue, history, Elsewhere
<1>1. UNCHANGED <<req, broken>>
  BY DEF Handler, GetTurn, TellBlock, Save, CallEnds, Step, Finish, Announce, Tell, Return
<1>2. /\ ~At("idle") /\ run.turn \in Turns
      /\ \A t \in Turns : turn'[t].state = "running" => turn[t].state = "running"
      /\ At("finish") /\ run.end # "again" => turn'[run.turn].state # "running"
  <2>1. run.turn \in Turns
    BY HandlerRows DEF JobsMatch
  <2>2. \A t \in Turns : turn'[t].state = "running" => turn[t].state = "running"
    BY <2>1, HandlerRows DEF Stays, Written
  <2> QED
    BY <2>1, <2>2, HandlerRows DEF Stays, Exists
\* The others' jobs are as they were.
<1>3. \A t \in Turns \ {run.turn} : status'[t] = status[t] /\ verdict'[t] = verdict[t]
  <2>1. CASE Return
    BY <2>1 DEF Return, Queue!Return, JobsMatch, TypeOK
  <2>2. CASE ~Return
    BY <2>2 DEF Handler, GetTurn, TellBlock, Save, CallEnds, Step, Finish, Announce, Tell
  <2> QED
    BY <2>1, <2>2
<1>4. ASSUME NEW t \in Turns \ {run.turn}, Carries(t) PROVE Carries(t)'
  BY <1>3, <1>4 DEF Carries
<1>5. ASSUME NEW t \in Turns, t = run.turn, Carries(t),
             turn[t].state = "running", turn'[t].state = "running"
      PROVE  Carries(t)'
  <2>1. /\ ~run.stopped
        /\ Past => run.end \in {"erred", "again"}
        /\ run.end \in {"erred", "again"} => run.cut
    BY <1>2, <1>5 DEF Carries, JobsMatch
  <2>2. ASSUME run'.turn = run.turn, run'.stopped = run.stopped, run'.cut = run.cut,
               Past' => run'.end \in {"erred", "again"}, run'.end \in {"erred", "again"} => run.cut
        PROVE  Carries(t)'
    BY <1>5, <2>1, <2>2 DEF Carries
  <2>3. CASE GetTurn
    <3>1. /\ run'.turn = run.turn /\ run'.stopped = run.stopped /\ run'.cut = run.cut
          /\ IF ~run.cut THEN run'.at = "calling" /\ run'.end = "none" ELSE run'.end = "erred"
      BY <1>5, <2>1, <2>3 DEF GetTurn, Alive, TypeOK, Runs
    <3> QED
      BY <2>2, <3>1 DEF Past, At
  <2>4. CASE TellBlock \/ Save
    <3>1. /\ run'.turn = run.turn /\ run'.stopped = run.stopped /\ run'.cut = run.cut
          /\ run'.at \in {"saving", "calling"} /\ run'.end = run.end
      BY <2>4 DEF TellBlock, Save, GoTo, TypeOK, Runs
    <3> QED
      BY <2>1, <2>2, <3>1 DEF Past, At
  <2>5. CASE CallEnds
    <3>1. GoTo("step") \/ \E e \in Ended \cup {"again"} : GoToEnd(e) /\ (e = "again" => run.cut)
      <4>1. Cause \in Ended \cup {"again"} /\ {"done", "failed"} \subseteq Ended
            /\ (Cause = "again" => run.cut) /\ "again" \notin {"done", "failed"}
        BY DEF Cause, Ended
      <4> QED
        BY <2>5, <4>1 DEF CallEnds
    <3>2. CASE GoTo("step")
      <4>1. /\ run'.turn = run.turn /\ run'.stopped = run.stopped /\ run'.cut = run.cut
            /\ run'.at = "step" /\ run'.end = run.end
        BY <3>2 DEF GoTo, TypeOK, Runs
      <4> QED
        BY <2>1, <2>2, <4>1 DEF Past, At
    <3>3. ASSUME NEW e \in Ended \cup {"again"}, GoToEnd(e), e = "again" => run.cut
          PROVE  Carries(t)'
      <4>1. /\ run'.turn = run.turn /\ run'.stopped = run.stopped /\ run'.cut = run.cut
            /\ run'.at = "finish" /\ run'.end = e
        BY <3>3 DEF GoToEnd, TypeOK, Runs
      <4>2. e # "erred"
        BY DEF Ended
      <4> QED
        BY <2>2, <3>3, <4>1, <4>2 DEF Past, At
    <3> QED
      BY <3>1, <3>2, <3>3
  <2>6. CASE Step
    <3>1. /\ run'.turn = run.turn /\ run'.stopped = run.stopped /\ run'.cut = run.cut
          /\ run'.at = "read" /\ run'.then = "calling" /\ run'.end = run.end
      BY <2>6 DEF Step, TypeOK, Runs
    <3> QED
      BY <2>1, <2>2, <3>1 DEF Past, At
  <2>7. CASE Finish
    <3>1. /\ run'.turn = run.turn /\ run'.stopped = run.stopped /\ run'.cut = run.cut
          /\ run'.end = run.end
      BY <2>7 DEF Finish, TypeOK, Runs
    <3>2. run.end = "again"
      BY <1>2, <1>5, <2>7 DEF Finish
    <3> QED
      BY <2>1, <2>2, <3>1, <3>2
  <2>8. CASE Announce \/ Tell
    <3>1. /\ run'.turn = run.turn /\ run'.stopped = run.stopped /\ run'.cut = run.cut
          /\ run'.end = run.end /\ run'.then = run.then /\ run'.at \in {"tell", run.then}
          /\ run.then \in {"calling", "back"} /\ run.at \in {"read", "tell"}
      <4>1. run.at \in {"read", "tell"} /\ run.then \in {"calling", "back"}
        BY <2>8 DEF Announce, Tell, JobsMatch, At
      <4>2. CASE Announce
        BY <4>1, <4>2 DEF Announce, TypeOK, Runs
      <4>3. CASE Tell
        BY <4>1, <4>3 DEF Tell, TypeOK, Runs
      <4> QED
        BY <2>8, <4>1, <4>2, <4>3
    <3>2. Past' => Past
      BY <3>1 DEF Past, At
    <3> QED
      BY <2>1, <2>2, <3>1, <3>2
  <2>9. CASE Return
    <3>1. run.end \in {"erred", "again"} /\ run.cut
      BY <2>1, <2>9 DEF Return, Past
    <3>2. Verdict = "waiting"
      BY <2>1, <3>1 DEF Verdict
    <3>3. status'[t] = "leaving" /\ verdict'[t] = "waiting"
      BY <1>2, <1>5, <2>9, <3>2 DEF Return, Queue!Return, JobsMatch, TypeOK
    <3> QED
      BY <3>3 DEF Carries
  <2> QED
    BY <2>3, <2>4, <2>5, <2>6, <2>7, <2>8, <2>9 DEF Handler
<1>6. \A t \in Turns, r \in Requests : Ending(r, t)' = Ending(r, t)
  BY <1>1 DEF Ending
<1> QED
  BY <1>1, <1>2, <1>4, <1>5, <1>6 DEF Owing

LEMMA OwingStep ==
  TypeOK /\ JobsMatch /\ RequestsMatch /\ GoneMarked /\ Owing /\ [Next]_vars => Owing'
<1> SUFFICES ASSUME TypeOK, JobsMatch, RequestsMatch, GoneMarked, Owing, [Next]_vars PROVE Owing'
  OBVIOUS
<1> USE DEF queue, usage, history, browser, Elsewhere
<1>z. 0 \notin Turns
  BY TutorConstants
\* A step that leaves the jobs and the runs alone.
<1>u. ASSUME UNCHANGED <<status, verdict, run, broken>>,
             \A t \in Turns : /\ turn'[t].state = "running" => turn[t].state = "running"
                              /\ \A r \in Requests : Ending(r, t) /\ turn'[t].state = "running"
                                                       => Ending(r, t)'
      PROVE  Owing'
  BY <1>u DEF Owing, Carries, Past, At
\* A request goes on, or is begun, that ends no turn.
<1>r. ASSUME UNCHANGED <<turn, status, verdict, run, broken>>, NEW r \in Requests,
             NEW n, req' = [req EXCEPT ![r] = n], \A t \in Turns : ~Ending(r, t)
      PROVE  Owing'
  <2>1. \A q \in Requests \ {r} : req'[q] = req[q]
    BY <1>r DEF TypeOK
  <2> QED
    BY <1>r, <1>u, <2>1 DEF Ending
\* A turn is stopped, and a request of it is under way.
<1>s. ASSUME NEW r \in Requests, NEW t \in Turns, StopJob(t), Ending(r, t)', UNCHANGED <<turn, broken>>,
             \A q \in Requests : \A u \in Turns : Ending(q, u) => Ending(q, u)'
      PROVE  Owing'
  <2>1. /\ run' = [run EXCEPT !.stopped = @ \/ run.turn = t] /\ verdict' = verdict
        /\ status' = status \/ (status[t] = "waiting" /\ status' = [status EXCEPT ![t] = "cancelled"])
    BY <1>s, StopShape DEF TypeOK
  <2>2. /\ run'.at = run.at /\ run'.then = run.then /\ run'.turn = run.turn /\ run'.end = run.end
        /\ run'.cut = run.cut /\ (run'.stopped => run.stopped \/ run.turn = t)
    BY <2>1 DEF TypeOK, Runs
  <2>3. \A u \in Turns \ {t} : Carries(u) => Carries(u)'
    BY <2>1, <2>2 DEF Carries, Past, At, JobsMatch
  <2> QED
    BY <1>s, <2>3 DEF Owing
<1>1. CASE UNCHANGED vars
  BY <1>1, <1>u DEF vars, Ending
<1>2. CASE Handler
  BY <1>2, HandlerOwes
<1>3. ASSUME NEW t \in Turns, Begin(t) PROVE Owing'
  <2>1. /\ status' = [status EXCEPT ![t] = "working"] /\ At("idle")
        /\ run' = [Idle EXCEPT !.turn = t, !.at = "begun", !.from = turn[t].state]
        /\ UNCHANGED <<turn, verdict, req, broken>>
    BY <1>3 DEF Begin, Queue!Begin
  <2>2. run'.turn = t /\ run'.at = "begun" /\ ~run'.stopped /\ run'.end = "none"
    BY <2>1 DEF Idle
  <2>3. Carries(t)'
    BY <2>2 DEF Carries, Past, At
  <2>4. \A u \in Turns \ {t} : Carries(u) => Carries(u)'
    BY <1>z, <2>1 DEF Carries, JobsMatch
  <2> QED
    BY <2>1, <2>3, <2>4 DEF Owing, Ending
<1>4. ASSUME NEW t \in Turns, End(t) PROVE Owing'
  <2>1. /\ status[t] = "leaving" /\ status'[t] = verdict[t]
        /\ \A u \in Turns \ {t} : status'[u] = status[u] /\ verdict'[u] = verdict[u]
        /\ UNCHANGED <<turn, run, req, broken>>
    BY <1>4 DEF End, Queue!End, JobsMatch, TypeOK
  <2>2. \A u \in Turns : Carries(u) => Carries(u)'
    BY <2>1 DEF Carries, Past, At
  <2> QED
    BY <2>1, <2>2 DEF Owing, Ending
<1>5. ASSUME NEW r \in Requests, Ask(r) PROVE Owing'
  <2>1. PICK t \in Turns :
          /\ \A u \in Turns \ {t} : Stays(u)
          /\ status' = [status EXCEPT ![t] = "waiting"]
          /\ req' = [req EXCEPT ![r] = [NoRequest EXCEPT !.op = "ask", !.at = "read", !.turn = t]]
    BY <1>5, AskRows
  <2>2. UNCHANGED <<verdict, run, broken>> /\ req[r] = NoRequest
    BY <1>5 DEF Ask
  <2>3. Carries(t)' /\ \A u \in Turns \ {t} : Carries(u) => Carries(u)'
    BY <2>1, <2>2 DEF Carries, Past, At, JobsMatch
  <2>4. \A q \in Requests : \A u \in Turns : Ending(q, u) => Ending(q, u)'
    <3>1. \A u \in Turns : ~Ending(r, u)
      BY <2>2, CopyShapes DEF Ending
    <3>2. \A q \in Requests \ {r} : req'[q] = req[q]
      BY <2>1 DEF TypeOK
    <3> QED
      BY <3>1, <3>2 DEF Ending
  <2> QED
    BY <2>1, <2>2, <2>3, <2>4 DEF Owing, Stays
<1>6. ASSUME NEW r \in Requests, Clear(r) \/ \E t \in Turns : Stop(r, t) PROVE Owing'
  <2>1. UNCHANGED <<turn, status, verdict, run, broken>> /\ req[r] = NoRequest
    BY <1>6 DEF Clear, Stop
  <2>2. \E n : req' = [req EXCEPT ![r] = n]
    BY <1>6 DEF Clear, Stop
  <2>3. \A t \in Turns : ~Ending(r, t)
    BY <2>1, CopyShapes DEF Ending
  <2> QED
    BY <1>r, <2>1, <2>2, <2>3
<1>7. ASSUME NEW r \in Requests, StopTurn(r) PROVE Owing'
  <2>1. PICK t \in Turns : t = req[r].turn
    BY <1>7 DEF StopTurn, RequestsMatch
  <2>2. /\ req'[r].op = "stop" /\ req'[r].turn = t /\ req'[r].at = "update"
        /\ req'[r].todo = req[r].todo /\ req[r].op = "stop" /\ req[r].at = "stop"
        /\ \A q \in Requests \ {r} : req'[q] = req[q]
    BY <1>7, <2>1 DEF StopTurn, Onward, TypeOK, Reqs
  <2>3. \A q \in Requests : \A u \in Turns : Ending(q, u) => Ending(q, u)'
    BY <2>1, <2>2 DEF Ending
  <2>4. Ending(r, t)' /\ StopJob(t) /\ UNCHANGED <<turn, broken>>
    BY <1>7, <2>1, <2>2 DEF StopTurn, Ending
  <2> QED
    BY <1>s, <2>3, <2>4
<1>8. ASSUME NEW r \in Requests, StopUpdate(r) PROVE Owing'
  <2>1. /\ UNCHANGED <<status, verdict, run, broken>>
        /\ req[r].op = "stop" /\ req[r].todo = {} /\ \A q \in Requests \ {r} : req'[q] = req[q]
    BY <1>8 DEF StopUpdate, Onward, TypeOK, RequestsMatch
  <2>2. /\ \A t \in Turns : turn'[t].state = "running" => turn[t].state = "running"
        /\ turn'[req[r].turn].state # "running"
    BY <1>8, StopRows DEF Stays, Written
  <2>3. \A t \in Turns : Ending(r, t) => t = req[r].turn
    BY <2>1 DEF Ending
  <2>4. \A q \in Requests \ {r} : \A t \in Turns : Ending(q, t) => Ending(q, t)'
    BY <2>1 DEF Ending
  <2> QED
    BY <1>u, <2>1, <2>2, <2>3, <2>4
<1>9. ASSUME NEW r \in Requests, ReadBack(r) \/ PublishTurn(r) \/ Reply(r) \/ ClearTell(r)
      PROVE  Owing'
  <2>1. UNCHANGED <<turn, status, verdict, run, broken>>
    BY <1>9 DEF ReadBack, PublishTurn, Reply, ClearTell
  <2>2. \E n : req' = [req EXCEPT ![r] = n]
    <3>1. CASE ReadBack(r)
      BY <3>1 DEF ReadBack
    <3>2. CASE PublishTurn(r) \/ Reply(r) \/ ClearTell(r)
      BY <3>2 DEF PublishTurn, Onward, Reply, ClearTell
    <3> QED
      BY <1>9, <3>1, <3>2
  <2>3. \A t \in Turns : ~Ending(r, t)
    BY <1>9 DEF ReadBack, PublishTurn, Reply, ClearTell, Ending, RequestsMatch
  <2> QED
    BY <1>r, <2>1, <2>2, <2>3
<1>10. ASSUME NEW r \in Requests, ClearDelete(r) PROVE Owing'
  <2>1. \A t \in Turns : turn'[t].state # "running"
    BY <1>10, DeleteRows, CopyShapes DEF Deleted, Stays, Exists
  <2> QED
    BY <2>1 DEF Owing
<1>11. ASSUME NEW r \in Requests, NEW t \in Turns, ClearStop(r, t) PROVE Owing'
  <2>1. /\ req'[r].op = req[r].op /\ req'[r].turn = req[r].turn /\ req'[r].at = req[r].at
        /\ req'[r].todo = req[r].todo /\ \A q \in Requests \ {r} : req'[q] = req[q]
    BY <1>11 DEF ClearStop, TypeOK, Reqs
  <2>2. \A q \in Requests : \A u \in Turns : Ending(q, u) => Ending(q, u)'
    BY <2>1 DEF Ending
  <2>3. Ending(r, t)' /\ StopJob(t) /\ UNCHANGED <<turn, broken>>
    BY <1>11, <2>1 DEF ClearStop, RequestsMatch, Ending
  <2> QED
    BY <1>s, <2>2, <2>3
<1>12. ASSUME NEW r \in Requests, NEW t \in Turns, Forget(r, t) PROVE Owing'
  <2>1. /\ req'[r].op = req[r].op /\ req'[r].turn = req[r].turn /\ req'[r].at = req[r].at
        /\ req'[r].todo = req[r].todo \ {t} /\ \A q \in Requests \ {r} : req'[q] = req[q]
    BY <1>12 DEF Forget, TypeOK, Reqs
  <2>2. turn[t].state = "gone" /\ UNCHANGED <<turn, status, verdict, run, broken>>
    BY <1>12 DEF Forget, GoneMarked
  <2>3. \A q \in Requests : \A u \in Turns \ {t} : Ending(q, u) => Ending(q, u)'
    BY <2>1 DEF Ending
  <2> QED
    BY <1>u, <2>2, <2>3
<1>13. CASE HearEvent \/ HearReply
  <2>1. UNCHANGED <<turn, status, verdict, run, req, broken>>
    BY <1>13 DEF HearEvent, HearReply
  <2> QED
    BY <1>u, <2>1 DEF Ending
<1>14. CASE Cut
  <2>1. /\ run'.at = run.at /\ run'.then = run.then /\ run'.turn = run.turn /\ run'.end = run.end
        /\ run'.cut /\ run'.stopped = run.stopped /\ UNCHANGED <<turn, status, verdict, req, broken>>
    BY <1>14 DEF Cut, TypeOK, Runs
  <2>2. \A t \in Turns : Carries(t) => Carries(t)'
    BY <2>1 DEF Carries, Past, At
  <2> QED
    BY <2>1, <2>2 DEF Owing, Ending
<1>15. CASE Crash
  <2>1. /\ \A t \in Turns : status'[t] = IF status[t] \in {"working", "leaving"} THEN "waiting" ELSE status[t]
        /\ turn' = turn
    BY <1>15 DEF Crash
  <2>2. \A t \in Turns : Carries(t) => Carries(t)'
    BY <2>1 DEF Carries, JobsMatch
  <2>3. \A t \in Turns \ broken' : t \notin broken /\ \A r \in Requests : ~Ending(r, t)
    BY <1>15 DEF Crash, Ending, RequestsMatch
  <2> QED
    BY <2>1, <2>2, <2>3 DEF Owing
<1> QED
  BY <1>1, <1>2, <1>3, <1>4, <1>5, <1>6, <1>7, <1>8, <1>9, <1>10, <1>11, <1>12, <1>13, <1>14, <1>15
     DEF Next, Request

\* A turn that says it is running has a job that will end it, however its run was stopped,
\* cut or crashed, unless a Stop or a Clear of it is under way or was cut short.
THEOREM RunningIsOwedHolds == Spec => []RunningIsOwed
<1>1. Init => TypeOK /\ JobsMatch /\ RequestsMatch /\ GoneMarked /\ Owing
  <2>1. Init => Owing
    BY CopyShapes DEF Init, Owing
  <2> QED
    BY <2>1, TypeInit, GoneInit
<1>2. TypeOK /\ JobsMatch /\ RequestsMatch /\ GoneMarked /\ Owing /\ [Next]_vars
        => (TypeOK /\ JobsMatch /\ RequestsMatch /\ GoneMarked /\ Owing)'
  BY TypeStep, JobsStep, RequestsStep, GoneStep, OwingStep
<1>3. JobsMatch /\ Owing => RunningIsOwed
  BY DEF JobsMatch, Owing, RunningIsOwed, Ending, Carries, Owed
<1> QED
  BY <1>1, <1>2, <1>3, PTL DEF Spec

-----------------------------------------------------------------------------
(* What the page is sent, and what it makes of it.                         *)

\* A copy of a row that is not gone is an older one, or reads as the row does.
Authentic(t, c) == turn[t].state # "gone" => c.at < turn[t].at \/ c = turn[t]

\* Every copy that is held or on its way is authentic, and the page is ahead of no row.
Genuine ==
  /\ \A t \in Turns : Exists(t) => turn[t].at > 0
  /\ \A i \in 1..Len(wire) :
       wire[i].type = "changed" => wire[i].turn \in Turns /\ Authentic(wire[i].turn, wire[i].copy)
  /\ \A m \in replies : \/ m = Cleared
                        \/ /\ m.type \in {"asked", "stopped"}
                           /\ m.turn \in Turns /\ Authentic(m.turn, m.copy)
  /\ \A r \in Requests : req[r].turn # 0 => Authentic(req[r].turn, req[r].copy)
  /\ run.turn # 0 => Authentic(run.turn, run.copy)
  /\ \A t \in Turns : turn[t].state # "gone" => page[t].at <= turn[t].at

RowGoes(t) == Stays(t) \/ Asked(t) \/ Written(t) \/ Deleted(t)

LEMMA RowsGo == TypeOK /\ JobsMatch /\ RequestsMatch /\ [Next]_vars => \A t \in Turns : RowGoes(t)
<1> SUFFICES ASSUME TypeOK, JobsMatch, RequestsMatch, [Next]_vars, NEW t \in Turns PROVE RowGoes(t)
  OBVIOUS
<1>1. CASE Handler
  BY <1>1, HandlerRows DEF RowGoes
<1>2. ASSUME NEW r \in Requests, Ask(r) PROVE RowGoes(t)
  BY <1>2, AskRows DEF RowGoes
<1>3. ASSUME NEW r \in Requests, StopUpdate(r) PROVE RowGoes(t)
  BY <1>3, StopRows DEF RowGoes
<1>4. ASSUME NEW r \in Requests, ClearDelete(r) PROVE RowGoes(t)
  BY <1>4, DeleteRows DEF RowGoes
<1> QED
  BY <1>1, <1>2, <1>3, <1>4, OtherRows DEF RowGoes, Stays

\* An authentic copy stays one, whatever becomes of its row.
LEMMA AuthenticStays ==
  ASSUME TypeOK, NEW t \in Turns, NEW c \in Copies, RowGoes(t), Authentic(t, c)
  PROVE  Authentic(t, c)'
<1>1. c.at \in Nat /\ turn[t].at \in Nat
  BY DEF Copies, TypeOK
<1>2. CASE Stays(t)
  BY <1>2 DEF Stays, Authentic
<1>3. CASE Asked(t)
  <2>1. c.at = 0 /\ turn'[t].at = 1
    BY <1>1, <1>3, CopyShapes DEF Asked, Authentic
  <2> QED
    BY <2>1 DEF Authentic
<1>4. CASE Written(t)
  <2>1. c.at < turn'[t].at
    BY <1>1, <1>4 DEF Written, Exists, Authentic
  <2> QED
    BY <2>1 DEF Authentic
<1>5. CASE Deleted(t)
  BY <1>5, CopyShapes DEF Deleted, Authentic
<1> QED
  BY <1>2, <1>3, <1>4, <1>5 DEF RowGoes

\* A row as it reads is authentic, and so is no copy at all.
LEMMA AuthenticRows ==
  ASSUME TypeOK, JobsMatch, \A t \in Turns : Exists(t) => turn[t].at > 0
  PROVE  \A t \in Turns : Authentic(t, turn[t]) /\ Authentic(t, Absent)
BY CopyShapes DEF Authentic, Exists, JobsMatch

LEMMA GenuineKept ==
  ASSUME TypeOK, TypeOK', JobsMatch, JobsMatch', Genuine, \A t \in Turns : RowGoes(t),
         \A i \in 1..Len(wire') :
           \/ \E j \in 1..Len(wire) : wire'[i] = wire[j]
           \/ wire'[i].type # "changed"
           \/ run.turn \in Turns /\ wire'[i] = Changed(run.turn, run.copy)
           \/ \E r \in Requests : req[r].turn \in Turns /\ wire'[i] = Changed(req[r].turn, req[r].copy),
         \A m \in replies' :
           \/ m \in replies \cup {Cleared}
           \/ \E r \in Requests : /\ req[r].turn \in Turns /\ m.type \in {"asked", "stopped"}
                                  /\ m.turn = req[r].turn /\ m.copy = req[r].copy,
         \A r \in Requests : \/ req'[r].turn = req[r].turn /\ req'[r].copy = req[r].copy
                             \/ req'[r].turn = 0
                             \/ req'[r].copy \in {Absent, turn'[req'[r].turn]},
         \/ run'.turn = run.turn /\ run'.copy = run.copy
         \/ run'.turn = 0
         \/ run'.copy \in {Absent, turn'[run'.turn]},
         \A t \in Turns : turn[t].state # "gone" => page'[t].at <= turn[t].at \/ page'[t].at = 0
  PROVE  Genuine'
<1>1. (\A t \in Turns : Exists(t) => turn[t].at > 0)'
  <2> SUFFICES ASSUME NEW t \in Turns, Exists(t)' PROVE turn'[t].at > 0
    OBVIOUS
  <2>1. turn[t].at \in Nat /\ (Exists(t) => turn[t].at > 0) /\ RowGoes(t)
    BY RowShape DEF Genuine, TypeOK
  <2> QED
    BY <2>1, CopyShapes DEF RowGoes, Stays, Asked, Written, Deleted, Exists
<1>2. \A t \in Turns : Authentic(t, turn[t])' /\ Authentic(t, Absent)'
  BY <1>1, CopyShapes DEF Authentic, Exists, JobsMatch
<1>3. \A t \in Turns, c \in Copies : Authentic(t, c) => Authentic(t, c)'
  BY AuthenticStays
<1>4. /\ run.copy \in Copies /\ \A r \in Requests : req[r].copy \in Copies
      /\ \A i \in 1..Len(wire) : wire[i].copy \in Copies
      /\ \A m \in replies : m.type \in {"asked", "stopped"} => m.copy \in Copies
  <2>1. run.copy \in Copies /\ \A r \in Requests : req[r].copy \in Copies
    BY DEF TypeOK, Runs, Reqs
  <2>2. ASSUME NEW i \in 1..Len(wire) PROVE wire[i].copy \in Copies
    <3>1. wire[i] \in Events
      BY DEF TypeOK
    <3> QED
      BY <3>1 DEF Events
  <2>3. ASSUME NEW m \in replies, m.type \in {"asked", "stopped"} PROVE m.copy \in Copies
    <3>1. m \in Replies /\ m.type # "list"
      BY <2>3 DEF TypeOK
    <3> QED
      BY <3>1 DEF Replies
  <2> QED
    BY <2>1, <2>2, <2>3
<1>5. (\A i \in 1..Len(wire) :
         wire[i].type = "changed" => wire[i].turn \in Turns /\ Authentic(wire[i].turn, wire[i].copy))'
  <2> SUFFICES ASSUME NEW i \in 1..Len(wire'), wire'[i].type = "changed"
               PROVE  wire'[i].turn \in Turns /\ Authentic(wire[i].turn, wire[i].copy)'
    OBVIOUS
  <2>1. \E t \in Turns, c \in Copies : wire'[i].turn = t /\ wire'[i].copy = c /\ Authentic(t, c)
    <3>1. CASE \E j \in 1..Len(wire) : wire'[i] = wire[j]
      BY <1>4, <3>1 DEF Genuine
    <3>2. CASE run.turn \in Turns /\ wire'[i] = Changed(run.turn, run.copy)
      <4>1. run.turn # 0
        BY <3>2, TutorConstants
      <4> QED
        BY <1>4, <3>2, <4>1 DEF Genuine, Changed
    <3>3. ASSUME NEW r \in Requests, req[r].turn \in Turns, wire'[i] = Changed(req[r].turn, req[r].copy)
          PROVE  \E t \in Turns, c \in Copies : wire'[i].turn = t /\ wire'[i].copy = c /\ Authentic(t, c)
      <4>1. req[r].turn # 0
        BY <3>3, TutorConstants
      <4> QED
        BY <1>4, <3>3, <4>1 DEF Genuine, Changed
    <3> QED
      BY <3>1, <3>2, <3>3
  <2>2. PICK t \in Turns, c \in Copies : wire'[i].turn = t /\ wire'[i].copy = c /\ Authentic(t, c)
    BY <2>1
  <2> QED
    BY <1>3, <2>2 DEF Authentic
<1>6. (\A m \in replies : \/ m = Cleared
                          \/ /\ m.type \in {"asked", "stopped"}
                             /\ m.turn \in Turns /\ Authentic(m.turn, m.copy))'
  <2> SUFFICES ASSUME NEW m \in replies', m # Cleared
               PROVE  m.type \in {"asked", "stopped"} /\ m.turn \in Turns /\ Authentic(m.turn, m.copy)'
    OBVIOUS
  <2>1. m.type \in {"asked", "stopped"} /\ m.turn \in Turns /\ m.copy \in Copies /\ Authentic(m.turn, m.copy)
    <3>1. CASE m \in replies
      BY <1>4, <3>1 DEF Genuine
    <3>2. CASE m \notin replies
      <4>1. PICK r \in Requests : /\ req[r].turn \in Turns /\ m.type \in {"asked", "stopped"}
                                  /\ m.turn = req[r].turn /\ m.copy = req[r].copy
        BY <3>2
      <4>2. req[r].turn # 0
        BY <4>1, TutorConstants
      <4> QED
        BY <1>4, <4>1, <4>2 DEF Genuine
    <3> QED
      BY <3>1, <3>2
  <2> QED
    BY <1>3, <2>1
<1>7. (\A r \in Requests : req[r].turn # 0 => Authentic(req[r].turn, req[r].copy))'
  <2> SUFFICES ASSUME NEW r \in Requests, req'[r].turn # 0 PROVE Authentic(req[r].turn, req[r].copy)'
    OBVIOUS
  <2>1. PICK t \in Turns, c \in Copies : t = req'[r].turn /\ c = req'[r].copy
    BY DEF TypeOK, Reqs
  <2>2. Authentic(t, c)'
    <3>1. CASE req'[r].turn = req[r].turn /\ req'[r].copy = req[r].copy
      BY <1>3, <2>1, <3>1 DEF Genuine
    <3>2. CASE req'[r].copy \in {Absent, turn'[req'[r].turn]}
      BY <1>2, <2>1, <3>2 DEF Authentic
    <3> QED
      BY <3>1, <3>2
  <2> QED
    BY <2>1, <2>2 DEF Authentic
<1>8. (run.turn # 0 => Authentic(run.turn, run.copy))'
  <2> SUFFICES ASSUME run'.turn # 0 PROVE Authentic(run.turn, run.copy)'
    OBVIOUS
  <2>1. PICK t \in Turns, c \in Copies : t = run'.turn /\ c = run'.copy
    BY DEF TypeOK, Runs
  <2>2. Authentic(t, c)'
    <3>1. CASE run'.turn = run.turn /\ run'.copy = run.copy
      BY <1>3, <2>1, <3>1 DEF Genuine
    <3>2. CASE run'.copy \in {Absent, turn'[run'.turn]}
      BY <1>2, <2>1, <3>2 DEF Authentic
    <3> QED
      BY <3>1, <3>2
  <2> QED
    BY <2>1, <2>2 DEF Authentic
<1>9. (\A t \in Turns : turn[t].state # "gone" => page[t].at <= turn[t].at)'
  <2> SUFFICES ASSUME NEW t \in Turns, turn'[t].state # "gone" PROVE page'[t].at <= turn'[t].at
    OBVIOUS
  <2>1. turn[t].at \in Nat /\ turn'[t].at \in Nat /\ page'[t].at \in Nat
    BY RowShape DEF TypeOK, Copies
  <2>2. turn[t].at <= turn'[t].at /\ turn[t].state # "gone"
    BY <2>1, CopyShapes DEF RowGoes, Stays, Asked, Written, Deleted, Exists
  <2> QED
    BY <2>1, <2>2
<1> QED
  BY <1>1, <1>5, <1>6, <1>7, <1>8, <1>9 DEF Genuine

\* What is published comes after what was there.
LEMMA Published ==
  ASSUME wire \in Seq(Events), NEW e \in Events, Publish(e)
  PROVE  /\ Len(wire') = Len(wire) + 1 /\ Len(wire) \in Nat /\ page' = page
         /\ wire'[Len(wire')] = e /\ \A i \in 1..Len(wire) : wire'[i] = wire[i]
         /\ \A i \in 1..Len(wire') : i \in 1..Len(wire) \/ i = Len(wire')
BY DEF Publish

LEMMA GenuineStep == TypeOK /\ JobsMatch /\ RequestsMatch /\ Genuine /\ [Next]_vars => Genuine'
<1> SUFFICES ASSUME TypeOK, JobsMatch, RequestsMatch, Genuine, [Next]_vars PROVE Genuine'
  OBVIOUS
<1> USE DEF queue, usage, history, browser, Elsewhere
<1>0. TypeOK' /\ JobsMatch' /\ \A t \in Turns : RowGoes(t)
  BY TypeStep, JobsStep, RowsGo
<1> DEFINE SameReqs == \A r \in Requests : \/ req'[r].turn = req[r].turn /\ req'[r].copy = req[r].copy
                                           \/ req'[r].turn = 0
                                           \/ req'[r].copy \in {Absent, turn'[req'[r].turn]}
           SameRun == \/ run'.turn = run.turn /\ run'.copy = run.copy
                      \/ run'.turn = 0
                      \/ run'.copy \in {Absent, turn'[run'.turn]}
           SameReplies == \A m \in replies' :
             \/ m \in replies \cup {Cleared}
             \/ \E r \in Requests : /\ req[r].turn \in Turns /\ m.type \in {"asked", "stopped"}
                                    /\ m.turn = req[r].turn /\ m.copy = req[r].copy
<1>p. \A t \in Turns : turn[t].state # "gone" => page[t].at <= turn[t].at
  BY DEF Genuine
\* Nothing is said.
<1>k. ASSUME UNCHANGED <<wire, replies, page>>, SameReqs, SameRun PROVE Genuine'
  BY <1>0, <1>p, <1>k, GenuineKept
\* An event is published.
<1>w. ASSUME NEW e \in Events, Publish(e), SameReqs, SameRun, SameReplies,
             \/ e.type # "changed"
             \/ run.turn \in Turns /\ e = Changed(run.turn, run.copy)
             \/ \E r \in Requests : req[r].turn \in Turns /\ e = Changed(req[r].turn, req[r].copy)
      PROVE  Genuine'
  <2>1. /\ page' = page /\ wire'[Len(wire')] = e /\ \A i \in 1..Len(wire) : wire'[i] = wire[i]
        /\ \A i \in 1..Len(wire') : i \in 1..Len(wire) \/ i = Len(wire')
    BY <1>w, Published DEF TypeOK
  <2>2. \A i \in 1..Len(wire') :
           \/ \E j \in 1..Len(wire) : wire'[i] = wire[j]
           \/ wire'[i].type # "changed"
           \/ run.turn \in Turns /\ wire'[i] = Changed(run.turn, run.copy)
           \/ \E r \in Requests : req[r].turn \in Turns /\ wire'[i] = Changed(req[r].turn, req[r].copy)
    BY <1>w, <2>1
  <2> QED
    BY <1>0, <1>p, <1>w, <2>1, <2>2, GenuineKept
\* One request goes on.
<1>r. ASSUME NEW r \in Requests, NEW n, req' = [req EXCEPT ![r] = n],
             \/ n.turn = req[r].turn /\ n.copy = req[r].copy
             \/ n.turn = 0
             \/ n.copy \in {Absent, turn'[n.turn]}
      PROVE  SameReqs
  BY <1>r DEF TypeOK
<1>o. ASSUME NEW r \in Requests, NEW p, Onward(r, p) PROVE SameReqs
  <2>1. [req[r] EXCEPT !.at = p].turn = req[r].turn /\ [req[r] EXCEPT !.at = p].copy = req[r].copy
    BY DEF TypeOK, Reqs
  <2> QED
    BY <1>o, <1>r, <2>1 DEF Onward
<1>n. ASSUME NEW r \in Requests, req' = [req EXCEPT ![r] = NoRequest] PROVE SameReqs
  BY <1>n, <1>r, CopyShapes
<1>s. ASSUME NEW t \in Turns, StopJob(t) PROVE SameRun
  <2>1. run' = [run EXCEPT !.stopped = @ \/ run.turn = t]
    BY <1>s, StopShape DEF TypeOK
  <2> QED
    BY <2>1 DEF TypeOK, Runs
<1>q. req' = req => SameReqs
  OBVIOUS
<1>t. run' = run => SameRun
  OBVIOUS
<1>u. replies' = replies => SameReplies
  OBVIOUS
<1> HIDE DEF SameReqs, SameRun, SameReplies
<1>1. CASE UNCHANGED vars
  BY <1>1, <1>k, <1>q, <1>t DEF vars
<1>2. CASE Handler
  <2>0. ~At("idle") /\ run.turn \in Turns
    BY <1>2, HandlerRows DEF JobsMatch
  <2>1. UNCHANGED <<req, replies>> /\ SameReqs /\ SameReplies
    <3>1. UNCHANGED <<req, replies>>
      BY <1>2 DEF Handler, GetTurn, TellBlock, Save, CallEnds, Step, Finish, Announce, Tell, Return
    <3> QED
      BY <1>q, <1>u, <3>1
  <2>2. CASE GetTurn \/ Save \/ CallEnds \/ Step \/ Finish
    <3>1. run'.turn = run.turn /\ run'.copy = run.copy
      <4>1. CASE GetTurn \/ Save \/ Step \/ Finish
        BY <4>1 DEF GetTurn, Save, Step, Finish, GoTo, TypeOK, Runs
      <4>2. CASE CallEnds
        <5>1. GoTo("step") \/ \E e \in {"done", "failed", Cause} : GoToEnd(e)
          BY <4>2 DEF CallEnds
        <5> QED
          BY <5>1 DEF GoTo, GoToEnd, TypeOK, Runs
      <4> QED
        BY <2>2, <4>1, <4>2
    <3>2. UNCHANGED <<wire, page>> /\ SameRun
      BY <2>2, <3>1 DEF GetTurn, Save, CallEnds, Step, Finish, SameRun
    <3> QED
      BY <1>k, <2>1, <3>2
  <2>3. CASE TellBlock
    <3>1. Block(run.turn) \in Events /\ Block(run.turn).type # "changed"
      BY <2>0, EventShapes, CopyShapes DEF Block
    <3>2. run'.turn = run.turn /\ run'.copy = run.copy
      BY <2>3 DEF TellBlock, TypeOK, Runs
    <3> QED
      BY <1>w, <2>1, <2>3, <3>1, <3>2 DEF TellBlock, SameRun
  <2>4. CASE Announce
    <3>1. SameRun
      <4>1. run' = [run EXCEPT !.at = "tell", !.copy = turn[run.turn]] => run'.copy = turn[run'.turn]
        BY DEF TypeOK, Runs
      <4>2. run' = [run EXCEPT !.at = run.then] => run'.turn = run.turn /\ run'.copy = run.copy
        BY DEF TypeOK, Runs
      <4> QED
        BY <2>4, <4>1, <4>2 DEF Announce, SameRun
    <3> QED
      BY <1>k, <2>1, <2>4, <3>1 DEF Announce
  <2>5. CASE Tell
    <3>1. Changed(run.turn, run.copy) \in Events
      BY <2>0, EventShapes DEF TypeOK, Runs
    <3>2. run'.copy = Absent
      BY <2>5 DEF Tell, TypeOK, Runs
    <3>3. SameRun
      BY <3>2 DEF SameRun
    <3> QED
      BY <1>w, <2>0, <2>1, <2>5, <3>1, <3>3 DEF Tell
  <2>6. CASE Return
    <3>1. SameRun
      BY <2>6, CopyShapes DEF Return, SameRun
    <3> QED
      BY <1>k, <2>1, <2>6, <3>1 DEF Return
  <2> QED
    BY <1>2, <2>2, <2>3, <2>4, <2>5, <2>6 DEF Handler
<1>3. ASSUME NEW t \in Turns, Begin(t) \/ End(t) PROVE Genuine'
  <2>1. SameRun
    <3>1. CASE Begin(t)
      <4>1. run'.copy = Absent
        BY <3>1 DEF Begin, Idle
      <4> QED
        BY <4>1 DEF SameRun
    <3>2. CASE End(t)
      BY <1>t, <3>2 DEF End
    <3> QED
      BY <1>3, <3>1, <3>2
  <2>2. UNCHANGED <<req, wire, replies, page>>
    BY <1>3 DEF Begin, End
  <2> QED
    BY <1>k, <1>q, <2>1, <2>2
<1>4. ASSUME NEW r \in Requests, Ask(r) PROVE Genuine'
  <2>1. \E n : req' = [req EXCEPT ![r] = n] /\ n.copy = Absent
    <3>1. PICK t \in Turns :
            req' = [req EXCEPT ![r] = [NoRequest EXCEPT !.op = "ask", !.at = "read", !.turn = t]]
      BY <1>4 DEF Ask
    <3>2. [NoRequest EXCEPT !.op = "ask", !.at = "read", !.turn = t].copy = Absent
      BY DEF NoRequest
    <3> QED
      BY <3>1, <3>2
  <2> QED
    BY <1>4, <1>k, <1>r, <1>t, <2>1 DEF Ask
<1>5. ASSUME NEW r \in Requests, NEW t \in Turns, Stop(r, t) PROVE Genuine'
  <2>1. \E n : req' = [req EXCEPT ![r] = n] /\ n.copy = turn[n.turn]
    <3> DEFINE new == [NoRequest EXCEPT !.op = "stop", !.turn = t, !.copy = turn[t],
               !.at = IF turn[t].state = "running" THEN "stop" ELSE "reply"]
    <3>1. new.turn = t /\ new.copy = turn[t]
      BY DEF NoRequest
    <3>2. req' = [req EXCEPT ![r] = new]
      BY <1>5 DEF Stop
    <3> QED
      BY <3>1, <3>2
  <2> QED
    BY <1>5, <1>k, <1>r, <1>t, <2>1 DEF Stop
<1>6. ASSUME NEW r \in Requests, Clear(r) PROVE Genuine'
  <2>1. \E n : req' = [req EXCEPT ![r] = n] /\ n.turn = 0
    <3> DEFINE new == [NoRequest EXCEPT !.op = "clear", !.at = "stop",
               !.todo = {t \in Turns : Exists(t)},
               !.stop = {t \in Turns : turn[t].state = "running"}]
    <3>1. new.turn = 0
      BY DEF NoRequest
    <3>2. req' = [req EXCEPT ![r] = new]
      BY <1>6 DEF Clear
    <3> QED
      BY <3>1, <3>2
  <2> QED
    BY <1>6, <1>k, <1>r, <1>t, <2>1 DEF Clear
<1>7. ASSUME NEW r \in Requests, StopTurn(r) \/ StopUpdate(r) \/ ClearDelete(r) PROVE Genuine'
  <2>1. SameRun
    BY <1>7, <1>s, <1>t DEF StopTurn, StopUpdate, ClearDelete, RequestsMatch
  <2>2. SameReqs
    BY <1>7, <1>o DEF StopTurn, StopUpdate, ClearDelete
  <2> QED
    BY <1>7, <1>k, <2>1, <2>2 DEF StopTurn, StopUpdate, ClearDelete
<1>8. ASSUME NEW r \in Requests, ReadBack(r) PROVE Genuine'
  <2>1. SameReqs
    <3>1. CASE ~Exists(req[r].turn)
      BY <1>8, <1>n, <3>1 DEF ReadBack
    <3>2. CASE Exists(req[r].turn)
      <4>1. \E n : req' = [req EXCEPT ![r] = n] /\ n.copy = turn'[n.turn]
        <5> DEFINE new == [req[r] EXCEPT !.at = "publish", !.copy = turn[req[r].turn]]
        <5>1. new.turn = req[r].turn /\ new.copy = turn[req[r].turn]
          BY DEF TypeOK, Reqs
        <5>2. req' = [req EXCEPT ![r] = new] /\ turn' = turn
          BY <1>8, <3>2 DEF ReadBack
        <5> QED
          BY <5>1, <5>2
      <4> QED
        BY <1>r, <4>1
    <3> QED
      BY <3>1, <3>2
  <2> QED
    BY <1>8, <1>k, <1>t, <2>1 DEF ReadBack
<1>9. ASSUME NEW r \in Requests, PublishTurn(r) PROVE Genuine'
  <2>1. req[r].turn \in Turns
    BY <1>9 DEF PublishTurn, RequestsMatch
  <2>2. Changed(req[r].turn, req[r].copy) \in Events
    BY <2>1, EventShapes DEF TypeOK, Reqs
  <2> QED
    BY <1>9, <1>o, <1>t, <1>u, <1>w, <2>1, <2>2 DEF PublishTurn
<1>10. ASSUME NEW r \in Requests, Reply(r) PROVE Genuine'
  <2>1. SameReplies
    <3> DEFINE new == [type |-> IF req[r].op = "ask" THEN "asked" ELSE "stopped",
                       turn |-> req[r].turn, copy |-> req[r].copy]
    <3>1. new.type \in {"asked", "stopped"} /\ new.turn = req[r].turn /\ new.copy = req[r].copy
      OBVIOUS
    <3>2. replies' = replies \cup {new} /\ req[r].turn \in Turns
      BY <1>10 DEF Reply, RequestsMatch
    <3> HIDE DEF new
    <3> QED
      BY <3>1, <3>2 DEF SameReplies
  <2>2. UNCHANGED <<turn, run, wire, page>> /\ SameReqs /\ SameRun
    BY <1>10, <1>n, <1>t DEF Reply
  <2> QED
    BY <1>0, <1>p, <2>1, <2>2, GenuineKept DEF SameReqs, SameRun, SameReplies
<1>11. ASSUME NEW r \in Requests, ClearTell(r) PROVE Genuine'
  <2>1. SameReplies
    BY <1>11 DEF ClearTell, SameReplies
  <2>2. Cleared \in Events /\ Cleared.type # "changed"
    BY EventShapes DEF Cleared
  <2> QED
    BY <1>11, <1>n, <1>t, <1>w, <2>1, <2>2 DEF ClearTell
<1>12. ASSUME NEW r \in Requests, NEW t \in Turns, ClearStop(r, t) \/ Forget(r, t) PROVE Genuine'
  <2>1. \E n : req' = [req EXCEPT ![r] = n] /\ n.turn = req[r].turn /\ n.copy = req[r].copy
    <3> DEFINE a == [req[r] EXCEPT !.stop = @ \ {t}]  b == [req[r] EXCEPT !.todo = @ \ {t}]
    <3>1. /\ a.turn = req[r].turn /\ a.copy = req[r].copy
          /\ b.turn = req[r].turn /\ b.copy = req[r].copy
      BY DEF TypeOK, Reqs
    <3>2. req' = [req EXCEPT ![r] = a] \/ req' = [req EXCEPT ![r] = b]
      BY <1>12 DEF ClearStop, Forget
    <3> QED
      BY <3>1, <3>2
  <2>2. SameRun
    BY <1>12, <1>s, <1>t DEF ClearStop, Forget
  <2> QED
    BY <1>12, <1>k, <1>r, <2>1, <2>2 DEF ClearStop, Forget
<1>13. CASE HearEvent
  <2>1. /\ wire # <<>> /\ wire' = Tail(wire) /\ UNCHANGED <<turn, run, req, replies>>
        /\ Len(wire) \in Nat /\ Len(wire) > 0
    BY <1>13 DEF HearEvent, TypeOK
  <2>2. \A i \in 1..Len(wire') : \E j \in 1..Len(wire) : wire'[i] = wire[j]
    <3>1. \A i \in 1..Len(wire') : i + 1 \in 1..Len(wire) /\ wire'[i] = wire[i + 1]
      BY <2>1 DEF TypeOK
    <3> QED
      BY <3>1
  <2>3. \A t \in Turns : turn[t].state # "gone" => page'[t].at <= turn[t].at \/ page'[t].at = 0
    <3> DEFINE e == wire[1]
    <3>1. /\ e \in Events /\ e = Head(wire)
          /\ e.type = "changed" => e.turn \in Turns /\ Authentic(e.turn, e.copy)
      BY <2>1 DEF TypeOK, Genuine
    <3>2. CASE e.type = "changed" /\ ApplyTurn(e.turn, e.copy)
      <4>1. PICK u \in Turns, c \in Copies : u = e.turn /\ c = e.copy /\ Authentic(u, c)
        BY <3>1, <3>2 DEF Events
      <4>2. page' = [page EXCEPT ![u] = IF c.at < page[u].at THEN page[u] ELSE c]
        BY <3>2, <4>1 DEF ApplyTurn
      <4>3. turn[u].state # "gone" => c.at <= turn[u].at
        BY <4>1 DEF Authentic, Copies, TypeOK
      <4> QED
        BY <1>p, <4>2, <4>3 DEF TypeOK
    <3>3. CASE Empty
      BY <3>3, CopyShapes DEF Empty
    <3>4. CASE page' = IF page[e.turn] = Absent THEN page ELSE [page EXCEPT ![e.turn].answer = @ + 1]
      <4>1. \A t \in Turns : page'[t].at = page[t].at
        BY <3>4 DEF TypeOK, Copies
      <4> QED
        BY <1>p, <4>1
    <3> HIDE DEF e
    <3> QED
      BY <1>13, <3>1, <3>2, <3>3, <3>4 DEF HearEvent
  <2> QED
    BY <1>0, <1>q, <1>t, <1>u, <2>1, <2>2, <2>3, GenuineKept DEF SameReqs, SameRun, SameReplies
<1>14. CASE HearReply
  <2>1. PICK m \in replies :
          /\ replies' = replies \ {m}
          /\ \/ m.type \in {"asked", "stopped"} /\ ApplyTurn(m.turn, m.copy)
             \/ m.type = "cleared" /\ Empty
             \/ m.type = "list"
    BY <1>14 DEF HearReply
  <2>2. SameReplies /\ UNCHANGED <<turn, run, req, wire>>
    BY <1>14, <2>1 DEF HearReply, SameReplies
  <2>3. \A t \in Turns : turn[t].state # "gone" => page'[t].at <= turn[t].at \/ page'[t].at = 0
    <3>1. CASE m = Cleared
      <4>1. Empty
        BY <2>1, <3>1 DEF Cleared
      <4> QED
        BY <4>1, CopyShapes DEF Empty
    <3>2. CASE m # Cleared
      <4>1. m.type \in {"asked", "stopped"} /\ m.turn \in Turns /\ Authentic(m.turn, m.copy)
        BY <3>2 DEF Genuine
      <4>2. m.copy \in Copies /\ ApplyTurn(m.turn, m.copy)
        BY <2>1, <4>1 DEF TypeOK, Replies
      <4>3. PICK u \in Turns, c \in Copies : u = m.turn /\ c = m.copy /\ Authentic(u, c)
        BY <4>1, <4>2
      <4>4. page' = [page EXCEPT ![u] = IF c.at < page[u].at THEN page[u] ELSE c]
        BY <4>2, <4>3 DEF ApplyTurn
      <4>5. turn[u].state # "gone" => c.at <= turn[u].at
        BY <4>3 DEF Authentic, Copies, TypeOK
      <4> QED
        BY <1>p, <4>4, <4>5 DEF TypeOK
    <3> QED
      BY <3>1, <3>2
  <2> QED
    BY <1>0, <1>q, <1>t, <2>2, <2>3, GenuineKept DEF SameReqs, SameRun, SameReplies
<1>15. CASE Cut
  <2>1. run'.turn = run.turn /\ run'.copy = run.copy /\ UNCHANGED <<req, wire, replies, page>>
    BY <1>15 DEF Cut, TypeOK, Runs
  <2> QED
    BY <1>k, <1>q, <2>1 DEF SameRun
<1>16. CASE Crash
  <2>1. /\ run' = Idle /\ wire' = <<>> /\ replies' = {} /\ turn' = turn
        /\ \A r \in Requests : req'[r] = NoRequest
        /\ \A t \in Turns : page'[t] = IF Exists(t) THEN turn[t] ELSE Absent
    BY <1>16 DEF Crash
  <2>2. SameReqs /\ SameRun /\ SameReplies
    BY <2>1, CopyShapes DEF SameReqs, SameRun, SameReplies
  <2>3. \A t \in Turns : page'[t].at <= turn[t].at \/ page'[t].at = 0
    BY <2>1, RowShape, CopyShapes DEF TypeOK
  <2>4. Len(wire') = 0
    BY <2>1
  <2> QED
    BY <1>0, <2>2, <2>3, <2>4, GenuineKept DEF SameReqs, SameRun, SameReplies
<1> QED
  BY <1>1, <1>2, <1>3, <1>4, <1>5, <1>6, <1>7, <1>8, <1>9, <1>10, <1>11, <1>12, <1>13, <1>14, <1>15,
     <1>16 DEF Next, Request

-----------------------------------------------------------------------------
(* An ended turn reads on the page as its row does, or is about to.        *)

\* An event after which what the page held of a turn is still there.
Keeps(e, t) == e.type # "cleared" /\ ~(e.type = "block" /\ e.turn = t)

\* The row is on its way, and nothing behind it takes it away.
Coming(t) == \E i \in 1..Len(wire) : /\ wire[i] = Changed(t, turn[t])
                                     /\ \A k \in (i + 1)..Len(wire) : Keeps(wire[k], t)

\* The run will announce the row, or is about to with the row as it reads.
Active(t) == /\ run.turn = t
             /\ \/ run.at \in {"calling", "saving", "step", "finish", "read"}
                \/ At("tell") /\ (run.then = "calling" \/ run.copy = turn[t])

\* So will a request, or is.
Answering(r, t) == /\ req[r].turn = t
                   /\ \/ req[r].at \in {"update", "read"}
                      \/ req[r].at = "publish" /\ req[r].copy = turn[t]

\* The page shows the row, and nothing on its way takes it away.
Shown(t) == page[t] = turn[t] /\ \A k \in 1..Len(wire) : Keeps(wire[k], t)

Settled(t) == Active(t) \/ (\E r \in Requests : Answering(r, t)) \/ Coming(t) \/ Shown(t)

Settling == Cleared \notin replies => \A t \in Turns \ lost : turn[t].state \in Ended => Settled(t)

\* An event that keeps a turn leaves what is coming, and what is shown.
LEMMA KeptByEvent ==
  ASSUME TypeOK, NEW t \in Turns, NEW e \in Events, Publish(e), Stays(t), Keeps(e, t)
  PROVE  (Coming(t) => Coming(t)') /\ (Shown(t) => Shown(t)')
<1>1. /\ Len(wire') = Len(wire) + 1 /\ Len(wire) \in Nat /\ page' = page
      /\ wire'[Len(wire')] = e /\ \A i \in 1..Len(wire) : wire'[i] = wire[i]
      /\ \A i \in 1..Len(wire') : i \in 1..Len(wire) \/ i = Len(wire')
  BY Published DEF TypeOK
<1>2. ASSUME Coming(t) PROVE Coming(t)'
  <2>1. PICK i \in 1..Len(wire) : /\ wire[i] = Changed(t, turn[t])
                                  /\ \A k \in (i + 1)..Len(wire) : Keeps(wire[k], t)
    BY <1>2 DEF Coming
  <2>2. i \in 1..Len(wire') /\ wire'[i] = Changed(t, turn'[t])
    BY <1>1, <2>1 DEF Stays
  <2>3. ASSUME NEW k \in (i + 1)..Len(wire') PROVE Keeps(wire'[k], t)
    <3>1. k \in (i + 1)..Len(wire) \/ k = Len(wire')
      BY <1>1
    <3>2. k \in (i + 1)..Len(wire) => wire'[k] = wire[k]
      BY <1>1
    <3> QED
      BY <1>1, <2>1, <3>1, <3>2
  <2> QED
    BY <2>2, <2>3 DEF Coming, Changed, Keeps
<1>3. ASSUME Shown(t) PROVE Shown(t)'
  BY <1>1, <1>3 DEF Shown, Stays, Keeps
<1> QED
  BY <1>2, <1>3

\* A row that is published as it reads is coming.
LEMMA ComingNow ==
  ASSUME TypeOK, NEW t \in Turns, Publish(Changed(t, turn[t])), Stays(t)
  PROVE  Coming(t)'
<1>1. turn[t] \in Copies /\ Changed(t, turn[t]) \in Events
  BY EventShapes, RowShape DEF TypeOK
<1>2. /\ Len(wire') = Len(wire) + 1 /\ Len(wire) \in Nat /\ wire'[Len(wire')] = Changed(t, turn[t])
  BY <1>1, Published DEF TypeOK
<1>3. Len(wire') \in 1..Len(wire') /\ (Len(wire') + 1)..Len(wire') = {}
  BY <1>2
<1> QED
  BY <1>2, <1>3 DEF Coming, Stays, Changed

LEMMA SettlingStep ==
  TypeOK /\ JobsMatch /\ RequestsMatch /\ Genuine /\ Settling /\ [Next]_vars => Settling'
<1> SUFFICES ASSUME TypeOK, JobsMatch, RequestsMatch, Genuine, Settling, [Next]_vars,
                    Cleared \notin replies', NEW t \in Turns, t \notin lost', turn'[t].state \in Ended
             PROVE  Settled(t)'
  BY DEF Settling
<1> USE DEF queue, usage, history, browser, Elsewhere
<1>z. 0 \notin Turns
  BY TutorConstants
<1>e. Exists(t)'
  BY DEF Exists, Ended
<1>s. Stays(t) /\ Cleared \notin replies /\ t \notin lost => Settled(t)
  BY DEF Stays, Settling
\* Nothing is said, and who was to say it is still to.
<1>k. ASSUME Settled(t), Stays(t), UNCHANGED <<wire, page>>, Active(t) => Settled(t)',
             \A r \in Requests : Answering(r, t) => Settled(t)'
      PROVE  Settled(t)'
  BY <1>k DEF Settled, Stays, Coming, Shown, Keeps, Changed
<1>w. ASSUME NEW e \in Events, Publish(e), Keeps(e, t), Settled(t), Stays(t), Active(t) => Settled(t)',
             \A r \in Requests : Answering(r, t) => Settled(t)'
      PROVE  Settled(t)'
  BY <1>w, KeptByEvent DEF Settled
<1>a. ASSUME Stays(t), run'.turn = run.turn, run'.at = run.at, run'.then = run.then,
             run'.copy = run.copy, Active(t)
      PROVE  Settled(t)'
  BY <1>a DEF Settled, Active, At, Stays
<1>r. ASSUME Stays(t), NEW r \in Requests, req'[r].turn = req[r].turn, req'[r].at = req[r].at,
             req'[r].copy = req[r].copy, Answering(r, t)
      PROVE  Settled(t)'
  BY <1>r DEF Settled, Answering, Stays
\* A request goes on from where it had nothing to say.
<1>o. ASSUME Stays(t), NEW r \in Requests, NEW n, req' = [req EXCEPT ![r] = n], ~Answering(r, t)
      PROVE  \A q \in Requests : Answering(q, t) => Settled(t)'
  <2>1. \A q \in Requests \ {r} : req'[q] = req[q]
    BY <1>o DEF TypeOK
  <2> QED
    BY <1>o, <1>r, <2>1
<1>1. CASE UNCHANGED vars
  BY <1>1, <1>k, <1>s, <1>a, <1>r DEF vars, Stays
<1>2. CASE Handler
  <2>0. /\ run.turn \in Turns /\ (t # run.turn => Stays(t))
        /\ ~At("idle") /\ (run.at \notin {"saving", "step", "finish"} => Stays(t))
    BY <1>2, HandlerRows DEF JobsMatch
  <2>1. UNCHANGED <<req, replies, lost>> /\ Cleared \notin replies /\ t \notin lost
    <3>1. UNCHANGED <<req, replies, lost>>
      BY <1>2 DEF Handler, GetTurn, TellBlock, Save, CallEnds, Step, Finish, Announce, Tell, Return
    <3> QED
      BY <3>1
  <2>2. Stays(t) => Settled(t) /\ \A r \in Requests : Answering(r, t) => Settled(t)'
    BY <1>r, <1>s, <2>1
  <2>3. CASE GetTurn \/ Return
    <3>1. ~Active(t) /\ UNCHANGED <<wire, page>> /\ Stays(t)
      BY <2>0, <2>3 DEF GetTurn, Return, Active, At
    <3> QED
      BY <1>k, <2>2, <3>1
  <2>4. CASE TellBlock
    <3>1. run'.turn = run.turn /\ run'.at = "saving"
      BY <2>4 DEF TellBlock, TypeOK, Runs
    <3>2. CASE t = run.turn
      BY <3>1, <3>2 DEF Settled, Active
    <3>3. CASE t # run.turn
      <4>1. Block(run.turn) \in Events /\ Keeps(Block(run.turn), t) /\ ~Active(t)
        BY <2>0, <3>3, EventShapes, CopyShapes DEF Block, Keeps, Active
      <4> QED
        BY <1>w, <2>0, <2>2, <2>4, <3>3, <4>1 DEF TellBlock
    <3> QED
      BY <3>2, <3>3
  <2>5. CASE Save \/ CallEnds \/ Step \/ Finish
    <3>1. run'.turn = run.turn /\ run'.at \in {"calling", "step", "finish", "read"}
      <4>1. CASE Save \/ Step \/ Finish
        BY <4>1 DEF Save, Step, Finish, GoTo, TypeOK, Runs
      <4>2. CASE CallEnds
        <5>1. GoTo("step") \/ \E e \in {"done", "failed", Cause} : GoToEnd(e)
          BY <4>2 DEF CallEnds
        <5> QED
          BY <5>1 DEF GoTo, GoToEnd, TypeOK, Runs
      <4> QED
        BY <2>5, <4>1, <4>2
    <3>2. CASE t = run.turn
      BY <3>1, <3>2 DEF Settled, Active
    <3>3. CASE t # run.turn
      <4>1. UNCHANGED <<wire, page>> /\ ~Active(t)
        BY <2>5, <3>3 DEF Save, CallEnds, Step, Finish, Active
      <4> QED
        BY <1>k, <2>0, <2>2, <3>3, <4>1
    <3> QED
      BY <3>2, <3>3
  <2>6. CASE Announce
    <3>1. CASE t = run.turn
      <4>1. turn' = turn /\ At("read") /\ Exists(t)
        BY <1>e, <2>6 DEF Announce, Exists
      <4>2. CASE Alive \/ run.then = "back"
        <5>1. run' = [run EXCEPT !.at = "tell", !.copy = turn[run.turn]]
          BY <2>6, <3>1, <4>1, <4>2 DEF Announce
        <5>2. run'.turn = run.turn /\ run'.at = "tell" /\ run'.copy = turn'[t]
          BY <3>1, <4>1, <5>1 DEF TypeOK, Runs
        <5> QED
          BY <3>1, <5>2 DEF Settled, Active, At
      <4>3. CASE ~(Alive \/ run.then = "back")
        <5>1. run'.turn = run.turn /\ run'.at = run.then
          BY <2>6, <4>3 DEF Announce, TypeOK, Runs
        <5>2. run.then = "calling"
          BY <4>1, <4>3 DEF JobsMatch, At
        <5> QED
          BY <3>1, <5>1, <5>2 DEF Settled, Active
      <4> QED
        BY <4>2, <4>3
    <3>2. CASE t # run.turn
      <4>1. UNCHANGED <<wire, page>> /\ ~Active(t)
        BY <2>6, <3>2 DEF Announce, Active
      <4> QED
        BY <1>k, <2>0, <2>2, <3>2, <4>1
    <3> QED
      BY <3>1, <3>2
  <2>7. CASE Tell
    <3>1. Stays(t) /\ At("tell") /\ run'.turn = run.turn /\ run'.at = run.then
      BY <2>0, <2>7 DEF Tell, Stays, TypeOK, Runs
    <3>2. Changed(run.turn, run.copy) \in Events /\ Keeps(Changed(run.turn, run.copy), t)
      BY <2>0, EventShapes DEF TypeOK, Runs, Changed, Keeps
    <3>3. ASSUME Active(t) PROVE Settled(t)'
      <4>1. CASE run.then = "calling"
        BY <3>1, <3>3, <4>1 DEF Settled, Active
      <4>2. CASE run.copy = turn[t] /\ t = run.turn
        BY <2>7, <3>1, <4>2, ComingNow DEF Tell, Settled
      <4> QED
        BY <3>1, <3>3, <4>1, <4>2 DEF Active, At
    <3> QED
      BY <1>w, <2>2, <2>7, <3>1, <3>2, <3>3 DEF Tell
  <2> QED
    BY <1>2, <2>3, <2>4, <2>5, <2>6, <2>7 DEF Handler
<1>3. ASSUME NEW u \in Turns, Begin(u) \/ End(u) PROVE Settled(t)'
  <2>1. UNCHANGED <<turn, req, wire, replies, page, lost>>
    BY <1>3 DEF Begin, End
  <2>2. Active(t) => Settled(t)'
    <3>1. CASE Begin(u)
      BY <3>1 DEF Begin, Active, At
    <3>2. CASE End(u)
      BY <1>a, <2>1, <3>2 DEF End, Stays
    <3> QED
      BY <1>3, <3>1, <3>2
  <2> QED
    BY <1>k, <1>r, <1>s, <2>1, <2>2 DEF Stays
<1>4. ASSUME NEW r \in Requests, Ask(r) \/ Clear(r) \/ \E u \in Turns : Stop(r, u) PROVE Settled(t)'
  <2>1. Stays(t)
    <3>1. CASE Ask(r)
      BY <3>1, AskRows DEF Asked, Ended
    <3>2. CASE Clear(r) \/ \E u \in Turns : Stop(r, u)
      BY <3>2 DEF Clear, Stop, Stays
    <3> QED
      BY <1>4, <3>1, <3>2
  <2>2. UNCHANGED <<run, wire, replies, page, lost>> /\ req[r] = NoRequest
    BY <1>4 DEF Ask, Clear, Stop
  <2>3. \E n : req' = [req EXCEPT ![r] = n]
    BY <1>4 DEF Ask, Clear, Stop
  <2>4. ~Answering(r, t)
    BY <1>z, <2>2, CopyShapes DEF Answering
  <2> QED
    BY <1>a, <1>k, <1>o, <1>s, <2>1, <2>2, <2>3, <2>4
<1>5. ASSUME NEW r \in Requests, StopTurn(r) \/ \E u \in Turns : ClearStop(r, u) \/ Forget(r, u)
      PROVE  Settled(t)'
  <2>1. Stays(t) /\ UNCHANGED <<wire, replies, page, lost>>
    BY <1>5 DEF StopTurn, ClearStop, Forget, Stays
  <2>2. /\ run'.turn = run.turn /\ run'.at = run.at /\ run'.then = run.then /\ run'.copy = run.copy
    <3>1. run' = run \/ \E u \in Turns : run' = [run EXCEPT !.stopped = @ \/ run.turn = u]
      <4>1. run' = run \/ \E u \in Turns : StopJob(u)
        BY <1>5 DEF StopTurn, ClearStop, Forget, RequestsMatch
      <4> QED
        BY <4>1, StopShape DEF TypeOK
    <3> QED
      BY <3>1 DEF TypeOK, Runs
  <2>3. \E n : req' = [req EXCEPT ![r] = n]
    BY <1>5 DEF StopTurn, Onward, ClearStop, Forget
  <2>4. ~Answering(r, t)
    <3>1. CASE StopTurn(r)
      BY <3>1 DEF StopTurn, Answering
    <3>2. ASSUME NEW u \in Turns, ClearStop(r, u) \/ Forget(r, u) PROVE ~Answering(r, t)
      <4>1. req[r].todo # {}
        BY <3>2 DEF ClearStop, Forget, RequestsMatch
      <4> QED
        BY <4>1 DEF Answering, RequestsMatch
    <3> QED
      BY <1>5, <3>1, <3>2
  <2> QED
    BY <1>a, <1>k, <1>o, <1>s, <2>1, <2>2, <2>3, <2>4
<1>6. ASSUME NEW r \in Requests, StopUpdate(r) PROVE Settled(t)'
  <2>1. UNCHANGED <<run, wire, replies, page, lost>> /\ (t # req[r].turn => Stays(t))
    BY <1>6, StopRows DEF StopUpdate
  <2>2. req'[r].turn = req[r].turn /\ req'[r].at = "read" /\ \A q \in Requests \ {r} : req'[q] = req[q]
    BY <1>6 DEF StopUpdate, Onward, TypeOK, Reqs
  <2>3. CASE t = req[r].turn
    BY <2>2, <2>3 DEF Settled, Answering
  <2>4. CASE t # req[r].turn
    <3>1. \A q \in Requests : Answering(q, t) => Settled(t)'
      BY <1>r, <2>1, <2>2, <2>4 DEF Answering
    <3> QED
      BY <1>a, <1>k, <1>s, <2>1, <2>4, <3>1
  <2> QED
    BY <2>3, <2>4
<1>7. ASSUME NEW r \in Requests, ReadBack(r) PROVE Settled(t)'
  <2>1. UNCHANGED <<turn, run, wire, replies, page, lost>> /\ Stays(t)
    BY <1>7 DEF ReadBack, Stays
  <2>2. CASE t = req[r].turn
    <3>1. req' = [req EXCEPT ![r].at = "publish", ![r].copy = turn[t]]
      BY <1>7, <1>e, <2>1, <2>2 DEF ReadBack, Exists
    <3>2. req'[r].turn = t /\ req'[r].at = "publish" /\ req'[r].copy = turn'[t]
      BY <2>1, <2>2, <3>1 DEF TypeOK, Reqs
    <3> QED
      BY <3>2 DEF Settled, Answering
  <2>3. CASE t # req[r].turn
    <3>1. \A q \in Requests \ {r} : req'[q] = req[q]
      BY <1>7 DEF ReadBack, TypeOK
    <3>2. \A q \in Requests : Answering(q, t) => Settled(t)'
      BY <1>r, <2>1, <2>3, <3>1 DEF Answering
    <3> QED
      BY <1>a, <1>k, <1>s, <2>1, <3>2
  <2> QED
    BY <2>2, <2>3
<1>8. ASSUME NEW r \in Requests, PublishTurn(r) PROVE Settled(t)'
  <2>1. UNCHANGED <<turn, run, replies, lost>> /\ Stays(t)
    BY <1>8 DEF PublishTurn, Stays
  <2>2. /\ Changed(req[r].turn, req[r].copy) \in Events /\ Keeps(Changed(req[r].turn, req[r].copy), t)
    <3>1. req[r].turn \in Turns
      BY <1>8 DEF PublishTurn, RequestsMatch
    <3> QED
      BY <3>1, EventShapes DEF TypeOK, Reqs, Changed, Keeps
  <2>3. \A q \in Requests \ {r} : req'[q] = req[q]
    BY <1>8 DEF PublishTurn, Onward, TypeOK
  <2>4. ASSUME Answering(r, t) PROVE Settled(t)'
    <3>1. req[r].turn = t /\ req[r].copy = turn[t]
      BY <1>8, <2>4 DEF PublishTurn, Answering
    <3> QED
      BY <1>8, <2>1, <3>1, ComingNow DEF PublishTurn, Settled
  <2>5. \A q \in Requests : Answering(q, t) => Settled(t)'
    BY <1>r, <2>1, <2>3, <2>4
  <2> QED
    BY <1>8, <1>a, <1>s, <1>w, <2>1, <2>2, <2>5 DEF PublishTurn
<1>9. ASSUME NEW r \in Requests, Reply(r) PROVE Settled(t)'
  <2>1. UNCHANGED <<turn, run, wire, page, lost>> /\ Stays(t) /\ Cleared \notin replies
    BY <1>9 DEF Reply, Stays
  <2>2. req' = [req EXCEPT ![r] = NoRequest] /\ ~Answering(r, t)
    BY <1>9 DEF Reply, Answering
  <2> QED
    BY <1>a, <1>k, <1>o, <1>s, <2>1, <2>2
<1>10. ASSUME NEW r \in Requests, ClearDelete(r) PROVE FALSE
  BY <1>10, <1>e, DeleteRows, CopyShapes DEF Deleted, Stays, Exists
<1>11. ASSUME NEW r \in Requests, ClearTell(r) PROVE FALSE
  BY <1>11 DEF ClearTell
<1>12. CASE HearEvent
  <2>1. /\ Stays(t) /\ UNCHANGED <<turn, run, req, replies, lost>>
        /\ wire # <<>> /\ wire' = Tail(wire)
    BY <1>12 DEF HearEvent, Stays
  <2>2. Settled(t)
    BY <1>s, <2>1
  <2>3. /\ Len(wire) \in Nat /\ Len(wire) > 0 /\ Len(wire') = Len(wire) - 1
        /\ \A i \in 1..Len(wire') : i + 1 \in 1..Len(wire) /\ wire'[i] = wire[i + 1]
        /\ wire[1] = Head(wire) /\ wire[1] \in Events /\ 1 \in 1..Len(wire)
    BY <2>1 DEF TypeOK
  <2> DEFINE e == wire[1]
  <2>4. \/ e.type = "changed" /\ ApplyTurn(e.turn, e.copy)
        \/ e.type = "cleared" /\ Empty
        \/ /\ e.type = "block"
           /\ page' = IF page[e.turn] = Absent THEN page ELSE [page EXCEPT ![e.turn].answer = @ + 1]
    BY <1>12, <2>3 DEF HearEvent
  <2>5. turn[t].state # "gone" /\ page[t].at <= turn[t].at /\ page[t].at \in Nat /\ turn[t].at \in Nat
    BY <1>e, <2>1, RowShape DEF Genuine, Exists, TypeOK, Copies
  <2>6. ASSUME Coming(t) PROVE Settled(t)'
    <3>1. PICK i \in 1..Len(wire) : /\ wire[i] = Changed(t, turn[t])
                                    /\ \A k \in (i + 1)..Len(wire) : Keeps(wire[k], t)
      BY <2>6 DEF Coming
    <3>2. \A k \in i..Len(wire') : Keeps(wire'[k], t)
      <4>1. \A k \in i..Len(wire') : k + 1 \in (i + 1)..Len(wire) /\ wire'[k] = wire[k + 1]
        BY <2>3
      <4> QED
        BY <3>1, <4>1
    <3>3. CASE i = 1
      <4>1. page' = [page EXCEPT ![t] = turn[t]]
        BY <2>4, <2>5, <3>1, <3>3 DEF Changed, ApplyTurn
      <4>2. page'[t] = turn'[t]
        BY <2>1, <4>1 DEF TypeOK
      <4> QED
        BY <3>2, <3>3, <4>2 DEF Settled, Shown, Keeps
    <3>4. CASE i # 1
      <4>1. /\ i - 1 \in 1..Len(wire') /\ wire'[i - 1] = Changed(t, turn'[t])
            /\ (i - 1) + 1 = i
        BY <2>1, <2>3, <3>1, <3>4
      <4>2. Coming(t)'
        BY <3>2, <4>1 DEF Coming, Keeps, Changed
      <4> QED
        BY <4>2 DEF Settled
    <3> QED
      BY <3>3, <3>4
  <2>7. ASSUME Shown(t) PROVE Settled(t)'
    <3>1. \A k \in 1..Len(wire') : Keeps(wire'[k], t)
      BY <2>3, <2>7 DEF Shown
    <3>2. page'[t] = page[t]
      <4>1. Keeps(e, t) /\ page[t] = turn[t]
        BY <2>3, <2>7 DEF Shown
      <4>2. CASE e.type = "changed"
        <5>1. ApplyTurn(e.turn, e.copy)
          BY <2>4, <4>2
        <5>2. CASE e.turn = t
          <6>1. e.copy.at < turn[t].at \/ e.copy = turn[t]
            BY <2>3, <2>5, <4>2, <5>2 DEF Genuine, Authentic
          <6> QED
            BY <4>1, <5>1, <5>2, <6>1 DEF ApplyTurn, TypeOK
        <5>3. CASE e.turn # t
          BY <5>1, <5>3 DEF ApplyTurn, TypeOK
        <5> QED
          BY <5>2, <5>3
      <4>3. CASE e.type # "changed"
        <5>1. e.turn # t /\ (page' = page \/ page' = [page EXCEPT ![e.turn].answer = @ + 1])
          BY <2>4, <4>1, <4>3 DEF Keeps
        <5> QED
          BY <5>1 DEF TypeOK
      <4> QED
        BY <4>2, <4>3
    <3> QED
      BY <2>1, <2>7, <3>1, <3>2 DEF Settled, Shown, Keeps
  <2> QED
    BY <1>a, <1>r, <2>1, <2>2, <2>6, <2>7 DEF Settled
<1>13. CASE HearReply
  <2>1. Stays(t) /\ UNCHANGED <<turn, run, req, wire>>
    BY <1>13 DEF HearReply, Stays
  <2>2. PICK m \in replies :
          /\ replies' = replies \ {m}
          /\ \/ m.type \in {"asked", "stopped"} /\ ApplyTurn(m.turn, m.copy)
             \/ m.type \in {"cleared", "list"}
          /\ lost' = IF m.type = "cleared" THEN lost \cup {u \in Turns : Exists(u)} ELSE lost
    BY <1>13 DEF HearReply
  <2>3. /\ m.type \in {"asked", "stopped"} /\ m.turn \in Turns /\ Authentic(m.turn, m.copy)
        /\ Cleared \notin replies /\ lost' = lost
    <3>1. Exists(t)
      BY <1>e, <2>1 DEF Exists
    <3>2. m.type # "cleared"
      BY <2>2, <3>1
    <3> QED
      BY <2>2, <3>2 DEF Genuine, Cleared
  <2>4. Settled(t)
    BY <1>s, <2>1, <2>3
  <2>5. turn[t].state # "gone" /\ page[t].at \in Nat /\ turn[t].at \in Nat
    BY <1>e, <2>1, RowShape DEF Exists, TypeOK, Copies
  <2>6. ASSUME Coming(t) PROVE Settled(t)'
    BY <2>1, <2>6 DEF Settled, Coming, Keeps, Changed
  <2>7. ASSUME Shown(t) PROVE Settled(t)'
    <3>1. page'[t] = page[t]
      <4>1. ApplyTurn(m.turn, m.copy)
        BY <2>2, <2>3
      <4>2. CASE m.turn = t
        <5>1. m.copy.at < turn[t].at \/ m.copy = turn[t]
          BY <2>3, <2>5, <4>2 DEF Authentic
        <5> QED
          BY <2>7, <4>1, <4>2, <5>1 DEF ApplyTurn, TypeOK, Shown
      <4>3. CASE m.turn # t
        BY <4>1, <4>3 DEF ApplyTurn, TypeOK
      <4> QED
        BY <4>2, <4>3
    <3> QED
      BY <2>1, <2>7, <3>1 DEF Settled, Shown, Keeps
  <2> QED
    BY <1>a, <1>r, <2>1, <2>4, <2>6, <2>7 DEF Settled
<1>14. CASE Cut
  <2>1. /\ run'.turn = run.turn /\ run'.at = run.at /\ run'.then = run.then /\ run'.copy = run.copy
        /\ UNCHANGED <<turn, req, wire, replies, page, lost>>
    BY <1>14 DEF Cut, TypeOK, Runs
  <2> QED
    BY <1>a, <1>k, <1>r, <1>s, <2>1 DEF Stays
<1>15. CASE Crash
  <2>1. wire' = <<>> /\ turn' = turn /\ \A u \in Turns : page'[u] = IF Exists(u) THEN turn[u] ELSE Absent
    BY <1>15 DEF Crash
  <2>2. page'[t] = turn'[t] /\ Len(wire') = 0
    BY <1>e, <2>1 DEF Exists
  <2> QED
    BY <2>2 DEF Settled, Shown
<1> QED
  BY <1>1, <1>2, <1>3, <1>4, <1>5, <1>6, <1>7, <1>8, <1>9, <1>10, <1>11, <1>12, <1>13, <1>14, <1>15
     DEF Next, Request

\* When nothing is on its way any more, an ended turn the page shows reads as its row does,
\* however its run, its requests, their announcements and their replies went past one another.
THEOREM PageSettlesHolds == Spec => []PageSettles
<1>1. Init => TypeOK /\ JobsMatch /\ RequestsMatch /\ Genuine /\ Settling
  <2>1. Init => Genuine
    BY CopyShapes DEF Init, Genuine, Exists
  <2>2. Init => Settling
    BY CopyShapes DEF Init, Settling, Ended
  <2> QED
    BY <2>1, <2>2, TypeInit
<1>2. TypeOK /\ JobsMatch /\ RequestsMatch /\ Genuine /\ Settling /\ [Next]_vars
        => (TypeOK /\ JobsMatch /\ RequestsMatch /\ Genuine /\ Settling)'
  BY TypeStep, JobsStep, RequestsStep, GenuineStep, SettlingStep
<1>3. Settling => PageSettles
  <2> SUFFICES ASSUME Settling, NEW t \in Turns \ lost, turn[t].state \in Ended, Quiet(t)
               PROVE  page[t] = turn[t]
    BY DEF PageSettles
  <2>1. Settled(t) /\ wire = <<>> /\ run.turn # t /\ \A r \in Requests : req[r].turn # t
    BY DEF Settling, Quiet
  <2>2. ~Coming(t)
    BY <2>1 DEF Coming
  <2> QED
    BY <2>1, <2>2 DEF Settled, Active, Answering, Shown
<1> QED
  BY <1>1, <1>2, <1>3, PTL DEF Spec
=============================================================================
