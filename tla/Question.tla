------------------------------- MODULE Question -------------------------------
(***************************************************************************)
(* A homework question, from its first job to its guide: the steps find,   *)
(* read and write of internal/homework, and what the student does to it    *)
(* meanwhile.  The queue is QueueContract; a job that is over is forgotten *)
(* and its id free.  A guide is what it was written from: the professor's  *)
(* notes, counted, and who read the figures.  A statement of a run takes   *)
(* effect if the run's context is alive as it executes.  What the text     *)
(* says, the rounds a guide carries on from, the set around the question   *)
(* and what is published are left out, as are statements that fail of      *)
(* themselves.  Bounds: Jobs, Requests, MaxActs, MaxFaults.                *)
(***************************************************************************)
EXTENDS Integers, FiniteSets

CONSTANTS
  Jobs,     \* ids of jobs; 1 is the one a question is typed in with
  Requests, \* requests under way at a time
  MaxActs,  \* bound: what the student does
  MaxFaults \* bound: failures, pauses, crashes

ASSUME QuestionConstants ==
  /\ 1 \in Jobs /\ IsFiniteSet(Requests)
  /\ MaxActs \in Nat /\ MaxFaults \in Nat

VARIABLES
  row,     \* the question
  status,  \* see QueueContract
  place,
  kind,    \* what each job is to do
  run,     \* the run of each job
  paused,  \* the queue is paused, or shutting down
  req,     \* the requests under way
  asked,   \* what the student last asked the guide to be written from
  crossed, \* an edit crossed a run that had read the question before it, a job that will
           \* have its figures read anew, or another edit; or a crash has a step run again
           \* that was done or stopped
  broken,  \* a request died after it had begun to stop the jobs
  acts,
  faults

vars == <<row, status, place, kind, run, paused, req, asked, crossed, broken, acts, faults>>
jobs == <<status, place, kind>>
history == <<asked, crossed, broken>>
bounds == <<acts, faults>>

Queue == INSTANCE QueueContract
           WITH Lanes <- {"question"}, Limit <- [question |-> 2],
                Keys <- {}, NoKey <- "none"

\* What a guide is written from: the notes, by their number, and whether the
\* reading of the figures is the student's own.
Sources == [notes: 0..MaxActs, mine: BOOLEAN]
NoSource == [notes |-> 0, mine |-> FALSE]

Doing == [find |-> "locating", read |-> "reading", guide |-> "writing"]

Exists == row.state # "gone"

\* UPDATE questions WHERE id = ?: no row, no effect.
Write(r) == row' = IF Exists THEN r ELSE row

Idle == [at |-> "idle", copy |-> NoSource, plain |-> FALSE, rest |-> "pending",
         err |-> FALSE, stopped |-> FALSE]
NoRequest == [op |-> "none", at |-> "none", find |-> FALSE, todo |-> {}]

Unfinished == {j \in Jobs : status[j] # "none"}
Free == Jobs \ Unfinished

\* A new job, of a free id.
Enqueue(k) ==
  /\ Free # {}
  /\ LET j == CHOOSE f \in Free : TRUE
     IN status' = [status EXCEPT ![j] = "waiting"] /\ kind' = [kind EXCEPT ![j] = k]
  /\ UNCHANGED place

\* Jobs that are over.
Drop(S) == /\ status' = [j \in Jobs |-> IF j \in S THEN "none" ELSE status[j]]
           /\ kind' = [j \in Jobs |-> IF j \in S THEN "guide" ELSE kind[j]]
           /\ UNCHANGED place

Fault == faults < MaxFaults /\ faults' = faults + 1 /\ UNCHANGED acts
Act == acts < MaxActs /\ acts' = acts + 1 /\ UNCHANGED faults

-----------------------------------------------------------------------------
(* The handlers.                                                           *)

At(j, p) == run[j].at = p
Alive(j) == ~run[j].stopped /\ ~paused
GoTo(j, p) == run' = [run EXCEPT ![j].at = p]
Leave(j, e) == run' = [run EXCEPT ![j] = [Idle EXCEPT !.at = "back", !.err = e,
                                                     !.stopped = run[j].stopped]]
Elsewhere == UNCHANGED <<paused, req, history>>

Rest_AsItIs == IF row.page THEN row.state ELSE "pending"

\* waiting: the state a question waits for its next step in.
Rest == IF row.page THEN "located" ELSE "pending"

Source == [notes |-> row.notes, mine |-> row.mine]

\* A job starts: runStep reads the question, and has nothing to do when it is gone.
\* (What comes between the two may as well come before.)
Begin(j) ==
  /\ ~paused /\ At(j, "idle")
  /\ Queue!Begin(j)
  /\ run' = [run EXCEPT ![j] =
       IF Exists THEN [Idle EXCEPT !.at = "begun", !.copy = Source, !.rest = Rest,
                                   !.plain = kind[j] = "find" /\ row.inBook /\ ~row.boxed]
                 ELSE [Idle EXCEPT !.at = "back"]]
  /\ UNCHANGED <<row, kind, bounds>> /\ Elsewhere

\* setState, as the step begins.
Mark(j) ==
  /\ At(j, "begun") /\ Alive(j)
  /\ Write([row EXCEPT !.state = Doing[kind[j]]])
  /\ GoTo(j, "work")
  /\ UNCHANGED <<jobs, bounds>> /\ Elsewhere

\* rewriteReference writes back the notes it had read, with those the text names,
\* and reads the question again.
RewriteReference(j) ==
  /\ At(j, "work") /\ run[j].plain /\ Alive(j) /\ Exists
  /\ Write([row EXCEPT !.notes = run[j].copy.notes])
  /\ run' = [run EXCEPT ![j].plain = FALSE]
  /\ UNCHANGED <<jobs, bounds>> /\ Elsewhere

Find_Unchained(j) ==
  /\ At(j, "work") /\ kind[j] = "find" /\ Alive(j)
  /\ \E f \in BOOLEAN :
       Write([row EXCEPT !.page = TRUE, !.figs = f, !.mine = FALSE, !.state = "located"])
  /\ Leave(j, FALSE)
  /\ UNCHANGED <<jobs, bounds>> /\ Elsewhere

\* Found: where it is, and the job that comes next, in one write.
Find(j) ==
  /\ At(j, "work") /\ kind[j] = "find" /\ Alive(j)
  /\ \E f \in BOOLEAN :
       /\ Write([row EXCEPT !.page = TRUE, !.figs = f, !.mine = FALSE, !.state = "located"])
       /\ Enqueue(IF f THEN "read" ELSE "guide")
  /\ Leave(j, FALSE)
  /\ UNCHANGED bounds /\ Elsewhere

\* The figures are read, or could not be: a reading that fails fails no question.
Read(j) ==
  /\ At(j, "work") /\ kind[j] = "read" /\ Alive(j)
  /\ Write([row EXCEPT !.mine = FALSE, !.state = "located"])
  /\ Enqueue("guide")
  /\ Leave(j, FALSE)
  /\ UNCHANGED bounds /\ Elsewhere

\* crossCheck reads the question again; where the answers differ the guide is
\* written again, from that.
CrossCheck(j) ==
  /\ At(j, "work") /\ kind[j] = "guide" /\ Alive(j) /\ Exists
  /\ run[j].copy # Source
  /\ run' = [run EXCEPT ![j].copy = Source]
  /\ UNCHANGED <<row, jobs, bounds>> /\ Elsewhere

SaveGuide(j) ==
  /\ At(j, "work") /\ kind[j] = "guide" /\ Alive(j)
  /\ Write([row EXCEPT !.walk = {run[j].copy}, !.state = "ready"])
  /\ Leave(j, FALSE)
  /\ UNCHANGED <<jobs, bounds>> /\ Elsewhere

\* No key, no book, a model that fails; a context that has ended is sure to.
\* runStep asks who ended the step...
StepFails(j) ==
  /\ At(j, "begun") \/ At(j, "work")
  /\ IF Alive(j) THEN Fault ELSE UNCHANGED bounds
  /\ IF run[j].stopped THEN Leave(j, TRUE)
                       ELSE GoTo(j, IF paused THEN "setWaiting" ELSE "setFailed")
  /\ UNCHANGED <<row, jobs>> /\ Elsewhere

SetWaiting_Nil(j) ==
  /\ At(j, "setWaiting")
  /\ Write([row EXCEPT !.state = run[j].rest])
  /\ Leave(j, FALSE)
  /\ UNCHANGED <<jobs, bounds>> /\ Elsewhere

\* ...and writes what it leaves, whatever the question says by now.
SetWaiting(j) ==
  /\ At(j, "setWaiting")
  /\ Write([row EXCEPT !.state = run[j].rest])
  /\ Leave(j, TRUE)
  /\ UNCHANGED <<jobs, bounds>> /\ Elsewhere

SetFailed(j) ==
  /\ At(j, "setFailed")
  /\ Write([row EXCEPT !.state = "failed"])
  /\ Leave(j, TRUE)
  /\ UNCHANGED <<jobs, bounds>> /\ Elsewhere

\* The queue's settle.  (For what may come between its two halves see JobQueue.)
Return(j) ==
  /\ At(j, "back")
  /\ IF ~run[j].stopped /\ run[j].err /\ paused
       THEN status' = [status EXCEPT ![j] = "waiting"] /\ UNCHANGED <<place, kind>>
       ELSE Drop({j})
  /\ run' = [run EXCEPT ![j] = Idle]
  /\ UNCHANGED <<row, bounds>> /\ Elsewhere

-----------------------------------------------------------------------------
(* Requests.  Each reads the question first.                               *)

Start(r, op, p) ==
  /\ req[r] = NoRequest /\ Exists
  /\ Act
  /\ req' = [req EXCEPT ![r] = [NoRequest EXCEPT !.op = op, !.at = p,
                                                 !.find = row.inBook /\ ~row.page]]
  /\ UNCHANGED <<row, jobs, run, paused, history>>

Unstarted == {"pending", "locating", "located", "reading", "unwritten"}

\* A change of a question that has no guide yet waits for it; the others
\* stop what there is and start again.
SetNotes(r) ==
  Start(r, "notes", IF row.state \in Unstarted \/ (row.inBook /\ ~row.page)
                      THEN "plain" ELSE "select")

Figured == row.figs /\ row.page /\ row.state \notin {"pending", "locating", "reading"}
Correct(r) == Figured /\ Start(r, "correct", "plain")
Reread(r) == Figured /\ Start(r, "reread", "select")
PointOut(r) == Start(r, "point", "select")
Remove(r) == Start(r, "remove", "select")
Retry(r) == row.state = "failed" /\ \E op \in {"again", "page", "text"} :
              (op = "page" => row.inBook) /\ Start(r, op, "commit")
WriteGuide(r) == row.state = "unwritten" /\ Start(r, "write", "commit")

Onward(r, p) == req' = [req EXCEPT ![r].at = p]
Over(r) == req' = [req EXCEPT ![r] = NoRequest]

\* Runs that read the question before this.
PastReading == {j \in Jobs : ~run[j].stopped /\ run[j].at \in {"begun", "work"}}
\* Jobs that will put the program's reading of the figures in the place of the student's.
Undoing == {j \in Jobs : /\ status[j] # "none" /\ kind[j] \in {"find", "read"}
                         /\ ~run[j].stopped /\ (At(j, "back") => run[j].err)}

\* The request is not alone.
Beside(r) == \E q \in Requests \ {r} : req[q] # NoRequest

\* setNotes' UPDATE.
PlainNotes(r) ==
  /\ req[r].op = "notes" /\ req[r].at = "plain"
  /\ Write([row EXCEPT !.notes = asked.notes + 1])
  /\ asked' = [asked EXCEPT !.notes = @ + 1]
  /\ crossed' = (crossed \/ PastReading # {} \/ row.state = "ready")
  /\ Over(r)
  /\ UNCHANGED <<jobs, run, paused, broken, bounds>>

\* redoReading's, for a guide that has not started; for another it starts again.
PlainCorrect(r) ==
  /\ req[r].op = "correct" /\ req[r].at = "plain"
  /\ IF row.state \in {"located", "unwritten"}
       THEN /\ Write([row EXCEPT !.mine = TRUE])
            /\ asked' = [asked EXCEPT !.mine = TRUE]
            /\ crossed' = (crossed \/ PastReading # {} \/ Undoing # {} \/ Beside(r))
            /\ Over(r) /\ UNCHANGED broken
       ELSE Onward(r, "select") /\ UNCHANGED <<row, history>>
  /\ UNCHANGED <<jobs, run, paused, bounds>>

\* StopSubject lists the unfinished jobs...
Select(r) ==
  /\ req[r].at = "select"
  /\ req' = [req EXCEPT ![r].at = "stop", ![r].todo = Unfinished]
  /\ UNCHANGED <<row, jobs, run, paused, history, bounds>>

\* ...and stops each: its run is marked, or it is cancelled while it waits.
StopJob(r, j) ==
  /\ req[r].at = "stop" /\ j \in req[r].todo
  /\ IF status[j] = "waiting" THEN Drop({j}) ELSE UNCHANGED jobs
  /\ run' = IF status[j] = "working" THEN [run EXCEPT ![j].stopped = TRUE] ELSE run
  /\ req' = [req EXCEPT ![r].todo = @ \ {j}]
  /\ UNCHANGED <<row, paused, history, bounds>>

Cleared == [row EXCEPT !.walk = {}, !.state = "located"]
Unlocated == [row EXCEPT !.walk = {}, !.state = "pending", !.page = FALSE]

\* What each act makes of the row, and the job it enqueues, in one transaction.
Result(op) ==
  CASE op = "notes"   -> [Cleared EXCEPT !.notes = asked.notes + 1]
    [] op = "correct" -> [Cleared EXCEPT !.mine = TRUE]
    [] op = "reread"  -> [Cleared EXCEPT !.mine = FALSE]
    [] op = "point"   -> [Unlocated EXCEPT !.boxed = TRUE, !.inBook = TRUE, !.figs = FALSE,
                                           !.mine = FALSE]
    [] op = "again"   -> [Cleared EXCEPT !.state = Rest]
    [] op = "page"    -> [Unlocated EXCEPT !.boxed = FALSE]
    [] op = "text"    -> [Unlocated EXCEPT !.boxed = FALSE, !.inBook = FALSE, !.figs = FALSE,
                                           !.mine = FALSE]
    [] op = "write"   -> [row EXCEPT !.state = "located"]
    [] op = "remove"  -> [row EXCEPT !.state = "gone"]

NextJob_ReadsAgain(r) ==
  IF req[r].op \in {"point", "page"} THEN "find"
  ELSE IF req[r].op \in {"reread", "correct"} THEN "read" ELSE "guide"

NextJob(r) ==
  LET op == req[r].op
  IN IF op \in {"point", "page"} \/ (op = "again" /\ req[r].find) THEN "find"
     ELSE IF op = "reread" THEN "read" ELSE "guide"

Asked(op) ==
  CASE op = "notes"   -> [asked EXCEPT !.notes = @ + 1]
    [] op = "correct" -> [asked EXCEPT !.mine = TRUE]
    [] op \in {"reread", "point", "page", "text"} -> [asked EXCEPT !.mine = FALSE]
    [] OTHER          -> asked

\* A retry does not look whether the question is still failed.
Commit(r) ==
  /\ req[r].at \in {"stop", "commit"} /\ req[r].todo = {}
  /\ Write(Result(req[r].op))
  /\ IF req[r].op = "remove" THEN UNCHANGED jobs ELSE Enqueue(NextJob(r))
  /\ asked' = Asked(req[r].op)
  /\ crossed' = (crossed \/ PastReading # {} \/ Beside(r)
                 \/ (req[r].op = "correct" /\ Undoing # {}))
  /\ Over(r)
  /\ UNCHANGED <<run, paused, broken, bounds>>

-----------------------------------------------------------------------------
(* What befalls them.                                                      *)

\* Pause, or a shutdown: every run's context ends, and nothing starts until
\* none is left.
Pause ==
  /\ ~paused /\ Fault
  /\ paused' = TRUE
  /\ UNCHANGED <<row, jobs, run, req, history>>

Resume ==
  /\ paused /\ \A j \in Jobs : status[j] # "working"
  /\ paused' = FALSE
  /\ UNCHANGED <<row, jobs, run, req, history, bounds>>

Stopping(r) == req[r].at = "stop"

\* The page goes away, and the request's context with it.  (One that has not
\* stopped anything yet may as well not have been made.)
HangUp(r) ==
  /\ Stopping(r) /\ Fault
  /\ broken' = TRUE
  /\ Over(r)
  /\ UNCHANGED <<row, jobs, run, paused, asked, crossed>>

\* The process dies and starts again: what ran waits.
Crash ==
  /\ Fault
  /\ status' = [j \in Jobs |-> IF status[j] = "none" THEN "none" ELSE "waiting"]
  /\ run' = [j \in Jobs |-> Idle] /\ req' = [r \in Requests |-> NoRequest]
  /\ paused' = FALSE
  /\ broken' = (broken \/ \E r \in Requests : Stopping(r))
  /\ crossed' = (crossed \/ \E j \in Jobs : At(j, "back") \/ run[j].stopped)
  /\ UNCHANGED <<row, place, kind, asked>>

\* Typed in, to be found in the book, or of a time whose guides were deleted.
Init ==
  /\ row \in {[state |-> s, inBook |-> b, page |-> p, boxed |-> FALSE, figs |-> p,
               notes |-> 0, mine |-> FALSE, walk |-> {}] :
                s \in {"pending", "unwritten"}, b \in BOOLEAN, p \in BOOLEAN}
  /\ row.page => row.inBook /\ row.state = "unwritten"
  /\ row.state = "unwritten" /\ row.inBook => row.page
  /\ kind = [j \in Jobs |-> IF j = 1 /\ row.inBook /\ ~row.page THEN "find" ELSE "guide"]
  /\ status = [j \in Jobs |-> IF j = 1 /\ row.state = "pending" THEN "waiting" ELSE "none"]
  /\ place = [j \in Jobs |-> [lane |-> "question", key |-> "none"]]
  /\ run = [j \in Jobs |-> Idle] /\ paused = FALSE
  /\ req = [r \in Requests |-> NoRequest]
  /\ asked = NoSource /\ crossed = FALSE /\ broken = FALSE
  /\ acts = 0 /\ faults = 0

Handler(j) == \/ Mark(j) \/ RewriteReference(j) \/ Find(j) \/ Read(j) \/ CrossCheck(j)
              \/ SaveGuide(j) \/ StepFails(j) \/ SetWaiting(j) \/ SetFailed(j) \/ Return(j)

Request(r) == \/ PlainNotes(r) \/ PlainCorrect(r) \/ Select(r) \/ Commit(r)
              \/ \E j \in Jobs : StopJob(r, j)

Student(r) == \/ SetNotes(r) \/ Correct(r) \/ Reread(r) \/ PointOut(r) \/ Remove(r)
              \/ Retry(r) \/ WriteGuide(r)

Next == \/ \E j \in Jobs : Begin(j) \/ Handler(j)
        \/ \E r \in Requests : Student(r) \/ Request(r) \/ HangUp(r)
        \/ Pause \/ Resume \/ Crash

Spec == Init /\ [][Next]_vars

(* A handler's calls end, the queue starts what waits when there is room,  *)
(* a pause is resumed, and a request runs on.                              *)
Fairness == /\ \A j \in Jobs : WF_vars(Begin(j)) /\ WF_vars(Handler(j))
            /\ WF_vars(Resume)
            /\ \A r \in Requests : WF_vars(Request(r))

FairSpec == Spec /\ Fairness
-----------------------------------------------------------------------------
(* Properties.                                                             *)

States == Unstarted \cup {"writing", "ready", "failed", "gone"}

Rows == [state: States, inBook: BOOLEAN, page: BOOLEAN, boxed: BOOLEAN, figs: BOOLEAN,
         notes: 0..MaxActs, mine: BOOLEAN, walk: SUBSET Sources]
Runs == [at: {"idle", "begun", "work", "setWaiting", "setFailed", "back"},
         copy: Sources, plain: BOOLEAN, rest: {"pending", "located"},
         err: BOOLEAN, stopped: BOOLEAN]
Reqs == [op: {"none", "notes", "correct", "reread", "point", "remove", "again", "page", "text",
              "write"},
         at: {"none", "plain", "select", "stop", "commit"}, find: BOOLEAN, todo: SUBSET Jobs]

\* Every variable has its type.
TypeOK ==
  /\ row \in Rows /\ run \in [Jobs -> Runs] /\ req \in [Requests -> Reqs]
  /\ status \in [Jobs -> {"none", "waiting", "working"}]
  /\ kind \in [Jobs -> {"find", "read", "guide"}]
  /\ asked \in Sources /\ crossed \in BOOLEAN /\ broken \in BOOLEAN /\ paused \in BOOLEAN
  /\ acts \in 0..MaxActs /\ faults \in 0..MaxFaults

Awaiting == {"pending", "locating", "located", "reading", "writing"}

\* "A found question is never left without a guide": one that waits or is being
\* worked on has a job that will go on with it, unless a request that has stopped
\* it is about to start it anew, or died before it could.
NoneStranded ==
  row.state \in Awaiting /\ ~broken /\ (\A r \in Requests : req[r] = NoRequest)
    => Unfinished # {}

\* "A guide that's written, or being written, is written again from them; one not
\* started yet just reads them when it does": a guide that is there follows the notes
\* and the reading the student asked for, if no edit crossed a run or another edit.
Follows(w) == w.notes = asked.notes /\ (asked.mine => w.mine)
GuideIsCurrent == row.state = "ready" /\ ~crossed => \A w \in row.walk : Follows(w)

\* Every question comes to rest: written, failed, not asked for, or taken out.
RestsAtLast == row.state \in Awaiting ~> row.state \notin Awaiting \/ broken
=============================================================================
