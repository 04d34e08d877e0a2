----------------------------- MODULE BookImport -----------------------------
(***************************************************************************)
(* The import of one book: Upload, Stop, Retry, Remove and Update of       *)
(* internal/library/service.go, and the two jobs of import.go.  The queue  *)
(* is QueueContract with one lane of one slot; a Stop that the queue loses *)
(* is JobQueue's subject.  Step names are those of the code's calls.       *)
(* Statements that fail outright (a full disk) are left out.               *)
(* Bounds: Jobs, MaxTrouble.                                               *)
(***************************************************************************)
EXTENDS Integers, FiniteSets

CONSTANTS
  Pages,      \* the pages of the file, numbers
  Blank,      \* its pages without text
  Jobs,       \* ids for jobs
  Requests,   \* requests under way at a time
  Breaks,     \* may a request be broken off, by its client or a crash?
  MaxTrouble  \* bound: requests (but those for another title), failures, interruptions and
              \* crashes

ASSUME ImportConstants ==
  /\ Pages \subseteq Nat \ {0} /\ Blank \subseteq Pages
  /\ Breaks \in BOOLEAN
  /\ MaxTrouble \in Nat
  /\ Jobs \subseteq Nat \ {0} /\ IsFiniteSet(Jobs) /\ Cardinality(Jobs) >= 2 + 2 * MaxTrouble

VARIABLES
  book,    \* its row; scan is what classify says of its file
  page,    \* the status of each page
  vector,  \* the pages with a vector
  kind,    \* each job's kind
  status,  \* see QueueContract
  place,
  verdict, \* what settle is about to write of a job that is leaving
  run,     \* the job being handled, and how far it is
  req,     \* the requests under way
  asked,   \* has the student asked for a Stop or a Remove?
  trouble

vars == <<book, page, vector, kind, status, place, verdict, run, req, asked, trouble>>
content == <<page, vector>>
queue == <<kind, status, place, verdict>>

Queue == INSTANCE QueueContract
           WITH Lanes <- {"import"}, Limit <- [import |-> 1],
                Keys <- {}, NoKey <- "none"

Idle == [job |-> 0, at |-> "idle", err |-> FALSE, stopped |-> FALSE,
         cut |-> FALSE, edited |-> FALSE, todo |-> {}]
NoRequest == [op |-> "none", at |-> "none", todo |-> {}, name |-> "given", edited |-> FALSE]

Present == book.state \notin {"absent", "removed"}
Going == {"queued", "preparing"}

\* UPDATE books SET state: no row, no effect.
InState(b, s) == IF Present THEN [b EXCEPT !.state = s] ELSE b

Troubled == trouble < MaxTrouble /\ trouble' = trouble + 1

\* Ids are taken in order.
NewJob(j) == status[j] = "none" /\ \A i \in Jobs : status[i] = "none" => j <= i

Enqueue(k) == \E j \in Jobs : /\ NewJob(j) /\ Queue!Submit(j)
                             /\ kind' = [kind EXCEPT ![j] = k]
                             /\ UNCHANGED verdict

-----------------------------------------------------------------------------
(* The handlers.                                                           *)

\* Points at which every call takes the job's context.
Steps == {"examine", "classify", "handover", "prepare", "read", "name", "index",
          "search", "embed"}

\* buildSearch asks nobody once its batches are done.
InCall == run.at \in Steps /\ ~(run.at = "embed" /\ run.todo = {})

Alive == ~run.stopped /\ ~run.cut
At(p) == run.at = p
GoTo(p) == run' = [run EXCEPT !.at = p]
StaysBut(p) == GoTo(p) /\ UNCHANGED <<queue, req, asked, trouble>>

Begin(j) ==
  /\ Queue!Begin(j) /\ At("idle")
  /\ run' = [Idle EXCEPT !.job = j, !.at = "begun"]
  /\ UNCHANGED <<book, content, kind, verdict, req, asked, trouble>>

\* runStep's getBook: nobody writes the row of a job that ends here.
GetBook ==
  /\ At("begun")
  /\ run' = [run EXCEPT
       !.at = IF Alive /\ Present THEN kind[run.job] ELSE "back",
       !.err = ~Alive,
       !.edited = book.edited]
  /\ UNCHANGED <<book, content, queue, req, asked, trouble>>

\* A call fails because the context has ended...
LoseContext ==
  /\ InCall /\ ~Alive
  /\ StaysBut("erred") /\ UNCHANGED <<book, content>>

\* ...or on its own: a file that cannot be read, a model that does not answer.
Fail ==
  /\ InCall /\ Alive
  /\ Troubled
  /\ GoTo("erred") /\ UNCHANGED <<book, content, queue, req, asked>>

Examine ==
  /\ At("examine") /\ Alive
  /\ book' = InState(book, "preparing")
  /\ StaysBut("classify") /\ UNCHANGED content

Named_Always(b) == [b EXCEPT !.name = "given"]

\* The metadata's name, unless the book was edited when the job read it.
Named(b) == IF run.edited THEN b ELSE [b EXCEPT !.name = "given"]

Settled(p) == IF p \in Blank THEN "blank" ELSE "text"

\* examine's transaction and the setState after it.  A digital book's pages
\* cannot be stored without its row.
Classify ==
  /\ At("classify") /\ Alive
  /\ IF Present \/ book.scan
       THEN /\ book' = IF Present THEN Named(InState(book, "preparing")) ELSE book
            /\ page' = IF book.scan THEN page ELSE [p \in Pages |-> Settled(p)]
            /\ StaysBut("handover")
       ELSE StaysBut("erred") /\ UNCHANGED <<book, page>>
  /\ UNCHANGED vector

Handover_NoJob ==
  /\ At("handover") /\ Alive
  /\ book' = InState(book, "queued")
  /\ StaysBut("back") /\ UNCHANGED content

\* The preparation is queued with the book's state.
Handover ==
  /\ At("handover") /\ Alive
  /\ book' = InState(book, "queued")
  /\ Enqueue("prepare")
  /\ GoTo("back") /\ UNCHANGED <<content, req, asked, trouble>>

Unread_All == Pages
Unread == {p \in Pages : page[p] \notin {"text", "blank"}}

Prepare ==
  /\ At("prepare") /\ Alive
  /\ book' = InState(book, "preparing")
  /\ run' = [run EXCEPT !.at = IF book.scan THEN "read" ELSE "name", !.todo = Unread]
  /\ UNCHANGED <<content, queue, req, asked, trouble>>

\* The next page of the loop.
First(p) == p \in run.todo /\ \A q \in run.todo : p <= q

\* One page recognized and stored, or stored as failed, and the progress told.
ReadPage(p) ==
  /\ At("read") /\ Alive /\ First(p)
  /\ IF Present
       THEN /\ \/ page' = [page EXCEPT ![p] = Settled(p)] /\ UNCHANGED trouble
               \/ page' = [page EXCEPT ![p] = "failed"] /\ Troubled
            /\ run' = [run EXCEPT !.todo = @ \ {p}]
            /\ book' = InState(book, "preparing")
       ELSE GoTo("erred") /\ UNCHANGED <<book, page, trouble>>
  /\ UNCHANGED <<vector, queue, req, asked>>

ReadAll_Careless == At("read") /\ run.todo = {} /\ Alive
                    /\ book' = InState(book, "preparing")
                    /\ StaysBut("name") /\ UNCHANGED content

\* With pages that could not be read the import fails.
ReadAll ==
  /\ At("read") /\ run.todo = {}
  /\ IF \E p \in Pages : page[p] = "failed"
       THEN StaysBut("erred") /\ UNCHANGED book
       ELSE /\ Alive
            /\ book' = InState(book, "preparing") /\ StaysBut("name")
  /\ UNCHANGED content

\* nameBook, after index has read the row again.
Name ==
  /\ At("name") /\ Alive
  /\ IF Present
       THEN /\ book' = [book EXCEPT !.name = IF book.edited THEN @ ELSE "given"]
            /\ StaysBut("index")
       ELSE StaysBut("erred") /\ UNCHANGED book
  /\ UNCHANGED content

Index_Orphans ==
  /\ At("index") /\ Alive
  /\ book' = [InState(book, "preparing") EXCEPT !.sections = TRUE]
  /\ StaysBut("search") /\ UNCHANGED content

\* The sections, which hang off the row.
Index ==
  /\ At("index") /\ Alive
  /\ IF Present
       THEN /\ book' = [book EXCEPT !.state = "preparing", !.sections = TRUE]
            /\ StaysBut("search")
       ELSE StaysBut("erred") /\ UNCHANGED book
  /\ UNCHANGED content

Lacking_Any == {p \in Pages : p \notin vector}
Lacking == {p \in Pages : page[p] = "text" /\ p \notin vector}

Search ==
  /\ At("search") /\ Alive
  /\ book' = InState(book, "preparing")
  /\ run' = [run EXCEPT !.at = "embed", !.todo = Lacking]
  /\ UNCHANGED <<content, queue, req, asked, trouble>>

\* A batch (here: of one) is embedded and stored.
Embed(p) ==
  /\ At("embed") /\ Alive /\ First(p)
  /\ IF Present
       THEN /\ vector' = vector \cup {p}
            /\ run' = [run EXCEPT !.todo = @ \ {p}]
            /\ book' = InState(book, "preparing")
       ELSE GoTo("erred") /\ UNCHANGED <<book, vector>>
  /\ UNCHANGED <<page, queue, req, asked, trouble>>

\* "Finished is finished": the context is not asked any more.
Ready ==
  /\ At("embed") /\ run.todo = {}
  /\ book' = InState(book, "ready")
  /\ StaysBut("back") /\ UNCHANGED content

\* What runStep leaves of a job that erred: who ended it is asked first...
Leaves == IF ~run.stopped /\ run.cut THEN "requeuing" ELSE "failing"

Decide == At("erred") /\ StaysBut(Leaves) /\ UNCHANGED <<book, content>>

\* ...and the row written after.
WriteBack ==
  /\ run.at \in {"failing", "requeuing"}
  /\ book' = InState(book, IF At("failing") THEN "failed" ELSE "queued")
  /\ run' = [run EXCEPT !.at = "back", !.err = TRUE]
  /\ UNCHANGED <<content, queue, req, asked, trouble>>

Verdict_NoRetry == IF run.stopped THEN "cancelled"
                   ELSE IF run.err THEN "failed" ELSE "done"

\* settle, under q.mu...
Verdict == IF run.stopped THEN "cancelled"
           ELSE IF run.err THEN (IF run.cut THEN "waiting" ELSE "failed")
           ELSE "done"

Return ==
  /\ At("back")
  /\ Queue!Return(run.job)
  /\ verdict' = [verdict EXCEPT ![run.job] = Verdict]
  /\ run' = Idle
  /\ UNCHANGED <<book, content, kind, req, asked, trouble>>

\* ...and its UPDATE.
End(j) ==
  /\ Queue!End(j) /\ status'[j] = verdict[j]
  /\ UNCHANGED <<book, content, kind, verdict, run, req, asked, trouble>>

-----------------------------------------------------------------------------
(* Requests.                                                               *)

Upload ==
  /\ book.state = "absent"
  /\ book' = [book EXCEPT !.state = "queued"]
  /\ Enqueue("examine")
  /\ UNCHANGED <<content, run, req, asked, trouble>>

\* A patch reads the row, and sets a field of its own.  An edit of the title or the author
\* is the student's from then on.
Patch(r, field) ==
  /\ req[r] = NoRequest /\ Present
  /\ req' = [req EXCEPT ![r] =
       [NoRequest EXCEPT !.op = "patch", !.at = "write",
                         !.name = IF field = "title" THEN "student" ELSE book.name,
                         !.edited = book.edited \/ field # "colour"]]
  /\ IF field = "title" THEN UNCHANGED trouble ELSE Troubled
  /\ UNCHANGED <<book, content, queue, run, asked>>

\* The states in which the Get at its beginning lets a request go on.
Admits(op) == CASE op = "stop" -> book.state \in Going
                [] op = "remove" -> Present
                [] op = "retry" -> book.state = "failed"

Arrive(r, op) ==
  /\ req[r] = NoRequest /\ Admits(op)
  /\ Troubled
  /\ req' = [req EXCEPT ![r] =
       [NoRequest EXCEPT !.op = op, !.at = IF op = "retry" THEN "write" ELSE "select"]]
  /\ asked' = (asked \/ op # "retry")
  /\ UNCHANGED <<book, content, queue, run>>

\* StopSubject reads the jobs that have not ended...
Select(r) ==
  /\ req[r].at = "select"
  /\ req' = [req EXCEPT ![r].at = "write",
               ![r].todo = {j \in Jobs : status[j] \in {"waiting", "working", "leaving"}}]
  /\ UNCHANGED <<book, content, queue, run, asked, trouble>>

\* ...and stops them one by one: a run is marked, a waiting job cancelled.
StopJob(r, j) ==
  /\ req[r].at = "write" /\ j \in req[r].todo
  /\ req' = [req EXCEPT ![r].todo = @ \ {j}]
  /\ run' = [run EXCEPT !.stopped = @ \/ run.job = j]
  /\ IF status[j] = "waiting"
       THEN status' = [status EXCEPT ![j] = "cancelled"] /\ Queue!Unwind
       ELSE UNCHANGED <<status, place>>
  /\ UNCHANGED <<book, content, kind, verdict, asked, trouble>>

Ends(r) == /\ req[r].at = "write" /\ req[r].todo = {}
           /\ req' = [req EXCEPT ![r] = NoRequest]

\* Update writes all of it back, as it read it but for that field.
Update(r) ==
  /\ req[r].op = "patch" /\ Ends(r)
  /\ book' = IF Present
       THEN [book EXCEPT !.name = req[r].name, !.edited = @ \/ req[r].edited]
       ELSE book
  /\ UNCHANGED <<content, queue, run, asked, trouble>>

Stop(r) ==
  /\ req[r].op = "stop" /\ Ends(r)
  /\ book' = InState(book, "failed")
  /\ UNCHANGED <<content, queue, run, asked, trouble>>

\* The rows that hang off a book go with it.
Remove(r) ==
  /\ req[r].op = "remove" /\ Ends(r)
  /\ book' = [book EXCEPT !.state = "removed", !.sections = FALSE]
  /\ page' = [p \in Pages |-> "unread"] /\ vector' = {}
  /\ UNCHANGED <<queue, run, asked, trouble>>

Retry(r) ==
  /\ req[r].op = "retry" /\ Ends(r)
  /\ book' = InState(book, "queued")
  /\ Enqueue("examine")
  /\ UNCHANGED <<content, run, asked, trouble>>

-----------------------------------------------------------------------------
(* What befalls them.                                                      *)

\* The run is interrupted for another book, paused or shut down.
Cut ==
  /\ ~At("idle") /\ ~run.cut
  /\ Troubled
  /\ run' = [run EXCEPT !.cut = TRUE]
  /\ UNCHANGED <<book, content, queue, req, asked>>

\* The client goes, and the request's next call fails.
HangUp(r) ==
  /\ Breaks /\ req[r] # NoRequest
  /\ Troubled
  /\ req' = [req EXCEPT ![r] = NoRequest]
  /\ UNCHANGED <<book, content, queue, run, asked>>

\* The process dies and starts again: what ran waits.
Crash ==
  /\ Breaks \/ \A r \in Requests : req[r] = NoRequest
  /\ Troubled
  /\ status' = [j \in Jobs |-> IF status[j] \in {"working", "leaving"} THEN "waiting"
                               ELSE status[j]]
  /\ Queue!Unwind
  /\ run' = Idle /\ req' = [r \in Requests |-> NoRequest]
  /\ UNCHANGED <<book, content, kind, verdict, asked>>

Init ==
  /\ book \in [state: {"absent"}, scan: BOOLEAN, name: {"given"}, edited: {FALSE},
              sections: {FALSE}]
  /\ page = [p \in Pages |-> "unread"] /\ vector = {}
  /\ kind = [j \in Jobs |-> "examine"] /\ verdict = [j \in Jobs |-> "done"]
  /\ status = [j \in Jobs |-> "none"]
  /\ place = [j \in Jobs |-> [lane |-> "import", key |-> "none"]]
  /\ run = Idle /\ req = [r \in Requests |-> NoRequest]
  /\ asked = FALSE /\ trouble = 0

Handler == \/ GetBook \/ LoseContext \/ Examine \/ Classify \/ Handover
           \/ Prepare \/ ReadAll \/ Name \/ Index \/ Search \/ Ready
           \/ Decide \/ WriteBack \/ Return
           \/ \E p \in Pages : ReadPage(p) \/ Embed(p)

Request(r) == Select(r) \/ (\E j \in Jobs : StopJob(r, j))
              \/ Stop(r) \/ Remove(r) \/ Retry(r) \/ Update(r)

Next ==
  \/ Handler \/ Fail \/ Cut \/ Crash
  \/ Upload
  \/ \E j \in Jobs : Begin(j) \/ End(j)
  \/ \E r \in Requests : \/ \E op \in {"stop", "remove", "retry"} : Arrive(r, op)
                         \/ \E field \in {"title", "author", "colour"} : Patch(r, field)
                         \/ Request(r) \/ HangUp(r)

Spec == Init /\ [][Next]_vars

(* A handler's calls end, the queue starts what waits when its slot is     *)
(* free and settles what returned.                                         *)
Fairness == /\ WF_vars(Handler)
            /\ WF_vars(\E j \in Jobs : Begin(j)) /\ WF_vars(\E j \in Jobs : End(j))

FairSpec == Spec /\ Fairness

-----------------------------------------------------------------------------
(* Properties.                                                             *)

Books == [state: {"absent", "queued", "preparing", "ready", "failed", "removed"},
          scan: BOOLEAN, name: {"given", "student"}, edited: BOOLEAN,
          sections: BOOLEAN]
Points == Steps \cup {"idle", "begun", "erred", "failing", "requeuing", "back"}
Runs == [job: Jobs \cup {0}, at: Points, err: BOOLEAN, stopped: BOOLEAN, cut: BOOLEAN,
         edited: BOOLEAN, todo: SUBSET Pages]
Reqs == [op: {"none", "stop", "remove", "retry", "patch"}, at: {"none", "select", "write"},
         todo: SUBSET Jobs, name: {"given", "student"}, edited: BOOLEAN]

\* Every variable has its type, and only pages with text have vectors.
TypeOK ==
  /\ book \in Books
  /\ page \in [Pages -> {"unread", "failed", "blank", "text"}]
  /\ vector \subseteq {p \in Pages : page[p] = "text"}
  /\ kind \in [Jobs -> {"examine", "prepare"}]
  /\ status \in [Jobs -> {"none", "waiting", "working", "leaving", "done", "failed",
                         "cancelled"}]
  /\ place \in [Jobs -> [lane: {"import"}, key: {"none"}]]
  /\ verdict \in [Jobs -> {"waiting", "done", "failed", "cancelled"}]
  /\ run \in Runs
  /\ req \in [Requests -> Reqs]
  /\ asked \in BOOLEAN
  /\ trouble \in 0..MaxTrouble

\* A book that says it is ready has every page read, its sections, and a vector
\* for every page with text, after any history of stops, retries, interruptions
\* and crashes: runPrepare skips what it takes to be there.
ReadyMeansRead ==
  book.state = "ready" =>
    /\ book.sections
    /\ \A p \in Pages : page[p] \in {"text", "blank"}
    /\ vector = {p \in Pages : page[p] = "text"}

\* A job that will still be handled.
Owed(j) == \/ status[j] \in {"waiting", "working"}
           \/ status[j] = "leaving" /\ verdict[j] = "waiting"

\* A book that says it is on its way has a job that will bring it there, as long
\* as the student asked for no Stop: runStep's own UPDATE and settle's, each with
\* its own idea of who ended the run, agree.
Backed ==
  book.state \in Going /\ ~asked => \E j \in Jobs : Owed(j)

\* Remove leaves no pages, vectors or sections, not even those that a job of the
\* book was about to write.
RemovedLeavesNothing ==
  book.state = "removed" =>
    vector = {} /\ ~book.sections /\ \A p \in Pages : page[p] = "unread"

\* "Whatever the last run finished is kept and skipped": a page once read stays
\* read until the book is removed.
PagesKept ==
  [][\A p \in Pages : page[p] \in {"text", "blank"} /\ book'.state # "removed"
                       => page'[p] = page[p]]_vars

\* A patch under way that read another name than the book has now.
Stale(r) == req[r].op = "patch" /\ req[r].name # book.name

\* The student's title for the book is written over only by an examination that read the
\* row before it was given, and by a patch that did, as it writes back what it read.
EditStays ==
  [][book.name = "student" /\ book'.name # "student" =>
       \/ At("classify") /\ ~run.edited
       \/ \E r \in Requests : Stale(r) /\ req'[r] # req[r]]_vars

\* An import comes to an end by itself, however often it is interrupted.
EveryImportEnds == book.state \in Going ~> book.state \notin Going \/ asked

\* "Stop ends a queued or preparing import. The book stays as a failed row":
\* when the requests have returned and no job is left, the book is not said to
\* be on its way.
StopEnds ==
  book.state \in Going /\ (\A r \in Requests : req[r] = NoRequest)
    => \E j \in Jobs : Owed(j)
=============================================================================
