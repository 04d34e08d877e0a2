# A TLA+ model of PSet

PSet is one Go program on a student's machine: an HTTP server, a SQLite
database, a durable job queue, one live event stream, and features that put
work into the queue and publish what came of it. The student uploads textbooks
(which are examined, read, indexed), makes problem sets out of them (whose
questions are found, read and given guides by a language model), and asks the
tutor about a page. Everything slow is a job.

This directory models the parts of it in which order matters (several
goroutines, one database, cancellations, crashes and restarts), and the
algorithms whose rules meet in more ways than tests go through. Each module is
translated from the Go (or TypeScript) named in `PROJECT.json`, definition by
definition; TLC checks it on small instances, and TLAPS proves, for every
instance, all the safety properties of the queue, the event bus, a book's
import, the tutor's turns and a question, and those of a guide's rounds, the
document it becomes and its second look, the ranking of a set, assignment reads,
upgrades of the database and updates of the program, and that notes on a
student, study time and counted calls are kept once and no longer than what they
are of.

## The system

| Part (under `src/`) | State it keeps | Operations | What is hard about it |
| --- | --- | --- | --- |
| `internal/jobs` | table `jobs`; in memory `running`, `paused`, the `wake` token | Enqueue, Stop, StopSubject, Retry, Pause, Resume, Run (recover, schedule, start, settle) | Stop, settle and start each take two steps, one under `q.mu` and one in SQLite; crashes between them; interruption of resumable runs over several passes |
| `internal/events`, `web/src/api/events.ts` | the last 4096 events, ids, subscribers' channels; the browser's cursor | Publish, Subscribe, Handler; reconnect, reopen | a client must miss nothing across drops, reconnects and restarts, or be told to refetch |
| `internal/library` | `books`, `pages`, vectors, contents; PDF and scan files; caches | Upload, Update, Remove, Stop, Retry; jobs `examine` and `prepare`; reading, search | a two-job pipeline whose jobs and rows commit together, stopped and retried from requests while its handler runs |
| `internal/ask` | `turns` | Ask, Stop, Clear; job `turn` | Stop's own UPDATE against the handler's last save; Clear against both |
| `internal/homework` | `homework`, `questions`, `assignment_reads` | questions added, boxed, pointed out, rewritten, retried, removed; jobs `locate`, `read`, `guide`, `rank`, assignment reads | the student edits a question while a job on its earlier version is still running; a set is ranked as it changes; a page that was read before is compared with what it became; a problem is named in many ways and looked for in few pages |
| `internal/agent` | one loop's rounds | rounds of tool calls, nudges, the last answer | bounds and what is kept when cut off |
| `internal/settings` | the settings row, the key | Save, Test, Health, Reset | Reset wipes everything while requests keep coming |
| `internal/db` | `schema_migrations` | Open, Migrate, Wipe, backup | a crash between migrations |
| `internal/memory`, `internal/activity`, `internal/usage` | preferences; study intervals; calls and their cost | Save, Remove; Beat; Sink | replacing and deduplicating; merging intervals |
| `internal/llm` | a client, sessions' hosts | ChatStream, Embed, Classify | retries and fallbacks |
| `internal/update` | the update under way | Check, Apply, restart | one update at a time, restart only when nothing runs |
| `internal/doc` | a document while it is written | Parser, Finalize, the stream of a text | lines that cannot be shown are repaired by further calls, which fail; what was streamed cannot be taken back |
| `internal/pagenum`, `probnum`, `mathx` | none (their results are kept in `books`) | page maps; how problems are numbered; Eval, SolveLinear | numbers as OCR left them; exact or approximate |
| `internal/pdf`, `ocr` | none | external tools | |
| `cmd/pset` | the process | wiring, start, shutdown | HTTP serves before the queue has recovered; the queue has 30 seconds to stop |

Interaction. A request handler writes a row and enqueues a job in one
transaction, publishes an event, and calls `Wake`. The scheduler starts the
job's handler in a goroutine, which reads the row, works, writes it back and
publishes as it goes. Stop and Remove go to the queue first (`StopSubject`) and
to the row after. Shutdown, Pause and interruption cancel a handler's context
and put its job back to `queued`; `jobs.Stopped(ctx)` tells a handler that it
was the student.

## The modules

| Module | Models | Role |
| --- | --- | --- |
| `JobQueue` | `internal/jobs/jobs.go`, and the start and end of the process from `cmd/pset/main.go` | the detailed specification |
| `QueueContract` | what the queue promises a feature | abstract specification |
| `JobQueueContract` | the refinement mapping from the first to the second | |
| `MCJobQueue` | instances for TLC | |
| `JobQueueProofs` | theorems about `JobQueue` | |
| `JobQueueContractProofs` | the refinement of `QueueContract`, proved | |
| `EventBus` | `internal/events/events.go` and the stream `web/src/api/events.ts` keeps open to it | the bus, the handlers and the browsers as one specification |
| `EventBusProofs` | theorems about `EventBus` | |
| `BookImport` | `internal/library/service.go`, `import.go`, `naming.go`: one book | composes with the queue: its jobs' steps are `QueueContract`'s actions, conjoined |
| `BookImportProofs` | theorems about `BookImport` | |
| `Tutor` | `internal/ask`, the forgetting of `internal/usage`, the copy `web/src/api/ask.ts` keeps | over `QueueContract` |
| `TutorProofs` | theorems about `Tutor` | |
| `Question` | `internal/homework`: the steps of one question and what the student does to it | over `QueueContract` |
| `QuestionProofs` | theorems about `Question` | |
| `Services` | nothing of its own: `AgentLoop`, `AssignmentRead`, `Store`, `Update`, `HomeworkSet`, `CrossCheck`, `Document`, `Memory`, `Activity` and `Usage`, side by side | the part of `Parts` that is proved about |
| `ServicesProofs` | theorems about the first four of them | |
| `KeepingProofs` | theorems about the last six | |
| `Parts` | nothing of its own: those of `Services` and the modules below, side by side | a behaviour of `Parts` is one of one of them |
| `AgentLoop` | `internal/agent`, `internal/llm`'s stream and `writeGuide`: one guide | |
| `CrossCheck` | `homework/crosscheck.go`: the second look at a guide's answers | |
| `Calculator`, `LinearSystem`, over `Values` | `internal/mathx` | algorithms |
| `HomeworkSet` | `homework/rank.go`, `store.go`, `service.go`: a set's questions, their places, their ranking | |
| `SetUpdate` | `homework/update.go`, `reads.go`: a set and the page it is made from | |
| `AssignmentRead` | `homework/assignment.go`: a read and its job | |
| `References` | `homework/reference.go`: how problems are named | algorithm |
| `FindProblem` | `homework/find.go`, `scope.go`, `locate.go`: which pages are shown, and which is taken | |
| `Contents` | `library/contents.go`, `structure.go`: a book's sections | algorithm |
| `PageNumbers` | `internal/pagenum`, `library/pageruns.go` | algorithm, and the row it is kept in |
| `ProblemStyle` | `internal/probnum`, `library/problems.go` | algorithm, and the row it is kept in |
| `Document`, `StreamedText` | `internal/doc` | |
| `Usage`, `Activity`, `Memory` | `internal/usage`, `internal/activity`, `internal/memory` | |
| `Store` | `internal/db`, Reset and the repair of `internal/settings`, start of `cmd/pset` | |
| `Update` | `internal/update` | |

### JobQueue

| Variable | In the code |
| --- | --- |
| `spec` | the columns of a `jobs` row that `Enqueue` writes and nothing changes (kind, subject, key, priority) |
| `row` | its `state` column; "none" when there is no row |
| `run` | the job's goroutine: "handling" is in `q.running`; "erred" has left it with a failure and has not asked `rootDone`; "done", "cancelled", "queued" are about to write that state |
| `stopped`, `preempted` | the two marks of `running` |
| `ended` | runs whose context was cancelled while they ran |
| `paused`, `wake` | `q.paused`, the token in `q.wake` |
| `sched` | the pass of `schedule` that holds `q.mu`: lanes left, and in one lane the rows not yet looked at, the picks, the promised slots |
| `proc` | the process: down, serving HTTP with the queue not yet recovered, up, closing |
| `stopper`, `reset` | how far each `StopSubject` and each `Reset` has got |
| `trouble` | counts retries, pauses, crashes and shutdowns, for the bound `MaxTrouble` |

A step is cut at every statement sent to SQLite outside `q.mu` and at every
taking of `q.mu`. The scheduler holds `q.mu` for a whole pass, so the guard
`MuFree` keeps out whatever takes the lock, and lets in what does not: the
UPDATE of a Stop, the UPDATE of a settle, Enqueue, Retry. A handler is any
program: it returns whenever it likes, with an error or without one.

What is left out: payloads, `attempts`, the text of errors, `Get`.

### EventBus

| Variable | In the code |
| --- | --- |
| `next`, `ring` | `b.next`, `b.ring` (an event is its id) |
| `base` | what earlier runs of the server published: ids start again at 1 with each, so an event's place in the whole history is `base + id` |
| `subs` | the clients whose channel is in `b.subs`; `Publish` drops one by closing its channel |
| `ch` | the subscriber's channel, and what was written and has not reached the page: a lost connection loses both |
| `link` | the browser's stream: "closed" before the page, "fresh" between Subscribe and the `id:` line that tells it now, "open", "retrying" while EventSource waits to reconnect, "refused" while `events.ts` waits to open another |
| `cursor`, `since` | Last-Event-ID as the browser keeps it, and the `base` of the run that wrote it |
| `knows` | what the page has: fetched by its queries, told by an event, or fetched again after a reset |
| `trouble` | lost connections, refusals and restarts, for the bound `MaxTrouble` |

Publish and Subscribe each hold `b.mu` from end to end and are one action each.
`TellNow` is an action of its own because `Handler` reads `b.next` under a
second lock. The keep-alive comments and the payloads are left out.

### BookImport

| Variable | In the code |
| --- | --- |
| `book` | the row: `state`; `name` ("given" by the file, its metadata or the model, or the "student"'s); `edited`; whether there are `sections`; `scan` is what `classify` will say of the file |
| `page`, `vector` | the rows of `pages` (their `status`) and of `embeddings` |
| `kind`, `status`, `place` | the book's jobs, seen through `QueueContract` (one lane, one slot, no keys) |
| `verdict` | the state `settle` has decided on for a job that is leaving |
| `run` | the handler: the step it is at (named for the calls of `examine`, `prepare`, `read`, `index`, `buildSearch`), whether its context has ended and by whom (`stopped`, `cut`), the `edited` it read, the pages it has still to do |
| `req` | requests under way: Stop, Remove, Retry, Update, each after the Get it began with; of an Update (`Patch`, then `Update`) also the name and the `edited` it is going to write |
| `asked`, `trouble` | whether a Stop or Remove was ever asked for; the bound |

A handler's step ends where it next speaks to the database; the UPDATE that only
reports progress belongs to the step it reports. Each step that passes the job's
context on fails once the context has ended (`LoseContext`); `Ready` and
`WriteBack` do not pass it on. `runStep` decides who ended the run (`Decide`)
before it writes the book's state (`WriteBack`), and `settle` decides again
(`Return`) before its own UPDATE (`End`): four steps, and the student's Stop can
fall between any two. Foreign keys are on, so a page, a section or a vector
cannot be stored once the book's row is gone, and `UPDATE books` does nothing.

`QueueContract` is instantiated with the real limit of the import lane (one).
`JobQueue` is shown to implement it, so what `BookImport` assumes of the queue
is what the queue's model delivers, but for one thing: the queue may lose a Stop
altogether (`queue_stop_lost`), which `StopJob` leaves out.

### Tutor

| Variable | In the code |
| --- | --- |
| `turn` | the rows of `turns`: state, how many blocks of the answer are there, and when it was last written (`updated_at`) |
| `status`, `place`, `verdict` | the jobs `turn`, seen through `QueueContract`, and what `settle` is about to write of one that leaves |
| `run` | the turn being handled: the points of `runTurn`, `stream` and `finish`, with the row as the run read it |
| `req` | Ask, Stop and Clear under way, each cut where it next speaks to the database, the queue or the page |
| `calls`, `marks` | the tables `calls` and `forgotten` of `internal/usage`, as far as they are about turns |
| `wire`, `replies` | the events and the HTTP replies on their way to the page; a reply may overtake events |
| `page` | the copies `applyTurn` and `applyBlock` keep of the turns |
| `late`, `lost`, `broken` | what the properties except: turns deleted by a Clear that did not list them, turns a Clear's late reply took from the page, turns whose Stop or Clear a crash cut short |

A turn has one job and is asked once, so the turn's id stands for its job's.
The page hears a whole stream (`EventBus` is about that); `RefetchSpec` adds a
page that fetches the whole list again.

### Question

| Variable | In the code |
| --- | --- |
| `row` | the question: its state, whether it is in the book, has its page, its boxes and its figures, its notes (counted), whether the reading is the student's own, and from what the guide was written (`walk`) |
| `status`, `place`, `kind` | its jobs, seen through `QueueContract`, and what each is to do |
| `run` | a job's handler: `runStep` around `find`, `read` and `write`, with the row it read first |
| `paused` | the queue is paused, or the program shuts down |
| `req` | the requests that stop the jobs first and write in a transaction after: notes, corrections, boxes, a page pointed out, a rewrite, Retry, Remove |
| `asked` | the notes and the reading the student asked for last |
| `crossed`, `broken` | what the properties except: an edit that crossed a run which had read the question before it (or a step that a crash runs again), a job that will have its figures read anew, or another edit under way; a request that died between the two |

A statement of a run takes effect if the run's context is alive as it executes:
one that is in flight as the context ends is taken to fail, or to have come
before.

### Parts

The other modules share no state with each other. `Parts` holds the variables of
all of them and says in `on` which one a behaviour is of; the rest are "off".
Ten of them are in `Services`, which `Parts` extends: `Init` and `Next` of
`Parts` conjoin those of `Services`, so a behaviour of `Parts` is one of
`ServicesSpec`, with other variables beside. They are a module of their own
because the prover cannot be used on `Parts` (see below).
Each is a specification of its own and says what it leaves out and what its
bounds are. In short:

- `AgentLoop`: `writeGuide`, `Loop.Run` and the streamed call under them: rounds
  of tool calls, nudges, the flattened last reply, the retries of a stream that
  is refused, dropped or left without its end, and runs that carry on from the
  rounds saved before.
- `CrossCheck`: solve again, compare, write once more, say what still differs;
  each call may fail or be cut. A guide is its blocks and which of its answers a
  note follows; the second guide may be any other.
- `Values` is the arithmetic of `mathx/value.go` on complex numbers with rational
  parts, times a power of π/180 (what a degree sign multiplies by), with the mark
  of exactness. `Calculator` evaluates sequences of words by the recursive
  descent of `parse.go`, one operator for each method. `LinearSystem` eliminates
  a column a step, `solveRational` and `solveComplex` in one.
- `HomeworkSet`: `Add`, `Remove`, `Move`, `insertQuestions` of a find,
  `rankWhenFound` with what it counted, and the ranking job.
- `SetUpdate`: a document changes, is read again, is compared with the set line
  by line (`compare`); what the student keeps of the difference is taken out,
  changed and added, one request after the other.
- `AssignmentRead`: the row, its job through `runAssignmentRead` and
  `settleRead`, or failing before it has settled (`Fault`), DismissRead and
  RetryRead, and a program that dies.
- `References`: `ParseRefs` word by word, and `splitDraft`, whose texts are read
  again when they are looked for.
- `FindProblem`: `scopeOf`, `candidates`, `sweepBatchesOf`, and `locateOnce` with
  a Finder and a Reader who may say anything.
- `Contents`: `readContents` of a book that is a scan, in full: `placeEntries`
  with its votes, `headingCandidates`, `pickHeadings`, `assignEndPages`.
- `PageNumbers`: `pagenum.Map`, `Detect`, and the row as an import and patches
  write it. `ProblemStyle`: `probnum.Detect` on books printed page by page, and
  the row as an import, a start and patches write it.
- `Document`: the parser's lines, the repairs, `Finalize`. `StreamedText`: the
  runs that go out as a text grows, chunk by chunk, against those of the whole.
- `Usage`: rows by their ids, marks and the removals of a set or a book, and the sums of
  `detail.go`. `Activity`: stretches saved again and again, and their sums.
  `Memory`: saves that resolve, compare and write in steps of their own, and the
  prompt.
- `Store`: starts of several versions of the program, backups, migrations, the
  repair and Reset, cut anywhere. `Update`: check, download, verify, replace,
  restart, with a GitHub that changes meanwhile, and what a process that dies
  leaves on disk (`litter`).

## What each run checks

| Run | Shows |
| --- | --- |
| `queue_safety` | types; `LaneLimit`, `KeyExclusive`, `WipeAlone`, `InterruptedNeverFails`; `InterruptsMatchWaiters`: passes that repeat while interrupted runs settle never interrupt more runs than there are higher jobs waiting; `KeepsContract`: the queue implements `QueueContract` |
| `queue_liveness` | `EveryJobEnds` with the poll silent, so every wake-up that is needed is sent; `RowsMatchRuns`: the table and the goroutines agree, with a stopper and a Reset; `KeepsContract` once more under those |
| `bus_stream` | `ChannelFits`, `LiveCursor`, `NeverSkips`, `CatchesUp` over drops, lost connections, restarts and refusals |
| `import_life` | `ReadyMeansRead`, `Backed`, `RemovedLeavesNothing`, `PagesKept`, `EditStays`, `EveryImportEnds`, for a scan and for a digital book, two requests at a time, broken off or not |
| `tutor_turns` | `RunningIsOwed`, `StoppedStays`, `PageSettles`, `GoneLeavesNoCalls`, `EveryTurnEnds`: two turns, a request at a time, with Stops and Clears anywhere in a run |
| `question_life` | `NoneStranded`, `GuideIsCurrent`, `RestsAtLast`: one question from its first job to its guide, with an edit, Retry or removal and a pause, failure or crash anywhere |
| `parts` | `GuideIsOneReply` (`AnswerIsOneReply`, `CarriesWholeRounds`), `GuideIsSound` (`WrittenIsKept`, `DoubtsAreTold`), `SetIsRanked` (`RankedAtRest`), `ReadIsOwed`, `UpgradeIsBacked`, `OneSoundUpdate`, `KeptAsSaid` (`RemembersOnce`, `EndsStand`, `NoneOutlives`), `WorkedOutRight` (`NumbersLeadBack`, `ContentsAreTheBooks`, `ProblemIsFound`, `ReadAsWritten`, `StylesAreKept`, `Calculates`, `SolvesTheSystem`, `PromptIsTheNewest`, `TimeIsSpentOnce`, `BillsAgree`, `SetFollowsPage`, `StreamsWhatItIs`): each said in full in the module it is of |
| `queue_stop_lost`, `bus_reopened`, `import_stop`, `set_positions`, `page_reload` | the findings below |

Bounds. The runs of `JobQueue` use the lanes and kinds of `main.go` cut down to
imports (`examine` before `prepare`, the latter resumable) and turns with a
key. Two jobs are enough for one to wait on, interrupt, or share a key with the
other; three for a lane of one and a lane of two to fill at once. `MaxTrouble`
is one or two: the second crash, pause or retry in a behaviour meets what the
first left. `bus_stream` has two tabs, so that one is dropped while the other
is served; a ring of two and channels of three, which five events overflow
both; two troubles, so that a client comes back from the second with what it
had after the first. `import_life` has two pages, one of them blank, so that a
resumed read finds one settled and one not; six jobs, since a Retry adds two
and a crash after the handover one; two troubles, so that a Stop meets an
interruption, a Retry a run that winds down, a Remove a step about to write.
Patches of the author and the colour count as troubles, those of the title do not.
`CHECK_DEADLOCK FALSE` everywhere: with the jobs done, or the events published,
and the bound reached, the system comes to rest, as it should.

`tutor_turns` has two turns, so that a Clear meets one that ended and one that
runs; one request at a time and one block, which a run writes more than once
(`MaxTrouble` lets it take a round of tools, be stopped, be interrupted or fail,
two of these); the page is at most one event behind, which with replies that
overtake is what it takes to reorder two things about a turn. `question_life` has
one act of the student's and one fault (two of either are beyond a run of some
minutes): a request that meets a find, a read or a write at each of their steps,
and a pause, a failure or a crash that meets the request. Five jobs are enough
for both chains such a meeting can leave behind.

`parts`, by module: `AgentLoop` two rounds and three runs, so that a run carries
on from one that carried on; `HomeworkSet` three questions, of which two come
together; `AssignmentRead` two jobs (a Retry meets the one before it on its way
out) and three mishaps; `Store` three versions and five starts, one more than
copies are kept and one to come up; `Update` two requests, one release meanwhile,
one crash; `Memory` two saves, three notes; `Activity` two stretches over four
moments; `PageNumbers` four pages, two runs; `Document` two lines;
`StreamedText` five symbols out of five alphabets, each the delimiters that can
meet; `Usage` three calls and the ids they have; `Contents` five pages, three entries
or lines, every scan that loses or repeats titles; `FindProblem` six pages, batches of one to
three; `References` five words out of five sets; `SetUpdate` two lines, three
changes; `CrossCheck` three blocks, two parts; `ProblemStyle` two chapters of two
sections, so that sets are in one section, in some, or at the chapter's end;
`Calculator` every expression of up to two operators over seven operands, some of
which have operators of their own, so that each operator meets each on either
side; `LinearSystem` every system of two unknowns over five entries, and of three
over 0 and 1. Constants of the code that are made small (batch sizes, windows,
thresholds) keep their order: what is one batch, what is two, what is just enough.

### Fairness

The scheduler, a start, a recovery and an exit happen if they can (weak
fairness: nothing else disables them for ever). A settle, a Stop and a Resume
need `q.mu`, which passes take and release again and again: Go's mutex hands
itself to a waiter of more than a millisecond, hence strong fairness. A handler
returns: the features bound its rounds and its calls have deadlines. Nothing is
assumed of requests, crashes and shutdowns, except that they are at most
`MaxTrouble`.

In `EventBus`, a handler's goroutine runs (`TellNow`, `Deliver`, `Return`) and
a browser reconnects by itself (`Subscribe`). Nothing is assumed of `Publish`.

In `BookImport`, a handler's calls end (they have deadlines, or are local), and
the queue starts what waits when its slot is free and writes what it settled:
what `queue_liveness` shows of the queue. Requests need not end.

In `Tutor`, a handler's calls end, the queue starts what waits and writes what it
settled, a request goes on, and the page hears what it is sent: the last because
`Publish` waits while the page is `Lag` behind, which the code does not; it is the
bound, not the bus, that needs it. In `Question`, likewise of handlers, the queue
and requests (which may die, as a fault). The modules of `Parts` are checked for
safety only.

### Findings

- **A Stop can be lost** (`queue_stop_lost`, `StopTakesEffect`). `Stop` looks
  at `q.running`, unlocks, and updates the row only if it is still `queued`. A
  job the scheduler starts in between is not stopped, and Stop reports success.
- **A refused stream comes back stale** (`bus_reopened`, `StaysFresh`). After a
  refusal `events.ts` opens a new EventSource, which has no Last-Event-ID. The
  server takes it for a new page and replays nothing, and `onopen` fetches
  nothing again.
- **A Stop that meets an interruption strands the book** (`import_stop`,
  `StopEnds`). A handler that is being interrupted (or paused) finds it was not
  the student and is about to write "queued". A Stop marks the run, writes
  "failed" and returns; the handler writes "queued" over it; `settle` asks again
  who ended the run, and cancels the job. The book says "queued" with no job
  behind it. Retry refuses it (only a failed book may be tried again); another
  Stop helps.
- **Two questions get one place** (`set_positions`, `PlacesAreOneToN`). `renumber`
  (store.go:528) is one UPDATE whose subquery counts rows that the same UPDATE has
  changed already. Rows are met in the order they were inserted in; after a move
  that is not the order of the places, and removing the first of 1, 3, 2, 4 leaves
  2, 2, 3.
- **A list read late rolls a turn back** (`page_reload`, `NeverRollsBack`).
  `applyTurn` drops a copy older than the one held; `useTurns` replaces the whole
  list by what it fetched, however old. After a reset, a list read before a turn's
  last event and landing after it shows the turn as running, with no event to
  follow.

Seen while modelling, and not runs; where a property would fail for one of these, it says so.

About the queue, the event bus and a book's import:

- An edit of the name while the book is examined is lost: `examine` writes the
  name it read before the tools ran (import.go:211-224), and since `edited` is
  set nothing corrects it later. `EditStays` excepts this case and the next. "A retried
  import never overwrites it" (service.go:251) holds from the next run on.
- Stop writes "failed" after `StopSubject` (service.go:352), so over the "ready"
  of a handler that finished meanwhile ("Finished is finished", import.go:97).
  Nothing is lost: Retry finds every page read and ends at once.
- A handler that fails of itself and is interrupted before `settle` looks: the
  book says "failed" and its job runs again.
- Stop and then Retry while the stopped handler winds down: two examinations,
  two preparations, one after the other, of the same book. A crash between the
  handover and `settle` has the same effect, and a ready book goes back to
  "preparing" for a while.
- A request broken off between `StopSubject` and its UPDATE leaves a book on its
  way with no job (`HangUp`); `Backed` therefore speaks of imports nobody asked
  to stop.
- `Update` reads the row (service.go:254) and later writes all its fields back
  (294), so a patch of the colour, the author or the numbering that crosses a
  rename or the model's naming undoes it (`Stale`).
- A crash between the rename of an uploaded file and the transaction leaves a
  PDF that no row names.
- A Stop can also be undone: `start` sets the row running whatever its state
  (jobs.go:475), so a row cancelled since the pass's SELECT runs.
- Two Resets at once: Pause is a flag, so the first Resume restarts the queue
  under the second Reset's wipe. `OneResetter` in the proofs excludes it.
- With the poll silent and a row of a kind that has no handler,
  `EveryJobEnds` does not hold: the row takes the lane's pick, `start` marks it
  failed, and nobody wakes the scheduler, so the job behind it waits for the
  poll (two seconds).
- `InterruptsMatchWaiters` counts the rows a pass has read as waiting, among
  them rows a Stop has cancelled since: a run may be interrupted for a job that
  no longer waits.
- A page is told "now" under a second lock (events.go:148). An event published
  in between is in the channel and its id already told: if the connection is
  lost before it is written, the page never gets it.
- "id: 0" is told before the first event, and 0 is also how the handler reads
  "no cursor" (events.go:146): a page told 0 that loses its connection before
  its first event comes back as a new page, with no replay of what came since.
- A cursor of an earlier run of the server that the new run has passed already
  (events.go:98) is taken for one of its own; the page is not told to refetch.
  This is why `Whole` asks for a cursor above 0 that the current run has told.

About the tutor's turns (`Tutor`):

- `finish` writes its row whatever it says by then: "done" over "stopped", when
  the run had ended before the Stop wrote.
- A turn asked between Clear's list and its DELETE is deleted unstopped, its job
  and its calls unforgotten (`late`).
- Reading a row and publishing it are two steps: across a Clear, a deleted turn
  comes back on the page. A late reply of Clear empties the list, and with it a
  newer turn (`lost`); a late reply of Ask can put back an old copy.
- A crash during Stop or Clear leaves a turn running with a cancelled job
  (`broken`); a panic, a job that cannot be decoded or a failed read of the row
  leave it running with a failed one.
- After a crash the row keeps its old blocks until the new run first saves; a run
  that is cut and then stopped has its answer wiped.
- That the first event comes before the job starts (service.go:151) is usual, not
  certain.
- `library.Remove` stops a book's import, not its turns and questions.

About questions (`Question`, `CrossCheck`, `FindProblem`):

- Notes set while a guide's run has already read the question are not in that
  guide (notes.go:105; the comment at notes.go:94 says a guide being written is
  written again). A correction made while a reading of the figures is queued is
  overwritten by it. A rewrite that splits a question writes back the notes it
  had read.
- A crash, or a request that hangs up, between StopSubject and the transaction
  strands the question (`broken`): Retry refuses it; pointing out its page, a new
  reading or a rewrite repairs it.
- `setFailed` and `setWaiting` write whatever the row says by then; two Retries at
  once make two chains of jobs; a crash between `find`'s transaction and `settle`
  runs the find again and queues its follow-up twice.
- Two requests at once can lose a correction: one that is to have the figures
  read anew, or the question found again, and was begun before the correction
  commits after it. The same comes of a find that a pause and a Retry made two
  of. `question_life` has one act of the student's and cannot show
  it; the proof, which allows any number, did. `crossed` counts such edits too.
- Editing notes without writing anew keeps the rounds saved before.
- `question.changed` published after `question.removed` brings back a ghost.
- The new guide's hint is saved before its walkthrough: stopped in between, the
  hint is the second guide's until the step runs again. A second guide without
  answers is not compared.
- A search's last sweep shows pages the Reader has refused already, and may take
  one. The check of `findInScope` that a page is in its range never fails.

About sets and assignments (`HomeworkSet`, `SetUpdate`, `AssignmentRead`,
`References`):

- `rankWhenFound` uses the context of the run that found the last question: cut
  with it, it is not made again (`cut`). `RankedAtRest` excepts that.
- A move and a rewrite use a position read before their transaction (`crossed`).
- A line that names several problems, one with a part or a note of its own
  ("3.1: 7a, 8"), unites their notes, and `compare` (update.go:104) takes each
  problem's own for different from the line's: a page that has not changed offers
  problem 8 as changed, and accepting it rewrites its guide. Labels leave parts
  out, so "7a, 7b" are two questions with one label, of which one is offered as
  taken away. `NoNews` speaks of lines whose problems carry the same notes.
- A read's job may fail without `settleRead`: when its first SELECT fails
  (assignment.go:164), when `ParseRefs` panics on a line of the model's reply
  (reference.go:340, which `safely` makes a failed job), or when the UPDATE fails.
  The job is failed, the row says "reading" for good and RetryRead refuses it: it
  can only be dismissed (`stranded`). `ReadIsOwed` says that it then has no job,
  and that no read without such a fault comes to this.
- A crash between `settleRead` and `settle` runs the job again with no file, and
  the read ends failed (`rerun`); a dismissal that dies halfway leaves a read with
  no job (`broken`). `ImportAssignment` is several statements: one that is cut and
  tried again makes another set.
- A part alone after a range ("Problems 7-9, (b)") panics: `dotted` is empty at
  reference.go:340. `Split` leaves it out. "1.1: 1-8, (b)" is read as section
  "1.1b"; "Section 1.1 Problem 3, Section 1.2 Problem 5" puts both in 1.1; "Chapter
  3 Problem 7, 4.27" drops 4.27; a split loses the page that was cited for the
  list. `ReadAsWritten` says which texts it is about.

About the rest:

- `Store`: Reset is not atomic. A crash after the ledger is dropped makes the next
  start take the database for a new one: no copy, CREATE TABLE fails, and the
  program never comes up. A Reset that hangs up leaves tables half dropped and
  foreign keys off on its connection. More failed starts of an upgrade than copies
  are kept push out the copy from before it (hence `tries <= KeepBackups`).
- `AgentLoop`: with a nudge left, a last reply that still calls tools is sent back
  without their results (loop.go:205). A hint saved early stays after the run
  fails.
- `Calculator`: floor, ceil, round, min and max of an infinite value ("floor(log(0))")
  dereference nil (parse.go:354, 427, 446), and "0^j" panics in `cmplx.Pow`;
  max and the like call an approximate value exact (`StaysExact` excepts max);
  "j(3-2)" is taken for a call; 2^3° is 2 to 3 degrees. `pickPivot` compares
  float64s: a rational that underflows counts as 0.
- `ProblemStyle`: titles of subsections the contents do not list, and formulas
  numbered as a chapter's problems are, pass for problems, so that where they are
  and the example may be wrong (`LooksLikeProblems`); a section whose set is lost
  may be credited with the next page's. `PageNumbers`: a patch of the title or
  colour writes back the runs it read (`stale`).
- `Contents`: a title mentioned near a lost heading can push later ones past
  theirs.
- `StreamedText`: of nested delimiters the last one is looked for, so some texts
  are streamed wrong until the block replaces them (`Odd`). `Document`: a last
  line that is no object is dropped after an abort.
- `Memory`: two saves that cross make duplicates (`raced`). `Activity`: a stretch
  saved again and again grows past a sitting (activity.go:110 says none does), and
  grouping beats is off by up to 15 seconds a gap. `Usage`: a set is deleted before
  its calls are forgotten, and a crash in between keeps them (`missed`).
- `Update`: prereleases are compared by name (rc.10 before rc.2). The downloaded
  archive and program (`.pset-update-*`, `.pset-new-*`) go by defers and removes
  of the process that made them (update.go:339-381): one that dies leaves them
  beside the program, and no start clears them (`litter`).

## What is proved

`JobQueueProofs` proves, for every set of jobs, lanes, limits, kinds, specs,
stoppers and bounds that meet `QueueConstants`:

- `TypeCorrect` (`TypeOK`);
- `TableMatchesRuns` (`RowsMatchRuns`). The invariant alone is not inductive:
  it needs to know what a pass may hold. `PassInv` says that the rows and picks
  of a pass are jobs with no goroutine, that a pass exists only while the queue
  is up or closing, and that a process that is down or only serving has no
  goroutines. `QueueInv` is `TypeOK`, `RowsMatchRuns` and `PassInv`;
- `LaneLimitHolds` (`LaneLimit`) and `KeyExclusiveHolds` (`KeyExclusive`), from
  `SlotInv`, over the set of jobs that hold a slot (runs and picks): every step
  but a pick shrinks it (`SlotsKept`), and a pick adds one where there is room
  (`SlotsPick`);
- `WipeAloneHolds` (`WipeAlone`), assuming one Reset at a time (`OneResetter`;
  it fails without, see above);
- `InterruptedNeverFailsHolds` (`InterruptedNeverFails`), under the same
  assumption, from `EndInv`: whatever cancelled a context is still on record
  when settle asks.

- `InterruptsMatchWaitersHolds` (`InterruptsMatchWaiters`), an action property.
  That a pass interrupts a run for a row it has just read is not enough: the runs
  interrupted by earlier passes need waiting rows too. `Matched` says, of a pass
  at work in a lane, that there is a set of rows it has gone past, all higher
  than those it has still to look at, as large as the number of interrupted runs
  less the slots still promised (`Behind`). Going past a row spends a promised
  slot or interrupts a run, and the set grows by that row (`BehindGrows`).
  `InHand` says that the rows of a pass are queued, or cancelled since.

`JobQueueContractProofs` proves `QueueKeepsContract`: `JobQueue` implements
`QueueContract` under the mapping of `JobQueueContract`, so what is proved over
the contract (`Tutor`, `Question`, `BookImport`) rests on what the queue
delivers. Each action of the code is a step of the contract or moves nothing;
`StatusIs` tells a job's status from its goroutine, the pass and its row in
turn, which is where `RowsMatchRuns` is needed. The crash, a pass given up and
an exit take back several jobs at once (`Unwound`).

`EventBusProofs` proves, for any tabs, ring size and buffer size that meet
`BusConstants`:

- `BusTypeCorrect` (`TypeOK`), `ChannelFitsHolds` (`ChannelFits`),
  `LiveCursorHolds` (`LiveCursor`) and the action property `NeverSkipsHolds`
  (`NeverSkips`), all from `BusInv`. Beside `TypeOK` and `ChannelFits` it says
  that the ring holds consecutive ids up to `next - 1` (`RingInv`), and of each
  open stream that the ids in its channel are consecutive, begin right after
  the cursor unless a reset or a "now" came first, and end at `next - 1` while
  it is subscribed. `NeverSkips` alone says nothing of the channel, which is
  where a gap would first be.

`BookImportProofs` proves, for any pages, jobs, requests and bound that meet
`ImportConstants`:

- `ImportTypeCorrect` (`TypeOK`), `ReadyMeansReadHolds` (`ReadyMeansRead`),
  `BackedHolds` (`Backed`), `RemovedLeavesNothingHolds`
  (`RemovedLeavesNothing`), and the action properties `PagesKeptHolds`
  (`PagesKept`) and `EditStaysHolds` (`EditStays`), all from `ImportInv`.
  `ReadyMeansRead` speaks of the end of a pipeline only; `PageInv` says what is
  on record at each point of the handlers, as long as there is a row: a digital
  book is read whole before anything hands it over or prepares it, a page that
  `read` has passed is not unread, and what `embed` has still to do is exactly
  what has no vector. `Backed` needs to know, of a book nobody asked to stop,
  that no run is marked stopped, that whoever is about to write "queued" was
  interrupted, and that a handler that came back from a book still on its way
  left a job waiting or is put back itself (`BackInv`). `RunInv` and `FreshInv`
  tie the handler to a working job and say that nothing precedes the upload.
  `EditStays` needs `NameInv`: a book with the student's name is marked
  edited, and a patch that is about to write that name will mark it.

`TutorProofs` proves, for any turns, requests, blocks, lag and bound that meet
`TutorConstants`:

- `TutorTypeCorrect` (`TypeOK`), with `JobsMatch` (the run is of the job that
  works, and knows where it goes on) and `RequestsMatch` (how far each kind of
  request gets);
- `RunningIsOwedHolds` (`RunningIsOwed`), from `Owing`. The property speaks of
  jobs that wait or work, but a job that works may be about to end and leave the
  row as it is. `Carries` says which does not: one whose run is not stopped, and
  that, if it ends with an error or is past its last save, was cut and so waits
  again. This is where what `finish` thinks of the end of the run and what
  `settle` thinks of it must agree;
- `StoppedStaysHolds` (`StoppedStays`), an action property, from `BegunRunning`:
  a run that goes on past its first read found the turn running;
- `GoneLeavesNoCallsHolds` (`GoneLeavesNoCalls`), from `GoneMarked`: no call of a
  turn is both marked and recorded, and a turn that is gone is marked, or in a
  Clear still to mark it;
- `PageSettlesHolds` (`PageSettles`), from two invariants. `Genuine`: every copy
  of a row, wherever it is held or on its way (the run, a request, a reply, an
  event), is older than the row or reads as it does, and the page is never ahead
  of it; it is what makes dropping older copies safe. `Settling`: an ended row
  that may be shown is shown with nothing behind it that takes it away, or is
  on the wire with nothing behind it, or is about to be sent by its run or by a
  request. At rest only the first is left.

`QuestionProofs` proves, for any jobs (one at least), any finite set of requests
at once, and any bounds:

- `QuestionTypeCorrect` (`TypeOK`). Notes are counted, so the type needs
  `NotesInv`: the notes asked for and the requests that will add to them are at
  most the acts so far;
- `NoneStrandedHolds` (`NoneStranded`), from `RunsMatch` and `Carried`: a
  question that awaits its guide, or is about to be said to by a run that was
  cut, has a job that waits, or one that runs, is not stopped, and on its way
  back carries an error that the pause explains. That a job is unfinished is not
  inductive: a job on its way out is unfinished too;
- `GuideIsCurrentHolds` (`GuideIsCurrent`), from `CurrentInv`: while nothing has
  crossed, the row has the notes and the reading asked for last, no job is left
  that would read the figures over the student's own reading, each run that has
  read the question read it so, and each request still asks for what there is.

`ServicesProofs` proves, of `ServicesSpec`, for any rounds, readers, updaters,
releases, versions, starts and mishaps that meet `ServicesConstants`:

- `GuideIsOneReplyHolds` (`GuideIsOneReply`), from `AgentInv`. What is saved is the
  conversation, so `Counted` speaks of that: its rounds have been counted, and it
  is whole until the last round, after which (a last reply sent back with a nudge
  leaves a call without its result) no more is saved. `Heard` says that the parser
  holds the words of the reply that is coming, and none when one is asked for;
- `ReadIsOwedHolds` (`ReadIsOwed`), from `ReadInv`: beside the property, that a
  job is stopped only once nothing is promised of its read any more (`Excused`),
  and that a job that failed on a fault is alone in that and its read still being
  read (`Strands`), so that one that waits again, after a pause or a crash, is the
  one job of its read;
- `UpgradeIsBackedHolds` (`UpgradeIsBacked`), from `StoreInv`. The property says
  that the copy is there; `Copies` says how deep it lies: each start since has
  put at most one copy on top of it, so as many starts as copies are kept leave
  it. `InOrder` says that the ledger is a beginning of the migrations and where
  the program is in it; `Truthful` that it says what is there. The copies kept
  are three, as in the code;
- `OneSoundUpdateHolds` (`OneSoundUpdate`), from `UpdateInv`: `Fetched` says what
  each step of an update under way has seen to (newer, whole, of the version it
  was fetched for), which is what the last step installs. That the files left
  by a crash are of one update rests on the property itself: only an update under
  way has files, and there is one at a time.

`KeepingProofs` proves, of the same `ServicesSpec`, for any number of questions,
edits, blocks, differences, lines, objects, calls, saves and stretches that meet
`KeepingConstants`:

- `SetIsRankedHolds` (`SetIsRanked`: at rest, every question of a set is scored
  against the set as it is), from `SetInv`. The property says something only at
  rest. `Ranked` says what is owed until then: a question is still in a find, or
  a call for a ranking is to be made, or a count says that the set is ready, or a
  ranking is queued, or one is under way over the very set there is, or every
  score is of that set. `Placed` says that no place is beyond as many questions
  as there have been, so that what `InsertAfter` and `Renumber` (which counts the
  questions before each, seen as it has left them so far) make are places again;
- `GuideIsSoundHolds` (`GuideIsSound`). Of the document (`WrittenIsKept`: each
  line a model wrote is in a block, or was rightly passed over), from `DocInv`:
  `Busy` says what each check is about, the last line or what `Finalize` misses
  where it has come to; `Behind` and `Preceding`, that blocks, and the preamble
  that was dropped, lie behind the lines that are not settled; `Covered`, that
  each line is in a block, was passed over, or waits; `Filled`, that what
  `Finalize` put in stays behind where it has come to, which is why it never puts
  the same thing in twice (`PutIn`: an insertion shifts the blocks after it and
  leaves the rest as it was). Of the second look (`DoubtsAreTold`), from
  `DoubtInv`: the notes are exactly `FlagParts` of what is left to differ. That
  each doubt finds an answer to follow needs a greatest element of a set
  (`GreatestOf`), for which there is a well-founded minimum;
- `KeptAsSaidHolds` (`KeptAsSaid`). Of the notes on a student (`RemembersOnce`: no
  two are in the same words unless two saves crossed), from `NotesInv`: `Compared`
  says what a save knows between its comparison and its write, that, as long as
  nothing was written in between, no note is in its words but the one it replaces.
  Of study time (`EndsStand`: a stretch lies before now, give or take a clock, and
  never ends before an end it was sent), from `StudyInv`: a stretch nobody has
  begun has no end. Of calls (`NoneOutlives`: what is gone has no calls kept, but
  for what was missed), from `SpentInv`: no row is of a subject that is marked
  forgotten. That holds at every moment, so a call that ends after its book was
  forgotten leaves no row, and what is removed row by row can come to its end
  with nothing left.

Model-checked only:

- liveness (`EveryJobEnds`, `CatchesUp`, `EveryImportEnds`, `EveryTurnEnds`,
  `RestsAtLast`), which is out of the prover's reach under fairness;
- the rest of `parts`: `TypeOK`, `WorkedOutRight`. `Parts` reaches
  RECURSIVE operators (those of `Calculator`, `LinearSystem`, `Values`), which a
  module with theorems must not. What these properties say is mostly what a
  recursion or a fold makes of data (an expression, a list of headings, a sum of
  calls or of stretches, what a text streams as). That needs induction over the
  data, which the prover cannot do: it can take the least counterexample of a
  set (as `GreatestOf` does), but not show that a fold is a function that unfolds;
- the findings, which are counterexamples.

## Plan

1. `JobQueue` and its contract (done).
2. The event bus and the browser's side of it (done).
3. Import of a book: its two jobs, Stop, Retry, Remove (done).
4. A tutor's turn and its page; a question and the student's edits (done).
5. The agent's loop, sets, assignments, migrations, memory, activity, usage,
   updates, documents, and the algorithms on page numbers, contents, references,
   searches, problem numbers and the calculator (done, as `Parts`).
6. Proofs: the invariants of `Tutor` and `Question`, of `Store`,
   `AssignmentRead` and `Update`, the refinement of `QueueContract`, and
   `InterruptsMatchWaiters` (done).
7. `HomeworkSet`, `Document`, `CrossCheck`, `Memory`, `Activity` and `Usage` moved
   to `Services`, and their properties proved (done).
8. Of the other parts, `SetUpdate` has control that could be proved about, once
   its comparison is said as a set of lines; so have the sums of `Usage` and
   `Activity` and the prompt of `Memory`, once a fold can be unfolded.

## Not modelled

Rendering, search and covers of a book (files, and pure functions of a query);
external tools (`pdf`, `ocr`); the wire format of the model's hosts and of HTTP;
settings and profiles; estimates and drawn worksheets; the error log; what the
tools of the agent say; prompts, JSON, TeX and wording; the visual part of the
web client; evaluation tools. `PROJECT.json` lists every part with its status.
