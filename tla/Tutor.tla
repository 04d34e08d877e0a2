-------------------------------- MODULE Tutor --------------------------------
(***************************************************************************)
(* The conversation about one book: Ask, Stop and Clear and the job "turn" *)
(* of internal/ask, what its calls leave in internal/usage, and the copy   *)
(* of the conversation that web/src/api/ask.ts keeps.  A turn has one job, *)
(* whose id stands for the turn's; the queue is QueueContract.  An answer  *)
(* is how many of its blocks are there, a stamp of updated_at how often    *)
(* the row has been written.  The stream of events is taken to be whole    *)
(* (see EventBus); an HTTP reply may overtake it.  Statements that fail of *)
(* themselves are left out.  Bounds: Turns, Lag, MaxTrouble.               *)
(***************************************************************************)
EXTENDS Integers, Sequences, FiniteSets

CONSTANTS
  Turns,      \* ids of turns
  Blocks,     \* the blocks of a whole answer
  Requests,   \* requests under way at a time
  Lag,        \* bound: the events the page may be behind by
  MaxTrouble  \* bound: rounds of tools, Stops, Clears, failures, interruptions, crashes

ASSUME TutorConstants ==
  /\ Turns \subseteq Nat \ {0} /\ IsFiniteSet(Turns)
  /\ Blocks \in Nat \ {0} 
  /\ Lag \in Nat \ {0} /\ MaxTrouble \in Nat

VARIABLES
  turn,    \* the rows
  status,  \* see QueueContract
  place,
  verdict, \* what settle is about to write of a job that is leaving
  run,     \* the turn being handled, and how far it is; from is the row as it began
  req,     \* the requests under way
  calls,   \* the turns with rows in calls
  marks,   \* the turns in forgotten
  wire,    \* events on their way to the page
  replies, \* replies on their way to the page
  page,    \* the page's copies
  late,    \* turns a Clear deleted without having listed them
  lost,    \* turns the page has lost to the late reply of a Clear
  broken,  \* turns whose Stop or Clear a crash cut short
  trouble

vars == <<turn, status, place, verdict, run, req, calls, marks, wire, replies, page,
          late, lost, broken, trouble>>
queue == <<status, place, verdict>>
usage == <<calls, marks>>
browser == <<wire, replies, page>>
history == <<late, lost, broken>>

Queue == INSTANCE QueueContract
           WITH Jobs <- Turns, Lanes <- {"turn"}, Limit <- [turn |-> 8],
                Keys <- {"book"}, NoKey <- "none"

Absent == [state |-> "absent", answer |-> 0, at |-> 0]
Gone == [Absent EXCEPT !.state = "gone"]
Idle == [turn |-> 0, at |-> "idle", wrote |-> 0, copy |-> Absent,
         then |-> "idle", end |-> "none", stopped |-> FALSE, cut |-> FALSE, from |-> "absent"]
NoRequest == [op |-> "none", at |-> "none", turn |-> 0, stop |-> {}, todo |-> {},
              copy |-> Absent]

Exists(t) == turn[t].state \notin {"absent", "gone"}

\* UPDATE turns SET state, answer, updated_at: no row, no effect.
Write(t, s, n) ==
  turn' = IF Exists(t) THEN [turn EXCEPT ![t] = [state |-> s, answer |-> n, at |-> @.at + 1]]
                       ELSE turn

Troubled == trouble < MaxTrouble /\ trouble' = trouble + 1

Changed(t, c) == [type |-> "changed", turn |-> t, copy |-> c]
Block(t) == [type |-> "block", turn |-> t, copy |-> Absent]
Cleared == [type |-> "cleared", turn |-> 0, copy |-> Absent]
Listed == [type |-> "list", rows |-> turn]

Publish(e) == Len(wire) < Lag /\ wire' = Append(wire, e) /\ UNCHANGED page

-----------------------------------------------------------------------------
(* The handler.                                                            *)

At(p) == run.at = p
Alive == ~run.stopped /\ ~run.cut
GoTo(p) == run' = [run EXCEPT !.at = p]
GoToEnd(e) == run' = [run EXCEPT !.at = "finish", !.end = e]
Elsewhere == UNCHANGED <<req, marks, replies, history>>

Begin(t) ==
  /\ Queue!Begin(t) /\ At("idle")
  /\ run' = [Idle EXCEPT !.turn = t, !.at = "begun", !.from = turn[t].state]
  /\ UNCHANGED <<turn, verdict, calls, wire, page, trouble>> /\ Elsewhere

GetTurn_Unasked ==
  /\ At("begun")
  /\ run' = [run EXCEPT !.at = IF Alive THEN "calling" ELSE "back",
                        !.end = IF Alive THEN "none" ELSE "erred"]
  /\ UNCHANGED <<turn, queue, calls, wire, page, trouble>> /\ Elsewhere

\* runTurn's getTurn: a turn that was cleared or stopped before it started
\* is left alone.
GetTurn ==
  /\ At("begun")
  /\ run' = [run EXCEPT
       !.at = IF Alive /\ turn[run.turn].state = "running" THEN "calling" ELSE "back",
       !.end = IF Alive THEN "none" ELSE "erred"]
  /\ UNCHANGED <<turn, queue, calls, wire, page, trouble>> /\ Elsewhere

\* A block of the answer is whole: the page is told...
TellBlock ==
  /\ At("calling") /\ run.wrote < Blocks
  /\ run' = [run EXCEPT !.at = "saving", !.wrote = @ + 1]
  /\ Publish(Block(run.turn))
  /\ UNCHANGED <<turn, queue, calls, trouble>> /\ Elsewhere

\* ...and the answer so far saved, under the run's own context.
Save ==
  /\ At("saving")
  /\ IF Alive THEN Write(run.turn, turn[run.turn].state, run.wrote) ELSE UNCHANGED turn
  /\ GoTo("calling")
  /\ UNCHANGED <<queue, calls, wire, page, trouble>> /\ Elsewhere

Sink_Unmarked(t) == calls' = calls \cup {t}

\* Nothing is recorded for a turn that was forgotten while the call ran.
Sink(t) == calls' = IF t \in marks THEN calls ELSE calls \cup {t}

\* Who ended the run, as runTurn asks it.
Cause == IF run.stopped THEN "stopped" ELSE IF run.cut THEN "again" ELSE "failed"

\* A call to the model is over: with the answer, with tools to call, or with an
\* error, which a context that has ended is sure to be.
CallEnds ==
  /\ At("calling")
  /\ Sink(run.turn)
  /\ \/ run.wrote = Blocks /\ GoToEnd("done") /\ UNCHANGED trouble
     \/ Alive /\ Troubled /\ GoTo("step")
     \/ ~Alive /\ GoToEnd(Cause) /\ UNCHANGED trouble
     \/ Alive /\ Troubled /\ GoToEnd("failed")
  /\ UNCHANGED <<turn, queue, wire, page>> /\ Elsewhere

\* A tool call goes on the feed, and the turn is announced, both under the run's
\* context.
Step ==
  /\ At("step")
  /\ IF Alive THEN Write(run.turn, turn[run.turn].state, run.wrote) ELSE UNCHANGED turn
  /\ run' = [run EXCEPT !.at = "read", !.then = "calling"]
  /\ UNCHANGED <<queue, calls, wire, page, trouble>> /\ Elsewhere

\* finish writes the row whatever it says by now.  A run that will start again
\* from the question takes back what it had written.
Finish ==
  /\ At("finish")
  /\ IF run.end = "again" THEN Write(run.turn, turn[run.turn].state, 0)
                          ELSE Write(run.turn, run.end, run.wrote)
  /\ run' = [run EXCEPT !.at = "read", !.then = "back"]
  /\ UNCHANGED <<queue, calls, wire, page, trouble>> /\ Elsewhere

\* announce reads the row; a row that is gone is not published, nor is one
\* read under a context that has ended.
Announce ==
  /\ At("read")
  /\ run' = IF Exists(run.turn) /\ (Alive \/ run.then = "back")
              THEN [run EXCEPT !.at = "tell", !.copy = turn[run.turn]]
              ELSE [run EXCEPT !.at = run.then]
  /\ UNCHANGED <<turn, queue, calls, wire, page, trouble>> /\ Elsewhere

Tell ==
  /\ At("tell")
  /\ Publish(Changed(run.turn, run.copy))
  /\ run' = [run EXCEPT !.at = run.then, !.copy = Absent]
  /\ UNCHANGED <<turn, queue, calls, trouble>> /\ Elsewhere

Verdict_OfTurn == run.end

Verdict_NoRetry == IF run.stopped THEN "cancelled"
                   ELSE IF run.end \in {"none", "done"} THEN "done" ELSE "failed"

\* settle, under q.mu...
Verdict == IF run.stopped THEN "cancelled"
           ELSE IF run.end \in {"erred", "again", "failed", "stopped"}
                  THEN (IF run.cut THEN "waiting" ELSE "failed")
                  ELSE "done"

Return ==
  /\ At("back")
  /\ Queue!Return(run.turn)
  /\ verdict' = [verdict EXCEPT ![run.turn] = Verdict]
  /\ run' = Idle
  /\ UNCHANGED <<turn, calls, wire, page, trouble>> /\ Elsewhere

\* ...and its UPDATE.
End(t) ==
  /\ Queue!End(t) /\ status'[t] = verdict[t]
  /\ verdict' = [verdict EXCEPT ![t] = "done"]
  /\ UNCHANGED <<turn, run, calls, wire, page, trouble>> /\ Elsewhere

-----------------------------------------------------------------------------
(* Requests.                                                               *)

NewTurn(t) == turn[t] = Absent /\ \A u \in Turns : u < t => turn[u] # Absent

\* The page sends nothing while it shows a turn running or waits for an Ask.
MaySend == /\ \A t \in Turns : page[t].state # "running"
           /\ \A r \in Requests : req[r].op # "ask"
           /\ \A m \in replies : m.type # "asked"

Ask(r) ==
  /\ req[r] = NoRequest /\ MaySend
  /\ \E t \in Turns :
       /\ NewTurn(t)
       /\ Queue!Submit(t) /\ place'[t] = [lane |-> "turn", key |-> "book"]
       /\ turn' = [turn EXCEPT ![t] = [state |-> "running", answer |-> 0, at |-> 1]]
       /\ req' = [req EXCEPT ![r] = [NoRequest EXCEPT !.op = "ask", !.at = "read", !.turn = t]]
  /\ UNCHANGED <<verdict, run, usage, browser, history, trouble>>

\* Stop reads the row, and answers with it when the turn has ended.
Stop(r, t) ==
  /\ req[r] = NoRequest /\ Exists(t)
  /\ Troubled
  /\ req' = [req EXCEPT ![r] = [NoRequest EXCEPT !.op = "stop", !.turn = t, !.copy = turn[t],
               !.at = IF turn[t].state = "running" THEN "stop" ELSE "reply"]]
  /\ UNCHANGED <<turn, queue, run, usage, browser, history>>

\* Clear lists the turns; those running are to be stopped.
Clear(r) ==
  /\ req[r] = NoRequest /\ \E t \in Turns : Exists(t)
  /\ Troubled
  /\ req' = [req EXCEPT ![r] = [NoRequest EXCEPT !.op = "clear", !.at = "stop",
               !.todo = {t \in Turns : Exists(t)},
               !.stop = {t \in Turns : turn[t].state = "running"}]]
  /\ UNCHANGED <<turn, queue, run, usage, browser, history>>

\* StopSubject: a turn has one job.  Its run is marked, or it is cancelled while
\* it waits.
StopJob(t) ==
  /\ run' = [run EXCEPT !.stopped = @ \/ run.turn = t]
  /\ IF status[t] = "waiting"
       THEN status' = [status EXCEPT ![t] = "cancelled"] /\ Queue!Unwind
       ELSE UNCHANGED <<status, place>>
  /\ UNCHANGED verdict

Onward(r, p) == req' = [req EXCEPT ![r].at = p]

StopTurn(r) ==
  /\ req[r].op = "stop" /\ req[r].at = "stop"
  /\ StopJob(req[r].turn)
  /\ Onward(r, "update")
  /\ UNCHANGED <<turn, usage, browser, history, trouble>>

StopUpdate_None(r) ==
  /\ req[r].op = "stop" /\ req[r].at = "update"
  /\ Onward(r, "read")
  /\ UNCHANGED <<turn, queue, run, usage, browser, history, trouble>>

\* "A turn still waiting its turn never started; one running settles itself."
StopUpdate(r) ==
  /\ req[r].op = "stop" /\ req[r].at = "update"
  /\ LET t == req[r].turn
     IN IF turn[t].state = "running" THEN Write(t, "stopped", turn[t].answer)
                                     ELSE UNCHANGED turn
  /\ Onward(r, "read")
  /\ UNCHANGED <<queue, run, usage, browser, history, trouble>>

\* publish reads the row...
ReadBack(r) ==
  /\ req[r].at = "read"
  /\ req' = IF Exists(req[r].turn)
              THEN [req EXCEPT ![r].at = "publish", ![r].copy = turn[req[r].turn]]
              ELSE [req EXCEPT ![r] = NoRequest]
  /\ UNCHANGED <<turn, queue, run, usage, browser, history, trouble>>

\* ...and publishes what it read.
PublishTurn(r) ==
  /\ req[r].at = "publish"
  /\ Publish(Changed(req[r].turn, req[r].copy))
  /\ Onward(r, "reply")
  /\ UNCHANGED <<turn, queue, run, usage, replies, history, trouble>>

Reply(r) ==
  /\ req[r].at = "reply"
  /\ replies' = replies \cup
       {[type |-> IF req[r].op = "ask" THEN "asked" ELSE "stopped",
         turn |-> req[r].turn, copy |-> req[r].copy]}
  /\ req' = [req EXCEPT ![r] = NoRequest]
  /\ UNCHANGED <<turn, queue, run, usage, wire, page, history, trouble>>

\* Clear stops them one by one...
ClearStop(r, t) ==
  /\ t \in req[r].stop
  /\ StopJob(t)
  /\ req' = [req EXCEPT ![r].stop = @ \ {t}]
  /\ UNCHANGED <<turn, usage, browser, history, trouble>>

\* ...deletes what is there by then...
ClearDelete(r) ==
  /\ req[r].op = "clear" /\ req[r].at = "stop" /\ req[r].stop = {}
  /\ turn' = [t \in Turns |-> IF Exists(t) THEN Gone ELSE turn[t]]
  /\ late' = late \cup {t \in Turns : Exists(t) /\ t \notin req[r].todo}
  /\ Onward(r, "forget")
  /\ UNCHANGED <<queue, run, usage, browser, lost, broken, trouble>>

\* ...forgets the calls of those it listed, marking each first...
Forget(r, t) ==
  /\ req[r].op = "clear" /\ req[r].at = "forget" /\ t \in req[r].todo
  /\ marks' = marks \cup {t} /\ calls' = calls \ {t}
  /\ req' = [req EXCEPT ![r].todo = @ \ {t}]
  /\ UNCHANGED <<turn, queue, run, browser, history, trouble>>

\* ...and says so.
ClearTell(r) ==
  /\ req[r].op = "clear" /\ req[r].at = "forget" /\ req[r].todo = {}
  /\ Publish(Cleared)
  /\ replies' = replies \cup {Cleared}
  /\ req' = [req EXCEPT ![r] = NoRequest]
  /\ UNCHANGED <<turn, queue, run, usage, history, trouble>>

\* GET turns: the page fetches the conversation again.
Refetch(r) ==
  /\ req[r] = NoRequest /\ replies = {}
  /\ Troubled
  /\ replies' = replies \cup {Listed}
  /\ UNCHANGED <<turn, queue, run, req, usage, wire, page, history>>

-----------------------------------------------------------------------------
(* The page.                                                               *)

ApplyTurn_Any(t, c) == page' = [page EXCEPT ![t] = c]

\* A copy older than the one held is dropped.
ApplyTurn(t, c) == page' = [page EXCEPT ![t] = IF c.at < @.at THEN @ ELSE c]

Empty == page' = [t \in Turns |-> Absent]

HearEvent ==
  /\ wire # <<>> /\ wire' = Tail(wire)
  /\ LET e == Head(wire)
     IN \/ e.type = "changed" /\ ApplyTurn(e.turn, e.copy)
        \/ e.type = "cleared" /\ Empty
        \/ /\ e.type = "block"
           /\ page' = IF page[e.turn] = Absent THEN page
                      ELSE [page EXCEPT ![e.turn].answer = @ + 1]
  /\ UNCHANGED <<turn, queue, run, req, usage, replies, history, trouble>>

\* A list that was fetched takes the place of the page's own.
HearReply ==
  /\ \E m \in replies :
       /\ replies' = replies \ {m}
       /\ \/ m.type \in {"asked", "stopped"} /\ ApplyTurn(m.turn, m.copy)
          \/ m.type = "cleared" /\ Empty
          \/ /\ m.type = "list"
             /\ page' = [t \in Turns |-> IF m.rows[t].state = "gone" THEN Absent ELSE m.rows[t]]
       /\ lost' = IF m.type = "cleared" THEN lost \cup {t \in Turns : Exists(t)} ELSE lost
  /\ UNCHANGED <<turn, queue, run, req, usage, wire, late, broken, trouble>>

-----------------------------------------------------------------------------
(* What befalls them.                                                      *)

\* The run is paused or shut down.
Cut ==
  /\ ~At("idle") /\ ~run.cut
  /\ Troubled
  /\ run' = [run EXCEPT !.cut = TRUE]
  /\ UNCHANGED <<turn, queue, req, usage, browser, history>>

\* The process dies and starts again: what ran waits, and the page, told that
\* the server's events start anew, has fetched everything.
Crash ==
  /\ Troubled
  /\ status' = [t \in Turns |-> IF status[t] \in {"working", "leaving"} THEN "waiting"
                                ELSE status[t]]
  /\ Queue!Unwind
  /\ run' = Idle /\ req' = [r \in Requests |-> NoRequest]
  /\ wire' = <<>> /\ replies' = {}
  /\ page' = [t \in Turns |-> IF Exists(t) THEN turn[t] ELSE Absent]
  /\ broken' = broken \cup {t \in Turns : \E r \in Requests :
                         req[r].op \in {"stop", "clear"} /\ t \in req[r].todo \cup {req[r].turn}}
  /\ UNCHANGED <<turn, verdict, usage, late, lost>>

Init ==
  /\ turn = [t \in Turns |-> Absent]
  /\ status = [t \in Turns |-> "none"] /\ verdict = [t \in Turns |-> "done"]
  /\ place = [t \in Turns |-> [lane |-> "turn", key |-> "book"]]
  /\ run = Idle /\ req = [r \in Requests |-> NoRequest]
  /\ calls = {} /\ marks = {}
  /\ wire = <<>> /\ replies = {} /\ page = [t \in Turns |-> Absent]
  /\ late = {} /\ lost = {} /\ broken = {} /\ trouble = 0

Handler == \/ GetTurn \/ TellBlock \/ Save \/ CallEnds \/ Step \/ Finish
           \/ Announce \/ Tell \/ Return

Request(r) == \/ StopTurn(r) \/ StopUpdate(r) \/ ReadBack(r) \/ PublishTurn(r) \/ Reply(r)
              \/ ClearDelete(r) \/ ClearTell(r)
              \/ \E t \in Turns : ClearStop(r, t) \/ Forget(r, t)

Next ==
  \/ Handler \/ Cut \/ Crash
  \/ HearEvent \/ HearReply
  \/ \E t \in Turns : Begin(t) \/ End(t)
  \/ \E r \in Requests : \/ Ask(r) \/ Clear(r) \/ Request(r)
                         \/ \E t \in Turns : Stop(r, t)

Spec == Init /\ [][Next]_vars

\* The same, with a page that may fetch the conversation again (see NeverRollsBack).
RefetchSpec == Init /\ [][Next \/ \E r \in Requests : Refetch(r)]_vars

(* A handler's calls end, the queue starts what waits when its slot is     *)
(* free, a request runs on, and the page hears what it is sent.            *)
Fairness == /\ WF_vars(Handler)
            /\ WF_vars(\E t \in Turns : Begin(t)) /\ WF_vars(\E t \in Turns : End(t))
            /\ WF_vars(HearEvent)
            /\ \A r \in Requests : WF_vars(Request(r))

FairSpec == Spec /\ Fairness
-----------------------------------------------------------------------------
(* Properties.                                                             *)

Ended == {"done", "stopped", "failed"}
Copies == [state: {"absent", "gone", "running"} \cup Ended, answer: Nat, at: Nat]
Events == [type: {"changed", "block", "cleared"}, turn: Turns \cup {0}, copy: Copies]
Replies == [type: {"asked", "stopped", "cleared"}, turn: Turns \cup {0}, copy: Copies]
           \cup [type: {"list"}, rows: [Turns -> Copies]]
Runs == [turn: Turns \cup {0},
         at: {"idle", "begun", "calling", "saving", "step", "finish", "read", "tell", "back"},
         wrote: 0..Blocks, copy: Copies, then: {"idle", "calling", "back"},
         end: {"none", "erred", "again"} \cup Ended, stopped: BOOLEAN, cut: BOOLEAN,
         from: {"absent", "gone", "running"} \cup Ended]
Reqs == [op: {"none", "ask", "stop", "clear"},
         at: {"none", "read", "publish", "reply", "stop", "update", "forget"},
         turn: Turns \cup {0}, stop: SUBSET Turns, todo: SUBSET Turns, copy: Copies]

\* Every variable has its type.
TypeOK ==
  /\ turn \in [Turns -> Copies] /\ page \in [Turns -> Copies]
  /\ verdict \in [Turns -> {"waiting", "done", "failed", "cancelled"}]
  /\ run \in Runs /\ req \in [Requests -> Reqs]
  /\ wire \in Seq(Events) /\ replies \subseteq Replies
  /\ calls \subseteq Turns /\ marks \subseteq Turns
  /\ late \subseteq Turns /\ lost \subseteq Turns /\ broken \subseteq Turns

\* A job that will still be handled.
Owed(t) == \/ status[t] \in {"waiting", "working"}
           \/ status[t] = "leaving" /\ verdict[t] = "waiting"

\* A turn that says it is running has a job that will end it, unless a Stop or a
\* Clear of it is under way or was cut short: runTurn and settle, each with its
\* own idea of who ended the run, leave no turn behind.
RunningIsOwed ==
  \A t \in Turns :
    turn[t].state = "running" /\ t \notin broken
      /\ (\A r \in Requests : req[r].turn # t /\ t \notin req[r].todo) => Owed(t)

\* Only a run that was at it already when it was stopped may still write a turn
\* that is stopped: a job that an interruption or a lost Stop has left behind
\* never starts it.
StoppedStays ==
  [][\A t \in Turns :
       turn[t].state = "stopped" /\ turn'[t] \notin {turn[t], Gone}
         => run.turn = t /\ run.from = "running"]_vars

\* When nothing is on its way any more, an ended turn the page shows reads as its
\* row does: blocks, saves, announcements, and replies that overtake them or come
\* late, add up.  (But the page may lose a turn to the late reply of a Clear.)
Quiet(t) == /\ wire = <<>> /\ replies = {} /\ run.turn # t
            /\ \A r \in Requests : req[r].turn # t
PageSettles ==
  \A t \in Turns \ lost : turn[t].state \in Ended /\ Quiet(t) => page[t] = turn[t]

\* "The rows go when their subject does": a turn that a Clear listed and deleted
\* leaves no calls, though its run goes on calling for a while.
GoneLeavesNoCalls ==
  \A t \in Turns \ (late \cup broken) :
    turn[t].state = "gone" /\ (\A r \in Requests : t \notin req[r].todo) => t \notin calls

\* Every turn comes to an end, by its run or by the student, whatever interrupts it.
EveryTurnEnds ==
  \A t \in Turns : turn[t].state = "running" ~> turn[t].state # "running" \/ t \in broken

\* "A reply can land after a newer event, and must not roll the turn back": the page
\* never goes back to an older copy of a turn.
NeverRollsBack ==
  [][\A t \in Turns : page'[t] # Absent => page'[t].at >= page[t].at]_vars
=============================================================================
