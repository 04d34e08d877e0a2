----------------------------- MODULE HomeworkSet -----------------------------
(***************************************************************************)
(* The questions of one homework set, as a set: their places, and how hard *)
(* each is against the others.  Questions are added, moved and removed by  *)
(* requests, and inserted by a find that reads a reference as several; the *)
(* set is ranked again by a job of its own.  Questions are numbered in the *)
(* order their rows were inserted, which is the order SQLite visits them   *)
(* in.  What a question says and its steps after the find are left out     *)
(* (see Question), and so are the set's own fields.  Bounds: MaxQuestions, *)
(* FirstQuestions, MaxEdits.                                               *)
(***************************************************************************)
EXTENDS Integers, FiniteSets

CONSTANTS
  MaxQuestions,   \* bound: questions ever in the set
  FirstQuestions, \* those the set is made with, in one write
  MaxEdits        \* bound: what the student and a find do to the set

VARIABLES
  position, \* of each question, 0 when it is not there
  born,     \* how many questions there have been
  finding,  \* in the book and not found yet: pending or locating
  readAt,   \* the position a find's run, holding the question, read; 0 when none runs
  moving,   \* a request to move a question, with the position it read
  calls,    \* calls of rankWhenFound still to look
  counted,  \* one that has: it found the set ready to rank, or not, or none is under way
  rank,     \* the set's ranking jobs: queued ones, and the run with the questions it listed
  against,  \* the questions each one's difficulty was scored against
  crossed,  \* a position was used that had been read before an edit moved the question
  cut,      \* a call of rankWhenFound ended with its context
  edits

vars == <<position, born, finding, readAt, moving, calls, counted, rank, against,
          crossed, cut, edits>>
order == <<position, born, crossed>>
ranking == <<calls, counted, rank, against, cut>>

Questions == 1..MaxQuestions
Present == {q \in Questions : position[q] > 0}
NoMove == [q |-> 0, from |-> 0]

Edit == edits < MaxEdits /\ edits' = edits + 1
Call(n) == calls' = calls + n /\ UNCHANGED <<counted, rank, against, cut>>

\* Those made by one write share their created_at.
Created(q) == IF q <= FirstQuestions THEN 0 ELSE q

\* renumber is one UPDATE, which gives each row in turn the number of rows before it plus
\* one: of the rows it has met already it sees the new places.
Renumber(old, new) ==
  \A q \in Questions :
    LET Seen(o) == IF o < q THEN new[o] ELSE old[o]
        before == {o \in Questions \ {q} : Seen(o) > 0 /\
                     (Seen(o) < old[q] \/ (Seen(o) = old[q] /\ Created(o) < Created(q)))}
    IN new[q] = IF old[q] = 0 THEN 0 ELSE Cardinality(before) + 1

\* insertQuestions, for one question, after a position.
InsertAfter(pos, after) ==
  [q \in Questions |-> IF q = born + 1 THEN after + 1
                       ELSE IF pos[q] > after THEN pos[q] + 1 ELSE pos[q]]

\* move, from the position its request read.
Moved(pos, m, to) ==
  [q \in Questions |->
     IF q = m.q /\ pos[q] > 0 THEN to
     ELSE IF to <= pos[q] /\ pos[q] < m.from THEN pos[q] + 1
     ELSE IF m.from < pos[q] /\ pos[q] <= to THEN pos[q] - 1 ELSE pos[q]]

-----------------------------------------------------------------------------
(* Edits.                                                                  *)

Add ==
  /\ Edit /\ born < MaxQuestions
  /\ \E last \in {position[q] : q \in Questions} :
       (\A q \in Questions : position[q] <= last) /\ position' = InsertAfter(position, last)
  /\ born' = born + 1
  /\ \E inBook \in BOOLEAN :
       finding' = IF inBook THEN finding \cup {born + 1} ELSE finding
  /\ Call(1)
  /\ UNCHANGED <<readAt, moving, crossed>>

\* UpdateQuestion reads the question before its transaction.
MoveReads(q) ==
  /\ Edit /\ moving = NoMove /\ q \in Present
  /\ moving' = [q |-> q, from |-> position[q]]
  /\ UNCHANGED <<order, finding, readAt, ranking>>

Move(to) ==
  /\ moving # NoMove /\ to \in 1..Cardinality(Present)
  /\ position' = IF to = moving.from THEN position ELSE Moved(position, moving, to)
  /\ crossed' = (crossed \/ moving.from # position[moving.q])
  /\ moving' = NoMove
  /\ UNCHANGED <<born, finding, readAt, ranking, edits>>

\* Beyond the end of the set, as it is by now.
MoveRefused ==
  /\ moving # NoMove /\ moving' = NoMove
  /\ UNCHANGED <<order, finding, readAt, ranking, edits>>

\* RemoveQuestion stops the question's jobs, takes it out and closes the gap.
RemoveQuestion(q) ==
  /\ Edit /\ q \in Present
  /\ position' \in [Questions -> 0..MaxQuestions]
  /\ Renumber([position EXCEPT ![q] = 0], position')
  /\ finding' = finding \ {q} /\ readAt' = [readAt EXCEPT ![q] = 0]
  /\ Call(1)
  /\ UNCHANGED <<born, moving, crossed>>

\* A retry, a box or an edit of what it is has a question found again.
FindAgain(q) ==
  /\ Edit /\ q \in Present \ finding
  /\ finding' = finding \cup {q}
  /\ UNCHANGED <<order, readAt, moving, ranking>>

-----------------------------------------------------------------------------
(* Finds.                                                                  *)

FindStarts(q) ==
  /\ q \in finding /\ readAt[q] = 0
  /\ readAt' = [readAt EXCEPT ![q] = position[q]]
  /\ UNCHANGED <<order, finding, moving, ranking, edits>>

\* rewriteReference: the reference names another problem as well, which goes in after
\* the question's position, read before the model was asked.
Rewrite(q) ==
  /\ Edit /\ readAt[q] > 0 /\ born < MaxQuestions
  /\ position' = InsertAfter(position, readAt[q])
  /\ born' = born + 1 /\ finding' = finding \cup {born + 1}
  /\ crossed' = (crossed \/ readAt[q] # position[q])
  /\ readAt' = [readAt EXCEPT ![q] = position'[q]]
  /\ UNCHANGED <<moving, ranking>>

\* Found, or failed: the last one has the set ranked.
FindEnds(q) ==
  /\ readAt[q] > 0
  /\ finding' = finding \ {q} /\ readAt' = [readAt EXCEPT ![q] = 0]
  /\ Call(1)
  /\ UNCHANGED <<order, moving, edits>>

\* Paused or interrupted: found later.
FindCut(q) ==
  /\ readAt[q] > 0
  /\ readAt' = [readAt EXCEPT ![q] = 0]
  /\ UNCHANGED <<order, finding, moving, ranking, edits>>

-----------------------------------------------------------------------------
(* The ranking.                                                            *)

\* rankWhenFound, one at a time: the set is counted,
Count ==
  /\ calls > 0 /\ counted = "none"
  /\ counted' = IF Present # {} /\ finding \cap Present = {} THEN "ready" ELSE "not"
  /\ calls' = calls - 1
  /\ UNCHANGED <<order, finding, readAt, moving, rank, against, cut, edits>>

QueueRank_UnlessRunning ==
  /\ counted # "none"
  /\ rank' = IF counted = "ready" /\ rank.queued = 0 /\ rank.list = {}
               THEN [rank EXCEPT !.queued = 1] ELSE rank
  /\ counted' = "none"
  /\ UNCHANGED <<order, finding, readAt, moving, calls, against, cut, edits>>

\* and a job queued, unless one waits already.
QueueRank ==
  /\ counted # "none"
  /\ rank' = IF counted = "ready" /\ rank.queued = 0 THEN [rank EXCEPT !.queued = 1]
             ELSE rank
  /\ counted' = "none"
  /\ UNCHANGED <<order, finding, readAt, moving, calls, against, cut, edits>>

\* The context of the call ends: the request hung up, the find was paused, a crash.
CallCut ==
  /\ ~cut /\ (calls > 0 \/ counted # "none")
  /\ IF counted # "none" THEN counted' = "none" /\ UNCHANGED calls
     ELSE calls' = calls - 1 /\ UNCHANGED counted
  /\ cut' = TRUE
  /\ UNCHANGED <<order, finding, readAt, moving, rank, against, edits>>

\* runRank lists the set; with its key, one runs at a time.
RankStarts ==
  /\ rank.queued > 0 /\ rank.list = {}
  /\ rank' = [queued |-> rank.queued - 1, list |-> Present]
  /\ UNCHANGED <<order, finding, readAt, moving, calls, counted, against, cut, edits>>

\* Scored by the model or by the heuristic, every one listed, and saved.
RankEnds ==
  /\ rank.list # {}
  /\ against' = [q \in Questions |-> IF q \in rank.list THEN rank.list ELSE against[q]]
  /\ rank' = [rank EXCEPT !.list = {}]
  /\ UNCHANGED <<order, finding, readAt, moving, calls, counted, cut, edits>>

\* Paused or interrupted: the job waits again.
RankCut ==
  /\ rank.list # {} /\ edits < MaxEdits
  /\ rank' = [queued |-> rank.queued + 1, list |-> {}]
  /\ UNCHANGED <<order, finding, readAt, moving, calls, counted, against, cut, edits>>

-----------------------------------------------------------------------------

Init ==
  /\ position = [q \in Questions |-> IF q <= FirstQuestions THEN q ELSE 0]
  /\ born = FirstQuestions /\ finding \in SUBSET (1..FirstQuestions)
  /\ readAt = [q \in Questions |-> 0] /\ moving = NoMove
  /\ calls = 1 /\ counted = "none"
  /\ rank = [queued |-> 0, list |-> {}] /\ against = [q \in Questions |-> {}]
  /\ crossed = FALSE /\ cut = FALSE /\ edits = 0

Next ==
  \/ Add \/ MoveRefused \/ \E to \in Questions : Move(to)
  \/ \E q \in Questions : \/ MoveReads(q) \/ RemoveQuestion(q) \/ FindAgain(q)
                          \/ FindStarts(q) \/ Rewrite(q) \/ FindEnds(q) \/ FindCut(q)
  \/ Count \/ QueueRank \/ CallCut \/ RankStarts \/ RankEnds \/ RankCut

Spec == Init /\ [][Next]_vars

-----------------------------------------------------------------------------

TypeOK ==
  /\ position \in [Questions -> 0..MaxQuestions] /\ born \in FirstQuestions..MaxQuestions
  /\ finding \subseteq Present /\ readAt \in [Questions -> 0..MaxQuestions]
  /\ moving.q \in 0..MaxQuestions /\ moving.from \in 0..MaxQuestions
  /\ calls \in Nat /\ counted \in {"none", "ready", "not"}
  /\ rank.queued \in Nat /\ rank.list \subseteq Questions
  /\ against \in [Questions -> SUBSET Questions]
  /\ crossed \in BOOLEAN /\ cut \in BOOLEAN /\ edits \in 0..MaxEdits

\* With nothing left to find and no ranking to come, every question of the set has been
\* scored against the set as it is, unless a call that was to see to it was cut.
RankedAtRest ==
  (/\ finding = {} /\ calls = 0 /\ counted = "none"
   /\ rank.queued = 0 /\ rank.list = {} /\ ~cut)
     => \A q \in Present : against[q] = Present

\* store.go:526 of renumber: "closes the gaps a removal leaves, keeping order".  Where no
\* edit used a position read before another one, the questions are at 1 to n.
PlacesAreOneToN == ~crossed => {position[q] : q \in Present} = 1..Cardinality(Present)
=============================================================================
