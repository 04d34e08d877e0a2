------------------------------ MODULE AgentLoop ------------------------------
(***************************************************************************)
(* One guide being written: writeGuide of internal/homework, the tool loop *)
(* of internal/agent under it, and the streamed call to the model under    *)
(* that.  The model answers what it likes, and its stream may be refused,  *)
(* dropped or left without its end.  A run is cut by a pause, a stop or a  *)
(* crash; what survives is the rounds it saved.  What the words, the tool  *)
(* calls and their results say is left out, and so is a guide written      *)
(* again after the cross-check, which saves no rounds.  Bounds: MaxRounds  *)
(* for guideRounds, MaxRuns.                                               *)
(***************************************************************************)
EXTENDS Integers, Sequences, FiniteSets

CONSTANTS
  MaxRounds, \* guideRounds
  MaxRuns    \* bound: how often the guide is begun

Cuts == 2     \* cutRetries
Nudges == 1   \* emptyNudges
Attempts == 2 \* guideAttempts
Posts == 3    \* doWithRetry: attempt < 2 is asked again

VARIABLES
  loop,   \* Loop.Run, and the call under way
  saved,  \* the question's rounds column
  words,  \* the replies whose words the parser holds: the last one, an earlier one
  guide,  \* what became of the guide
  runs

vars == <<loop, saved, words, guide, runs>>

\* The messages after the opening one, by what they are.
Messages == {"calls", "results", "empty", "nudge", "flat"}

\* How many tool rounds a conversation holds.
Done(msgs) == Cardinality({i \in 1..Len(msgs) : msgs[i] = "calls"})

Opened(msgs, n) ==
  [at |-> "post", msgs |-> msgs, round |-> Done(msgs), cuts |-> Cuts, nudges |-> Nudges,
   flat |-> FALSE, attempt |-> n, post |-> 1, wrote |-> FALSE, called |-> FALSE,
   finished |-> FALSE]
Closed == [Opened(<<>>, 1) EXCEPT !.at = "idle"]

Final == loop.round >= MaxRounds

\* The next request of the loop.
Ask(l) == loop' = [l EXCEPT !.at = "post", !.post = 1, !.wrote = FALSE,
                            !.called = FALSE, !.finished = FALSE]

\* writeGuide returns an error: the question fails, its saved rounds stay.
Fail == /\ loop' = Closed /\ guide' = "failed"
        /\ UNCHANGED <<saved, words, runs>>

-----------------------------------------------------------------------------
(* The call.                                                               *)

\* The guide's job starts, for the first time or after what cut it: it carries
\* on from the rounds saved.
StartGuide ==
  /\ loop.at = "idle" /\ guide # "written" /\ runs < MaxRuns
  /\ loop' = Opened(saved, 1)
  /\ words' = {} /\ guide' = "none" /\ runs' = runs + 1
  /\ UNCHANGED saved

\* 429 or 5xx is asked again, twice.
Refused ==
  /\ loop.at = "post" /\ loop.post < Posts
  /\ loop' = [loop EXCEPT !.post = @ + 1]
  /\ UNCHANGED <<saved, words, guide, runs>>

\* Refused for good, or not reached.
CallFails == loop.at = "post" /\ Fail

Accepted ==
  /\ loop.at = "post"
  /\ loop' = [loop EXCEPT !.at = "stream"]
  /\ words' = IF words = {} THEN {} ELSE {"earlier"}
  /\ UNCHANGED <<saved, guide, runs>>

\* A chunk with text goes to the parser at once, one with a piece of a tool call is
\* kept, and one with a finish reason says the reply is whole.
Text ==
  /\ loop.at = "stream"
  /\ loop' = [loop EXCEPT !.wrote = TRUE]
  /\ words' = words \cup {"last"}
  /\ UNCHANGED <<saved, guide, runs>>

CallPart ==
  /\ loop.at = "stream"
  /\ loop' = [loop EXCEPT !.called = TRUE]
  /\ UNCHANGED <<saved, words, guide, runs>>

Finish ==
  /\ loop.at = "stream"
  /\ loop' = [loop EXCEPT !.finished = TRUE]
  /\ UNCHANGED <<saved, words, guide, runs>>

StreamEnds_Unfinished ==
  /\ loop.at = "stream"
  /\ loop' = [loop EXCEPT !.at = "reply"]
  /\ UNCHANGED <<saved, words, guide, runs>>

StreamEnds ==
  /\ loop.at = "stream" /\ loop.finished
  /\ loop' = [loop EXCEPT !.at = "reply"]
  /\ UNCHANGED <<saved, words, guide, runs>>

\* The connection drops, or the stream ends without saying it is finished: asked
\* again while nothing of this round has reached the parser.
AskAgain ==
  /\ loop.at = "stream" /\ ~loop.wrote /\ loop.cuts > 0
  /\ Ask([loop EXCEPT !.cuts = @ - 1])
  /\ UNCHANGED <<saved, words, guide, runs>>

\* Too late or too often dropped, or a chunk that can't be decoded.
StreamFails == loop.at = "stream" /\ Fail

-----------------------------------------------------------------------------
(* What the loop makes of a whole reply.                                   *)

Concluding == loop.at = "reply" /\ (~loop.called \/ Final)

\* The guide has its hint and its answers: they are saved, and the rounds cleared.
Written ==
  /\ Concluding /\ loop.wrote
  /\ loop' = [Closed EXCEPT !.finished = loop.finished]
  /\ guide' = "written" /\ saved' = <<>>
  /\ UNCHANGED <<words, runs>>

\* A part is missing: once more, with a new parser, from the last round.
Incomplete ==
  /\ Concluding /\ loop.wrote /\ loop.attempt < Attempts
  /\ loop' = Opened(saved, loop.attempt + 1)
  /\ words' = {}
  /\ UNCHANGED <<saved, guide, runs>>

\* Told to answer, it called a tool: once more with the work so far as plain text.
Flatten ==
  /\ Concluding /\ ~loop.wrote /\ loop.called /\ ~loop.flat
  /\ Ask([loop EXCEPT !.flat = TRUE, !.msgs = <<"flat">>, !.round = @ + 1])
  /\ UNCHANGED <<saved, words, guide, runs>>

\* Neither an answer nor a call: told so, once.
Nudge ==
  /\ Concluding /\ ~loop.wrote /\ (loop.called => loop.flat) /\ loop.nudges > 0
  /\ Ask([loop EXCEPT !.nudges = @ - 1, !.round = @ + 1,
            !.msgs = @ \o <<IF loop.called THEN "calls" ELSE "empty", "nudge">>])
  /\ UNCHANGED <<saved, words, guide, runs>>

\* ErrNoAnswer, of the loop or of writeGuide after its attempts.
NoAnswer ==
  /\ Concluding
  /\ IF loop.wrote THEN loop.attempt = Attempts
     ELSE (loop.called => loop.flat) /\ loop.nudges = 0
  /\ Fail

\* The tools are run and the round saved.  What was said on the way is forgotten.
Round ==
  /\ loop.at = "reply" /\ loop.called /\ ~Final
  /\ LET msgs == loop.msgs \o <<"calls", "results">>
     IN /\ Ask([loop EXCEPT !.msgs = msgs, !.round = @ + 1])
        /\ saved' = msgs
  /\ words' = IF loop.wrote THEN {} ELSE words
  /\ UNCHANGED <<guide, runs>>

-----------------------------------------------------------------------------

\* A pause, a stop or a crash.
Interrupted ==
  /\ loop.at # "idle"
  /\ loop' = Closed
  /\ UNCHANGED <<saved, words, guide, runs>>

\* An edit has the guide written from the start.
StartOver ==
  /\ loop.at = "idle" /\ saved # <<>>
  /\ saved' = <<>>
  /\ UNCHANGED <<loop, words, guide, runs>>

Init == /\ loop = Closed /\ saved = <<>> /\ words = {} /\ guide = "none" /\ runs = 0

Next == \/ StartGuide \/ Refused \/ CallFails \/ Accepted
         \/ Text \/ CallPart \/ Finish \/ StreamEnds \/ AskAgain \/ StreamFails
         \/ Written \/ Incomplete \/ Flatten \/ Nudge \/ NoAnswer \/ Round
         \/ Interrupted \/ StartOver

Spec == Init /\ [][Next]_vars

-----------------------------------------------------------------------------

TypeOK ==
  /\ loop \in [at: {"idle", "post", "stream", "reply"}, msgs: Seq(Messages),
               round: Nat, cuts: 0..Cuts, nudges: 0..Nudges, flat: BOOLEAN,
               attempt: 1..Attempts, post: 1..Posts, wrote: BOOLEAN, called: BOOLEAN,
               finished: BOOLEAN]
  /\ saved \in Seq(Messages) /\ words \subseteq {"last", "earlier"}
  /\ guide \in {"none", "written", "failed"} /\ runs \in 0..MaxRuns

\* A guide is the words of one whole reply: none of what the model said before a tool
\* call, none of a reply that was dropped or asked again.
AnswerIsOneReply == guide = "written" => words = {"last"} /\ loop.finished

\* What is carried on from is whole rounds, each call with its result, and never more
\* of them than a guide may take, however often it is begun again.
CarriesWholeRounds ==
  /\ Done(saved) <= MaxRounds
  /\ \A i \in 1..Len(saved) :
       saved[i] = "calls" => i < Len(saved) /\ saved[i + 1] = "results"
=============================================================================
