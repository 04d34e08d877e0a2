------------------------------- MODULE Document -------------------------------
(***************************************************************************)
(* A document as the parser of internal/doc makes it of the lines a model  *)
(* writes: blocks, put right by further calls to a model where they are    *)
(* not fit to be shown.  The calls fail or answer as they like, and the    *)
(* reply may be aborted anywhere.  A block is the lines it was made from,  *)
(* its type and what is wrong with it; it has one text and one piece of    *)
(* TeX.  How JSON is read, what a text says and what is streamed of it     *)
(* (see StreamedText) are left out; what Finalize asks for is taken to     *)
(* keep its type when it is repaired.  Bounds: MaxLines, MaxObjects,       *)
(* Types, Flaws; the code has 6 for MaxRepairCalls, 40 for MaxPending.     *)
(***************************************************************************)
EXTENDS Integers, Sequences, SequencesExt

CONSTANTS
  MaxLines,       \* bound: lines of a reply
  MaxObjects,     \* bound: blocks written on one line
  MaxRepairCalls, \* MaxRepairCalls
  MaxPending      \* lines an object may run over

MaxTries == 2
Types == {"hint", "part", "answer"}
\* What the checks find: the schema is not met, TeX or a delimiter is left in the text,
\* it cites a page the book doesn't have, TeX does not parse.
Flaws == {{}, {"schema"}, {"cite"}, {"text", "math"}}

VARIABLES
  mode,    \* Guide or Ask
  blocks,  \* the document so far
  lines,   \* lines complete by now, and since which one the parser has the document
  pending, \* the first line of an object not yet finished, 0 for none
  block,   \* the object being checked, and how often this failure was put to the model
  work,    \* what the parser is at
  budget,
  aborted, \* the context has ended
  passed   \* lines that were passed over, by why

docVars == <<mode, blocks, lines, pending, block, work, budget, aborted, passed>>

NoBlock == [type |-> "hint", from |-> 0, to |-> 0, flaws |-> {}, raw |-> FALSE]
Here == [NoBlock EXCEPT !.from = IF pending = 0 THEN lines.last + 1 ELSE pending,
                        !.to = lines.last + 1]
\* At what, with which try, and how many more objects came with this one.
At(w) == [at |-> w, try |-> 0, more |-> 0, part |-> 0]
GoTo(w) == work' = [work EXCEPT !.at = w, !.try = 0]

SawBlock == blocks # <<>>

-----------------------------------------------------------------------------
(* Lines.                                                                  *)

LineEnds == /\ work.at = "idle" /\ lines.last < MaxLines
            /\ lines' = [lines EXCEPT !.last = @ + 1]
            /\ UNCHANGED <<mode, blocks, budget, aborted>>

\* An empty line or a fence, where no object is open.
Blank ==
  /\ LineEnds /\ pending = 0
  /\ passed' = [passed EXCEPT !.blank = @ \cup {lines.last + 1}]
  /\ UNCHANGED <<pending, block, work>>

\* A line, with those before it, that is objects and nothing else.
Objects ==
  /\ LineEnds
  /\ \E n \in 1..MaxObjects, type \in Types, flaws \in Flaws :
       /\ block' = [Here EXCEPT !.type = type, !.flaws = flaws]
       /\ work' = [At("schema") EXCEPT !.more = n - 1]
  /\ pending' = 0
  /\ UNCHANGED passed

\* One that goes on on the next line.
Unfinished ==
  /\ LineEnds /\ Here.to - Here.from < MaxPending
  /\ pending' = Here.from
  /\ UNCHANGED <<block, work, passed>>

\* notJSON: a preamble, which a guide drops, or a line to be made blocks of.
NotJSON ==
  /\ LineEnds
  /\ IF mode = "guide" /\ ~SawBlock
       THEN /\ passed' = [passed EXCEPT !.preamble = @ \cup (Here.from..Here.to)]
            /\ UNCHANGED <<block, work>>
     ELSE block' = Here /\ work' = At("rewrite") /\ UNCHANGED passed
  /\ pending' = 0

-----------------------------------------------------------------------------
(* Repair.                                                                 *)

CanCall == budget > 0 /\ ~aborted
Call(at) == work.at = at /\ work.try < MaxTries /\ CanCall /\ budget' = budget - 1
GivesUp(at) == work.at = at /\ (work.try = MaxTries \/ ~CanCall)
Tried == work' = [work EXCEPT !.try = @ + 1]
Rest == UNCHANGED <<mode, lines, pending, aborted>>

\* add, and the next object of the line.  What Finalize asked for comes in otherwise.
Add(b, more) ==
  /\ blocks' = Append(blocks, b)
  /\ IF more = 0 THEN block' = NoBlock /\ work' = At("idle")
     ELSE /\ \E type \in Types, flaws \in Flaws :
               block' = [b EXCEPT !.type = type, !.flaws = flaws, !.raw = FALSE]
          /\ work' = [At("schema") EXCEPT !.more = more - 1]

Raw(b) == [b EXCEPT !.type = "raw", !.raw = TRUE, !.flaws = {}]

\* rewrite: what the model makes of the line, if it is objects.
Rewrite ==
  /\ Call("rewrite")
  /\ \/ Tried /\ UNCHANGED block
     \/ \E n \in 1..MaxObjects, type \in Types, flaws \in Flaws :
          /\ block' = [block EXCEPT !.type = type, !.flaws = flaws]
          /\ work' = [At("schema") EXCEPT !.more = n - 1]
     \/ GoTo("unwritten") /\ UNCHANGED block
  /\ Rest /\ UNCHANGED <<blocks, passed>>

\* No answer, or that there is nothing to write: the line is kept raw.
KeepLine ==
  /\ work.at = "unwritten" \/ GivesUp("rewrite")
  /\ IF aborted THEN /\ passed' = [passed EXCEPT !.aborted = @ \cup (block.from..block.to)]
                     /\ block' = NoBlock /\ work' = At("idle") /\ UNCHANGED blocks
     ELSE Add(Raw(block), 0) /\ UNCHANGED passed
  /\ Rest /\ UNCHANGED budget

\* check: the schema first, with a new object at each try,
FixSchema ==
  /\ "schema" \in block.flaws /\ Call("schema")
  /\ Tried
  /\ \/ UNCHANGED block
     \/ \E type \in Types, flaws \in Flaws :
          /\ work.part > 0 => type = block.type
          /\ block' = [block EXCEPT !.type = type, !.flaws = flaws]
  /\ Rest /\ UNCHANGED <<blocks, passed>>

Unfit ==
  /\ "schema" \in block.flaws /\ GivesUp("schema")
  /\ IF work.part > 0
       THEN /\ block' = NoBlock /\ work' = [At("final") EXCEPT !.part = work.part + 1]
            /\ UNCHANGED blocks
     ELSE Add(Raw(block), work.more)
  /\ Rest /\ UNCHANGED <<budget, passed>>

Fits ==
  /\ work.at = "schema" /\ "schema" \notin block.flaws
  /\ GoTo("text")
  /\ Rest /\ UNCHANGED <<blocks, block, budget, passed>>

\* then the text, until a call comes to nothing; a citation still wrong is text again,
FixText ==
  /\ block.flaws \cap {"text", "cite"} # {} /\ Call("text")
  /\ \/ work' = [work EXCEPT !.try = MaxTries] /\ UNCHANGED block
     \/ /\ Tried
        /\ \E left \in SUBSET {"text", "cite"} :
             block' = [block EXCEPT !.flaws = (@ \cap {"math"}) \cup left]
  /\ Rest /\ UNCHANGED <<blocks, passed>>

TextDone ==
  /\ work.at = "text"
  /\ block.flaws \cap {"text", "cite"} # {} => GivesUp("text")
  /\ block' = [block EXCEPT !.flaws = @ \ {"cite"}]
  /\ GoTo("math")
  /\ Rest /\ UNCHANGED <<blocks, budget, passed>>

\* and the math; what does not parse is marked to be shown as it is written.
FixMath ==
  /\ "math" \in block.flaws /\ Call("math")
  /\ \/ work' = [work EXCEPT !.try = MaxTries] /\ UNCHANGED block
     \/ Tried /\ \E left \in SUBSET {"math"} :
                   block' = [block EXCEPT !.flaws = (@ \ {"math"}) \cup left]
  /\ Rest /\ UNCHANGED <<blocks, passed>>

\* A block that passed is the next, or is put in where Finalize missed it.
Checked ==
  /\ work.at = "math"
  /\ "math" \in block.flaws => GivesUp("math")
  /\ IF work.part = 0 THEN Add(block, work.more)
     ELSE /\ blocks' = InsertAt(blocks, work.part, block) /\ block' = NoBlock
          /\ work' = [At("final") EXCEPT !.part = work.part + 1]
  /\ Rest /\ UNCHANGED <<budget, passed>>

-----------------------------------------------------------------------------
(* The end of a reply.                                                     *)

\* A round of a guide that ends in tool calls: what it said was not the document.
Reset ==
  /\ work.at = "idle" /\ mode = "guide"
  /\ blocks' = <<>> /\ pending' = 0
  /\ lines' = [lines EXCEPT !.first = lines.last + 1]
  /\ UNCHANGED <<mode, block, work, budget, aborted, passed>>

\* What the reply ended inside is not made a block of.
Finish_Drops ==
  /\ work.at = "idle"
  /\ pending' = 0
  /\ work' = [At("final") EXCEPT !.part = 1]
  /\ UNCHANGED <<mode, blocks, lines, block, budget, aborted, passed>>

\* An object the reply ended inside is kept raw.
Finish ==
  /\ work.at = "idle"
  /\ blocks' = IF pending = 0 THEN blocks
               ELSE Append(blocks, Raw([NoBlock EXCEPT !.from = pending, !.to = lines.last]))
  /\ pending' = 0
  /\ work' = [At("final") EXCEPT !.part = 1]
  /\ UNCHANGED <<mode, lines, block, budget, aborted, passed>>

\* Finalize, for a guide: the hint it lacks, first of all, then part by part the answer.
TypeAt(i) == IF i \in 1..Len(blocks) THEN blocks[i].type ELSE "none"
HasHint == \E i \in 1..Len(blocks) : TypeAt(i) = "hint"
\* The place i is where a part ends, and it has no answer.
PartEnds(i) == i - 1 = Len(blocks) \/ TypeAt(i) = "part"
Unanswered(i) ==
  /\ PartEnds(i)
  /\ \E k \in 1..i - 1 : /\ TypeAt(k) = "part"
                         /\ \A j \in k + 1..i - 1 : TypeAt(j) \notin {"part", "answer"}

Missing ==
  IF ~HasHint /\ work.part = 1 /\ blocks # <<>> THEN "hint"
  ELSE IF Unanswered(work.part) THEN "answer" ELSE "none"

\* One call of its own for each, outside the budget; what it answers is checked.
Write ==
  /\ work.at = "final" /\ mode = "guide" /\ Missing # "none" /\ ~aborted
  /\ \E flaws \in Flaws : block' = [NoBlock EXCEPT !.type = Missing, !.flaws = flaws]
  /\ GoTo("schema")
  /\ Rest /\ UNCHANGED <<blocks, budget, passed>>

\* It lacks nothing here, or the call brought nothing.
GoOn ==
  /\ work.at = "final" /\ work.part <= Len(blocks) + 1
  /\ work' = [work EXCEPT !.part = @ + 1]
  /\ Rest /\ UNCHANGED <<blocks, block, budget, passed>>

Abort == ~aborted /\ aborted' = TRUE
         /\ UNCHANGED <<mode, blocks, lines, pending, block, work, budget, passed>>

-----------------------------------------------------------------------------

Init ==
  /\ mode \in {"guide", "ask"} /\ blocks = <<>> /\ lines = [first |-> 1, last |-> 0]
  /\ pending = 0 /\ block = NoBlock /\ work = At("idle") /\ budget = MaxRepairCalls
  /\ aborted = FALSE /\ passed = [blank |-> {}, preamble |-> {}, aborted |-> {}]

Next == \/ Blank \/ Objects \/ Unfinished \/ NotJSON
        \/ Rewrite \/ KeepLine \/ FixSchema \/ Unfit \/ Fits
        \/ FixText \/ TextDone \/ FixMath \/ Checked
        \/ Reset \/ Finish \/ Write \/ GoOn \/ Abort

Spec == Init /\ [][Next]_docVars

-----------------------------------------------------------------------------

TypeOK ==
  /\ mode \in {"guide", "ask"} /\ aborted \in BOOLEAN
  /\ \A i \in 1..Len(blocks) : blocks[i].type \in Types \cup {"raw"}
  /\ 0 <= pending /\ pending <= lines.last /\ lines.last <= MaxLines
  /\ budget \in 0..MaxRepairCalls /\ work.try \in 0..MaxTries
  /\ work.at \in {"idle", "schema", "text", "math", "rewrite", "unwritten", "final"}

\* What the model wrote is kept: the blocks are fit to be shown and in the order of its
\* lines, and a line that is in none of them was empty or a fence, came before a guide's
\* first block, or met the end of the context.  A part is given one answer, in its place.
WrittenIsKept ==
  LET n == Len(blocks)
      written == {i \in 1..n : blocks[i].from > 0}
      Of(l) == {i \in written : blocks[i].from <= l /\ l <= blocks[i].to}
      Passed(l) == l \in passed.blank \cup passed.preamble \cup passed.aborted
      Waits(l) == (pending > 0 /\ l >= pending) \/ (block.from <= l /\ l <= block.to)
  IN /\ \A i \in 1..n : blocks[i].raw \/ blocks[i].flaws \cap {"schema", "cite"} = {}
     /\ \A i, j \in written : i < j =>
          \/ blocks[i].to < blocks[j].from
          \/ blocks[i].from = blocks[j].from /\ blocks[i].to = blocks[j].to
     /\ \A l \in lines.first..lines.last : Of(l) # {} \/ Passed(l) \/ Waits(l)
     /\ passed.aborted # {} => aborted
     /\ \A l \in passed.preamble, i \in written : l < blocks[i].from \/ l < lines.first
     /\ \A i \in 1..n : blocks[i].from = 0 =>
          \/ i = 1 /\ blocks[i].type = "hint"
          \/ /\ blocks[i].type = "answer" /\ (i = n \/ blocks[i + 1].type = "part")
             /\ \E k \in 1..i - 1 :
                  /\ blocks[k].type = "part"
                  /\ \A j \in k + 1..i - 1 : blocks[j].type \notin {"part", "answer"}
=============================================================================
