------------------------------ MODULE CrossCheck ------------------------------
(***************************************************************************)
(* How a written guide's answers are checked (homework/crosscheck.go): the *)
(* problem is solved again, the answers are compared, the guide written    *)
(* again once with what differs, and what differs even then is said after  *)
(* the part it is about.  Any of the calls may fail or be cut, and the     *)
(* models may answer anything.                                             *)
(*                                                                         *)
(* A guide is its version, the blocks of its walkthrough, which are the    *)
(* answers, by the label of their part as labels are compared, and others, *)
(* and which of them a note of the check follows.                          *)
(*                                                                         *)
(* Bounds: MaxBlocks in a guide, MaxDiffering parts named to differ. *)
(***************************************************************************)
EXTENDS Integers, FiniteSets, Sequences

CONSTANTS MaxBlocks, MaxDiffering

VARIABLES
  checking, \* the step of the check
  hint,    \* the version the hint is of
  walk,    \* the walkthrough, with its version and its notes
  differ   \* the parts that differed in the last comparison

vars == <<checking, hint, walk, differ>>

Labels == {"", "a", "b"}
Answer(label) == [k |-> "answer", label |-> label]
Other == [k |-> "text", label |-> ""]
Blocks == {Answer(l) : l \in Labels} \cup {Other}
Walks == UNION {[1..n -> Blocks] : n \in 0..MaxBlocks}
Written(version, w) == [version |-> version, blocks |-> w, noted |-> {}]
\* The parts a comparison may name; "c" is one the guide has no answer for.
Differences == {ds \in SUBSET (Labels \cup {"c"}) : Cardinality(ds) <= MaxDiffering}

Answers(w) == {i \in DOMAIN w : w[i].k = "answer"}

\* The note goes after the part's answer, the last one with its label; after the last
\* answer when none has.
FlagParts(w, ds) ==
  LET Labelled(l) == {i \in Answers(w) : w[i].label = l}
      For(l) == IF Labelled(l) = {} THEN Answers(w) ELSE Labelled(l)
  IN {i \in Answers(w) : \E l \in ds : i \in For(l) /\ \A j \in For(l) : j <= i}

Done == checking' = "done" /\ UNCHANGED <<hint, walk, differ>>

\* solveAgain; a guide without answers is not checked.
SolveAgain == /\ checking = "written"
              /\ IF Answers(walk.blocks) = {} THEN checking' = "done" ELSE checking' = "solved"
              /\ UNCHANGED <<hint, walk, differ>>

\* compareAnswers: they agree, or some parts differ; it may not say which.
Compare(ds) ==
  LET parts == IF ds = {} THEN {""} ELSE ds IN
  \/ /\ checking = "solved" /\ checking' = "again" /\ differ' = parts
     /\ UNCHANGED <<hint, walk>>
  \/ /\ checking = "rewritten" /\ Answers(walk.blocks) # {}
     /\ checking' = "done" /\ differ' = parts
     /\ walk' = [walk EXCEPT !.noted = FlagParts(walk.blocks, parts)]
     /\ UNCHANGED hint

Agree == \/ checking = "solved" /\ Done
         \/ checking = "rewritten" /\ checking' = "done" /\ differ' = {} /\ UNCHANGED <<hint, walk>>

WriteAgain(w) == /\ checking = "again" /\ checking' = "rewritten" /\ hint' = 2
                 /\ walk' = Written(2, w) /\ UNCHANGED differ

\* The second guide fails: the first is compared once more, unless the step was stopped.
WriteFails == /\ checking = "again" /\ checking' = "rewritten" /\ UNCHANGED <<hint, walk, differ>>

\* A call fails, is not readable or is stopped: the guide stays as it is.
Fails == /\ checking \in {"written", "solved", "again", "rewritten"}
         /\ checking' = "done" /\ differ' = {} /\ UNCHANGED <<hint, walk>>

Init == /\ checking = "written" /\ hint = 1 /\ differ = {}
        /\ \E w \in Walks : walk = Written(1, w)

Next == \/ SolveAgain \/ Agree \/ WriteFails \/ Fails
        \/ checking \in {"solved", "rewritten"} /\ \E ds \in Differences : Compare(ds)
        \/ \E w \in Walks : WriteAgain(w)

Spec == Init /\ [][Next]_vars

-----------------------------------------------------------------------------

TypeOK == /\ checking \in {"written", "solved", "again", "rewritten", "done"} /\ hint \in 1..2
          /\ differ \subseteq Labels \cup {"c"}

\* The check never costs the student the guide: its hint and its walkthrough are of one
\* version.  What is left to differ is told: by one note for each part, right after an
\* answer, the one with its label if there is one, and no other answer is doubted.
DoubtsAreTold ==
  LET w == walk.blocks
      doubted == {w[i].label : i \in walk.noted}
      answered == {w[i].label : i \in Answers(w)}
      left == IF checking = "done" THEN differ ELSE {}
  IN /\ hint = walk.version
     /\ walk.noted \subseteq Answers(w)
     /\ \A i, j \in walk.noted : w[i].label = w[j].label => i = j
     /\ left \cap answered \subseteq doubted
     /\ left # {} /\ answered # {} => walk.noted # {}
     /\ left \subseteq answered => doubted = left
=============================================================================
