------------------------------ MODULE SetUpdate -------------------------------
(***************************************************************************)
(* A homework set and the document it is made from (homework/update.go,    *)
(* reads.go): each time a read is shown, its lines are compared with the   *)
(* set, and what the student keeps of the difference is applied to it, one *)
(* request after another, any of which may fail or be hung up.  A set that *)
(* is made by an import is an empty one with all lines new.                *)
(*                                                                         *)
(* A line is what the book's numbering reads it as: some problems, each    *)
(* with its label and the notes it carries, its part among them; or the    *)
(* writer's own words.  Left out: the finding of a set by its source and   *)
(* date, lines that cannot be read, titles and due dates, and documents    *)
(* that list a problem twice, of which a set can never be the page.        *)
(*                                                                         *)
(* Bounds: MaxLinesRead in a document, MaxTold changes of the document or  *)
(* the set, each question having an id below MaxIds.                       *)
(***************************************************************************)
EXTENDS Integers, Sequences, SequencesExt, FiniteSets

CONSTANTS MaxLinesRead, MaxTold, MaxIds

VARIABLES
  doc,     \* the document's lines, as last read
  members, \* the set's questions, in their order
  nextId,
  asked,   \* an import under way: what is left of it to do
  whole,   \* whether the set is as a whole import of the document has left it
  told     \* changes so far

vars == <<doc, members, nextId, asked, whole, told>>

Name == [label : {1, 2}, notes : {{}, {"x"}}]
Own == [label |-> 0, notes |-> {}] \* words of the writer's
Lines == {<<n>> : n \in Name \cup {Own}}
           \cup {<<n, m>> : n \in {n \in Name : n.label = 1}, m \in {n \in Name : n.label = 2}}
Documents ==
  {d \in BoundedSeq(Lines, MaxLinesRead) :
     \A i, j \in 1..Len(d) : \A n \in ToSet(d[i]), m \in ToSet(d[j]) :
       n.label = m.label /\ n # Own => i = j}

\* What the finder calls a problem, when it names it the book's way.
FoundAs(label) == label + 10

-----------------------------------------------------------------------------

\* A question is known by the label its text gives and the one it has.
LabelsOf(q) == {q.text.label, q.label}
InBook(q) == q.text # Own

\* setHas: of several with a label, the last is the one known by it.
With(label) == {i \in 1..Len(members) : InBook(members[i]) /\ label \in LabelsOf(members[i])}
Greatest(S) == CHOOSE x \in S : \A y \in S : y <= x
ByLabel(label) == members[Greatest(With(label))]
Holds(draft) == \/ draft # Own /\ With(draft.label) # {}
                \/ \E i \in 1..Len(members) : members[i].text = draft

\* readLine: a line's notes are those of its problems together.
NotesOf(line) == UNION {n.notes : n \in ToSet(line)}

\* compare: of a line's problems, those whose notes are not what the set has; of the set,
\* the problems that no line lists.
Changed(line) ==
  {[id |-> ByLabel(n.label).id, notes |-> NotesOf(line)] :
     n \in {n \in ToSet(line) : /\ n # Own /\ With(n.label) # {}
                                /\ ByLabel(n.label).notes # NotesOf(line)}}

ListedIds == {ByLabel(n.label).id :
                n \in {n \in UNION {ToSet(doc[i]) : i \in 1..Len(doc)} : n # Own /\ With(n.label) # {}}}
Gone == {members[i].id : i \in {i \in 1..Len(members) : InBook(members[i])}} \ ListedIds

Added(line) == \A n \in ToSet(line) : Holds(n)

Review == [notes |-> UNION {Changed(doc[i]) : i \in 1..Len(doc)}, remove |-> Gone,
           lines |-> SelectSeq(doc, LAMBDA line : ~Added(line))]
NothingNew == [notes |-> {}, remove |-> {}, lines |-> <<>>]

-----------------------------------------------------------------------------

Tell == told < MaxTold /\ told' = told + 1

\* The professor changes the page, and it is read again.
ReadAgain(d) == /\ Tell /\ asked = <<>> /\ d # <<>> /\ d # doc
                /\ doc' = d /\ whole' = FALSE
                /\ UNCHANGED <<members, nextId, asked>>

\* updateSet: the problems of the kept lines that the set does not hold are worked out
\* first, and added last.
Import(keep) ==
  /\ asked = <<>> /\ doc # <<>> /\ Review # NothingNew
  /\ LET drafts == FlattenSeq(IF keep THEN doc ELSE Review.lines)
     IN asked' = <<[notes |-> Review.notes, remove |-> IF keep THEN Review.remove ELSE {},
                    rows |-> SelectSeq(drafts, LAMBDA n : ~Holds(n)), clean |-> keep]>>
  /\ UNCHANGED <<doc, members, nextId, whole, told>>

\* The notes of a question are set, unless it has gone: then the import fails there.
SetNotes(n) ==
  /\ asked # <<>> /\ n \in asked[1].notes
  /\ IF \E q \in ToSet(members) : q.id = n.id
     THEN /\ members' = [i \in 1..Len(members) |->
                           IF members[i].id = n.id THEN [members[i] EXCEPT !.notes = n.notes] ELSE members[i]]
          /\ asked' = <<[asked[1] EXCEPT !.notes = @ \ {n}]>>
     ELSE asked' = <<>> /\ UNCHANGED members
  /\ UNCHANGED <<doc, nextId, whole, told>>

Out(id) == SelectSeq(members, LAMBDA q : q.id # id)

TakeOut(id) ==
  /\ asked # <<>> /\ asked[1].notes = {} /\ id \in asked[1].remove
  /\ members' = Out(id)
  /\ asked' = <<[asked[1] EXCEPT !.remove = @ \ {id}]>>
  /\ UNCHANGED <<doc, nextId, whole, told>>

\* Questions as Add makes them, each with what its own text says.
Made(rows) == [i \in 1..Len(rows) |-> [id |-> nextId + i - 1, text |-> rows[i], label |-> rows[i].label,
                                       notes |-> rows[i].notes]]

AddRows ==
  /\ asked # <<>> /\ asked[1].notes = {} /\ asked[1].remove = {}
  /\ nextId + Len(asked[1].rows) <= MaxIds
  /\ members' = members \o Made(asked[1].rows) /\ nextId' = nextId + Len(asked[1].rows)
  /\ whole' = asked[1].clean /\ asked' = <<>>
  /\ UNCHANGED <<doc, told>>

\* One of its requests fails, or the student hangs up: the read stays.
ImportFails == asked # <<>> /\ asked' = <<>> /\ UNCHANGED <<doc, members, nextId, whole, told>>

\* Meanwhile the student adds and removes questions, and they are found.
Cross == asked' = IF asked = <<>> THEN <<>> ELSE <<[asked[1] EXCEPT !.clean = FALSE]>>

Add(n) == /\ Tell /\ nextId < MaxIds
          /\ members' = Append(members, Made(<<n>>)[1]) /\ nextId' = nextId + 1
          /\ whole' = FALSE /\ Cross /\ UNCHANGED doc

TakesOut(id) == /\ Tell /\ id \in {q.id : q \in ToSet(members)}
                /\ members' = Out(id) /\ whole' = FALSE /\ Cross
                /\ UNCHANGED <<doc, nextId>>

Found(i) == /\ i \in 1..Len(members) /\ InBook(members[i]) /\ members[i].label < 10
            /\ members' = [members EXCEPT ![i].label = FoundAs(@)]
            /\ UNCHANGED <<doc, nextId, asked, whole, told>>

Init == /\ doc = <<>> /\ members = <<>> /\ nextId = 1 /\ asked = <<>>
        /\ whole = FALSE /\ told = 0

Next ==
  \/ Tell /\ \E d \in Documents : ReadAgain(d)
  \/ \E keep \in BOOLEAN : Import(keep)
  \/ AddRows \/ ImportFails
  \/ asked # <<>> /\ (\/ \E n \in asked[1].notes : SetNotes(n)
                      \/ \E id \in asked[1].remove : TakeOut(id))
  \/ \E n \in Name : n.notes = {} /\ Add(n)
  \/ \E id \in 1..MaxIds : TakesOut(id) \/ Found(id)

Spec == Init /\ [][Next]_vars

-----------------------------------------------------------------------------

TypeOK == /\ nextId \in 1..MaxIds /\ told \in 0..MaxTold /\ whole \in BOOLEAN
          /\ \A i \in 1..Len(members) : members[i].id < nextId /\ members[i].text \in Name \cup {Own}
          /\ Len(asked) <= 1

\* The problems of each line carry the same notes.  The notes of one (its part, say) are
\* compared with all of its line's, and it is taken for changed.
Plain(d) == \A i \in 1..Len(d) : \A n \in ToSet(d[i]) : n.notes = NotesOf(d[i])

\* reads.go:146: "reading a course page again offers what the professor added since, what
\* they changed, and what they took away".  What a whole import left, and nobody has
\* edited, offers nothing: a page that was not changed has no news.
NoNews == whole /\ Plain(doc) => Review = NothingNew

\* and the set is the page: its problems, each once and with its notes.
SetIsThePage ==
  whole /\ Plain(doc) =>
    LET listed == {n \in UNION {ToSet(doc[i]) : i \in 1..Len(doc)} : n # Own}
        has == {i \in 1..Len(members) : InBook(members[i])}
    IN /\ {[label |-> members[i].text.label, notes |-> members[i].notes] : i \in has} = listed
       /\ Cardinality(has) = Cardinality(listed)

SetFollowsPage == NoNews /\ SetIsThePage
=============================================================================
