-------------------------------- MODULE Memory --------------------------------
(***************************************************************************)
(* What the tutor remembers of how a student wants one book's answers.     *)
(* The student saves and deletes notes from a menu, the model with its     *)
(* tools; every save is the student's own by now, and the tutor's are from *)
(* before.  A save looks, compares and writes in statements of its own.    *)
(* A text is what duplicates are compared by, and a number that stands for *)
(* its length; an id written short is the set of ids it may mean.          *)
(* Bounds: MaxNotes, MaxText.                                              *)
(***************************************************************************)
EXTENDS Integers, Sequences, SequencesExt

CONSTANTS
  Savers,      \* saves and removals under way at a time
  MaxNotes,    \* bound: notes ever made
  MaxText,     \* bound: the texts are 1..MaxText
  PromptMax,   \* promptMax
  PromptChars  \* promptMaxChars

VARIABLES
  notes,   \* the book's rows, the newest first
  made,    \* ids given out
  saving,  \* each save, or removal, under way
  raced    \* a save wrote after another had, since it compared

memVars == <<notes, made, saving, raced>>

Ids == 1..MaxNotes
Texts == 1..MaxText
Present == {notes[i].id : i \in 1..Len(notes)}

Idle == [at |-> "idle", text |-> 1, old |-> 0, late |-> FALSE]
Done(s) == [saving EXCEPT ![s] = Idle]
Without(id) == IF id \in Present THEN RemoveAt(notes, CHOOSE i \in 1..Len(notes) : notes[i].id = id)
               ELSE notes

-----------------------------------------------------------------------------

\* resolve: the one note a short id names.  A save that replaces nothing has none.
Resolve(s, text, ids) ==
  /\ saving[s].at = "idle"
  /\ \E old \in Ids \cup {0} :
       /\ IF ids = {} THEN old = 0 ELSE ids \cap Present = {old}
       /\ saving' = [saving EXCEPT ![s] = [Idle EXCEPT !.at = "compare", !.text = text,
                                                       !.old = old]]
  /\ UNCHANGED <<notes, made, raced>>

\* A note alike, other than the one to replace: already remembered, nothing changes.
Duplicate(s) ==
  /\ saving[s].at = "compare"
  /\ \E i \in 1..Len(notes) : notes[i].text = saving[s].text /\ notes[i].id # saving[s].old
  /\ saving' = Done(s)
  /\ UNCHANGED <<notes, made, raced>>

Compare_NewOnly(s) ==
  /\ saving[s].at = "compare"
  /\ saving[s].old = 0 =>
       \A i \in 1..Len(notes) : notes[i].text # saving[s].text
  /\ saving' = [saving EXCEPT ![s].at = "write"]
  /\ UNCHANGED <<notes, made, raced>>

Compare(s) ==
  /\ saving[s].at = "compare"
  /\ \A i \in 1..Len(notes) : notes[i].text = saving[s].text => notes[i].id = saving[s].old
  /\ saving' = [saving EXCEPT ![s].at = "write"]
  /\ UNCHANGED <<notes, made, raced>>

\* A save writes: those that have compared by now did so before it.
Wrote(s) ==
  /\ saving' = [t \in Savers |-> IF t = s THEN Idle
                  ELSE [saving[t] EXCEPT !.late = (@ \/ saving[t].at = "write")]]
  /\ raced' = (raced \/ saving[s].late)

\* A note replaced keeps its id and becomes the newest thing known, and the student's.
Replace(s) ==
  /\ saving[s].at = "write" /\ saving[s].old \in Present
  /\ notes' = <<[id |-> saving[s].old, text |-> saving[s].text, source |-> "you"]>>
                \o Without(saving[s].old)
  /\ Wrote(s)
  /\ UNCHANGED made

\* It was deleted meanwhile: the update finds no row.
ReplaceNothing(s) ==
  /\ saving[s].at = "write" /\ saving[s].old \notin Present \cup {0}
  /\ saving' = Done(s)
  /\ UNCHANGED <<notes, made, raced>>

Insert(s) ==
  /\ saving[s].at = "write" /\ saving[s].old = 0 /\ made < MaxNotes
  /\ notes' = <<[id |-> made + 1, text |-> saving[s].text, source |-> "you"]>> \o notes
  /\ made' = made + 1
  /\ Wrote(s)

\* Remove, from the menu, or Forget, of the model: the row is read, then deleted.
Forget(s, ids) ==
  /\ saving[s].at = "idle"
  /\ \E id \in Present : /\ ids \cap Present = {id}
                         /\ saving' = [saving EXCEPT ![s] = [Idle EXCEPT !.at = "delete", !.old = id]]
  /\ UNCHANGED <<notes, made, raced>>

Delete(s) ==
  /\ saving[s].at = "delete"
  /\ notes' = Without(saving[s].old) /\ saving' = Done(s)
  /\ UNCHANGED <<made, raced>>

-----------------------------------------------------------------------------

\* pick: all of the student's, then the rest, the newest first, until one doesn't fit.
Pick ==
  LET Yours(n) == n.source = "you"
      Chars(list) == FoldLeft(LAMBDA sum, n : sum + n.text, 0, list)
      Put(p, n) ==
        IF Yours(n) \/ p.full THEN p
        ELSE IF Len(p.list) >= PromptMax \/ Chars(p.list) + n.text > PromptChars
          THEN [p EXCEPT !.full = TRUE]
        ELSE [p EXCEPT !.list = Append(@, n)]
  IN FoldLeft(Put, [list |-> SelectSeq(notes, Yours), full |-> FALSE], notes).list

Init ==
  /\ notes \in {<<>>} \cup {<<[id |-> 1, text |-> t, source |-> "tutor"]>> : t \in Texts}
                \cup {<<[id |-> 2, text |-> t, source |-> "tutor"],
                        [id |-> 1, text |-> u, source |-> "tutor"]>> :
                          t \in Texts, u \in Texts}
  /\ \A i, j \in 1..Len(notes) : i # j => notes[i].text # notes[j].text
  /\ made = Len(notes) /\ saving = [s \in Savers |-> Idle] /\ raced = FALSE

Next ==
  \E s \in Savers :
    \/ \E ids \in SUBSET Ids : Forget(s, ids) \/ \E text \in Texts : Resolve(s, text, ids)
    \/ Duplicate(s) \/ Compare(s) \/ Replace(s) \/ ReplaceNothing(s) \/ Insert(s) \/ Delete(s)

Spec == Init /\ [][Next]_memVars

-----------------------------------------------------------------------------

TypeOK ==
  /\ notes \in Seq([id: 1..made, text: Texts, source: {"you", "tutor"}])
  /\ made \in 0..MaxNotes /\ raced \in BOOLEAN
  /\ saving \in [Savers -> [at: {"idle", "compare", "write", "delete"}, text: Texts,
                            old: Ids \cup {0}, late: BOOLEAN]]

\* No two notes say the same, unless two saves crossed.
RemembersOnce ==
  \A i, j \in 1..Len(notes) : i # j =>
    notes[i].id # notes[j].id /\ (notes[i].text = notes[j].text => raced)

\* The prompt has every note of the student's, and of the rest the newest that fit.
PromptIsTheNewest ==
  LET n == Len(notes)
      yours == {i \in 1..n : notes[i].source = "you"}
      Fits(k) == /\ Len(Pick) <= PromptMax \/ k = yours
                 /\ FoldLeft(LAMBDA sum, m : sum + m.text, 0, Pick) <= PromptChars \/ k = yours
      told == {i \in 1..n : \E k \in 1..Len(Pick) : Pick[k] = notes[i]}
  IN /\ yours \subseteq told /\ Fits(told)
     /\ \A i \in told \ yours, j \in 1..n : j < i => j \in told
=============================================================================
