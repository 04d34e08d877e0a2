-------------------------------- MODULE Usage --------------------------------
(***************************************************************************)
(* What was spent: one row a call of the model's, kept under what it was   *)
(* for (usage/usage.go), and the sums told of them (usage/detail.go): a    *)
(* question's line, its detail, and what a book has cost.  One book, one   *)
(* set of two questions.  A set's ranking belongs to no one question: each *)
(* of the set's takes an even part of it.                                  *)
(*                                                                         *)
(* Left out: milliseconds, cost, and the reasoning and cached tokens,      *)
(* which are added up as the tokens are; the labels of runs; turns and     *)
(* reads, which are told as questions without a set are; calls for nothing *)
(* in particular.                                                          *)
(*                                                                         *)
(* Bounds: Made, the calls there are to make; MaxSpent, the ids of their   *)
(* rows; one call at a time; one removal of a set or a book at a time.     *)
(***************************************************************************)
EXTENDS Integers, Sequences, SequencesExt, FiniteSets

CONSTANT MaxSpent

VARIABLES
  alive,  \* what calls can be spent on, and is there
  added,  \* the questions there have ever been
  asking, \* whose call is under way
  marks,  \* the table forgotten
  rows,   \* the table calls: a function from their ids, which are in the order of the calls
  removal, \* of the set or the book: whose calls are left to forget, and whether it
          \* has gone yet
  missed  \* who went with their calls not forgotten, and will never be

vars == <<alive, added, asking, marks, rows, removal, missed>>

Questions == {"q1", "q2"}
Subjects == Questions \cup {"set", "book"}
None == -1 \* a figure that nobody counted

Call == [stage : {"find", "guide", ""}, run : 1..2, who : {"a", "b"}, in : {None} \cup Nat,
         out : {None} \cup Nat, failed : BOOLEAN, tools : BOOLEAN]

\* The calls there are to make: one that counted no tokens since it failed, from before
\* calls had stages, and two runs' of different sizes; not all of them for everything.
Made(s) ==
  {[stage |-> "find", run |-> 1, who |-> "a", in |-> 3, out |-> 1, failed |-> FALSE, tools |-> TRUE]}
    \cup (IF s = "q2" THEN {} ELSE
         {[stage |-> "", run |-> 2, who |-> "b", in |-> None, out |-> None, failed |-> TRUE, tools |-> FALSE]})
    \cup (IF s # "q1" THEN {} ELSE
         {[stage |-> "guide", run |-> 2, who |-> "a", in |-> 2, out |-> 1, failed |-> FALSE, tools |-> FALSE]})

-----------------------------------------------------------------------------
(* The sums.                                                               *)

AddInt(sum, v) == IF v = None THEN sum ELSE IF sum = None THEN v ELSE sum + v

\* A call's tokens, both ways.
Tokens(c) == IF c.in = None THEN None ELSE AddInt(c.in, c.out)

SumOf(cs, Figure(_)) == FoldLeft(LAMBDA sum, c : AddInt(sum, Figure(c)), None, cs)
CountOf(cs, Is(_)) == Len(SelectSeq(cs, Is))

Totals(cs) ==
  [calls |-> Len(cs), failed |-> CountOf(cs, LAMBDA c : c.failed),
   uncounted |-> CountOf(cs, LAMBDA c : c.in = None),
   in |-> SumOf(cs, LAMBDA c : c.in), out |-> SumOf(cs, LAMBDA c : c.out)]

\* The calls made for some subjects, in their order.
CallsFor(subjects) ==
  LET ids == SetToSortSeq({n \in DOMAIN rows : rows[n].of \in subjects}, LAMBDA m, n : m < n)
  IN [i \in 1..Len(ids) |-> rows[ids[i]].call]

CallsOf(s) == CallsFor({s})

StageOf(c) == IF c.stage = "" THEN "Other" ELSE c.stage

\* The members of a sequence, each once, in the order they are first seen.
InOrder(seq) == FoldLeft(LAMBDA seen, x : IF Contains(seen, x) THEN seen ELSE Append(seen, x), <<>>, seq)

Map(cs, Of(_)) == [i \in 1..Len(cs) |-> Of(cs[i])]

\* Calls spent on n questions together, as one of them has to bear them.
Share(cs, n) ==
  IF n <= 1 THEN cs
  ELSE LET Part(v) == IF v = None THEN None ELSE v \div n
       IN Map(cs, LAMBDA c : [c EXCEPT !.in = Part(@), !.out = Part(@)])

\* A detail: its stages and its runs, the ranking shared with n the last of them.
Build(own, shared, n) ==
  LET cs == own \o shared
      names == InOrder(Map(cs, StageOf))
      Stage(name) ==
        LET its == SelectSeq(cs, LAMBDA c : StageOf(c) = name)
            alone == \A i \in 1..Len(own) : StageOf(own[i]) # name
        IN [name |-> name, shared |-> IF alone /\ n > 1 THEN n ELSE 0,
            attempts |-> Cardinality({its[i].run : i \in 1..Len(its)}), total |-> Totals(its)]
      runs == Map(InOrder(Map(own, LAMBDA c : c.run)),
                  LAMBDA r : SelectSeq(own, LAMBDA c : c.run = r))
  IN [stages |-> Map(names, Stage),
      runs |-> IF shared = <<>> THEN runs ELSE Append(runs, shared),
      total |-> Totals(cs)]

\* How a detail will lie on the page, told before it is asked for: the tall stages
\* carry a note that they are shared, the tall calls their tools or their error.
Section(cs) == [rows |-> Len(cs), tall |-> CountOf(cs, LAMBDA c : c.failed \/ c.tools)]

ShapeOf(d) ==
  [stages |-> Len(d.stages), tall |-> CountOf(d.stages, LAMBDA st : st.shared > 0),
   sections |-> Map(d.runs, Section)]

\* The line of a subject: its rows by who answered, their totals, its shape.
Row(cs) == [calls |-> Len(cs), uncounted |-> CountOf(cs, LAMBDA c : c.in = None),
            tokens |-> SumOf(cs, Tokens)]

For(s) ==
  LET cs == CallsOf(s)
      d == Build(cs, <<>>, 0)
  IN [rows |-> [w \in {cs[i].who : i \in 1..Len(cs)} |-> Row(SelectSeq(cs, LAMBDA c : c.who = w))],
      total |-> Row(cs), failed |-> Totals(cs).failed, shape |-> ShapeOf(d),
      stages |-> {d.stages[i].name : i \in 1..Len(d.stages)}]

AddSharedShape(shape, own, rank, n) ==
  LET new == {StageOf(rank[i]) : i \in 1..Len(rank)} \ own
  IN [stages |-> shape.stages + Cardinality(new),
      tall |-> shape.tall + (IF n > 1 THEN Cardinality(new) ELSE 0),
      sections |-> Append(shape.sections, Section(rank))]

\* A question's line with its part of the ranking on it.
AddShare(u, rank, n) ==
  LET part == Share(rank, n)
      Both(r, o) == [calls |-> r.calls + o.calls, uncounted |-> r.uncounted + o.uncounted,
                     tokens |-> AddInt(r.tokens, o.tokens)]
      By(w) == Row(SelectSeq(part, LAMBDA c : c.who = w))
      new == {part[i].who : i \in 1..Len(part)}
  IN IF rank = <<>> THEN u
     ELSE [u EXCEPT
       !.rows = [w \in DOMAIN @ \cup new |->
                   IF w \in DOMAIN u.rows THEN Both(@[w], By(w)) ELSE By(w)],
       !.total = Both(@, Row(part)), !.failed = @ + Totals(part).failed,
       !.shape = AddSharedShape(@, u.stages, rank, n)]

OfSet == Cardinality(alive \cap Questions)

\* What a question of a set is shown: its line, and its detail.  One that made no
\* call has neither.
FillUsage(q) == AddShare(For(q), CallsOf("set"), OfSet)
QuestionUsage(q) == Build(CallsOf(q), Share(CallsOf("set"), OfSet), OfSet)

\* What the book cost: by kind, each call once.
ForBook ==
  LET kinds == [k \in {Questions, {"set"}, {"book"}} |-> CallsFor(k \cap alive)]
      all == kinds[Questions] \o kinds[{"set"}] \o kinds[{"book"}]
  IN [kinds |-> [k \in {k \in DOMAIN kinds : kinds[k] # <<>>} |-> Build(kinds[k], <<>>, 0).total],
      import |-> Build(kinds[{"book"}], <<>>, 0), total |-> Build(all, <<>>, 0).total]

\* The shape of that, counted in SQL and never loaded: the import's calls grouped by
\* run and stage, the runs in the order of their first calls.
ForBookShapes ==
  LET imp == CallsOf("book")
      groups == {<<imp[i].run, StageOf(imp[i])>> : i \in 1..Len(imp)}
      In(g) == SelectSeq(imp, LAMBDA c : <<c.run, StageOf(c)>> = g)
      First(g) == CHOOSE i \in 1..Len(imp) :
                    /\ <<imp[i].run, StageOf(imp[i])>> = g
                    /\ \A j \in 1..(i - 1) : <<imp[j].run, StageOf(imp[j])>> # g
      sorted == SetToSortSeq(groups, LAMBDA g, h : First(g) < First(h))
      order == InOrder(Map(sorted, LAMBDA g : g[1]))
      Of(r) == FoldLeft(LAMBDA sec, g : IF g[1] # r THEN sec
                          ELSE [rows |-> sec.rows + Section(In(g)).rows, tall |-> sec.tall + Section(In(g)).tall],
                        [rows |-> 0, tall |-> 0], sorted)
      Spent(kind) == \E n \in DOMAIN rows : rows[n].of \in kind \cap alive
  IN [kinds |-> Cardinality({k \in {Questions, {"set"}, {"book"}} : Spent(k)}),
      import |-> [stages |-> Cardinality({g[2] : g \in groups}), tall |-> 0, sections |-> Map(order, Of)]]

-----------------------------------------------------------------------------

\* SQLite's choice for an INTEGER PRIMARY KEY.
NextId == Max(DOMAIN rows \cup {0}) + 1

Begin(s) == \* a call starts for what is there, and may end after it has gone
  /\ s \in alive /\ asking = {} /\ NextId <= MaxSpent
  /\ asking' = {s} /\ UNCHANGED <<alive, added, marks, rows, removal, missed>>

\* One statement: no row for what is marked.
Sink(s, call) ==
  /\ s \in asking /\ asking' = asking \ {s}
  /\ rows' = IF s \in marks THEN rows
             ELSE [n \in DOMAIN rows \cup {NextId} |->
                     IF n = NextId THEN [of |-> s, call |-> call] ELSE rows[n]]
  /\ UNCHANGED <<alive, added, marks, removal, missed>>

\* The rows go, and a mark is left for a call that is under way.
Forget(s) == /\ marks' = marks \cup {s}
             /\ rows' = [n \in {n \in DOMAIN rows : rows[n].of # s} |-> rows[n]]

Add(q) == /\ q \notin added /\ "set" \in alive
          /\ added' = added \cup {q} /\ alive' = alive \cup {q}
          /\ UNCHANGED <<asking, marks, rows, removal, missed>>

RemoveQuestion(q) == /\ q \in alive /\ alive' = alive \ {q} /\ Forget(q)
                     /\ UNCHANGED <<added, asking, removal, missed>>

NoRemoval == [of |-> "none", left |-> {}, step |-> "none"]
OfIt == {"set"} \cup (alive \cap Questions)

\* A set goes before its calls do: its questions are listed, it is deleted with those
\* it has by then, and the calls of the listed ones are forgotten.
DeleteSet ==
  \/ /\ removal = NoRemoval /\ "set" \in alive
     /\ removal' = [of |-> "set", left |-> OfIt, step |-> "listed"]
     /\ UNCHANGED <<alive, missed>>
  \/ /\ removal.of = "set" /\ removal.step = "listed"
     /\ removal' = [removal EXCEPT !.step = "gone"]
     /\ alive' = alive \ ({"set"} \cup Questions)
     /\ missed' = missed \cup (OfIt \ removal.left)

\* A book's calls go first: its own, then those of what hangs off it, and then it does.
RemoveBook ==
  \/ /\ removal = NoRemoval /\ "book" \in alive
     /\ removal' = [of |-> "book", left |-> {"book"}, step |-> "own"]
     /\ UNCHANGED <<alive, missed>>
  \/ /\ removal.of = "book" /\ removal.left = {} /\ removal.step = "own"
     /\ removal' = [removal EXCEPT !.left = OfIt \cap alive, !.step = "listed"]
     /\ UNCHANGED <<alive, missed>>
  \/ /\ removal.of = "book" /\ removal.left = {} /\ removal.step = "listed"
     /\ removal' = NoRemoval /\ alive' = {}
     /\ missed' = missed \cup (alive \ marks)

ForgetNext(s) ==
  /\ s \in removal.left /\ (removal.of = "set" => removal.step = "gone")
  /\ Forget(s)
  /\ removal' = IF removal.of = "set" /\ removal.left = {s} THEN NoRemoval
                ELSE [removal EXCEPT !.left = @ \ {s}]
  /\ UNCHANGED <<alive, added, asking, missed>>

\* The request is hung up or fails; a crash takes the calls under way along.
Cut == /\ removal # NoRemoval /\ removal' = NoRemoval
       /\ missed' = missed \cup (removal.left \ alive)
       /\ asking' \in {asking, {}} /\ UNCHANGED <<alive, added, marks, rows>>

\* At a start, a day after the removals it clears the marks of: no call lasts that
\* long, and none survives the program.
Sweep == /\ marks # {} /\ asking = {} /\ removal = NoRemoval
         /\ marks' = {} /\ UNCHANGED <<alive, added, asking, rows, removal, missed>>

Init == /\ added = {"q1"} /\ alive = {"q1", "set", "book"}
        /\ asking = {} /\ marks = {} /\ rows = <<>> /\ removal = NoRemoval /\ missed = {}

Next ==
  \/ \E s \in Subjects : Begin(s) \/ ForgetNext(s) \/ \E call \in Made(s) : Sink(s, call)
  \/ \E q \in Questions : Add(q) \/ RemoveQuestion(q)
  \/ (DeleteSet \/ RemoveBook) /\ UNCHANGED <<added, asking, marks, rows>>
  \/ Cut \/ Sweep

Spec == Init /\ [][Next]_vars

-----------------------------------------------------------------------------

TypeOK ==
  /\ alive \subseteq Subjects /\ added \subseteq Questions /\ asking \subseteq Subjects
  /\ marks \subseteq Subjects /\ missed \subseteq Subjects
  /\ DOMAIN rows \subseteq 1..MaxSpent
  /\ \A n \in DOMAIN rows : rows[n].of \in Subjects /\ rows[n].call \in Call
  /\ removal \in [of : {"none", "set", "book"}, left : SUBSET Subjects,
                  step : {"none", "own", "listed", "gone"}]

\* What a question's line says is what its detail will: the same sums, the same shape,
\* with the same part of the ranking; and a line's rows are its total.
LineIsDetail ==
  \A q \in alive \cap Questions :
    CallsOf(q) # <<>> =>
      LET u == FillUsage(q)
          d == QuestionUsage(q)
          whos == SetToSeq(DOMAIN u.rows)
      IN /\ u.shape = ShapeOf(d) /\ u.failed = d.total.failed
         /\ u.total = [calls |-> d.total.calls, uncounted |-> d.total.uncounted,
                       tokens |-> AddInt(d.total.in, d.total.out)]
         /\ u.total.tokens = SumOf(whos, LAMBDA w : u.rows[w].tokens)
         /\ u.total.calls = FoldLeft(LAMBDA n, w : n + u.rows[w].calls, 0, whos)
         /\ d.total.in = SumOf(d.stages, LAMBDA st : st.total.in)
         /\ d.total.calls = FoldLeft(LAMBDA n, r : n + Len(r), 0, d.runs)

\* A book's total is that of its kinds, no call told twice, whatever its questions'
\* parts of the ranking were rounded to; and its shape is that of what is shown.
BookIsWhole ==
  LET b == ForBook
      shape == ForBookShapes
      kinds == SetToSeq(DOMAIN b.kinds)
  IN /\ b.total.calls = Cardinality({n \in DOMAIN rows : rows[n].of \in alive})
     /\ b.total.in = SumOf(kinds, LAMBDA k : b.kinds[k].in)
     /\ shape.kinds = Len(kinds) /\ shape.import = ShapeOf(b.import)

\* The bills of what was spent say one thing.
BillsAgree == LineIsDetail /\ BookIsWhole

\* No call is kept of what has gone, but for what a removal has yet to forget or missed; nor
\* will the call under way be.
NoneOutlives ==
  /\ \A n \in DOMAIN rows : rows[n].of \in alive \cup removal.left \cup missed
  /\ asking \subseteq alive \cup removal.left \cup missed \cup marks
=============================================================================
