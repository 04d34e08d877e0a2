------------------------------- MODULE Activity -------------------------------
(***************************************************************************)
(* Time spent.  Each tab sends the stretch of study it is in, again and    *)
(* again with a later end, by a clock of its own; the week and a question  *)
(* add stretches up.  A time is counted in steps; rounding to minutes or   *)
(* seconds and the refusals of malformed requests are left out.  Bounds:   *)
(* MaxTime, Stretches.                                                     *)
(***************************************************************************)
EXTENDS Integers, FiniteSets, Sequences, SequencesExt

CONSTANTS
  Stretches,  \* their ids
  MaxTime,    \* bound: what a clock can say is 0..MaxTime
  MaxAhead,   \* maxAhead
  MaxStretch  \* maxStretch

VARIABLES
  now,   \* the server's clock
  study, \* the table: a stretch's row, NoRow when there is none
  sent   \* the latest end sent of each stretch that was not in the future

actVars == <<now, study, sent>>

Times == 0..MaxTime
\* What a stretch is for: reading, or a question of a problem set.
Uses == {"reading", "one", "other"}
NoRow == [for |-> "none", from |-> 0, to |-> 0]

Least(a, b) == IF a < b THEN a ELSE b
Greatest(a, b) == IF a < b THEN b ELSE a

-----------------------------------------------------------------------------

Tick == now < MaxTime /\ now' = now + 1 /\ UNCHANGED <<study, sent>>

\* Save: the end is clamped to the present and the start to a sitting before it; of a
\* stretch saved before only the end moves.
Save(id, use, from, to) ==
  LET end == Least(to, now + MaxAhead)
      start == Greatest(Least(from, end), end - MaxStretch)
  IN /\ study' = [study EXCEPT ![id] =
                    IF @ = NoRow THEN [for |-> use, from |-> start, to |-> end]
                    ELSE [@ EXCEPT !.to = Greatest(study[id].to, end)]]
     /\ sent' = [sent EXCEPT ![id] = IF to <= now + MaxAhead THEN Greatest(@, to) ELSE @]
     /\ UNCHANGED now

Clear == /\ study' = [id \in Stretches |-> NoRow] /\ sent' = [id \in Stretches |-> 0]
         /\ UNCHANGED now

\* covered: how long spans cover together, gone through by their starts.
Covered(spans) ==
  LET sorted == SetToSortSeq(spans, LAMBDA a, b : a.from < b.from)
      Add(c, s) == IF s.from <= c.to THEN [c EXCEPT !.to = Greatest(@, s.to)]
                   ELSE [total |-> c.total + (c.to - c.from), from |-> s.from, to |-> s.to]
      all == FoldLeft(Add, [total |-> 0, from |-> Head(sorted).from, to |-> Head(sorted).to],
                      Tail(sorted))
  IN IF spans = {} THEN 0 ELSE all.total + (all.to - all.from)

\* Week: each use's stretches since a time, as much of them as comes after it.
Week(uses, since) ==
  LET rows == {study[id] : id \in {i \in Stretches : study[i].for \in uses /\ study[i].to > since}}
      spans == {[from |-> Greatest(r.from, since), to |-> r.to] : r \in rows}
  IN Covered({s \in spans : s.from < s.to})

\* QuestionSeconds: of the stretches with the question open, whenever they were.
QuestionTime(question) ==
  LET rows == {study[id] : id \in {i \in Stretches : study[i].for = question}}
  IN Covered({[from |-> r.from, to |-> r.to] : r \in {r \in rows : r.from < r.to}})

-----------------------------------------------------------------------------

Init == now = 0 /\ study = [id \in Stretches |-> NoRow] /\ sent = [id \in Stretches |-> 0]

Next == \/ Tick \/ Clear
        \/ \E id \in Stretches, use \in Uses, from \in Times, to \in Times :
             Save(id, use, from, to)

Spec == Init /\ [][Next]_actVars

-----------------------------------------------------------------------------

TypeOK ==
  /\ now \in Times /\ sent \in [Stretches -> Times]
  /\ \A id \in Stretches :
       study[id] \in [for: Uses \cup {"none"}, from: -MaxStretch..MaxTime, to: Times]

\* The moments spent on some uses since a time.
Moments(uses, since) ==
  {t \in since..MaxTime : \E id \in Stretches :
     study[id].for \in uses /\ study[id].from <= t /\ t < study[id].to}

\* Time spent is the time of the stretches, what two tabs spend at once counted once,
\* whatever is asked for.
TimeIsSpentOnce ==
  /\ \A since \in Times, uses \in SUBSET Uses \ {{}} :
       Week(uses, since) = Cardinality(Moments(uses, since))
  /\ \A question \in {"one", "other"} :
       QuestionTime(question) = Cardinality(Moments({question}, -MaxStretch))

\* No stretch ends in the future or lasts less than no time, and none ends before an end
\* it was sent.
EndsStand ==
  \A id \in Stretches : /\ study[id].to <= now + MaxAhead /\ study[id].from <= study[id].to
                        /\ sent[id] <= study[id].to
=============================================================================
