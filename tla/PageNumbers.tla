----------------------------- MODULE PageNumbers -----------------------------
(***************************************************************************)
(* The numbers printed on a book's pages: its runs, what they say of a     *)
(* page and of a number, how they are found in the heads and feet of the   *)
(* pages, and the row that keeps them, which an import writes unless the   *)
(* student has, and which a patch of any field writes back.  Bounds:       *)
(* PageCount, Starts, Offsets, two runs to what the student says, two      *)
(* candidates to a page, books in which a numbering stands out.            *)
(***************************************************************************)
EXTENDS Integers, FiniteSets, Sequences, SequencesExt

CONSTANTS
  PageCount,  \* pages of the book
  Starts,     \* bound: pages at which the student may say a run begins
  Offsets,    \* bound: what the student may say of it
  MinVotes,   \* minVotes, 5 in the code
  MinRun      \* minRun, 3 in the code

VARIABLES
  heads,    \* what the heads and feet of the pages carry, as they were read
  pageRuns, \* books.page_runs
  numbered, \* books.pages_edited
  patch,    \* a request to change the title or the colour, with the runs it has read
  said,     \* the runs the student gave last
  stale     \* a request wrote back runs that had been replaced since it read them

pageVars == <<heads, pageRuns, numbered, patch, said, stale>>

Pages == 1..PageCount
Runs == [from : Starts, offset : Offsets]
Lists == {<<r>> : r \in Runs} \cup {<<r, s>> : r, s \in Runs}
LastOf(list) == list[Len(list)]
Sum(list) == FoldLeft(LAMBDA n, s : n + s.n, 0, list)

-----------------------------------------------------------------------------
(* pagenum.Map.                                                            *)

\* New: in page order, of two that start on one page the later, the first from page 1,
\* and none that changes nothing.
New(runs) ==
  LET sorted == FoldLeft(LAMBDA l, p : l \o SelectSeq(runs, LAMBDA r : r.from = p),
                         <<>>, [p \in Pages |-> p])
      Put(l, r) == IF l # <<>> /\ LastOf(l).from = r.from THEN Front(l) \o <<r>>
                   ELSE Append(l, r)
      one == FoldLeft(Put, <<>>, sorted)
      Fold(l, r) == IF l # <<>> /\ LastOf(l).offset = r.offset THEN l ELSE Append(l, r)
  IN FoldLeft(Fold, <<>>, [one EXCEPT ![1].from = 1])

Offset(runs, page) == LastOf(SelectSeq(runs, LAMBDA r : r.from <= page)).offset
Printed(runs, page) == page - Offset(runs, page)

\* The runs in which a number would be on a page of the run, and the first of them.
Holds(runs, n) ==
  {i \in 1..Len(runs) : LET p == n + runs[i].offset
                        IN p >= runs[i].from /\ (i < Len(runs) => p < runs[i + 1].from)}

First(is) == CHOOSE i \in is : \A j \in is : i <= j

\* PDF, 0 when no page has the number, and Nearest.
PDF(runs, n) ==
  IF Holds(runs, n) = {} THEN 0 ELSE n + runs[First(Holds(runs, n))].offset

Nearest(runs, n) ==
  LET after == {i \in 1..Len(runs) : n + runs[i].offset < runs[i].from}
  IN IF PDF(runs, n) # 0 THEN PDF(runs, n)
     ELSE IF after # {} THEN runs[First(after)].from
     ELSE IF n + LastOf(runs).offset < 1 THEN 1 ELSE n + LastOf(runs).offset

-----------------------------------------------------------------------------
(* Detect.  A page's candidates are the numbers at its head and foot.      *)

\* The pages that vote for a distance between page and number.
Votes(numbers, d) == {p \in Pages : \E i \in 1..Len(numbers[p]) : p - numbers[p][i] = d}

\* Each page takes the distance of the run it is in, or else its best supported one.
Marks(numbers) ==
  LET Of(p) == {d \in {p - numbers[p][i] : i \in 1..Len(numbers[p])} :
                  Cardinality(Votes(numbers, d)) >= MinVotes}
      Better(d, e) == LET v == Cardinality(Votes(numbers, d))
                          w == Cardinality(Votes(numbers, e))
                      IN v > w \/ (v = w /\ d <= e)
      Mark(l, p) ==
        IF Of(p) = {} THEN l
        ELSE IF l # <<>> /\ LastOf(l).d \in Of(p)
          THEN Append(l, [page |-> p, d |-> LastOf(l).d])
        ELSE Append(l, [page |-> p, d |-> CHOOSE d \in Of(p) : \A e \in Of(p) : Better(d, e)])
  IN FoldLeft(Mark, <<>>, [p \in Pages |-> p])

\* Runs of one distance, joined where they meet.
Join(l, s) ==
  IF l # <<>> /\ LastOf(l).d = s.d
    THEN Front(l) \o <<[LastOf(l) EXCEPT !.last = s.last, !.n = @ + s.n]>>
  ELSE Append(l, s)

\* Short ones are strays: dropped, until nothing changes.
Kept(ss) ==
  FoldLeft(LAMBDA l, s : IF s.n < MinRun /\ Len(ss) > 1 THEN l ELSE Join(l, s), <<>>, ss)

JoinedRuns(numbers) ==
  LET marks == Marks(numbers)
      all == FoldLeft(LAMBDA l, m : Join(l, [last |-> m.page, d |-> m.d, n |-> 1]), <<>>, marks)
  IN FoldLeft(LAMBDA ss, p : Kept(ss), all, [p \in Pages |-> p])

\* The book's runs, none when no numbering stands out (at least minVotes pages, and a
\* fifth of those with text).
Detect(numbers) ==
  LET ss == JoinedRuns(numbers)
      total == Sum(ss)
  IN IF total < MinVotes \/ 5 * total < PageCount THEN <<>>
     ELSE New([i \in 1..Len(ss) |->
                 [from |-> IF i = 1 THEN 1 ELSE ss[i - 1].last + 1, offset |-> ss[i].d]])

\* What the heads and feet of a small book may carry: its number by one run or another,
\* both, or nothing.
Scans == [Pages -> {0, 1, 2, 3}]
NumbersOf(scan) ==
  [p \in Pages |-> CASE scan[p] = 0 -> <<>> [] scan[p] = 1 -> <<p>>
                     [] scan[p] = 2 -> <<p + 1>> [] OTHER -> <<p, p + 1>>]

-----------------------------------------------------------------------------
(* The row.                                                                *)

\* checkRuns.
Allowed(runs) == \A i \in 1..Len(runs) : /\ runs[i].from - runs[i].offset >= 1 - PageCount
                                         /\ runs[i].offset < PageCount

NoPatch == [at |-> "idle", runs |-> <<>>, old |-> FALSE]

\* Update of another field reads the book, with its runs, and writes all of it back.
Reads ==
  /\ patch.at = "idle"
  /\ patch' = [at |-> "read", runs |-> pageRuns, old |-> FALSE]
  /\ UNCHANGED <<heads, pageRuns, numbered, said, stale>>

Writes ==
  /\ patch.at = "read"
  /\ pageRuns' = patch.runs /\ stale' = (stale \/ patch.old) /\ patch' = NoPatch
  /\ UNCHANGED <<heads, numbered, said>>

\* The one request that has read is now out of date.
Replaced(runs) ==
  patch' = [patch EXCEPT !.old = patch.at = "read" /\ (@ \/ patch.runs # runs)]

\* Update of the numbering: what it read of it is not used.
Number(runs) ==
  /\ Allowed(runs)
  /\ pageRuns' = New(runs) /\ said' = New(runs) /\ numbered' = TRUE /\ stale' = FALSE
  /\ Replaced(New(runs))
  /\ UNCHANGED heads

Import_Over ==
  LET found == Detect(NumbersOf(heads))
  IN /\ found # <<>>
     /\ pageRuns' = found /\ Replaced(found)
     /\ UNCHANGED <<heads, numbered, said, stale>>

\* The import, run again by a retry: never over the student's own.
Import ==
  LET found == Detect(NumbersOf(heads))
  IN /\ found # <<>> /\ ~numbered
     /\ pageRuns' = found /\ Replaced(found)
     /\ UNCHANGED <<heads, numbered, said, stale>>

-----------------------------------------------------------------------------

Init == /\ heads \in Scans /\ Detect(NumbersOf(heads)) # <<>>
        /\ pageRuns = <<[from |-> 1, offset |-> 0]>> /\ numbered = FALSE
        /\ patch = NoPatch /\ said = pageRuns /\ stale = FALSE

Next == Reads \/ Writes \/ Import \/ \E runs \in Lists : Number(runs)

Spec == Init /\ [][Next]_pageVars

-----------------------------------------------------------------------------

TypeOK ==
  /\ heads \in Scans /\ numbered \in BOOLEAN /\ stale \in BOOLEAN
  /\ pageRuns \in Seq([from : Pages, offset : Int]) /\ said \in Seq([from : Pages, offset : Int])
  /\ patch.at \in {"idle", "read"} /\ patch.old \in BOOLEAN

\* A run that was found is carried by enough of its pages.
FoundIsVoted ==
  LET numbers == NumbersOf(heads)
      runs == Detect(numbers)
      Carry(i) == {p \in Pages : /\ p >= runs[i].from
                                 /\ i < Len(runs) => p < runs[i + 1].from
                                 /\ p \in Votes(numbers, runs[i].offset)}
  IN \A i \in 1..Len(runs) : Cardinality(Carry(i)) >= MinRun

\* The page of a number is the first that carries it, and of one that no page carries the
\* first that carries a later one; the student's numbering stays what it was set to, unless
\* a request under way wrote back what it had read; and what is found is voted for.
NumbersLeadBack ==
  /\ \A n \in 1 - PageCount..2 * PageCount :
       LET all == {p \in 1..3 * PageCount : Printed(pageRuns, p) = n}
           later == {p \in Pages : Printed(pageRuns, p) > n}
       IN IF all # {} THEN PDF(pageRuns, n) = First(all)
          ELSE PDF(pageRuns, n) = 0 /\ later # {} /\ Nearest(pageRuns, n) = First(later)
  /\ numbered /\ ~stale => pageRuns = said
  /\ FoundIsVoted
=============================================================================
