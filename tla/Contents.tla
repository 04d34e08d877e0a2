------------------------------- MODULE Contents -------------------------------
(***************************************************************************)
(* How an import comes by a book's contents (library/contents.go,          *)
(* structure.go): from the PDF's outline; else from the printed contents,  *)
(* as the model reads it from the pages' images, each entry placed on the  *)
(* page of the scan that shows its title; else from the lines that look    *)
(* like headings, of which the model picks.                                *)
(*                                                                         *)
(* A page's text is how strongly it shows each entry's title: the scan     *)
(* lost some headings, repeats titles as running heads, and may mention    *)
(* one elsewhere.  Left out: how titles are compared, what a line looks    *)
(* like, and how its page number is stripped; short titles, which have no  *)
(* vote; appendices, which only change a level.                            *)
(*                                                                         *)
(* Bounds: BookPages, MaxEntries, MaxHeadings lines or entries of the      *)
(* outline.  PlaceWindow, MinFound, VoteMin, PickBatch and PickMin are the *)
(* code's placeWindow (3), half the entries, voteMinVotes (3), pickBatch   *)
(* (600) and pickMin (3), made small.                                      *)
(***************************************************************************)
EXTENDS Integers, Sequences, SequencesExt, FiniteSets

CONSTANTS BookPages, MaxEntries, MaxHeadings, PlaceWindow, VoteMin, PickBatch, PickMin

VARIABLES
  step,  \* of readContents
  scan,  \* the book, as it is and as the scan shows it
  try,   \* of the call under way
  pageLines, \* the lines of the pages, those set larger last
  cands, \* the candidates
  upTo,  \* how many of them the model has been shown
  secs   \* the sections so far

vars == <<step, scan, try, pageLines, cands, upTo, secs>>

Pages == 1..BookPages
Printed == 1 \* the page of the printed contents, when there is one
Entries == 1..MaxEntries

\* Where each entry of the contents starts, in order; what the scan has of it; an entry
\* mentioned on some other page (0 none); and the entry before which a page was lost,
\* so that later ones are a page nearer than their numbers say.
Scans ==
  {b \in [starts : [Entries -> Pages \ {Printed}], has : [Entries -> {"heading", "heads", "nothing"}],
          mentioned : Entries, at : 0..BookPages, lost : Entries] :
     /\ \A e \in Entries \ {1} : b.starts[e - 1] <= b.starts[e]
     /\ (b.at = 0 => b.mentioned = 1) /\ b.at # Printed}
NoScan == [starts |-> <<>>, has |-> <<>>, mentioned |-> 1, at |-> 0, lost |-> 1]

NumberOf(e) == scan.starts[e] + (IF e > scan.lost THEN 1 ELSE 0)

-----------------------------------------------------------------------------
(* Placing the entries of the printed contents.                            *)

MatchNone == 0  MatchHead == 1  MatchText == 2  MatchHeading == 3

\* matchOn: how strongly a page shows an entry's title.
MatchOn(p, e) ==
  LET next == {f \in Entries : f > e}
  IN IF p = scan.starts[e] /\ scan.has[e] = "heading" THEN MatchHeading
     ELSE IF p = scan.at /\ e = scan.mentioned THEN MatchText
     ELSE IF /\ p > scan.starts[e] /\ scan.has[e] # "nothing"
             /\ \A f \in next : p < scan.starts[f] THEN MatchHead
     ELSE MatchNone

Least(S) == CHOOSE x \in S : \A y \in S : x <= y

\* The difference most titles show between their number and the first page they are on,
\* the smallest of several; what the pages' own numbers say when too few vote.
Vote(e) ==
  LET on == {p \in Pages \ {Printed} : MatchOn(p, e) # MatchNone}
  IN IF on = {} THEN {} ELSE {Least(on) - NumberOf(e)}

Vouched(detected) ==
  LET Votes(d) == Cardinality({e \in Entries : d \in Vote(e)})
      all == UNION {Vote(e) : e \in Entries}
      most == {d \in all : \A o \in all : Votes(o) <= Votes(d)}
  IN IF all # {} /\ Votes(Least(most)) >= VoteMin THEN {Least(most)} ELSE detected

\* 0, -1, 1, -2, 2, ...
Nearer(p, q, mid) ==
  LET Away(x) == IF x < mid THEN mid - x ELSE x - mid
  IN Away(p) < Away(q) \/ (Away(p) = Away(q) /\ p < q)

\* Each entry where the last one found says it should be: the page that shows it the
\* most strongly, the nearest of them, none before the one above it.
Looked(offset) ==
  FoldLeft(LAMBDA acc, e :
      LET mid == NumberOf(e) + acc.last
          open == {p \in (mid - PlaceWindow)..(mid + PlaceWindow) :
                     acc.floor <= p /\ p <= BookPages /\ p # Printed /\ MatchOn(p, e) # MatchNone}
          best == {p \in open : \A q \in open : MatchOn(q, e) <= MatchOn(p, e)}
          at == CHOOSE p \in best : \A q \in best \ {p} : Nearer(p, q, mid)
      IN IF open = {} THEN [acc EXCEPT !.pages = Append(@, 0)]
         ELSE [pages |-> Append(acc.pages, at), last |-> at - NumberOf(e), floor |-> at],
    [pages |-> <<>>, last |-> offset, floor |-> 1], [e \in Entries |-> e]).pages

\* One not found takes the offset of a neighbour that was.
Guess(pages, e) ==
  LET From(f) == {NumberOf(e) + pages[f] - NumberOf(f)}
  IN IF e > 1 /\ pages[e - 1] # 0 THEN From(e - 1)
     ELSE IF e < MaxEntries /\ pages[e + 1] # 0 THEN From(e + 1) ELSE {}

Section(title, level, page) == [title |-> title, level |-> level, page |-> page, end |-> 0]

\* Chapters, with a section in the second one.
LevelOf(e) == IF e = 3 THEN 2 ELSE 1

Placed(pages) ==
  FlattenSeq([e \in Entries |->
    LET on == IF pages[e] # 0 THEN {pages[e]} ELSE Guess(pages, e)
    IN IF on = {} THEN <<>> ELSE <<Section(e, LevelOf(e), CHOOSE p \in on : TRUE)>>])

-----------------------------------------------------------------------------
(* The lines that look like headings, and the end pages.                   *)

\* A line of text: whether it is shaped like a heading, and the size it is set in.
Lines == {l \in [page : {Printed, 2, BookPages}, text : {"x", "y"}, shaped : BOOLEAN, size : {4, 5}] :
            l.shaped => l.size = 4}

\* bodyMedianSize: the size at which half the words are reached, one line's being one.
Median(ls) ==
  LET sizes == {ls[i].size : i \in 1..Len(ls)}
  IN Least({s \in sizes : 2 * Len(SelectSeq(ls, LAMBDA l : l.size <= s)) >= Len(ls)})

SortedByPage(seq) ==
  [i \in 1..Len(seq) |->
     seq[SetToSortSeq(1..Len(seq),
           LAMBDA a, b : seq[a].page < seq[b].page \/ (seq[a].page = seq[b].page /\ a < b))[i]]]

\* headingCandidates: those shaped so, then those set larger than the body; a text once,
\* where it is first.
Candidates(ls, skip) ==
  LET Shaped(l) == l.shaped /\ l.page \notin skip
      Larger(l) == 4 * l.size >= 5 * Median(ls) /\ l.page \notin skip
      all == SortedByPage(SelectSeq(ls, Shaped) \o SelectSeq(ls, Larger))
  IN FoldLeft(LAMBDA out, l :
        IF \E i \in 1..Len(out) : out[i].text = l.text THEN out
        ELSE Append(out, [page |-> l.page, text |-> l.text]), <<>>, all)

CleanSections(ss) == SortedByPage(SelectSeq(ss, LAMBDA s : s.page \in Pages))

\* Up to the page before the next section that is no deeper; the sections are in order.
AssignEndPages(ss) ==
  [i \in 1..Len(ss) |->
    LET after == {j \in (i + 1)..Len(ss) : ss[j].level <= ss[i].level}
        end == IF after = {} THEN BookPages ELSE ss[Least(after)].page - 1
    IN [ss[i] EXCEPT !.end = IF end > ss[i].page THEN end ELSE ss[i].page]]

-----------------------------------------------------------------------------

\* A call that stalls, or answers something else, is made once more.
AskAgain == /\ step \in {"printed", "picking"} /\ try = 0 /\ try' = 1
            /\ UNCHANGED <<step, scan, pageLines, cands, upTo, secs>>

\* A second time, or the model refuses, or the import is stopped.
AskFails == /\ step \in {"printed", "picking"} /\ step' = "failed" /\ scan' = NoScan
            /\ pageLines' = <<>> /\ cands' = <<>> /\ upTo' = 0 /\ try' = 0 /\ secs' = <<>>

Outline(entries) ==
  /\ step = "start" /\ entries # <<>> /\ step' = "sections" /\ secs' = entries
  /\ UNCHANGED <<scan, try, pageLines, cands, upTo>>

\* The pages that look like the printed contents are shown to the model.
ReadPrinted(b) == /\ step = "start" /\ step' = "printed" /\ scan' = b
                  /\ UNCHANGED <<try, pageLines, cands, upTo, secs>>

\* placeEntries: too few found, and the contents is not this book's.
PlaceEntries(detected) ==
  /\ step = "printed" /\ try' = 0
  /\ LET offsets == Vouched(detected)
         pages == Looked(CHOOSE o \in offsets : TRUE)
         found == Cardinality({e \in Entries : pages[e] # 0})
     IN IF offsets # {} /\ found >= 2 /\ 2 * found >= MaxEntries
        THEN step' = "sections" /\ secs' = Placed(pages) /\ UNCHANGED scan
        ELSE step' = "lines" /\ scan' = NoScan /\ UNCHANGED secs
  /\ UNCHANGED <<pageLines, cands, upTo>>

\* With contents pages or without them.
HeadingCandidates(ls, skip) ==
  /\ step = "lines" \/ (step = "start" /\ skip = {})
  /\ pageLines' = ls /\ cands' = Candidates(ls, skip)
  /\ step' = IF Len(cands') < PickMin THEN "sections" ELSE "picking"
  /\ UNCHANGED <<scan, try, upTo, secs>>

\* pickHeadings: a batch's reply names lines; those of other batches, or named before,
\* are passed over.
PickHeadings(reply) ==
  LET until == IF upTo + PickBatch < Len(cands) THEN upTo + PickBatch ELSE Len(cands)
      picked == FoldLeft(LAMBDA out, h :
          IF h.line \notin (upTo + 1)..until \/ h.line \in out.used THEN out
          ELSE [used |-> out.used \cup {h.line},
                secs |-> Append(out.secs, Section(cands[h.line].text, h.level, cands[h.line].page))],
        [used |-> {}, secs |-> secs], reply).secs
  IN /\ step = "picking" /\ try' = 0 /\ upTo' = until
     /\ step' = IF until = Len(cands) THEN "sections" ELSE "picking"
     /\ secs' = IF until = Len(cands) /\ Len(picked) < PickMin THEN <<>> ELSE picked
     /\ pageLines' = <<>>
     /\ UNCHANGED <<scan, cands>>

\* Those outside the book are dropped, and a book without any is one section.
Index ==
  /\ step = "sections" /\ step' = "indexed"
  /\ LET kept == AssignEndPages(CleanSections(secs))
     IN secs' = IF kept = <<>> THEN <<[Section("whole", 1, 1) EXCEPT !.end = BookPages]>> ELSE kept
  /\ scan' = NoScan /\ pageLines' = <<>> /\ cands' = <<>> /\ upTo' = 0 /\ UNCHANGED try

Init == /\ step = "start" /\ scan = NoScan /\ try = 0 /\ pageLines = <<>> /\ cands = <<>>
        /\ upTo = 0 /\ secs = <<>>

Outlined == {Section("o", level, page) : level \in 1..2, page \in 0..(BookPages + 1)}
Replies == [line : 0..3, level : 1..2]

Next ==
  \/ AskAgain \/ AskFails \/ Index
  \/ step = "start" /\ \E es \in BoundedSeq(Outlined, MaxHeadings) : Outline(es)
  \/ step = "start" /\ \E b \in Scans : ReadPrinted(b)
  \/ \E detected \in {{}, {0}} : PlaceEntries(detected)
  \/ /\ step \in {"start", "lines"}
     /\ \E ls \in [1..MaxHeadings -> Lines], skip \in {{}, {Printed}} : HeadingCandidates(ls, skip)
  \/ step = "picking" /\ \E reply \in BoundedSeq(Replies, 2) : PickHeadings(reply)

Spec == Init /\ [][Next]_vars

-----------------------------------------------------------------------------

TypeOK ==
  /\ step \in {"start", "printed", "lines", "picking", "sections", "indexed", "failed"}
  /\ try \in 0..1 /\ upTo \in 0..Len(cands)
  /\ \A i \in 1..Len(secs) : secs[i].level \in 1..2 /\ secs[i].end \in 0..BookPages

\* Where nothing mentions a title on another page, an entry whose heading can be read is
\* placed there, whatever became of the others' headings, of running heads that repeat
\* the titles, and of the pages the scan lost.
EntriesAreFound ==
  scan # NoScan /\ step = "sections" =>
    \A i \in 1..Len(secs) :
      LET e == secs[i].title IN
      (scan.at = 0 /\ scan.has[e] = "heading") => secs[i].page = scan.starts[e]

\* What the model may pick from: each text once, on the first of its pages.
CandidatesAreFirsts ==
  pageLines # <<>> =>
    \A i \in 1..Len(cands) :
      /\ \A j \in 1..(i - 1) : cands[j].page <= cands[i].page /\ cands[j].text # cands[i].text
      /\ \E k \in 1..Len(pageLines) : pageLines[k].page = cands[i].page /\ pageLines[k].text = cands[i].text

\* The sections of a book: in order, one within another or apart but for a page they
\* share, and together the whole book from where the first begins.
SectionsNest ==
  step = "indexed" =>
    /\ \A i \in 1..Len(secs), j \in 1..Len(secs) :
         i < j => /\ secs[i].page <= secs[j].page
                  /\ \/ secs[i].end < secs[j].page
                     \/ secs[j].level > secs[i].level /\ secs[j].end <= secs[i].end
                     \/ secs[i].end = secs[i].page /\ secs[j].page = secs[i].page
    /\ \A p \in secs[1].page..BookPages : \E i \in 1..Len(secs) : p \in secs[i].page..secs[i].end

ContentsAreTheBooks == EntriesAreFound /\ CandidatesAreFirsts /\ SectionsNest
=============================================================================
