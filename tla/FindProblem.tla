----------------------------- MODULE FindProblem -----------------------------
(***************************************************************************)
(* How a question's problem is found in its book (homework/find.go,        *)
(* scope.go, locate.go): pages are shown to the Finder a batch at a time,  *)
(* it picks one, and the Reader, who writes the problem out, says whether  *)
(* it is on the page; if not, the rest of the batch is shown again.  Which *)
(* pages, and in which order, is worked out before: the page the student   *)
(* pinned; or where the book's numbering and contents say the problem must *)
(* be; or what search finds, twice, and then the chapter's last pages.     *)
(*                                                                         *)
(* The models may say anything.  Left out: boxes, figures, hints, how a    *)
(* reference is read and how a reply is parsed.                            *)
(*                                                                         *)
(* Bounds: ScanPages; the code's scopeMax (16), scopeFirst (4), scopeBatch *)
(* (6), round sizes (6, 10), labelScanMax (4) and sweep (2 of 8) are       *)
(* constants, made small; MaxMishaps calls that fail or pages that cannot  *)
(* be drawn.                                                               *)
(***************************************************************************)
EXTENDS Integers, Sequences, SequencesExt, FiniteSets

CONSTANTS ScanPages, ScopeMax, ScopeFirst, ScopeBatch, FirstRound, WiderRound, LabelMax,
          SweepBatch, SweepBatches, FindMishaps

VARIABLES
  want,   \* how the problem is named, where it may be (lo to hi) and where it is (0 nowhere)
  coming, \* the batches still to show
  batch,  \* the one being asked about, less what the Reader refused
  refused, \* the pages on which the Reader has not seen the problem
  fooled, \* whether the Finder passed over the problem's page or the Reader misjudged one
  trips,  \* mishaps so far
  state,  \* "idle", "looking", "found", "nowhere" or "failed"
  found   \* the page, 0 before

vars == <<want, coming, batch, refused, fooled, trips, state, found>>

Pages == 1..ScanPages
ScopeSlack == 1

-----------------------------------------------------------------------------
(* The pages, most likely first.                                           *)

Distinct_Unchecked(seq) ==
  FoldLeft(LAMBDA out, p : IF ~Contains(out, p) THEN Append(out, p) ELSE out, <<>>, seq)

Distinct(seq) ==
  FoldLeft(LAMBDA out, p : IF p \in Pages /\ ~Contains(out, p) THEN Append(out, p) ELSE out, <<>>, seq)

AtMost(n, seq) == SubSeq(seq, 1, IF Len(seq) < n THEN Len(seq) ELSE n)
Upwards(lo, hi) == [i \in 1..(IF hi < lo THEN 0 ELSE hi - lo + 1) |-> lo + i - 1]
Lesser(a, b) == IF a < b THEN a ELSE b
Greater(a, b) == IF a > b THEN a ELSE b
InPageOrder(S) == SetToSortSeq(S, <)

\* A sequence cut in batches, the first of another size.
Batches(seq, first, next) ==
  LET n == IF seq = <<>> THEN 0
           ELSE 1 + (IF Len(seq) <= first THEN 0 ELSE (Len(seq) - first + next - 1) \div next)
      From(i) == IF i = 1 THEN 1 ELSE first + (i - 2) * next + 1
  IN [i \in 1..n |-> SubSeq(seq, From(i), Lesser(From(i + 1) - 1, Len(seq)))]

\* A cited page and those beside it.
Cited(at) == Distinct(<<at, at + 1, at - 1, at + 2>>)

\* Where the reference's part of the book is (start to end), which of its pages have a
\* problem heading or a line with the problem's number, and where the contents put its
\* problems (0 when they do not say).
Scope(part) ==
  LET end == Lesser(part.end + ScopeSlack, ScanPages)
      listed == part.problems \in part.start..end
      probHi == Lesser(part.problems + ScopeSlack, end)
      headings == part.headings \cap (part.start..end)
      headed == headings # {}
      from == IF headed THEN CHOOSE p \in headings : \A h \in headings : p <= h
              ELSE IF listed THEN part.problems ELSE part.start
      exact == InPageOrder(part.lines \cap (from..end))
  IN [lo |-> part.start, hi |-> end, exact |-> ToSet(exact),
      pages |-> Distinct(exact \o (IF listed THEN Upwards(part.problems, probHi) ELSE <<>>)
                               \o (IF headed THEN Upwards(from, end) ELSE <<>>)
                               \o Reverse(Upwards(part.start, end)))]

\* A round of search: the cited page and its neighbours, pages that open a line with the
\* label, then search's own.
Candidates(s, k, exclude) ==
  LET asked == k + Cardinality(exclude)
      all == (IF s.cited = 0 THEN <<>> ELSE <<s.cited, s.cited + 1, s.cited - 1>>)
             \o AtMost(LabelMax, InPageOrder(s.labels)) \o AtMost(asked, s.hits)
  IN AtMost(k, SelectSeq(Distinct(all), LAMBDA p : p \notin exclude))

\* The chapter's last pages, the last batch first.
SweepBatchesOf(start, end) ==
  LET lo == Greater(start, end - SweepBatch * SweepBatches + 1)
      n == (end - lo + SweepBatch) \div SweepBatch
  IN IF end < start THEN <<>>
     ELSE [i \in 1..n |-> LET hi == end - (i - 1) * SweepBatch
                          IN Upwards(Greater(lo, hi - SweepBatch + 1), hi)]

Rounds(s) ==
  LET first == Candidates(s, FirstRound, {})
      second == IF first = <<>> THEN <<>> ELSE Candidates(s, WiderRound, ToSet(first))
  IN SelectSeq(<<first, second>>, LAMBDA b : b # <<>>) \o SweepBatchesOf(s.start, s.end)

-----------------------------------------------------------------------------

NoWant == [by |-> "none", lo |-> 1, hi |-> ScanPages, exact |-> {}, on |-> 0]

Look(by, lo, hi, exact, on, batches) ==
  /\ state = "idle"
  /\ want' = [by |-> by, lo |-> lo, hi |-> hi, exact |-> exact, on |-> on]
  /\ coming' = batches /\ state' = "looking"
  /\ UNCHANGED <<batch, refused, fooled, trips, found>>

Pinned(p, on) == Look("pin", p, p, {}, on, <<<<p>>>>)

\* findInScope: the pages with the line first, in batches, up to a limit.
InScope(part, on) ==
  LET sc == Scope(part)
      first == SelectSeq(sc.pages, LAMBDA p : p \in sc.exact)
      pages == first \o SelectSeq(sc.pages, LAMBDA p : p \notin sc.exact)
  IN Look("scope", sc.lo, sc.hi, sc.exact, on,
          Batches(AtMost(ScopeMax, pages), ScopeFirst, ScopeBatch))

CitedScope(at, on) ==
  Look("scope", Greater(1, at - 1), Lesser(ScanPages, at + 2), {}, on,
       Batches(AtMost(ScopeMax, Cited(at)), ScopeFirst, ScopeBatch))

Searched(s, on) == Look("search", 1, ScanPages, {}, on, Rounds(s))

\* The next pages, or none are left.
NextBatch ==
  /\ state = "looking" /\ batch = <<>>
  /\ IF coming = <<>> THEN state' = "nowhere" /\ UNCHANGED <<batch, coming>>
     ELSE batch' = Head(coming) /\ coming' = Tail(coming) /\ UNCHANGED state
  /\ UNCHANGED <<want, refused, fooled, trips, found>>

\* locateOnce, of which p is the Finder's pick, 0 if it picks none that was shown or its
\* reply is no JSON; a page that cannot be drawn is not shown.  That findInScope passes
\* over a page outside the scope changes nothing: FindsIt says there is none.
LocateOnce(p, undrawn, seen) ==
  LET shown == SelectSeq(batch, LAMBDA q : q \notin undrawn)
      rest == SelectSeq(batch, LAMBDA q : q # p)
  IN /\ state = "looking" /\ batch # <<>>
     /\ undrawn # {} => trips < FindMishaps
     /\ trips' = IF undrawn = {} THEN trips ELSE trips + 1
     /\ IF p = 0
        THEN /\ batch' = <<>> /\ ~seen /\ UNCHANGED <<state, found, refused>>
             /\ fooled' = (fooled \/ Contains(batch, want.on))
        ELSE /\ Contains(shown, p)
             /\ fooled' = (fooled \/ seen # (p = want.on))
             /\ IF seen
                THEN /\ state' = "found" /\ found' = p /\ batch' = <<>>
                     /\ UNCHANGED refused
                ELSE batch' = rest /\ refused' = refused \cup {p} /\ UNCHANGED <<state, found>>
     /\ UNCHANGED <<want, coming>>

\* A call fails or the step is stopped.
Fails == /\ state = "looking" /\ batch # <<>> /\ trips < FindMishaps
         /\ state' = "failed" /\ trips' = trips + 1 /\ batch' = <<>> /\ coming' = <<>>
         /\ UNCHANGED <<want, refused, fooled, found>>

Init == /\ want = NoWant /\ coming = <<>> /\ batch = <<>> /\ refused = {} /\ fooled = FALSE
        /\ trips = 0 /\ state = "idle" /\ found = 0

BookParts == [start : 1..2, end : 3..4, headings : SUBSET {3}, lines : SUBSET {1, 3, 4}, problems : {0, 4}]
Searches == [cited : {0, 1}, labels : SUBSET {2, 5}, hits : {<<>>, <<4, 2, 5, 1>>}, start : {2}, end : {1, 5}]

Next ==
  \/ /\ state = "idle"
     /\ \E on \in 0..ScanPages :
          \/ \E p \in Pages : Pinned(p, on) \/ CitedScope(p, on)
          \/ \E part \in BookParts : InScope(part, on)
          \/ \E s \in Searches : Searched(s, on)
  \/ NextBatch \/ Fails
  \/ \E p \in 0..ScanPages, undrawn \in {{}} \cup {{q} : q \in Pages}, seen \in BOOLEAN :
       undrawn \subseteq ToSet(batch) /\ LocateOnce(p, undrawn, seen)

Spec == Init /\ [][Next]_vars

-----------------------------------------------------------------------------

Left == ToSet(batch) \cup UNION {ToSet(coming[i]) : i \in 1..Len(coming)}

TypeOK == /\ state \in {"idle", "looking", "found", "nowhere", "failed"} /\ found \in 0..ScanPages
          /\ want.on \in 0..ScanPages /\ refused \subseteq Pages /\ trips \in 0..FindMishaps
          /\ Left \subseteq Pages /\ fooled \in BOOLEAN

\* A find that was not fooled, by the Finder passing over the problem's page, the Reader
\* misjudging one or a page that could not be drawn, ends on the problem's page if it
\* was to be shown, whatever other pages the Finder picked before; it ends nowhere only
\* if that page was none of those to show, which are all of a scope that is not too long.
\* It ends in the scope, and there never on a page refused before (a search's sweep shows
\* those again).
FindsIt ==
  /\ state = "nowhere" /\ ~fooled => want.on \notin refused
  /\ found # 0 /\ ~fooled => found = want.on
  /\ found # 0 => found \in want.lo..want.hi /\ (want.by # "search" => found \notin refused)
  /\ state = "nowhere" /\ ~fooled /\ want.by # "search" /\ want.hi - want.lo < ScopeMax =>
       want.on \notin want.lo..want.hi

\* In a scope or on a pinned page nothing is shown twice once it was refused, and a page
\* with the problem's line is shown before any without one.
LooksInOrder ==
  want.by # "search" =>
    /\ refused \cap Left = {}
    /\ \A i \in 1..Len(coming) :
         LET earlier == ToSet(batch) \cup UNION {ToSet(coming[j]) : j \in 1..(i - 1)}
         IN /\ ToSet(coming[i]) \cap earlier = {}
            /\ ToSet(coming[i]) \cap want.exact # {} => earlier \subseteq want.exact

ProblemIsFound == FindsIt /\ LooksInOrder
=============================================================================
