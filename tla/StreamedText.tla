----------------------------- MODULE StreamedText -----------------------------
(***************************************************************************)
(* A text field of a block while the model writes it: the runs that go out *)
(* as it grows, against those of the whole text, which replace them when   *)
(* the block is complete.  A text is a sequence of symbols: letters,       *)
(* spaces, the delimiters of inline math, which stand for the display ones *)
(* too, marks, dollars, brackets and what may stand between two.           *)
(* JSON escapes, \textbf and the like, \$ and amounts of money are left    *)
(* out.  Bounds: Alphabets, MaxText; the code has 24 for MaxCite.          *)
(***************************************************************************)
EXTENDS Integers, FiniteSets, Sequences, SequencesExt

CONSTANTS
  Alphabets, \* bound: a text is of the symbols of one of them
  MaxText,   \* bound
  MaxCite    \* how long an open bracket may become a citation

\* "open" and "shut" are the delimiters of math, "p" is the inside of a citation.
Symbols == {"a", "space", "open", "shut", "[", "]", "p", "$", "tick", "*"}

VARIABLES
  text,    \* what has arrived
  closed,  \* the string is whole
  emitted, \* how much of it has been sent
  streamed, \* the runs sent
  letters  \* the symbols of this text

textVars == <<text, closed, emitted, streamed, letters>>

\* The places from i on at which a symbol stands, and the first and last of some.
At(s, x, i) == {j \in i..Len(s) : s[j] = x}
FirstOf(is) == CHOOSE i \in is : \A j \in is : i <= j
LastOf(is) == CHOOSE i \in is : \A j \in is : j <= i
IsSpace(s, i) == i \in 1..Len(s) /\ s[i] = "space"

-----------------------------------------------------------------------------
(* Split.                                                                  *)

\* A token: what it is, the symbols it stands for, how many of the text it took.
Tok(kind, s, n) == [kind |-> kind, s |-> s, n |-> n, open |-> FALSE, close |-> FALSE,
                    paired |-> FALSE, b |-> FALSE, i |-> FALSE, code |-> FALSE]

\* A marker opens before, and closes after, what is no space.
Mark(s, i, endOpens) ==
  LET n == IF i < Len(s) /\ s[i + 1] = "*" THEN 2 ELSE 1
  IN [Tok("mark", SubSeq(s, i, i + n - 1), n) EXCEPT
        !.open = IF i + n > Len(s) THEN endOpens ELSE ~IsSpace(s, i + n),
        !.close = i > 1 /\ ~IsSpace(s, i - 1)]

\* singleDollar: the place of the dollar that closes math opened at i, 0 for none.
Dollar(s, i) ==
  LET js == At(s, "$", i + 1)
  IN IF i = Len(s) \/ IsSpace(s, i + 1) \/ js = {} THEN 0
     ELSE IF FirstOf(js) = i + 1 \/ IsSpace(s, FirstOf(js) - 1) THEN 0
     ELSE FirstOf(js)

\* dollarMath: one dollar, or two; two that close at once hold nothing.
DollarMath(s, i) ==
  LET two == i < Len(s) /\ s[i + 1] = "$"
      js == {j \in At(s, "$", i + 2) : j < Len(s) /\ s[j + 1] = "$"}
      one == Dollar(s, IF two THEN i + 1 ELSE i)
  IN IF two /\ js # {} /\ FirstOf(js) > i + 2
       THEN Tok("math", SubSeq(s, i + 2, FirstOf(js) - 1), FirstOf(js) + 2 - i)
     ELSE IF one = 0 THEN Tok("text", <<"$">>, 1)
     ELSE Tok("math", SubSeq(s, IF two THEN i + 2 ELSE i + 1, one - 1), one + 1 - i)

\* tokenize, at i.
TokAt(s, i) ==
  LET math == At(s, "shut", i)
      code == At(s, "tick", i + 1)
  IN CASE s[i] = "open" /\ math # {} ->
            Tok("math", SubSeq(s, i + 1, FirstOf(math) - 1), FirstOf(math) + 1 - i)
       [] s[i] = "$" -> DollarMath(s, i)
       [] s[i] = "[" /\ i + 2 <= Len(s) /\ SubSeq(s, i + 1, i + 2) = <<"p", "]">> ->
            Tok("cite", <<>>, 3)
       [] s[i] = "tick" /\ code # {} /\ FirstOf(code) > i + 1 ->
            [Tok("text", SubSeq(s, i + 1, FirstOf(code) - 1), FirstOf(code) + 1 - i)
               EXCEPT !.code = TRUE]
       [] s[i] = "*" -> Mark(s, i, FALSE)
       [] OTHER -> Tok("text", <<s[i]>>, 1)

Tokenize(s) ==
  LET from[i \in 1..Len(s) + 1] ==
        IF i > Len(s) THEN <<>> ELSE <<TokAt(s, i)>> \o from[i + TokAt(s, i).n]
  IN from[1]

\* pair: each marker that opens takes the next like it that closes.
Pair(toks) ==
  LET Closers(ts, a) == {b \in a + 1..Len(ts) : /\ ts[b].kind = "mark" /\ ts[b].close
                                                /\ ~ts[b].paired /\ ts[b].s = ts[a].s}
      Between(ts, a, b) ==
        [k \in 1..Len(ts) |->
           IF k \in {a, b} THEN [ts[k] EXCEPT !.paired = TRUE]
           ELSE IF a < k /\ k < b /\ ts[k].kind = "text"
             THEN IF Len(ts[a].s) = 2 THEN [ts[k] EXCEPT !.b = TRUE] ELSE [ts[k] EXCEPT !.i = TRUE]
           ELSE ts[k]]
      One(ts, a) ==
        IF /\ ts[a].kind = "mark" /\ ts[a].open /\ ~ts[a].paired
           /\ Closers(ts, a) # {}
          THEN Between(ts, a, FirstOf(Closers(ts, a))) ELSE ts
  IN FoldLeft(One, toks, [k \in 1..Len(toks) |-> k])

\* Neighbours that look the same are one run.
Merged(runs) ==
  LET Put(l, r) ==
        IF /\ l # <<>> /\ r.kind = "text" /\ l[Len(l)].kind = "text"
           /\ [l[Len(l)] EXCEPT !.s = r.s] = r
          THEN Front(l) \o <<[r EXCEPT !.s = l[Len(l)].s \o r.s]>>
        ELSE Append(l, r)
  IN FoldLeft(Put, <<>>, runs)

\* runsOf: markers that found no other are text, and empty runs are none.
Split(s) ==
  LET toks == SelectSeq(Pair(Tokenize(s)), LAMBDA t : t.kind # "mark" \/ ~t.paired)
      Run(t) == [kind |-> IF t.kind = "mark" THEN "text" ELSE t.kind, s |-> t.s,
                 b |-> t.b, i |-> t.i, code |-> t.code]
      runs == [k \in 1..Len(toks) |-> Run(toks[k])]
      \* TeX is trimmed.
      Empty(r) == r.kind = "math" /\ \A k \in 1..Len(r.s) : r.s[k] = "space"
  IN Merged(SelectSeq(runs, LAMBDA r : ~Empty(r)))

-----------------------------------------------------------------------------
(* stream.                                                                 *)

\* tokenizeMarks: the markers outside math and code, up to where one of these is open.
Marks(s) ==
  LET Closer(i) == IF s[i] = "open" THEN At(s, "shut", i) ELSE At(s, "tick", i + 1)
      from[i \in 1..Len(s) + 1] ==
        IF i > Len(s) THEN <<>>
        ELSE IF s[i] \in {"open", "tick"}
          THEN IF Closer(i) = {} THEN <<>> ELSE from[FirstOf(Closer(i)) + 1]
        ELSE IF s[i] = "*" THEN <<[at |-> i, tok |-> Mark(s, i, TRUE)]>> \o from[i + Mark(s, i, TRUE).n]
        ELSE from[i + 1]
  IN from[1]

\* What precedes the first marker still open, all of it when there is none.
BeforeOpenMark(s) ==
  LET marks == Marks(s)
      paired == Pair([k \in 1..Len(marks) |-> marks[k].tok])
      opens == {k \in 1..Len(marks) : paired[k].open /\ ~paired[k].paired}
  IN IF opens = {} THEN Len(s) ELSE marks[FirstOf(opens)].at - 1

\* stableLen: how much of it nothing that follows can change.  Up to what may become
\* math, a citation or code,
Undecided(s) ==
  LET n == Len(s)
      ticks == At(s, "tick", 1)
  IN {i \in 1..n : s[i] = "open" /\ At(s, "shut", i) = {} /\ At(s, "open", i + 1) = {}}
       \cup {i \in 1..n : /\ s[i] = "[" /\ At(s, "]", i) = {} /\ At(s, "[", i + 1) = {}
                          /\ n - i < MaxCite}
       \cup At(s, "$", 1)
       \cup (IF Cardinality(ticks) % 2 = 1 THEN {LastOf(ticks)} ELSE {})

Settled(s) == IF Undecided(s) = {} THEN Len(s) ELSE FirstOf(Undecided(s)) - 1

\* and of that up to a marker still open; the cut may leave an earlier one open.
StableLen(s) ==
  FoldLeft(LAMBDA k, j : BeforeOpenMark(SubSeq(s, 1, k)), Settled(s), [j \in 1..Len(s) |-> j])

Stream(whole) ==
  LET safe == IF whole THEN Len(text') ELSE StableLen(text')
  IN IF safe <= emitted THEN UNCHANGED <<emitted, streamed>>
     ELSE /\ emitted' = safe
          /\ streamed' = Merged(streamed \o Split(SubSeq(text', emitted + 1, safe)))

\* The text grows; a chunk may end here or go on.
Arrives(x) ==
  /\ ~closed /\ Len(text) < MaxText
  /\ text' = Append(text, x)
  /\ Stream(FALSE) \/ UNCHANGED <<emitted, streamed>>
  /\ UNCHANGED <<closed, letters>>

Closes ==
  /\ ~closed /\ closed' = TRUE
  /\ UNCHANGED <<text, letters>>
  /\ Stream(TRUE)

-----------------------------------------------------------------------------

Init == /\ text = <<>> /\ closed = FALSE /\ emitted = 0 /\ streamed = <<>>
        /\ letters \in Alphabets

Next == Closes \/ \E x \in letters : Arrives(x)

Spec == Init /\ [][Next]_textVars

-----------------------------------------------------------------------------

TypeOK == /\ text \in Seq(Symbols) /\ closed \in BOOLEAN /\ emitted \in 0..Len(text)
          /\ letters \in Alphabets
          /\ \A k \in 1..Len(streamed) : streamed[k].kind \in {"text", "math", "cite"}

\* What it takes for settled too early: math or code with a delimiter in it (the last one
\* is looked for), code that is empty, and one star that closes before a second one comes.
Odd(s) ==
  LET Inside(x, y, ends) == \E i, j \in 1..Len(s) : /\ i < j /\ s[i] = x /\ s[j] \in ends
                                                   /\ \A k \in i + 1..j : s[k] # y
  IN \/ Inside("open", "shut", {"open", "[", "tick", "$"})
     \/ Inside("tick", "tick", {"open", "[", "$"})
     \/ \E i \in 2..Len(s) : s[i - 1] = "tick" /\ s[i] = "tick"
     \/ \E i \in 1..Len(s), j \in 3..Len(s) - 1 :
          i < j - 1 /\ s[i] = "*" /\ s[j] = "*" /\ s[j + 1] = "*" /\ s[j - 1] # "space"
          /\ (i = 1 \/ s[i - 1] # "*") /\ \A k \in i + 1..j - 1 : s[k] # "*"

\* What was sent of a text as it came, however it was cut in chunks, is what the whole
\* text is, unless it is one of the odd ones.
StreamsWhatItIs == closed /\ ~Odd(text) => streamed = Split(text)
=============================================================================
