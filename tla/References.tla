------------------------------ MODULE References ------------------------------
(***************************************************************************)
(* How a question's text is read as problems of the book                   *)
(* (homework/reference.go), and split into one question for each           *)
(* (splitDraft), whose texts are read again when they are looked for.      *)
(*                                                                         *)
(* A text is a sequence of words; page citations and notes in parentheses  *)
(* are words of their own, and a part written next to its number belongs   *)
(* to it.  Left out: how words are told apart, numbers in words and        *)
(* prefixed ones, maxRange, a long text whose reference ends late, notes   *)
(* that cite pages, and "#" before a dotted number.                        *)
(*                                                                         *)
(* Bounds: Wordings, sets of words a text is made of; MaxWords.            *)
(***************************************************************************)
EXTENDS Integers, Sequences, SequencesExt, FiniteSets

CONSTANTS Wordings, MaxWords

VARIABLES
  wording, \* the words of this text
  draft,   \* the text so far
  form,    \* how the book numbers problems, once the draft is split; "none" before
  inBook,  \* whether it is said to be in the book
  split    \* the texts of its questions

vars == <<wording, draft, form, inBook, split>>

Word(kind, at, part) == [k |-> kind, at |-> at, p |-> part, note |-> <<>>]

\* A dotted number with a colon starts a list of its section's problems.
WordOf(w) ==
  CASE w = "Section" -> Word("section", <<>>, <<>>)
    [] w = "Problem" -> Word("problem", <<>>, <<>>)
    [] w = "Review problem" -> Word("review", <<>>, <<>>)
    [] w = "4" -> Word("plain", <<4>>, <<>>)
    [] w = "7a" -> Word("plain", <<7>>, <<"a">>)
    [] w = "#6" -> Word("hash", <<6>>, <<>>)
    [] w = "1.1" -> Word("dotted", <<1, 1>>, <<>>)
    [] w = "1.2:" -> Word("colon", <<1, 2>>, <<>>)
    [] w = "2.1:" -> Word("colon", <<2, 1>>, <<>>)
    [] w = "2.1.5" -> Word("dotted", <<2, 1, 5>>, <<>>)
    [] w = "2-5" -> Word("range", <<2, 5>>, <<>>)
    [] w = "1.2-4" -> Word("range", <<1, 2, 4>>, <<>>)
    [] w = "odd" -> Word("parity", <<1>>, <<>>)
    [] w = "even" -> Word("parity", <<0>>, <<>>)
    [] w = "(b)" -> Word("lone", <<>>, <<"b">>)
    [] w = "p. 33" -> Word("page", <<33>>, <<>>)
    [] w = "(note)" -> [Word("note", <<>>, <<>>) EXCEPT !.note = <<"note">>]
    [] w = "prose" -> Word("prose", <<>>, <<>>)
    [] w = "paragraph" -> Word("long", <<>>, <<>>)

-----------------------------------------------------------------------------

\* A number as the text has it: 7a is [at |-> <<7>>, p |-> <<"a">>].
Number(at, part) == [at |-> at, p |-> part]
Nothing == Number(<<>>, <<>>)

Expand(w) ==
  LET n == Len(w.at)
      Under(i) == SubSeq(w.at, 1, n - 2) \o <<w.at[n - 1] + i - 1>>
  IN [i \in 1..(w.at[n] - w.at[n - 1] + 1) |-> Number(Under(i), <<>>)]

KeepParity(ns, w) == SelectSeq(ns, LAMBDA n : Last(n.at) % 2 = w.at[1])

\* partLetters: each once.
Letters(p) == FoldLeft(LAMBDA out, l : IF Contains(out, l) THEN out ELSE Append(out, l), <<>>, p)

AddPart(ns, p) == [ns EXCEPT ![Len(ns)].p = @ \o p]

Unread == [section |-> Nothing, expect |-> FALSE, nums |-> <<>>, dots |-> <<>>, lastWasNumber |-> FALSE,
           ranged |-> <<>>, plain |-> FALSE, notes |-> <<>>, end |-> "none"]

\* A word that is none of a reference's: what follows is a note, unless nothing came
\* before it, or the text is so long that it is a problem written out.
Prose(acc, w) ==
  IF acc.nums \o acc.dots = <<>> /\ acc.section = Nothing THEN [acc EXCEPT !.end = "words"]
  ELSE IF w.k = "long" /\ ~acc.plain THEN [acc EXCEPT !.end = "refused"]
  ELSE [acc EXCEPT !.notes = Append(@, "prose"), !.end = "prose"]

Dotted(w) == w.k \in {"dotted", "colon"} /\ Len(w.at) \in 2..3

\* One word, of a range or not.
OneWord(acc, w) ==
  LET n == Number(w.at, w.p) IN
  CASE w.k = "lone" /\ acc.nums \o acc.dots # <<>> ->
         IF acc.nums # <<>> /\ acc.lastWasNumber THEN [acc EXCEPT !.nums = AddPart(@, w.p)]
         ELSE IF acc.dots # <<>> THEN [acc EXCEPT !.dots = AddPart(@, w.p)]
         ELSE [acc EXCEPT !.end = "panic"] \* the last of none is asked for
    [] w.k = "hash" -> [acc EXCEPT !.nums = Append(@, n), !.plain = TRUE, !.lastWasNumber = TRUE]
    [] w.k = "section" -> [acc EXCEPT !.expect = TRUE, !.plain = TRUE]
    [] w.k = "problem" -> [acc EXCEPT !.plain = TRUE]
    [] (Dotted(w) \/ w.k = "plain") /\ acc.expect /\ acc.section = Nothing ->
         [acc EXCEPT !.section = n, !.expect = FALSE]
    [] Dotted(w) -> [acc EXCEPT !.dots = Append(@, n), !.plain = TRUE, !.lastWasNumber = FALSE]
    [] w.k = "plain" -> [acc EXCEPT !.nums = Append(@, n), !.lastWasNumber = TRUE]
    [] OTHER -> Prose(acc, w)

Drop(ns, many) == SubSeq(ns, 1, Len(ns) - many)

ReadWord(acc, w) ==
  IF acc.end # "none" THEN acc
  ELSE IF w.k = "range" /\ ~acc.expect
    THEN LET ns == Expand(w)
             read == [acc EXCEPT !.ranged = ns, !.plain = TRUE]
         IN IF Len(w.at) = 3 THEN [read EXCEPT !.dots = @ \o ns] ELSE [read EXCEPT !.nums = @ \o ns]
  ELSE IF w.k = "parity" /\ acc.ranged # <<>>
    THEN LET kept == KeepParity(acc.ranged, w)
             Keep(ns) == Drop(ns, Len(acc.ranged)) \o kept
             read == [acc EXCEPT !.ranged = <<>>]
         IN IF Len(acc.ranged[1].at) = 2 THEN [read EXCEPT !.dots = Keep(@)]
            ELSE [read EXCEPT !.nums = Keep(@)]
  ELSE OneWord([acc EXCEPT !.ranged = <<>>], w)

-----------------------------------------------------------------------------

Of(text, kinds) == SelectSeq(text, LAMBDA w : w.k \in kinds)

Refused == [refs |-> <<>>, panic |-> FALSE]

\* What a reference to a problem says; what is cited holds for all of a text's.
Ref(chapter, section, n, part, cited) ==
  [chapter |-> chapter, section |-> section, number |-> n, part |-> Letters(part),
   page |-> cited.page, note |-> cited.note]

Listed(nums, chapter, section, cited) ==
  [i \in 1..Len(nums) |-> Ref(chapter, section, nums[i].at[1], nums[i].p, cited)]

OfDotted(d, cited) ==
  IF Len(d.at) = 3 THEN Ref(d.at[1], Number(SubSeq(d.at, 1, 2), <<>>), d.at[3], d.p, cited)
  ELSE Ref(d.at[1], Nothing, d.at[2], d.p, cited)

RefsOf(acc, style, cited) ==
  CASE acc.end \in {"panic", "words", "refused"} -> <<>>
    [] acc.nums # <<>> /\ Len(acc.section.at) > 1 -> Listed(acc.nums, acc.section.at[1], acc.section, cited)
    [] acc.nums # <<>> /\ Len(acc.section.at) = 1 -> Listed(acc.nums, acc.section.at[1], Nothing, cited)
    [] acc.nums # <<>> /\ Len(acc.dots) = 1 /\ Len(acc.dots[1].at) = 2 ->
         Listed(acc.nums, acc.dots[1].at[1], acc.dots[1], cited)
    [] acc.nums = <<>> /\ acc.dots # <<>> ->
         IF style = "local" /\ \E i \in 1..Len(acc.dots) : Len(acc.dots[i].at) = 2 THEN <<>>
         ELSE [i \in 1..Len(acc.dots) |-> OfDotted(acc.dots[i], cited)]
    [] acc.nums # <<>> /\ cited.page > 0 -> Listed(acc.nums, 0, Nothing, cited)
    [] OTHER -> <<>>

PageCited(text) == LET pages == Of(text, {"page"}) IN IF pages = <<>> THEN 0 ELSE pages[1].at[1]

WordsRead(acc, text, style) ==
  [panic |-> acc.end = "panic", words |-> acc.end = "words",
   refs |-> RefsOf(acc, style, [page |-> PageCited(text),
                                note |-> FlattenSeq([i \in 1..Len(text) |-> text[i].note]) \o acc.notes])]

\* parseOne, but for what refInWords makes of it.
ParseWords(text, style) ==
  WordsRead(FoldLeft(ReadWord, Unread, SelectSeq(text, LAMBDA w : w.k \notin {"page", "note"})), text, style)

\* refInWords: the one problem that the writer's own words name.
InWords(text, style) ==
  LET named == {<<text[i], text[i + 1]>> : i \in {i \in 1..Len(text) - 1 :
                  text[i].k \in {"problem", "review"} /\ Dotted(text[i + 1])}}
      Named(refs) == IF Len(refs) # 1 THEN <<>>
                     ELSE <<[refs[1] EXCEPT !.page = PageCited(text), !.note = <<"text">>]>>
  IN [panic |-> FALSE,
      refs |-> IF Cardinality(named) # 1 THEN <<>>
               ELSE Named(ParseWords(CHOOSE n \in named : TRUE, style).refs)]

ParseOne(text, style) ==
  LET Read(read) == IF read.words THEN InWords(text, style) ELSE [panic |-> read.panic, refs |-> read.refs]
  IN Read(ParseWords(text, style))

\* A section with a colon, or a "#" after it.
SectionStarts(text) ==
  {i \in 1..Len(text) : \/ text[i].k = "colon"
                        \/ /\ text[i].k = "dotted" /\ Len(text[i].at) = 2
                           /\ i < Len(text) /\ text[i + 1].k = "hash"}

PartsAt(text, starts) ==
  LET n == Len(starts)
  IN [i \in 1..n |-> SubSeq(text, IF i = 1 THEN 1 ELSE starts[i],
                            IF i = n THEN Len(text) ELSE starts[i + 1] - 1)]

\* Several sections, each with its own list, are read one at a time, unless one is no
\* reference; problems of a set of the book's own are none.
ParseRefs(text, style) ==
  LET parts == PartsAt(text, SetToSortSeq(SectionStarts(text), <))
      Joined(read) ==
        LET failed == {i \in 1..Len(read) : read[i].refs = <<>>} IN
        CASE \E i \in failed : read[i].panic /\ \A j \in failed : i <= j -> [refs |-> <<>>, panic |-> TRUE]
          [] failed = {} -> [refs |-> FlattenSeq([i \in 1..Len(read) |-> read[i].refs]), panic |-> FALSE]
          [] OTHER -> ParseOne(text, style)
  IN CASE Of(text, {"review"}) # <<>> -> Refused
       [] Of(text, {"review"}) = <<>> /\ Len(parts) > 1 ->
            Joined([i \in 1..Len(parts) |-> ParseOne(parts[i], style)])
       [] OTHER -> ParseOne(text, style)

\* Label, and the note, as the text of a question.
TextOf(r, style) ==
  LET num == Word("hash", <<r.number>>, r.part)
      label ==
        CASE r.section # Nothing /\ style = "section" ->
               <<Word(IF r.section.p = <<>> THEN "dotted" ELSE "prose",
                      Append(r.section.at, r.number), r.part)>>
          [] r.section # Nothing -> <<Word("dotted", r.section.at, r.section.p), num>>
          [] r.chapter # 0 -> <<Word("dotted", <<r.chapter, r.number>>, r.part)>>
          [] r.page # 0 -> <<Word("page", <<r.page>>, <<>>), num>>
          [] OTHER -> <<num>>
  IN IF r.note = <<>> THEN label
     ELSE Append(label, [Word("note", <<>>, <<>>) EXCEPT !.note = r.note])

SplitDraft(text, in, style) ==
  LET Each(refs) == IF ~in \/ Len(refs) <= 1 THEN <<text>>
                    ELSE [i \in 1..Len(refs) |-> TextOf(refs[i], style)]
  IN Each(ParseRefs(text, style).refs)

-----------------------------------------------------------------------------

Write(w) == /\ form = "none" /\ Len(draft) < MaxWords
            /\ draft' = Append(draft, WordOf(w))
            /\ UNCHANGED <<wording, form, inBook, split>>

Split(in, style) == /\ form = "none" /\ draft # <<>>
                    /\ ~ParseRefs(draft, style).panic
                    /\ form' = style /\ inBook' = in /\ split' = SplitDraft(draft, in, style)
                    /\ UNCHANGED <<wording, draft>>

Styles == {"local", "chapter", "section"}

Init == /\ wording \in Wordings /\ draft = <<>> /\ form = "none" /\ inBook = TRUE /\ split = <<>>

Next == \/ \E w \in wording : Write(w)
        \/ \E in \in BOOLEAN, style \in Styles : Split(in, style)

Spec == Init /\ [][Next]_vars

-----------------------------------------------------------------------------

TypeOK == /\ form \in Styles \cup {"none"} /\ inBook \in BOOLEAN /\ Len(draft) <= MaxWords
          /\ wording \in Wordings /\ (split = <<>>) = (form = "none")

Sound(section) == section = Nothing \/ (Len(section.at) = 2 /\ section.p = <<>>)

\* Each question that a text was split into names, read again, the problem it was split
\* for, with its part and its note.  A page cited for the list is lost where the book's
\* parts say where to look; where problems start over in each section, one known by its
\* chapter only cannot be read again.
ReadAgain(r, text) ==
  Sound(r.section) /\ ~(form = "local" /\ r.section = Nothing /\ r.chapter # 0) =>
    ParseRefs(text, form).refs = <<IF r.chapter = 0 THEN r ELSE [r EXCEPT !.page = 0]>>
SplitsReadAgain ==
  LET Each(refs) == \A i \in 1..Len(split) : ReadAgain(refs[i], split[i])
  IN Len(split) > 1 => Each(ParseRefs(draft, form).refs)

\* A list as it is meant to be written: sections, each with its problems, ranges with
\* their parity, and parts after a single number.
Item(w) == w.k \in {"plain", "hash", "range"}
Section(w) == Dotted(w) /\ Len(w.at) = 2
IsList(text) ==
  LET heads == {i \in 1..Len(text) : Section(text[i])} IN
  /\ text # <<>> /\ Section(text[1]) /\ Len(text) > 1
  /\ \A i \in heads : /\ i < Len(text) /\ Item(text[i + 1])
                      /\ Cardinality(heads) > 1 => text[i].k = "colon" \/ text[i + 1].k = "hash"
  /\ \A i \in 2..Len(text) :
       /\ Section(text[i]) \/ Item(text[i]) \/ text[i].k \in {"parity", "lone"}
       /\ text[i].k = "range" => Len(text[i].at) = 2
       /\ text[i].k = "parity" => text[i - 1].k = "range"
       /\ text[i].k = "lone" => text[i - 1].k \in {"plain", "hash"}

\* and what it means, word by word.
Meant(text) ==
  LET SectionAt(i) == text[CHOOSE j \in 1..i : Section(text[j]) /\ \A l \in (j + 1)..i : ~Section(text[l])].at
      Then(i, kind) == i < Len(text) /\ text[i + 1].k = kind
      Numbers(i) ==
        CASE text[i].k = "range" ->
               SelectSeq([n \in 1..(text[i].at[2] - text[i].at[1] + 1) |-> text[i].at[1] + n - 1],
                         LAMBDA n : Then(i, "parity") => n % 2 = text[i + 1].at[1])
          [] text[i].k \in {"plain", "hash"} -> text[i].at
          [] OTHER -> <<>>
      PartAt(i) == Letters(text[i].p \o (IF Then(i, "lone") THEN text[i + 1].p ELSE <<>>))
  IN FlattenSeq([i \in 1..Len(text) |->
       LET ns == Numbers(i) IN [n \in 1..Len(ns) |-> <<SectionAt(i), ns[n], PartAt(i)>>]])

ListsReadAsMeant ==
  LET Said(refs) == [i \in 1..Len(refs) |-> <<refs[i].section.at, refs[i].number, refs[i].part>>]
  IN form # "none" /\ IsList(draft) => Said(ParseRefs(draft, form).refs) = Meant(draft)

ReadAsWritten == SplitsReadAgain /\ ListsReadAsMeant
=============================================================================
