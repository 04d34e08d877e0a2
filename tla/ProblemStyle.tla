----------------------------- MODULE ProblemStyle -----------------------------
(***************************************************************************)
(* How a book numbers its problems (probnum/detect.go), and the word the   *)
(* student has on it (library/problems.go, library/service.go): through    *)
(* each chapter, with their section, or starting over in every section.    *)
(* It is worked out from the lines that open with a number, by the import  *)
(* and for older books at a start, and the student may correct it.         *)
(*                                                                         *)
(* A book is printed one way, page by page; one of its sets may be lost by *)
(* OCR, and other lines may look like a set.  A page is its lines:         *)
(* headings of sets, and numbers that open a line.  Left out: the          *)
(* heading's word, and how a number is told from a title.                  *)
(*                                                                         *)
(* Bounds: ChaptersOf chapters of SectionsIn sections, of a page each and  *)
(* one at the chapter's end; the code's 5 problems of a chapter, 3 of a    *)
(* section and 3 sets (minFit) are constants; MaxSays patches.             *)
(***************************************************************************)
EXTENDS Integers, Sequences, SequencesExt, FiniteSets

CONSTANTS ChaptersOf, SectionsIn, ChapterMin, SetMin, MinFit, MaxSays

VARIABLES
  print,  \* how the book numbers its problems, whether its contents list subsections, what
          \* other numbers open lines
  sheets, \* its pages so far
  lost,   \* whether a set is lost
  style,  \* problem_style
  ready,  \* whether the import is through
  saying, \* a patch under way, with the style it read
  word,   \* the student's word
  says    \* patches so far

vars == <<print, sheets, lost, style, ready, saying, word, says>>

Chapters == 1..ChaptersOf
Sections == {<<c, s>> : c \in Chapters, s \in 1..SectionsIn}
Page(c, s) == (c - 1) * (SectionsIn + 1) + s
LastPage == ChaptersOf * (SectionsIn + 1)
PageOf(s) == Page(s[1], s[2])
SectionPages == {PageOf(s) : s \in Sections}

\* A line that opens with a number: <<7>> for "7.", <<4, 27>>, <<2, 1, 4>>; or a heading.
Heading == <<>>
Ones == [i \in 1..SetMin |-> <<i>>]
Twos(c) == [i \in 1..ChapterMin |-> <<c, SectionsIn + i>>]
Threes(s, many) == [i \in 1..many |-> <<s[1], s[2], i>>]
Subsections(s) == Threes(s, SetMin)

-----------------------------------------------------------------------------
(* Detect.                                                                 *)

Least(S) == CHOOSE x \in S : \A y \in S : x <= y
FirstPage(line) == Least({p \in 1..LastPage : Contains(sheets[p], line)})

ChapterLines(c) ==
  UNION {ToSet(sheets[p]) : p \in {p \in Page(c, 1)..(Page(c, SectionsIn + 1) + 1) : p <= LastPage}}

\* Through the chapter, past the numbers of its own sections.
ChapterKs(c) == {l[2] : l \in {l \in ChapterLines(c) : Len(l) = 2 /\ l[1] = c /\ l[2] > SectionsIn}}

\* By section, less the subsections that the contents list.
SectionKs(s) ==
  LET listed == IF print.lists THEN ToSet(Subsections(s)) ELSE {}
  IN {l[3] : l \in {l \in ChapterLines(s[1]) \ listed : Len(l) = 3 /\ l[1] = s[1] /\ l[2] = s[2]}}
FirstOf(s) == <<s[1], s[2], Least(SectionKs(s))>>

\* Starting over: what follows the first heading in the section's pages and the next.
LinesOf(s) == sheets[PageOf(s)] \o (IF PageOf(s) = LastPage THEN <<>> ELSE sheets[PageOf(s) + 1])
HeadingAt(s) == {i \in 1..Len(LinesOf(s)) : LinesOf(s)[i] = Heading}
LocalKs(s) ==
  LET lines == LinesOf(s)
  IN IF HeadingAt(s) = {} THEN {}
     ELSE {lines[i][1] : i \in {i \in Least(HeadingAt(s))..Len(lines) : Len(lines[i]) = 1}}
HeadingPage(s) == IF Least(HeadingAt(s)) <= Len(sheets[PageOf(s)]) THEN PageOf(s) ELSE PageOf(s) + 1

FirstSection(S) == CHOOSE s \in S : \A t \in S : PageOf(s) <= PageOf(t)

\* A problem that shows the style, and the page it is on.
Example(form, fit) ==
  LET line == IF form = "chapter" THEN <<Least(fit), Least(ChapterKs(Least(fit)))>>
              ELSE IF form = "section" THEN FirstOf(FirstSection(fit)) ELSE FirstSection(fit) \o <<1>>
  IN [line |-> line, page |-> IF form = "local" THEN HeadingPage(FirstSection(fit)) ELSE FirstPage(line)]

NoExample == [line |-> <<>>, page |-> 0]
Unknown == [form |-> "", where |-> "", example |-> NoExample, sure |-> FALSE, confirmed |-> FALSE]

\* Plain is much of the book, and clearly more than any other form has.
Sure(fit, share, best) == /\ 5 * share[best] >= 2 * ChaptersOf * SectionsIn /\ fit >= MinFit
                          /\ \A j \in 1..3 \ {best} : share[best] >= 2 * share[j]

\* Shares are counted of as many as there are sections; of equal ones the first is best.
Detect ==
  LET forms == <<"chapter", "section", "local">>
      sets == <<{c \in Chapters : Cardinality(ChapterKs(c)) >= ChapterMin},
                {s \in Sections : Cardinality(SectionKs(s)) >= SetMin},
                {s \in Sections : Cardinality(LocalKs(s)) >= SetMin /\ 1 \in LocalKs(s)}>>
      share == <<Cardinality(sets[1]) * SectionsIn, Cardinality(sets[2]), Cardinality(sets[3])>>
      best == CHOOSE i \in 1..3 :
                \A j \in 1..3 \ {i} : share[i] > share[j] \/ (share[i] = share[j] /\ i < j)
      own == {s \in sets[2] : FirstPage(FirstOf(s)) \in PageOf(s)..(PageOf(s) + 1)}
      inOwn == Cardinality(own) > Cardinality(sets[2] \ own)
  IN IF share[best] = 0 THEN Unknown
     ELSE [form |-> forms[best], example |-> Example(forms[best], sets[best]),
           sure |-> Sure(Cardinality(sets[best]), share, best), confirmed |-> FALSE,
           where |-> IF best = 3 \/ (best = 2 /\ inOwn) THEN "section" ELSE "chapter"]

-----------------------------------------------------------------------------
(* A book, printed.                                                        *)

ChapterOf(p) == (p - 1) \div (SectionsIn + 1) + 1
SectionOf(p) == <<ChapterOf(p), p - Page(ChapterOf(p), 1) + 1>>

\* The set of a page: of the section whose page it is, or at the chapter's end of the
\* chapter or of all its sections.
SetOn(p) ==
  LET own == p \in SectionPages IN
  CASE print.form = "chapter" /\ ~own -> <<Heading>> \o Twos(ChapterOf(p))
    [] print.form = "section" /\ print.where = "section" /\ own ->
         <<Heading>> \o Threes(SectionOf(p), 2 * SetMin)
    [] print.form = "section" /\ print.where = "chapter" /\ ~own ->
         <<Heading>> \o FlattenSeq([i \in 1..SectionsIn |-> Threes(<<ChapterOf(p), i>>, 2 * SetMin)])
    [] print.form = "local" /\ own -> <<Heading>> \o Ones
    [] OTHER -> <<>>

\* What else opens lines with numbers: a list's items, the section's title and those of
\* its subsections, review questions, formulas.
Noise(p) ==
  CASE print.noise = "list" -> Ones
    [] print.noise = "titles" /\ p \in SectionPages -> <<SectionOf(p)>> \o Subsections(SectionOf(p))
    [] print.noise = "review" /\ p \notin SectionPages -> <<Heading>> \o Ones
    [] print.noise = "formulas" -> Twos(ChapterOf(p))
    [] OTHER -> <<>>

PrintPage(noise, whole) ==
  /\ LET p == Len(sheets) + 1
     IN /\ whole \/ (SetOn(p) # <<>> /\ ~lost)
        /\ sheets' = Append(sheets, (IF noise THEN Noise(p) ELSE <<>>) \o (IF whole THEN SetOn(p) ELSE <<Heading>>))
        /\ lost' = (lost \/ ~whole)
  /\ UNCHANGED <<print, style, ready, saying, word, says>>

Whole == Len(sheets) = LastPage
None == [form |-> "none"] \* a book from before styles, or not imported yet

\* saveProblems: never over what the student confirmed.
SaveProblems(st) == style' = IF style = None \/ ~style.confirmed THEN st ELSE style

\* The import's last step; a book that did not come to its end may be imported again.
Index(ends) == /\ Whole /\ ~ready
               /\ LET found == Detect IN IF found = Unknown THEN UNCHANGED style ELSE SaveProblems(found)
               /\ ready' = ends
               /\ UNCHANGED <<print, sheets, lost, saying, word, says>>

\* fillProblems: at a start, for books from before; where nothing is found the student is
\* asked.
Fill == /\ Whole /\ ready /\ style = None
        /\ SaveProblems(Detect)
        /\ UNCHANGED <<print, sheets, lost, ready, saying, word, says>>

\* Update reads the row, and writes what the student says with what it read.
Reads(form, where) == /\ Whole /\ saying = <<>> /\ says < MaxSays /\ says' = says + 1
                      /\ saying' = <<[form |-> form, where |-> where, read |-> style]>>
                      /\ UNCHANGED <<print, sheets, lost, style, ready, word>>

PatchProblems ==
  /\ saying # <<>> /\ saying' = <<>>
  /\ LET say == saying[1]
     IN /\ style' = [form |-> say.form, where |-> say.where, sure |-> TRUE, confirmed |-> TRUE,
                     example |-> IF say.read.form = say.form THEN say.read.example ELSE NoExample]
        /\ word' = <<say.form, say.where>>
  /\ UNCHANGED <<print, sheets, lost, ready, says>>

Init == /\ print \in {book \in [form : {"chapter", "section", "local"}, where : {"chapter", "section"},
                                 lists : BOOLEAN, noise : {"list", "titles", "review", "formulas"}] :
                        book.form # "section" => book.where = IF book.form = "local" THEN "section" ELSE "chapter"}
        /\ sheets = <<>> /\ lost = FALSE /\ style = None /\ ready \in BOOLEAN
        /\ saying = <<>> /\ word = <<>> /\ says = 0

Next ==
  \/ Len(sheets) < LastPage /\ \E noise, whole \in BOOLEAN : PrintPage(noise, whole)
  \/ \E ends \in BOOLEAN : Index(ends)
  \/ Fill \/ PatchProblems
  \/ Reads(print.form, "chapter") \/ Reads("local", "section")

Spec == Init /\ [][Next]_vars

-----------------------------------------------------------------------------

TypeOK == /\ Len(sheets) \in 0..LastPage /\ lost \in BOOLEAN /\ ready \in BOOLEAN
          /\ style # None => style.form \in {"chapter", "section", "local", ""} /\ style.example.page \in 0..LastPage
          /\ Len(saying) <= 1 /\ says \in 0..MaxSays /\ Len(word) \in {0, 2}

\* "Confirmed (the student's word, never overwritten)" (probnum/README.md): no import and
\* no start writes over it, whatever they cross.
WordStays == word # <<>> => style.confirmed /\ <<style.form, style.where>> = word

\* Lines that are no problem's and have the number of one.
LooksLikeProblems == \/ print.noise = "titles" /\ ~print.lists
                     \/ print.noise = "formulas" /\ print.form = "chapter"

\* A book whose sets are all whole is never surely taken for one that is numbered another
\* way; and taken for what it is, its problems are looked for where they are, and the
\* student is shown one of them, on its page (or its set's heading's).  Lines that
\* look like problems may come before them.
StyleIsTheBooks ==
  Whole /\ ~lost /\ style # None /\ ~style.confirmed =>
    /\ style.sure => style.form = print.form
    /\ style.form = print.form /\ ~LooksLikeProblems =>
         /\ style.where = print.where
         /\ Contains(SetOn(style.example.page), IF style.form = "local" THEN <<1>> ELSE style.example.line)

\* The example is one of the form it is shown for, also after the student's word.
ExampleFits == style # None /\ style.example # NoExample =>
                 (Len(style.example.line) = 2) = (style.form = "chapter")

StylesAreKept == WordStays /\ StyleIsTheBooks /\ ExampleFits
=============================================================================
