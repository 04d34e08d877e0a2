-------------------------------- MODULE Parts --------------------------------
(***************************************************************************)
(* The parts of the program that share no state with each other nor with   *)
(* the queue's users, those of Services among them, checked side by side:  *)
(* a behaviour is one of one of them, the variables of the others are      *)
(* "off".  What each models, and its bounds, is said in its own module.    *)
(***************************************************************************)
EXTENDS Services

CONSTANTS
  PageCount, Starts, Offsets, MinVotes, MinRun,                \* PageNumbers
  Alphabets, MaxText, MaxCite,                                  \* StreamedText
  BookPages, MaxEntries, MaxHeadings, PlaceWindow, VoteMin,
  PickBatch, PickMin,                                           \* Contents
  ScanPages, ScopeMax, ScopeFirst, ScopeBatch, FirstRound,
  WiderRound, LabelMax, SweepBatch, SweepBatches, FindMishaps,  \* FindProblem
  Wordings, MaxWords,                                           \* References
  MaxLinesRead, MaxTold, MaxIds,                                \* SetUpdate
  ChaptersOf, SectionsIn, ChapterMin, SetMin, MinFit, MaxSays,  \* ProblemStyle
  MaxGrowth,                                                    \* Calculator
  Largest                                                       \* LinearSystem

ASSUME PartsConstants ==
  /\ {PageCount, MinVotes, MinRun,
      BookPages, MaxEntries, PickBatch, ScanPages, ScopeMax, ScopeFirst, ScopeBatch,
      FirstRound, WiderRound, SweepBatch, MaxWords, MaxLinesRead, MaxIds,
      ChaptersOf, SectionsIn, ChapterMin, SetMin, MinFit}
       \subseteq Nat \ {0}
  /\ {MaxText, MaxCite, MaxHeadings, PlaceWindow,
      VoteMin, PickMin, LabelMax, SweepBatches, FindMishaps, MaxTold,
      MaxSays, MaxGrowth, Largest} \subseteq Nat
  /\ Starts \subseteq 1..PageCount /\ Offsets \subseteq Int

VARIABLES
  heads, pageRuns, numbered, patch, said, stale,                       \* PageNumbers
  text, closed, emitted, streamed, letters,                     \* StreamedText
  step, scan, try, pageLines, cands, upTo, secs,                \* Contents
  want, coming, batch, refused, fooled, trips, state, found,    \* FindProblem
  wording, draft, form, inBook, split,                          \* References
  doc, members, nextId, asked, whole, told,                     \* SetUpdate
  print, sheets, lost, style, ready, saying, word, says,        \* ProblemStyle
  tree, grown,                                                  \* Calculator
  given, matrix, sides, col, answer                             \* LinearSystem

numbering == <<heads, pageRuns, numbered, patch, said, stale>>
streaming == <<text, closed, emitted, streamed, letters>>
indexing == <<step, scan, try, pageLines, cands, upTo, secs>>
locating == <<want, coming, batch, refused, fooled, trips, state, found>>
naming == <<wording, draft, form, inBook, split>>
following == <<doc, members, nextId, asked, whole, told>>
styling == <<print, sheets, lost, style, ready, saying, word, says>>
calculating == <<tree, grown>>
solving == <<given, matrix, sides, col, answer>>

Numbering == INSTANCE PageNumbers
Streaming == INSTANCE StreamedText
Indexing == INSTANCE Contents
Locating == INSTANCE FindProblem
Naming == INSTANCE References
Following == INSTANCE SetUpdate
Styling == INSTANCE ProblemStyle
Calculating == INSTANCE Calculator
Solving == INSTANCE LinearSystem

Init ==
  /\ on \in {"agent", "set", "reading", "database", "updating", "remembering", "clock",
             "numbering", "parser", "streaming", "spending", "indexing", "locating",
             "naming", "following", "doubting", "styling", "calculating", "solving"}
  /\ ServicesInit
  /\ IF on = "numbering" THEN Numbering!Init
     ELSE /\ Off(heads) /\ Off(pageRuns) /\ Off(numbered) /\ Off(patch) /\ Off(said)
          /\ Off(stale)
  /\ IF on = "streaming" THEN Streaming!Init
     ELSE Off(text) /\ Off(closed) /\ Off(emitted) /\ Off(streamed) /\ Off(letters)
  /\ IF on = "indexing" THEN Indexing!Init
     ELSE /\ Off(step) /\ Off(scan) /\ Off(try) /\ Off(pageLines) /\ Off(cands)
          /\ Off(upTo) /\ Off(secs)
  /\ IF on = "locating" THEN Locating!Init
     ELSE /\ Off(want) /\ Off(coming) /\ Off(batch) /\ Off(refused) /\ Off(fooled)
          /\ Off(trips) /\ Off(state) /\ Off(found)
  /\ IF on = "naming" THEN Naming!Init
     ELSE Off(wording) /\ Off(draft) /\ Off(form) /\ Off(inBook) /\ Off(split)
  /\ IF on = "following" THEN Following!Init
     ELSE /\ Off(doc) /\ Off(members) /\ Off(nextId) /\ Off(asked) /\ Off(whole) /\ Off(told)
  /\ IF on = "styling" THEN Styling!Init
     ELSE /\ Off(print) /\ Off(sheets) /\ Off(lost) /\ Off(style) /\ Off(ready)
          /\ Off(saying) /\ Off(word) /\ Off(says)
  /\ IF on = "calculating" THEN Calculating!Init ELSE Off(tree) /\ Off(grown)
  /\ IF on = "solving" THEN Solving!Init
     ELSE Off(given) /\ Off(matrix) /\ Off(sides) /\ Off(col) /\ Off(answer)

\* The part that is on takes a step of its own, the others none.
Next ==
  /\ ServicesNext
  /\ IF on = "numbering" THEN Numbering!Next ELSE UNCHANGED numbering
  /\ IF on = "streaming" THEN Streaming!Next ELSE UNCHANGED streaming
  /\ IF on = "indexing" THEN Indexing!Next ELSE UNCHANGED indexing
  /\ IF on = "locating" THEN Locating!Next ELSE UNCHANGED locating
  /\ IF on = "naming" THEN Naming!Next ELSE UNCHANGED naming
  /\ IF on = "following" THEN Following!Next ELSE UNCHANGED following
  /\ IF on = "styling" THEN Styling!Next ELSE UNCHANGED styling
  /\ IF on = "calculating" THEN Calculating!Next ELSE UNCHANGED calculating
  /\ IF on = "solving" THEN Solving!Next ELSE UNCHANGED solving

Spec ==
  Init /\ [][Next]_<<servicesVars, numbering, streaming, indexing, locating, naming,
                     following, styling, calculating, solving>>

-----------------------------------------------------------------------------

TypeOK ==
  /\ on = "agent" => Agent!TypeOK
  /\ on = "set" => Set!TypeOK
  /\ on = "reading" => Reading!TypeOK
  /\ on = "database" => Database!TypeOK
  /\ on = "updating" => Updating!TypeOK
  /\ on = "remembering" => Remembering!TypeOK
  /\ on = "clock" => Clock!TypeOK
  /\ on = "numbering" => Numbering!TypeOK
  /\ on = "parser" => Parser!TypeOK
  /\ on = "streaming" => Streaming!TypeOK
  /\ on = "spending" => Spending!TypeOK
  /\ on = "indexing" => Indexing!TypeOK
  /\ on = "locating" => Locating!TypeOK
  /\ on = "naming" => Naming!TypeOK
  /\ on = "following" => Following!TypeOK
  /\ on = "doubting" => Doubting!TypeOK
  /\ on = "styling" => Styling!TypeOK
  /\ on = "calculating" => Calculating!TypeOK
  /\ on = "solving" => Solving!TypeOK

\* What is worked out is what is there: a page's number leads back to the page; contents,
\* headings and problems are found where they are, problems by the words they are written in
\* and the way the book numbers them; a calculation is worth what it says; the prompt has the
\* newest notes; time and calls add up to what was spent; a set follows the page it is made
\* from; and what a model wrote is streamed as what it is (pagenum, library/pageruns.go,
\* library/contents.go, library/problems.go, homework/find.go, homework/reference.go, mathx,
\* memory/memory.go, activity/activity.go, usage, homework/update.go, doc).
WorkedOutRight == /\ on = "numbering" => Numbering!NumbersLeadBack
                  /\ on = "indexing" => Indexing!ContentsAreTheBooks
                  /\ on = "locating" => Locating!ProblemIsFound
                  /\ on = "naming" => Naming!ReadAsWritten
                  /\ on = "styling" => Styling!StylesAreKept
                  /\ on = "calculating" => Calculating!Calculates
                  /\ on = "solving" => Solving!SolvesTheSystem
                  /\ on = "remembering" => Remembering!PromptIsTheNewest
                  /\ on = "clock" => Clock!TimeIsSpentOnce
                  /\ on = "spending" => Spending!BillsAgree
                  /\ on = "following" => Following!SetFollowsPage
                  /\ on = "streaming" => Streaming!StreamsWhatItIs
=============================================================================
