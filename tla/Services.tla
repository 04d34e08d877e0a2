-------------------------------- MODULE Services --------------------------------
(***************************************************************************)
(* Ten parts of the program that share no state with each other nor with   *)
(* the queue's users: a guide being written, its document, its second      *)
(* solution, an assignment being read, the questions of a homework set,    *)
(* what is remembered of a student, the time and the calls spent, the      *)
(* schema of the database, and the program replacing itself.  A behaviour  *)
(* is one of one of them, or of another of Parts; the variables of the     *)
(* others are "off".                                                       *)
(***************************************************************************)
EXTENDS Integers

CONSTANTS
  MaxRounds, MaxRuns,                                           \* AgentLoop
  Readers, MaxMishaps,                                          \* AssignmentRead
  MaxVersion, MaxStarts,                                        \* Store
  Updaters, Majors, MaxReleases, MaxCrashes,                    \* Update
  MaxQuestions, FirstQuestions, MaxEdits,                       \* HomeworkSet
  MaxBlocks, MaxDiffering,                                      \* CrossCheck
  MaxLines, MaxObjects, MaxRepairCalls, MaxPending,             \* Document
  Savers, MaxNotes, NoteChars, PromptMax, PromptChars,          \* Memory
  Stretches, MaxTime, MaxAhead, MaxStretch,                     \* Activity
  MaxSpent                                                      \* Usage

ASSUME ServicesConstants ==
  /\ MaxVersion \in Nat \ {0}
  /\ {MaxRounds, MaxRuns, MaxMishaps, MaxStarts, MaxReleases, MaxCrashes} \subseteq Nat
  /\ Majors \subseteq Nat

ASSUME KeepingConstants ==
  /\ {MaxQuestions, MaxBlocks, MaxLines, MaxObjects, MaxRepairCalls, MaxPending,
      MaxNotes, NoteChars, PromptMax, PromptChars} \subseteq Nat \ {0}
  /\ {MaxEdits, MaxDiffering, MaxTime, MaxAhead, MaxStretch, MaxSpent} \subseteq Nat
  /\ FirstQuestions \in 1..MaxQuestions

VARIABLES
  on, \* the part this behaviour is of
  loop, saved, words, guide, runs,                              \* AgentLoop
  read, reader, dismissal, stranded, rerun, broken, mishaps,    \* AssignmentRead
  ledger, tables, backups, program, before, tries, torn, starts, \* Store
  running, exe, latest, checked, working, update, files, litter, done,
  releases, crashes,                                            \* Update
  position, born, finding, readAt, moving, calls, counted, rank,
  against, crossed, cut, edits,                                 \* HomeworkSet
  checking, hint, walk, differ,                                 \* CrossCheck
  mode, blocks, lines, pending, block, work, budget, aborted,
  passed,                                                       \* Document
  notes, made, saving, raced,                                   \* Memory
  now, study, sent,                                             \* Activity
  alive, added, asking, marks, rows, removal, missed            \* Usage

agent == <<loop, saved, words, guide, runs>>
reading == <<read, reader, dismissal, stranded, rerun, broken, mishaps>>
database == <<ledger, tables, backups, program, before, tries, torn, starts>>
updating == <<running, exe, latest, checked, working, update, files, litter, done,
             releases, crashes>>
set == <<position, born, finding, readAt, moving, calls, counted, rank, against,
         crossed, cut, edits>>
doubting == <<checking, hint, walk, differ>>
parser == <<mode, blocks, lines, pending, block, work, budget, aborted, passed>>
remembering == <<notes, made, saving, raced>>
clock == <<now, study, sent>>
spending == <<alive, added, asking, marks, rows, removal, missed>>

Agent == INSTANCE AgentLoop
Reading == INSTANCE AssignmentRead
Database == INSTANCE Store
Updating == INSTANCE Update
Set == INSTANCE HomeworkSet
Doubting == INSTANCE CrossCheck
Parser == INSTANCE Document
Remembering == INSTANCE Memory WITH MaxText <- NoteChars
Clock == INSTANCE Activity
Spending == INSTANCE Usage

Off(x) == x = "off"

ServicesInit ==
  /\ IF on = "agent" THEN Agent!Init
     ELSE Off(loop) /\ Off(saved) /\ Off(words) /\ Off(guide) /\ Off(runs)
  /\ IF on = "reading" THEN Reading!Init
     ELSE /\ Off(read) /\ Off(reader) /\ Off(dismissal) /\ Off(stranded) /\ Off(rerun)
          /\ Off(broken) /\ Off(mishaps)
  /\ IF on = "database" THEN Database!Init
     ELSE /\ Off(ledger) /\ Off(tables) /\ Off(backups) /\ Off(program) /\ Off(before)
          /\ Off(tries) /\ Off(torn) /\ Off(starts)
  /\ IF on = "updating" THEN Updating!Init
     ELSE /\ Off(running) /\ Off(exe) /\ Off(latest) /\ Off(checked) /\ Off(working)
          /\ Off(update) /\ Off(files) /\ Off(litter) /\ Off(done) /\ Off(releases) /\ Off(crashes)
  /\ IF on = "set" THEN Set!Init
     ELSE /\ Off(position) /\ Off(born) /\ Off(finding) /\ Off(readAt) /\ Off(moving)
          /\ Off(calls) /\ Off(counted) /\ Off(rank) /\ Off(against) /\ Off(crossed)
          /\ Off(cut) /\ Off(edits)
  /\ IF on = "doubting" THEN Doubting!Init
     ELSE Off(checking) /\ Off(hint) /\ Off(walk) /\ Off(differ)
  /\ IF on = "parser" THEN Parser!Init
     ELSE /\ Off(mode) /\ Off(blocks) /\ Off(lines) /\ Off(pending) /\ Off(block)
          /\ Off(work) /\ Off(budget) /\ Off(aborted) /\ Off(passed)
  /\ IF on = "remembering" THEN Remembering!Init
     ELSE Off(notes) /\ Off(made) /\ Off(saving) /\ Off(raced)
  /\ IF on = "clock" THEN Clock!Init
     ELSE Off(now) /\ Off(study) /\ Off(sent)
  /\ IF on = "spending" THEN Spending!Init
     ELSE /\ Off(alive) /\ Off(added) /\ Off(asking) /\ Off(marks) /\ Off(rows)
          /\ Off(removal) /\ Off(missed)

ServicesNext ==
  /\ UNCHANGED on
  /\ IF on = "agent" THEN Agent!Next ELSE UNCHANGED agent
  /\ IF on = "reading" THEN Reading!Next ELSE UNCHANGED reading
  /\ IF on = "database" THEN Database!Next ELSE UNCHANGED database
  /\ IF on = "updating" THEN Updating!Next ELSE UNCHANGED updating
  /\ IF on = "set" THEN Set!Next ELSE UNCHANGED set
  /\ IF on = "doubting" THEN Doubting!Next ELSE UNCHANGED doubting
  /\ IF on = "parser" THEN Parser!Next ELSE UNCHANGED parser
  /\ IF on = "remembering" THEN Remembering!Next ELSE UNCHANGED remembering
  /\ IF on = "clock" THEN Clock!Next ELSE UNCHANGED clock
  /\ IF on = "spending" THEN Spending!Next ELSE UNCHANGED spending

servicesVars == <<on, agent, reading, database, updating, set, doubting, parser,
                  remembering, clock, spending>>

ServicesSpec == ServicesInit /\ [][ServicesNext]_servicesVars

-----------------------------------------------------------------------------

\* A guide is the words of one whole reply, and what it is carried on from is whole rounds,
\* no more than it may take (agent/loop.go, llm/llm.go, homework/question.go).
GuideIsOneReply == on = "agent" => Agent!AnswerIsOneReply /\ Agent!CarriesWholeRounds

\* A read of an assignment has the one job that will settle it (homework/assignment.go).
ReadIsOwed == on = "reading" => Reading!ReadIsOwed

\* An upgrade under way has a copy from before it (db/db.go, cmd/pset/main.go).
UpgradeIsBacked == on = "database" => Database!UpgradeIsBacked

\* The program on disk is replaced by a whole and newer one, by one request at a time
\* (update/update.go).
OneSoundUpdate == on = "updating" => Updating!OneSoundUpdate

\* A set at rest has every question ranked against the set as it is (homework/rank.go).
SetIsRanked == on = "set" => Set!RankedAtRest

\* A guide keeps what the model wrote of it, and what a second solution doubts in it is told
\* (doc/parser.go, doc/repair.go, doc/finalize.go, homework/crosscheck.go).
GuideIsSound == /\ on = "parser" => Parser!WrittenIsKept
                /\ on = "doubting" => Doubting!DoubtsAreTold

\* What is kept is kept once, as it was last said, and no longer than what it is of
\* (memory/memory.go, activity/activity.go, usage/usage.go).
KeptAsSaid == /\ on = "remembering" => Remembering!RemembersOnce
              /\ on = "clock" => Clock!EndsStand
              /\ on = "spending" => Spending!NoneOutlives
=============================================================================
