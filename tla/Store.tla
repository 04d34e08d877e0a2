-------------------------------- MODULE Store --------------------------------
(***************************************************************************)
(* The schema of the one database, from start to start: the ledger of      *)
(* migrations, the copies kept before an upgrade, and Reset.  A migration  *)
(* makes a table, and fails where it is already there; what the tables     *)
(* hold is left out, and so are the files Reset removes.  Bounds:          *)
(* MaxVersion, MaxStarts.                                                  *)
(***************************************************************************)
EXTENDS Integers, Sequences, SequencesExt, FiniteSets

CONSTANTS
  MaxVersion, \* a program of version v has the migrations 1..v
  MaxStarts   \* bound: how often the program is started

KeepBackups == 3

VARIABLES
  ledger,  \* the migrations schema_migrations records
  tables,  \* those whose tables are there
  backups, \* the ledger of each copy kept, the oldest first
  program, \* what the program is about, its version, and the migration it is at
  before,  \* the ledger as the last program to come up left it, nothing after a Reset
  tries,   \* starts since
  torn,    \* a Reset was cut before it was over
  starts

vars == <<ledger, tables, backups, program, before, tries, torn, starts>>

Migrations == 1..MaxVersion
Down == [at |-> "down", version |-> 1, next |-> 0]
GoTo(at, n) == program' = [program EXCEPT !.at = at, !.next = n]
Pending == (1..program.version) \ ledger
Same == UNCHANGED <<before, tries, torn, starts>>

-----------------------------------------------------------------------------

\* A start, of the version there was or another.
Start ==
  /\ program.at = "down" /\ starts < MaxStarts
  /\ \E v \in Migrations : program' = [at |-> "backup", version |-> v, next |-> 0]
  /\ starts' = starts + 1 /\ tries' = tries + 1
  /\ UNCHANGED <<ledger, tables, backups, before, torn>>

Backup_ForSeveral ==
  /\ program.at = "backup"
  /\ LET all == Append(backups, ledger)
     IN backups' = IF Cardinality(Pending) <= 1 \/ Pending = 1..program.version THEN backups
                   ELSE IF Len(all) > KeepBackups THEN Tail(all) ELSE all
  /\ GoTo("migrate", 1)
  /\ UNCHANGED <<ledger, tables>> /\ Same

\* BackupBeforeMigrating: a copy, unless there is nothing to apply or nothing yet to
\* protect; only the newest few are kept.
Backup ==
  /\ program.at = "backup"
  /\ LET all == Append(backups, ledger)
     IN backups' = IF Pending = {} \/ Pending = 1..program.version THEN backups
                   ELSE IF Len(all) > KeepBackups THEN Tail(all) ELSE all
  /\ GoTo("migrate", 1)
  /\ UNCHANGED <<ledger, tables>> /\ Same

\* One migration and its line in the ledger, in a transaction, unless it is there.
Migrate ==
  /\ program.at \in {"migrate", "repair"} /\ program.next <= program.version
  /\ \/ program.next \in ledger /\ UNCHANGED <<ledger, tables>>
     \/ /\ program.next \notin ledger \cup tables
        /\ tables' = tables \cup {program.next} /\ ledger' = ledger \cup {program.next}
  /\ GoTo(program.at, program.next + 1)
  /\ UNCHANGED backups /\ Same

\* It fails, or its table is there: the program does not come up, and a repair or a
\* Reset ends with the error.
MigrateFails ==
  /\ program.at \in {"migrate", "repair"} /\ program.next \in Pending
  /\ program' = IF program.at = "migrate" THEN Down ELSE [program EXCEPT !.at = "up"]
  /\ UNCHANGED <<ledger, tables, backups>> /\ Same

\* The program serves.
Up ==
  /\ program.at \in {"migrate", "repair"} /\ program.next > program.version
  /\ GoTo("up", 0)
  /\ before' = ledger /\ tries' = 0
  /\ UNCHANGED <<ledger, tables, backups, torn, starts>>

\* Fix, of the database check: what is pending is applied.
Fix ==
  /\ program.at = "up" /\ Pending # {}
  /\ GoTo("repair", 1)
  /\ UNCHANGED <<ledger, tables, backups>> /\ Same

\* Reset drops the tables one by one, the ledger, made first, before the others.
Reset ==
  /\ program.at = "up"
  /\ GoTo("drop", 0)
  /\ before' = {}
  /\ UNCHANGED <<ledger, tables, backups, tries, torn, starts>>

Drop ==
  /\ program.at = "drop"
  /\ \/ program.next = 0 /\ ledger' = {} /\ UNCHANGED tables
     \/ /\ program.next \in tables /\ tables' = tables \ {program.next}
        /\ UNCHANGED ledger
     \/ /\ program.next \in Migrations \ tables /\ UNCHANGED <<ledger, tables>>
  /\ GoTo("drop", program.next + 1)
  /\ UNCHANGED backups /\ Same

Dropped ==
  /\ program.at = "drop" /\ program.next > MaxVersion
  /\ GoTo("repair", 1)
  /\ torn' = FALSE
  /\ UNCHANGED <<ledger, tables, backups, before, tries, starts>>

\* The request hangs up.
ResetCut ==
  /\ program.at = "drop" /\ program.next > 0
  /\ GoTo("up", 0) /\ torn' = TRUE
  /\ UNCHANGED <<ledger, tables, backups, before, tries, starts>>

\* The program ends, or dies.
Stop ==
  /\ program.at # "down"
  /\ program' = Down
  /\ torn' = (torn \/ (program.at = "drop" /\ program.next > 0))
  /\ UNCHANGED <<ledger, tables, backups, before, tries, starts>>

-----------------------------------------------------------------------------

Init == /\ ledger = {} /\ tables = {} /\ backups = <<>> /\ program = Down
        /\ before = {} /\ tries = 0 /\ torn = FALSE /\ starts = 0

Next == \/ Start \/ Backup \/ Migrate \/ MigrateFails \/ Up \/ Fix
        \/ Reset \/ Drop \/ Dropped \/ ResetCut \/ Stop

Spec == Init /\ [][Next]_vars

-----------------------------------------------------------------------------

TypeOK ==
  /\ ledger \subseteq Migrations /\ tables \subseteq Migrations /\ before \subseteq Migrations
  /\ backups \in Seq(SUBSET Migrations) /\ Len(backups) <= KeepBackups
  /\ program \in [at: {"down", "backup", "migrate", "repair", "up", "drop"},
                  version: Migrations, next: 0..MaxVersion + 1]
  /\ tries \in Nat /\ torn \in BOOLEAN /\ starts \in 0..MaxStarts

\* A database that an upgrade has begun to change, and no program has come up on yet,
\* has a copy from before it, unless it has been tried more often than copies are kept;
\* and the ledger says what is there, unless a Reset was cut or is dropping.
UpgradeIsBacked ==
  /\ (/\ program.at \in {"down", "backup", "migrate"} /\ ledger # before
      /\ before # {} /\ tries <= KeepBackups /\ ~torn)
       => before \in ToSet(backups)
  /\ ~torn /\ program.at # "drop" => ledger = tables
=============================================================================
