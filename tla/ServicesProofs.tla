---------------------------- MODULE ServicesProofs ----------------------------
(***************************************************************************)
(* What holds of the parts of Services for every number of rounds, jobs,   *)
(* requests, versions, starts and mishaps: of an update, of a read, of an  *)
(* upgrade, of a guide.                                                    *)
(***************************************************************************)
EXTENDS Services, Sequences, FiniteSetTheorems, TLAPS

-----------------------------------------------------------------------------
(* The program replacing itself.                                           *)

Busy == {u \in Updaters : update[u].at # "idle"}

\* What an update that is under way is for is newer than what runs, and what it is about
\* to install is whole and says the version it was fetched for.
Fetched ==
  /\ checked.newer => Updating!Newer(checked.version, running)
  /\ \A u \in Updaters :
       /\ update[u].at # "idle" => Updating!Newer(update[u].version, running)
       /\ update[u].at = "extract" => files[u].archive = "whole"
       /\ update[u].at \in {"try", "install"} => files[u].program = "whole"
       /\ update[u].at = "install" => update[u].says = update[u].version

UpdateInv == Updating!TypeOK /\ Fetched /\ Updating!OneSoundUpdate

\* There is a release for NotChecked to name.
LEMMA SomeRelease ==
  ASSUME Updating!TypeOK
  PROVE  /\ Updating!NotChecked \in [version: Updating!Versions, newer: BOOLEAN]
         /\ ~Updating!NotChecked.newer
         /\ Updating!Idle \in [at: {"idle"}, version: Updating!Versions, says: Updating!Versions]
<1>1. \E v \in Updating!Released : TRUE
  <2>1. running \in Updating!Versions
    BY DEF Updating!TypeOK
  <2>2. [n |-> running.n, pre |-> 0] \in Updating!Versions
    BY <2>1 DEF Updating!Versions
  <2> QED
    BY <2>2 DEF Updating!Released
<1>2. (CHOOSE v \in Updating!Released : TRUE) \in Updating!Versions
  BY <1>1 DEF Updating!Released
<1> QED
  BY <1>2 DEF Updating!NotChecked, Updating!Idle

LEMMA UpdateTypeStep ==
  ASSUME Updating!TypeOK, Updating!Next
  PROVE  Updating!TypeOK'
<1> USE SomeRelease, ServicesConstants DEF Updating!TypeOK
<1>1. CASE Updating!Publish
  BY <1>1 DEF Updating!Publish, Updating!Released
<1>2. CASE Updating!Check
  <2>1. Updating!Newer(latest, running) \in BOOLEAN
    BY DEF Updating!Newer
  <2> QED
    BY <1>2, <2>1 DEF Updating!Check, Updating!world, Updating!Released
<1>3. CASE Updating!Restart \/ Updating!Crash
  <2>1. /\ exe' = exe /\ running' = exe.version /\ UNCHANGED <<latest, releases>>
        /\ checked' = Updating!NotChecked /\ working' = FALSE /\ done' = FALSE
        /\ update' = [u \in Updaters |-> Updating!Idle] /\ files' = [u \in Updaters |-> Updating!NoFile]
        /\ litter' = litter \cup Updating!Lying
    BY <1>3 DEF Updating!Restart, Updating!Crash, Updating!Anew
  <2>2. update' \in [Updaters -> [at: {"idle", "sums", "download", "compare", "extract", "try",
                                       "install"}, version: Updating!Versions, says: Updating!Versions]]
    BY <2>1
  <2>3. files' \in [Updaters -> [archive: {"none", "whole", "other"},
                                 program: {"none", "whole", "other"}]]
    BY <2>1 DEF Updating!NoFile
  <2>4. crashes' \in 0..MaxCrashes
    BY <1>3 DEF Updating!Restart, Updating!Crash
  <2>5. Updating!Lying \subseteq [life: 0..MaxCrashes, of: Updaters, file: {"archive", "program"}]
    BY DEF Updating!Lying, Updating!NoFile
  <2> QED
    BY <2>1, <2>2, <2>3, <2>4, <2>5
<1>4. ASSUME NEW u \in Updaters, Updating!Apply(u) PROVE Updating!TypeOK'
  BY <1>4 DEF Updating!Apply, Updating!world
<1>5. ASSUME NEW u \in Updaters, \/ Updating!Trust(u) \/ Updating!Download(u) \/ Updating!Compare(u)
                                 \/ Updating!Extract(u) \/ Updating!Try(u)
      PROVE  Updating!TypeOK'
  <2>1. CASE Updating!Trust(u)
    BY <2>1 DEF Updating!Trust, Updating!Step, Updating!GoTo, Updating!world
  <2>2. CASE Updating!Download(u)
    BY <2>2 DEF Updating!Download, Updating!Step, Updating!GoTo, Updating!world
  <2>3. CASE Updating!Compare(u)
    BY <2>3 DEF Updating!Compare, Updating!Step, Updating!GoTo, Updating!world
  <2>4. CASE Updating!Extract(u)
    <3>1. PICK v \in Updating!Versions :
            update' = [update EXCEPT ![u] = [@ EXCEPT !.at = "try", !.says = v]]
      BY <2>4 DEF Updating!Extract, Updating!Released
    <3>2. update' \in [Updaters -> [at: {"idle", "sums", "download", "compare", "extract", "try",
                                         "install"}, version: Updating!Versions, says: Updating!Versions]]
      BY <3>1
    <3>3. files' \in [Updaters -> [archive: {"none", "whole", "other"},
                                   program: {"none", "whole", "other"}]]
      BY <2>4 DEF Updating!Extract
    <3> QED
      BY <2>4, <3>2, <3>3 DEF Updating!Extract, Updating!world
  <2>5. CASE Updating!Try(u)
    BY <2>5 DEF Updating!Try, Updating!Step, Updating!GoTo, Updating!world
  <2> QED
    BY <1>5, <2>1, <2>2, <2>3, <2>4, <2>5
<1>6. ASSUME NEW u \in Updaters, Updating!Install(u) PROVE Updating!TypeOK'
  BY <1>6 DEF Updating!Install, Updating!world, Updating!NoFile
<1>7. ASSUME NEW u \in Updaters, Updating!Fail(u) PROVE Updating!TypeOK'
  BY <1>7 DEF Updating!Fail, Updating!world, Updating!NoFile
<1> QED
  BY <1>1, <1>2, <1>3, <1>4, <1>5, <1>6, <1>7 DEF Updating!Next

\* A step of a request that stays under way touches no other and not the program on disk.
LEMMA UpdateMoves ==
  ASSUME UpdateInv, NEW u \in Updaters, update[u].at # "idle",
         UNCHANGED <<exe, running, checked, working, done, litter, crashes>>,
         update'[u].at # "idle", update'[u].version = update[u].version,
         \A w \in Updaters \ {u} : update'[w] = update[w] /\ files'[w] = files[w],
         update'[u].at = "extract" => files'[u].archive = "whole",
         update'[u].at \in {"try", "install"} => files'[u].program = "whole",
         update'[u].at = "install" => update'[u].says = update[u].version
  PROVE  Fetched' /\ Updating!OneSoundUpdate'
<1>1. Busy' = Busy
  BY DEF Busy
<1>2. Fetched'
  BY DEF UpdateInv, Fetched, Updating!Newer
<1>3. Updating!OneSoundUpdate'
  BY <1>1 DEF UpdateInv, Updating!OneSoundUpdate, Updating!Newer, Busy
<1> QED
  BY <1>2, <1>3

LEMMA UpdateStep ==
  ASSUME UpdateInv, Updating!Next
  PROVE  UpdateInv'
<1>t. Updating!TypeOK /\ Updating!TypeOK'
  BY UpdateTypeStep DEF UpdateInv
<1>i. Updating!Idle.at = "idle"
  BY DEF Updating!Idle
<1>g. SUFFICES Fetched' /\ Updating!OneSoundUpdate'
  BY <1>t DEF UpdateInv
<1>1. CASE Updating!Publish
  BY <1>1 DEF Updating!Publish, UpdateInv, Fetched, Updating!OneSoundUpdate, Updating!Newer
<1>2. CASE Updating!Check
  <2>1. UNCHANGED <<exe, running, working, update, files, done, litter, crashes>>
    BY <1>2 DEF Updating!Check, Updating!world
  <2>2. checked'.newer => Updating!Newer(checked'.version, running)
    BY <1>2 DEF Updating!Check
  <2> QED
    BY <2>1, <2>2 DEF UpdateInv, Fetched, Updating!OneSoundUpdate, Updating!Newer
<1>3. CASE Updating!Restart \/ Updating!Crash
  <2>1. /\ running' = exe.version /\ exe' = exe /\ ~checked'.newer /\ ~working' /\ ~done'
        /\ \A u \in Updaters : update'[u].at = "idle" /\ files'[u] = Updating!NoFile
    BY <1>3, <1>t, <1>i, SomeRelease DEF Updating!Restart, Updating!Crash, Updating!Anew
  <2>2. exe'.whole /\ exe'.version = running'
    BY <2>1 DEF UpdateInv, Updating!OneSoundUpdate
  <2>3. \A f \in Updating!Lying : f.of \in Busy /\ f.life = crashes
    BY DEF Updating!Lying, Updating!NoFile, UpdateInv, Updating!OneSoundUpdate, Busy
  <2>4. /\ \A f \in litter' : f.life < crashes'
        /\ \A f, g \in litter' : f.life = g.life => f.of = g.of
    <3>1. litter' = litter \cup Updating!Lying
      BY <1>3 DEF Updating!Restart, Updating!Crash, Updating!Anew
    <3>2. /\ \A f \in litter : f.life < crashes /\ f.life \in Nat
          /\ \A f, g \in litter : f.life = g.life => f.of = g.of
          /\ \A u, w \in Busy : u = w
          /\ crashes \in Nat
      BY <1>t, ServicesConstants DEF UpdateInv, Updating!OneSoundUpdate, Updating!TypeOK, Busy
    <3>3. CASE Updating!Restart
      <4>1. Busy = {} /\ crashes' = crashes
        BY <3>3 DEF Updating!Restart, UpdateInv, Updating!OneSoundUpdate, Busy
      <4>2. litter' = litter
        BY <2>3, <3>1, <4>1
      <4> QED
        BY <3>2, <4>1, <4>2
    <3>4. CASE Updating!Crash
      <4>1. crashes' = crashes + 1
        BY <3>4 DEF Updating!Crash
      <4>2. \A f \in litter' : f.life < crashes'
        BY <2>3, <3>1, <3>2, <4>1
      <4>3. \A f \in litter, g \in Updating!Lying : f.life # g.life
        BY <2>3, <3>2
      <4>4. \A f, g \in Updating!Lying : f.of = g.of
        BY <2>3, <3>2
      <4> QED
        BY <3>1, <3>2, <4>2, <4>3, <4>4
    <3> QED
      BY <1>3, <3>3, <3>4
  <2> QED
    BY <2>1, <2>2, <2>4 DEF Fetched, Updating!OneSoundUpdate, Updating!NoFile
<1>4. ASSUME NEW u \in Updaters, Updating!Apply(u) PROVE Fetched' /\ Updating!OneSoundUpdate'
  <2>1. /\ UNCHANGED <<exe, running, checked, files, done, litter, crashes>>
        /\ working' /\ ~working
        /\ Updating!Newer(checked.version, running)
    BY <1>4 DEF Updating!Apply, Updating!world, UpdateInv, Fetched
  <2>2. Busy = {} /\ ~done
    BY <2>1, <1>t DEF UpdateInv, Updating!OneSoundUpdate, Updating!TypeOK, Busy
  <2>3. /\ update'[u].at = "sums" /\ update'[u].version = checked.version
        /\ \A w \in Updaters \ {u} : update'[w] = update[w] /\ update[w].at = "idle"
    BY <1>4, <1>t, <2>2 DEF Updating!Apply, Updating!TypeOK, Updating!Idle, Busy
  <2>4. Fetched'
    BY <2>1, <2>3 DEF UpdateInv, Fetched, Updating!Newer
  <2>5. Busy' = {u}
    BY <2>3 DEF Busy
  <2>6. Updating!OneSoundUpdate'
    BY <2>1, <2>2, <2>5, <1>t DEF UpdateInv, Updating!OneSoundUpdate, Updating!Newer, Busy
  <2> QED
    BY <2>4, <2>6
<1>5. ASSUME NEW u \in Updaters, \/ Updating!Trust(u) \/ Updating!Download(u) \/ Updating!Compare(u)
                                 \/ Updating!Extract(u) \/ Updating!Try(u)
      PROVE  Fetched' /\ Updating!OneSoundUpdate'
  <2>1. /\ UNCHANGED <<exe, running, checked, working, done, litter, crashes>>
        /\ update[u].at # "idle"
    BY <1>5 DEF Updating!Trust, Updating!Download, Updating!Compare, Updating!Extract, Updating!Try,
                Updating!Step, Updating!GoTo, Updating!world
  <2>2. update'[u].at # "idle" /\ update'[u].version = update[u].version
    BY <1>5, <1>t DEF Updating!Trust, Updating!Download, Updating!Compare, Updating!Extract,
                Updating!Try, Updating!Step, Updating!GoTo, Updating!TypeOK
  <2>3. \A w \in Updaters \ {u} : update'[w] = update[w] /\ files'[w] = files[w]
    BY <1>5, <1>t DEF Updating!Trust, Updating!Download, Updating!Compare, Updating!Extract,
                Updating!Try, Updating!Step, Updating!GoTo, Updating!TypeOK
  <2>4. update'[u].at = "extract" => files'[u].archive = "whole"
    BY <1>5, <1>t DEF Updating!Trust, Updating!Download, Updating!Compare, Updating!Extract,
                Updating!Try, Updating!Step, Updating!GoTo, Updating!TypeOK
  <2>5. update'[u].at \in {"try", "install"} => files'[u].program = "whole"
    BY <1>5, <1>t DEF Updating!Trust, Updating!Download, Updating!Compare, Updating!Extract,
                Updating!Try, Updating!Step, Updating!GoTo, Updating!TypeOK, UpdateInv, Fetched
  <2>6. update'[u].at = "install" => update'[u].says = update[u].version
    BY <1>5, <1>t DEF Updating!Trust, Updating!Download, Updating!Compare, Updating!Extract,
                Updating!Try, Updating!Step, Updating!GoTo, Updating!TypeOK
  <2> QED
    BY <2>1, <2>2, <2>3, <2>4, <2>5, <2>6, UpdateMoves
<1>6. ASSUME NEW u \in Updaters, Updating!Install(u) \/ Updating!Fail(u)
      PROVE  Fetched' /\ Updating!OneSoundUpdate'
  <2>1. update[u].at # "idle" /\ UNCHANGED <<running, checked, litter, crashes>>
    BY <1>6 DEF Updating!Install, Updating!Fail, Updating!world
  <2>2. /\ update'[u].at = "idle" /\ files'[u] = Updating!NoFile
        /\ \A w \in Updaters \ {u} : update'[w] = update[w] /\ files'[w] = files[w]
    BY <1>6, <1>t, <1>i DEF Updating!Install, Updating!Fail, Updating!TypeOK
  <2>3. Busy = {u} /\ ~done /\ working
    BY <2>1, <1>t DEF UpdateInv, Updating!OneSoundUpdate, Updating!TypeOK, Busy
  <2>4. Busy' = {} /\ \A w \in Updaters : files'[w] = Updating!NoFile
    BY <2>2, <2>3 DEF Busy, UpdateInv, Updating!OneSoundUpdate
  <2>5. Fetched'
    BY <2>1, <2>2 DEF UpdateInv, Fetched, Updating!Newer
  <2>6. /\ exe'.whole
        /\ exe'.version = running' \/ Updating!Newer(exe'.version, running')
    <3>1. CASE Updating!Install(u)
      <4>1. exe' = [version |-> update[u].version, whole |-> TRUE]
        BY <3>1 DEF Updating!Install, UpdateInv, Fetched
      <4>2. Updating!Newer(update[u].version, running)
        BY <2>1 DEF UpdateInv, Fetched
      <4> QED
        BY <2>1, <4>1, <4>2 DEF Updating!Newer
    <3>2. CASE Updating!Fail(u)
      BY <2>1, <3>2 DEF Updating!Fail, UpdateInv, Updating!OneSoundUpdate
    <3> QED
      BY <1>6, <3>1, <3>2
  <2>7. working' <=> done'
    BY <1>6, <2>3, <1>t DEF Updating!Install, Updating!Fail, Updating!TypeOK
  <2> QED
    BY <2>1, <2>4, <2>5, <2>6, <2>7
       DEF UpdateInv, Updating!OneSoundUpdate, Updating!Newer, Updating!NoFile, Busy
<1> QED
  BY <1>1, <1>2, <1>3, <1>4, <1>5, <1>6 DEF Updating!Next

LEMMA UpdateInit ==
  ASSUME Updating!Init
  PROVE  UpdateInv
<1>1. Updating!TypeOK
  <2>1. \E v \in Updating!Released : TRUE
    BY DEF Updating!Init
  <2>2. (CHOOSE v \in Updating!Released : TRUE) \in Updating!Versions
    BY <2>1 DEF Updating!Released
  <2>3. /\ Updating!NotChecked \in [version: Updating!Versions, newer: BOOLEAN]
        /\ Updating!Idle \in [at: {"idle"}, version: Updating!Versions, says: Updating!Versions]
    BY <2>2 DEF Updating!NotChecked, Updating!Idle
  <2>4. /\ running \in Updating!Versions /\ exe \in [version: Updating!Versions, whole: BOOLEAN]
        /\ latest \in Updating!Released /\ releases \in 0..MaxReleases /\ crashes \in 0..MaxCrashes
    BY ServicesConstants DEF Updating!Init
  <2>5. /\ checked = Updating!NotChecked /\ working = FALSE /\ done = FALSE
        /\ update = [u \in Updaters |-> Updating!Idle] /\ files = [u \in Updaters |-> Updating!NoFile]
        /\ litter = {}
    BY DEF Updating!Init
  <2> QED
    BY <2>3, <2>4, <2>5 DEF Updating!TypeOK, Updating!NoFile
<1> QED
  BY <1>1 DEF UpdateInv, Fetched, Updating!OneSoundUpdate, Updating!Init, Updating!Idle,
              Updating!NotChecked

\* However many ask for an update, and whatever is published, checked, fails or dies meanwhile,
\* what is on disk is the program that runs or a whole newer one, put there by one request.
THEOREM OneSoundUpdateHolds == ServicesSpec => []OneSoundUpdate
<1> DEFINE Inv == on = "updating" => UpdateInv
<1>1. ServicesInit => Inv
  BY UpdateInit DEF ServicesInit
<1>2. Inv /\ [ServicesNext]_servicesVars => Inv'
  <2> SUFFICES ASSUME UpdateInv, on = "updating", on' = "updating",
                      [ServicesNext]_servicesVars
               PROVE  UpdateInv'
    BY DEF ServicesNext, servicesVars
  <2>1. CASE Updating!Next
    BY <2>1, UpdateStep
  <2>2. CASE UNCHANGED updating
    BY <2>2 DEF updating, UpdateInv, Fetched, Updating!TypeOK, Updating!OneSoundUpdate, Updating!Newer
  <2> QED
    BY <2>1, <2>2 DEF ServicesNext, servicesVars
<1>3. Inv => OneSoundUpdate
  BY DEF UpdateInv, OneSoundUpdate
<1> QED
  BY <1>1, <1>2, <1>3, PTL DEF ServicesSpec

-----------------------------------------------------------------------------
(* An assignment being read.                                               *)

\* Nothing is promised of a read any more: it is dismissed, or a crash has undone something.
Excused == rerun \/ broken \/ dismissal = "stopped" \/ read.state = "gone"

\* A job that failed on a fault has left its read being read, and is alone in that.
Strands ==
  /\ stranded => read.state = "reading"
  /\ \A j \in Readers : reader[j].at = "faulted" =>
       stranded /\ \A k \in Readers : reader[k].at = "faulted" => k = j

ReadInv ==
  /\ Reading!TypeOK /\ Reading!ReadIsOwed
  /\ \A j \in Readers : reader[j].stopped => Excused
  /\ Excused \/ Strands

Jobs == [at: {"none", "waiting", "asking", "settling", "back", "faulted"},
         whole: BOOLEAN, good: BOOLEAN, stopped: BOOLEAN]

LEMMA ReadTypeStep ==
  ASSUME Reading!TypeOK, Reading!Next
  PROVE  Reading!TypeOK'
<1> USE ServicesConstants DEF Reading!TypeOK
<1>j. Reading!NoJob \in Jobs /\ Reading!Queued \in Jobs
  BY DEF Jobs, Reading!NoJob, Reading!Queued
<1>r. reader \in [Readers -> Jobs]
  BY DEF Jobs
<1>g. ASSUME reader' \in [Readers -> Jobs],
             read' \in [state: {"reading", "ready", "failed", "gone"}, file: BOOLEAN,
                        input: BOOLEAN, result: BOOLEAN],
             dismissal' \in {"none", "stopped"}, stranded' \in BOOLEAN, rerun' \in BOOLEAN,
             broken' \in BOOLEAN, mishaps' = mishaps \/ Reading!Mishap
      PROVE  Reading!TypeOK'
  BY <1>g DEF Jobs, Reading!Mishap
<1>1. ASSUME NEW j \in Readers, \/ Reading!ReadStarts(j) \/ Reading!ReadCut(j)
                                \/ Reading!ReadStopped(j) \/ Reading!ReaderReturns(j)
                                \/ \E good \in BOOLEAN : Reading!ReadOut(j, good)
      PROVE  Reading!TypeOK'
  <2>1. reader' \in [Readers -> Jobs]
    <3>1. CASE Reading!ReadStarts(j)
      BY <3>1, <1>r, <1>j DEF Reading!ReadStarts, Reading!NoJob, Jobs
    <3>2. CASE Reading!ReadCut(j) \/ Reading!ReaderReturns(j)
      BY <3>2, <1>r, <1>j DEF Reading!ReadCut, Reading!ReaderReturns
    <3>3. CASE Reading!ReadStopped(j)
      BY <3>3, <1>r DEF Reading!ReadStopped, Jobs
    <3>4. CASE \E good \in BOOLEAN : Reading!ReadOut(j, good)
      <4>1. PICK good \in BOOLEAN :
              reader' = [reader EXCEPT ![j] = [@ EXCEPT !.at = "settling", !.good = good]]
        BY <3>4 DEF Reading!ReadOut
      <4> QED
        BY <4>1, <1>r DEF Jobs
    <3> QED
      BY <1>1, <3>1, <3>2, <3>3, <3>4
  <2>2. UNCHANGED <<read, dismissal, stranded, rerun, broken>>
    BY <1>1 DEF Reading!ReadStarts, Reading!ReadCut, Reading!ReadStopped, Reading!ReaderReturns,
                Reading!ReadOut
  <2>3. mishaps' = mishaps \/ Reading!Mishap
    BY <1>1 DEF Reading!ReadStarts, Reading!ReadCut, Reading!ReadStopped, Reading!ReaderReturns,
                Reading!ReadOut
  <2> QED
    BY <1>g, <2>1, <2>2, <2>3
<1>2. ASSUME NEW j \in Readers, Reading!SettleRead(j) PROVE Reading!TypeOK'
  <2>1. reader' \in [Readers -> Jobs]
    BY <1>2, <1>r DEF Reading!SettleRead, Jobs
  <2>2. read' \in [state: {"reading", "ready", "failed", "gone"}, file: BOOLEAN,
                   input: BOOLEAN, result: BOOLEAN]
    BY <1>2 DEF Reading!SettleRead
  <2> QED
    BY <1>g, <1>2, <2>1, <2>2 DEF Reading!SettleRead
<1>3. CASE Reading!RetryRead
  <2>1. reader' \in [Readers -> Jobs]
    BY <1>3, <1>r, <1>j DEF Reading!RetryRead, Reading!Enqueue
  <2> QED
    BY <1>g, <1>3, <2>1 DEF Reading!RetryRead
<1>4. CASE Reading!Dismiss
  <2>1. reader' \in [Readers -> Jobs]
    BY <1>4, <1>r, <1>j DEF Reading!Dismiss, Jobs
  <2> QED
    BY <1>g, <1>4, <2>1 DEF Reading!Dismiss
<1>5. CASE Reading!Delete \/ Reading!DismissCut
  <2>1. reader' \in [Readers -> Jobs]
    BY <1>5, <1>r DEF Reading!Delete, Reading!DismissCut
  <2> QED
    BY <1>g, <1>5, <2>1 DEF Reading!Delete, Reading!DismissCut
<1>6. CASE Reading!Crash
  <2>1. reader' \in [Readers -> Jobs]
    BY <1>6, <1>j DEF Reading!Crash
  <2> QED
    BY <1>g, <1>6, <2>1 DEF Reading!Crash
<1>7. ASSUME NEW j \in Readers, Reading!Fault(j) \/ Reading!ReaderAgain(j) PROVE Reading!TypeOK'
  <2>1. reader' \in [Readers -> Jobs]
    BY <1>7, <1>r, <1>j DEF Reading!Fault, Reading!ReaderAgain, Jobs
  <2>2. /\ UNCHANGED <<read, dismissal, broken>> /\ Reading!Mishap
        /\ stranded' \in BOOLEAN /\ rerun' \in BOOLEAN
    BY <1>7 DEF Reading!Fault, Reading!ReaderAgain
  <2> QED
    BY <1>g, <2>1, <2>2
<1> QED
  BY <1>1, <1>2, <1>3, <1>4, <1>5, <1>6, <1>7 DEF Reading!Next

LEMMA ReadStep ==
  ASSUME ReadInv, Reading!Next
  PROVE  ReadInv'
<1>t. Reading!TypeOK /\ Reading!TypeOK'
  BY ReadTypeStep DEF ReadInv
<1>j. /\ Reading!NoJob.at = "none" /\ ~Reading!NoJob.stopped
      /\ Reading!Queued.at = "waiting" /\ ~Reading!Queued.stopped
  BY DEF Reading!NoJob, Reading!Queued
\* A step that neither settles nor tries the read again, and keeps who is to settle it.
<1>k. ASSUME UNCHANGED <<read, dismissal, stranded, rerun, broken>>,
             Excused \/ Reading!Pending' = Reading!Pending,
             \A j \in Readers : reader'[j].stopped => reader[j].stopped,
             \A j \in Readers : reader'[j].at = "faulted" => reader[j].at = "faulted"
      PROVE  ReadInv'
  <2>1. (Excused' <=> Excused) /\ (Strands => Strands')
    BY <1>k DEF Excused, Strands
  <2> QED
    BY <1>k, <1>t, <2>1 DEF ReadInv, Reading!ReadIsOwed, Excused
<1>1. ASSUME NEW j \in Readers, \/ Reading!ReadStarts(j) \/ Reading!ReadCut(j)
                                \/ Reading!ReadStopped(j) \/ Reading!ReaderReturns(j)
                                \/ \E good \in BOOLEAN : Reading!ReadOut(j, good)
      PROVE  ReadInv'
  <2>1. UNCHANGED <<read, dismissal, stranded, rerun, broken>>
    BY <1>1 DEF Reading!ReadStarts, Reading!ReadCut, Reading!ReadStopped, Reading!ReaderReturns,
                Reading!ReadOut
  <2>2. \A k \in Readers \ {j} : reader'[k] = reader[k]
    BY <1>1, <1>t DEF Reading!ReadStarts, Reading!ReadCut, Reading!ReadStopped,
                      Reading!ReaderReturns, Reading!ReadOut, Reading!TypeOK
  <2>3. reader'[j].stopped => reader[j].stopped
    <3>1. CASE Reading!ReadStarts(j)
      BY <3>1, <1>t DEF Reading!ReadStarts, Reading!TypeOK, Reading!NoJob
    <3>2. CASE Reading!ReadCut(j) \/ Reading!ReaderReturns(j)
      BY <3>2, <1>t, <1>j DEF Reading!ReadCut, Reading!ReaderReturns, Reading!TypeOK
    <3>3. CASE Reading!ReadStopped(j)
      BY <3>3, <1>t DEF Reading!ReadStopped, Reading!TypeOK
    <3>4. CASE \E good \in BOOLEAN : Reading!ReadOut(j, good)
      BY <3>4, <1>t DEF Reading!ReadOut, Reading!TypeOK
    <3> QED
      BY <1>1, <3>1, <3>2, <3>3, <3>4
  <2>4. Excused \/ (reader'[j].at \in {"waiting", "asking", "settling"}
                      <=> reader[j].at \in {"waiting", "asking", "settling"})
    <3>1. CASE Reading!ReadStarts(j)
      BY <3>1, <1>t DEF Reading!ReadStarts, Reading!TypeOK, Reading!NoJob, Excused
    <3>2. CASE Reading!ReadCut(j) \/ Reading!ReaderReturns(j)
      BY <3>2, <1>t, <1>j DEF Reading!ReadCut, Reading!ReaderReturns, Reading!TypeOK
    <3>3. CASE Reading!ReadStopped(j)
      BY <3>3 DEF Reading!ReadStopped, ReadInv
    <3>4. CASE \E good \in BOOLEAN : Reading!ReadOut(j, good)
      BY <3>4, <1>t DEF Reading!ReadOut, Reading!TypeOK
    <3> QED
      BY <1>1, <3>1, <3>2, <3>3, <3>4
  <2>5. Excused \/ Reading!Pending' = Reading!Pending
    BY <2>2, <2>4 DEF Reading!Pending
  <2>6. reader'[j].at # "faulted"
    <3>1. CASE Reading!ReadStarts(j)
      BY <3>1, <1>t DEF Reading!ReadStarts, Reading!TypeOK, Reading!NoJob
    <3>2. CASE Reading!ReadCut(j) \/ Reading!ReaderReturns(j)
      BY <3>2, <1>t, <1>j DEF Reading!ReadCut, Reading!ReaderReturns, Reading!TypeOK
    <3>3. CASE Reading!ReadStopped(j)
      BY <3>3, <1>t DEF Reading!ReadStopped, Reading!TypeOK
    <3>4. CASE \E good \in BOOLEAN : Reading!ReadOut(j, good)
      BY <3>4, <1>t DEF Reading!ReadOut, Reading!TypeOK
    <3> QED
      BY <1>1, <3>1, <3>2, <3>3, <3>4
  <2> QED
    BY <1>k, <2>1, <2>2, <2>3, <2>5, <2>6
<1>2. ASSUME NEW j \in Readers, Reading!SettleRead(j) PROVE ReadInv'
  <2>1. UNCHANGED <<dismissal, stranded, rerun, broken>> /\ j \in Reading!Pending
    BY <1>2 DEF Reading!SettleRead, Reading!Pending
  <2>2. \A k \in Readers \ {j} : reader'[k] = reader[k]
    BY <1>2, <1>t DEF Reading!SettleRead, Reading!TypeOK
  <2>3. reader'[j].at = "back" /\ reader'[j].stopped = reader[j].stopped
    BY <1>2, <1>t DEF Reading!SettleRead, Reading!TypeOK
  <2>4. \/ read.state = "gone" /\ read' = read
        \/ read'.state = "ready" /\ read'.result
        \/ read'.state = "failed" /\ read'.input = read.input
    BY <1>2, <1>t DEF Reading!SettleRead, Reading!TypeOK
  <2>5. Excused' <=> Excused
    BY <2>1, <2>4, <1>2, <1>t DEF Excused, Reading!SettleRead, Reading!TypeOK
  <2>6. ~Excused => /\ read.state = "reading" /\ Reading!Pending = {j} /\ read.input
                    /\ ~stranded
    BY <2>1, <1>t DEF ReadInv, Reading!ReadIsOwed, Reading!TypeOK, Excused
  <2>7. ~Excused => Reading!Pending' = {}
    BY <2>2, <2>3, <2>6 DEF Reading!Pending
  <2>8. Reading!ReadIsOwed'
    BY <2>4, <2>5, <2>6, <2>7 DEF ReadInv, Reading!ReadIsOwed, Excused
  <2>9. Excused' \/ Strands'
    BY <2>1, <2>2, <2>3, <2>5, <2>6 DEF ReadInv, Strands
  <2> QED
    BY <1>t, <2>2, <2>3, <2>5, <2>8, <2>9 DEF ReadInv
<1>3. CASE Reading!RetryRead
  <2>1. PICK j \in Readers : reader[j].at = "none" /\ reader' = [reader EXCEPT ![j] = Reading!Queued]
    BY <1>3 DEF Reading!RetryRead, Reading!Enqueue
  <2>2. /\ UNCHANGED <<dismissal, stranded, rerun, broken>> /\ read.state = "failed"
        /\ read'.state = "reading" /\ read'.input = read.input
    BY <1>3, <1>t DEF Reading!RetryRead, Reading!TypeOK
  <2>3. Excused' <=> Excused
    BY <2>2 DEF Excused
  <2>4. reader'[j] = Reading!Queued /\ \A k \in Readers \ {j} : reader'[k] = reader[k]
    BY <1>t, <2>1 DEF Reading!TypeOK
  <2>5. Reading!Pending' = Reading!Pending \cup {j}
    BY <1>j, <2>4 DEF Reading!Pending
  <2>6. ~Excused => Reading!Pending' = {j} /\ read'.input /\ ~stranded
    BY <2>2, <2>5 DEF ReadInv, Reading!ReadIsOwed, Excused, Strands
  <2>7. j \in Reading!Pending'
    BY <2>5
  <2>8. Reading!ReadIsOwed'
    BY <2>2, <2>3, <2>6, <2>7 DEF Reading!ReadIsOwed, Excused
  <2>9. Excused' \/ Strands'
    BY <1>j, <2>2, <2>3, <2>4 DEF ReadInv, Strands
  <2> QED
    BY <1>j, <1>t, <2>3, <2>4, <2>8, <2>9 DEF ReadInv
<1>4. CASE Reading!Dismiss
  BY <1>4, <1>t DEF Reading!Dismiss, ReadInv, Reading!ReadIsOwed, Excused
<1>5. CASE Reading!Delete
  <2>1. read'.state = "gone"
    BY <1>5, <1>t DEF Reading!Delete, Reading!TypeOK
  <2> QED
    BY <1>t, <2>1 DEF ReadInv, Reading!ReadIsOwed, Excused
<1>6. CASE Reading!DismissCut
  BY <1>6, <1>t DEF Reading!DismissCut, ReadInv, Reading!ReadIsOwed, Excused
<1>7. CASE Reading!Crash
  <2>1. read' = read /\ dismissal' = "none"
    BY <1>7 DEF Reading!Crash
  <2>2. \A j \in Readers : reader'[j] = IF reader[j].at = "none" THEN Reading!NoJob ELSE Reading!Queued
    BY <1>7 DEF Reading!Crash
  <2>3. \A j \in Readers : ~reader'[j].stopped
    BY <1>j, <2>2
  <2>4. Excused' \/ (~Excused /\ \A j \in Readers : reader[j].at # "back")
    BY <1>7, <1>t DEF Reading!Crash, Excused, Reading!TypeOK
  <2>5. /\ \A j \in Readers : reader'[j].at # "faulted"
        /\ stranded' <=> stranded /\ \A j \in Readers : reader[j].at # "faulted"
    BY <1>7, <1>j, <1>t, <2>2 DEF Reading!Crash, Reading!TypeOK
  <2>6. Excused' \/ Reading!Pending' = Reading!Pending
                      \cup {j \in Readers : reader[j].at = "faulted"}
    BY <1>t, <1>j, <2>2, <2>4 DEF Reading!Pending, Reading!TypeOK
  <2>7. Reading!ReadIsOwed' /\ (Excused' \/ Strands')
    <3>1. CASE Excused'
      BY <2>1, <3>1 DEF ReadInv, Reading!ReadIsOwed, Excused
    <3>2. CASE ~Excused' /\ \A j \in Readers : reader[j].at # "faulted"
      <4>1. Reading!Pending' = Reading!Pending /\ (stranded' <=> stranded)
        BY <2>5, <2>6, <3>2
      <4> QED
        BY <1>t, <2>1, <2>4, <2>5, <3>2, <4>1
           DEF ReadInv, Reading!ReadIsOwed, Excused, Strands, Reading!TypeOK
    <3>3. ASSUME ~Excused', NEW j \in Readers, reader[j].at = "faulted"
          PROVE  Reading!ReadIsOwed' /\ Strands'
      <4>1. /\ stranded /\ ~stranded' /\ read.state = "reading"
            /\ \A k \in Readers : reader[k].at = "faulted" => k = j
        BY <2>4, <2>5, <3>3 DEF ReadInv, Strands
      <4>2. Reading!Pending = {} /\ read.input
        BY <2>4, <3>3, <4>1 DEF ReadInv, Reading!ReadIsOwed, Excused
      <4>3. Reading!Pending' = {j}
        BY <2>6, <3>3, <4>1, <4>2
      <4> QED
        BY <2>1, <2>5, <4>1, <4>2, <4>3 DEF ReadInv, Reading!ReadIsOwed, Strands
    <3> QED
      BY <3>1, <3>2, <3>3
  <2> QED
    BY <1>t, <2>3, <2>7 DEF ReadInv
\* The job of a read fails on a fault, or one that has failed waits again.
<1>8. ASSUME NEW j \in Readers, Reading!Fault(j) PROVE ReadInv'
  <2>1. UNCHANGED <<read, dismissal, rerun, broken>> /\ stranded' /\ j \in Reading!Pending
    BY <1>8 DEF Reading!Fault, Reading!Pending
  <2>2. \A k \in Readers \ {j} : reader'[k] = reader[k]
    BY <1>8, <1>t DEF Reading!Fault, Reading!TypeOK
  <2>3. reader'[j].at = "faulted" /\ reader'[j].stopped = reader[j].stopped
    BY <1>8, <1>t DEF Reading!Fault, Reading!TypeOK
  <2>4. Excused' <=> Excused
    BY <2>1 DEF Excused
  <2>5. ~Excused => /\ read.state = "reading" /\ Reading!Pending = {j} /\ ~stranded
                    /\ \A k \in Readers : reader[k].at # "faulted"
    BY <2>1, <1>t DEF ReadInv, Reading!ReadIsOwed, Reading!TypeOK, Excused, Strands
  <2>6. ~Excused => Reading!Pending' = {}
    BY <2>2, <2>3, <2>5 DEF Reading!Pending
  <2>7. Reading!ReadIsOwed'
    BY <2>1, <2>4, <2>5, <2>6 DEF ReadInv, Reading!ReadIsOwed, Excused
  <2>8. Excused' \/ Strands'
    BY <2>1, <2>2, <2>4, <2>5 DEF Strands
  <2> QED
    BY <1>t, <2>2, <2>3, <2>4, <2>7, <2>8 DEF ReadInv
<1>9. ASSUME NEW j \in Readers, Reading!ReaderAgain(j) PROVE ReadInv'
  <2>1. /\ UNCHANGED <<read, dismissal, broken>> /\ reader[j].at \in {"back", "faulted"}
        /\ rerun => rerun' /\ (reader[j].at = "back" => rerun')
    BY <1>9 DEF Reading!ReaderAgain
  <2>2. reader'[j] = Reading!Queued /\ \A k \in Readers \ {j} : reader'[k] = reader[k]
    BY <1>9, <1>t DEF Reading!ReaderAgain, Reading!TypeOK
  <2>3. Excused => Excused'
    BY <2>1 DEF Excused
  <2>4. ASSUME ~Excused' PROVE Reading!Pending' = {j} /\ ~stranded' /\ Strands'
    <3>1. ~Excused /\ reader[j].at = "faulted" /\ ~stranded'
      BY <1>9, <2>1, <2>3, <2>4 DEF Excused, Reading!ReaderAgain
    <3>2. /\ stranded /\ read.state = "reading"
          /\ \A k \in Readers \ {j} : reader[k].at # "faulted"
      BY <3>1 DEF ReadInv, Strands
    <3>3. Reading!Pending = {}
      BY <3>1, <3>2 DEF ReadInv, Reading!ReadIsOwed, Excused
    <3>4. Reading!Pending' = {j}
      BY <1>j, <2>2, <3>3 DEF Reading!Pending
    <3>5. \A k \in Readers : reader'[k].at # "faulted"
      BY <1>j, <2>2, <3>2
    <3> QED
      BY <3>1, <3>4, <3>5 DEF Strands
  <2>5. ~Excused' => read.state = "reading"
    BY <1>9, <2>1, <2>3 DEF ReadInv, Strands, Excused, Reading!ReaderAgain
  <2>6. j \in Readers /\ read' = read
    BY <2>1
  <2>7. Reading!ReadIsOwed'
    BY <2>3, <2>4, <2>5, <2>6 DEF ReadInv, Reading!ReadIsOwed, Excused
  <2> QED
    BY <1>j, <1>t, <2>2, <2>3, <2>4, <2>7 DEF ReadInv
<1> QED
  BY <1>1, <1>2, <1>3, <1>4, <1>5, <1>6, <1>7, <1>8, <1>9 DEF Reading!Next

LEMMA ReadInit ==
  ASSUME Reading!Init
  PROVE  ReadInv
<1>1. PICK j \in Readers : reader = [k \in Readers |-> IF k = j THEN Reading!Queued ELSE Reading!NoJob]
  BY DEF Reading!Init
<1>2. /\ read.state = "reading" /\ read.input
      /\ read \in [state: {"reading"}, file: BOOLEAN, input: BOOLEAN, result: BOOLEAN]
      /\ dismissal = "none" /\ stranded = FALSE /\ rerun = FALSE /\ broken = FALSE
      /\ mishaps \in 0..MaxMishaps
  BY ServicesConstants DEF Reading!Init
<1>3. /\ Reading!Pending = {j}
      /\ \A k \in Readers : ~reader[k].stopped /\ reader[k].at # "faulted"
  BY <1>1 DEF Reading!Pending, Reading!Queued, Reading!NoJob
<1>4. Reading!TypeOK
  BY <1>1, <1>2 DEF Reading!TypeOK, Reading!Queued, Reading!NoJob
<1> QED
  BY <1>2, <1>3, <1>4 DEF ReadInv, Reading!ReadIsOwed, Strands

\* However often it fails, is cut, is tried again and is dismissed, a read that waits has one job
\* that will settle it and what it is read from; it has none from when its job has failed on a
\* fault, and then never two.
THEOREM ReadIsOwedHolds == ServicesSpec => []ReadIsOwed
<1> DEFINE Inv == on = "reading" => ReadInv
<1>1. ServicesInit => Inv
  BY ReadInit DEF ServicesInit
<1>2. Inv /\ [ServicesNext]_servicesVars => Inv'
  <2> SUFFICES ASSUME ReadInv, on = "reading", on' = "reading",
                      [ServicesNext]_servicesVars
               PROVE  ReadInv'
    BY DEF ServicesNext, servicesVars
  <2>1. CASE Reading!Next
    BY <2>1, ReadStep
  <2>2. CASE UNCHANGED reading
    BY <2>2 DEF reading, ReadInv, Reading!TypeOK, Reading!ReadIsOwed, Reading!Pending, Excused,
                Strands
  <2> QED
    BY <2>1, <2>2 DEF ServicesNext, servicesVars
<1>3. Inv => ReadIsOwed
  BY DEF ReadInv, ReadIsOwed
<1> QED
  BY <1>1, <1>2, <1>3, PTL DEF ServicesSpec

-----------------------------------------------------------------------------
(* The schema of the database.                                             *)

\* A copy of what the last program to come up left, with at most n newer ones.
Kept(n) == \E i \in 1..Len(backups) : backups[i] = before /\ Len(backups) - i <= n

\* The ledger is a beginning of the migrations; a program at one has those before it, and a Reset
\* past a table has dropped those before it.
InOrder ==
  /\ \A m \in ledger : 1..m \subseteq ledger
  /\ program.at \in {"migrate", "repair"} =>
       program.next >= 1 /\ \A m \in 1..program.version : m < program.next => m \in ledger
  /\ program.at = "drop" /\ program.next > 0 => ledger = {} /\ \A m \in tables : m >= program.next

\* What the ledger says is there, but for a Reset that has begun to drop.
Truthful == ~torn /\ (program.at = "drop" => program.next = 0) => ledger = tables

\* A program that has come up is at what it left; one that has not has the copy, each start since
\* having put at most one on top of it.
Copies ==
  /\ program.at = "drop" => before = {}
  /\ program.at \in {"backup", "migrate"} => tries >= 1
  /\ ~torn /\ before # {} =>
       /\ program.at # "repair"
       /\ program.at = "up" => ledger = before /\ Database!Pending = {}
       /\ tries <= 3 =>
            /\ program.at = "down" /\ ledger # before => Kept(tries - 1)
            /\ program.at = "backup" /\ ledger # before => Kept(tries - 2)
            /\ program.at = "migrate" /\ (ledger # before \/ Database!Pending # {}) => Kept(tries - 1)

StoreInv == Database!TypeOK /\ InOrder /\ Truthful /\ Copies

Programs == [at: {"down", "backup", "migrate", "repair", "up", "drop"},
             version: 1..MaxVersion, next: 0..MaxVersion + 1]

LEMMA StoreTypes ==
  ASSUME Database!TypeOK
  PROVE  /\ program \in Programs /\ MaxVersion \in Nat \ {0} /\ MaxStarts \in Nat
         /\ ledger \subseteq 1..MaxVersion /\ tables \subseteq 1..MaxVersion
         /\ before \subseteq 1..MaxVersion /\ tries \in Nat /\ torn \in BOOLEAN
         /\ backups \in Seq(SUBSET (1..MaxVersion)) /\ Len(backups) <= 3
         /\ Database!Down \in Programs
<1>1. MaxVersion \in Nat \ {0} /\ MaxStarts \in Nat
  BY ServicesConstants
<1>2. program \in Programs
  BY DEF Database!TypeOK, Database!Migrations, Programs
<1>3. Database!Down \in Programs
  BY <1>1 DEF Programs, Database!Down
<1>4. backups \in Seq(SUBSET (1..MaxVersion)) /\ Len(backups) <= 3
  BY DEF Database!TypeOK, Database!Migrations, Database!KeepBackups
<1> QED
  BY <1>1, <1>2, <1>3, <1>4 DEF Database!TypeOK, Database!Migrations

\* Where GoTo leads.
LEMMA Went ==
  ASSUME program \in Programs, MaxVersion \in Nat,
         NEW at \in {"down", "backup", "migrate", "repair", "up", "drop"},
         NEW n \in 0..MaxVersion + 1, Database!GoTo(at, n)
  PROVE  /\ program' \in Programs
         /\ program'.at = at /\ program'.next = n /\ program'.version = program.version
<1>1. program' = [program EXCEPT !.at = at, !.next = n]
  BY DEF Database!GoTo
<1>2. program' = [at |-> at, version |-> program.version, next |-> n]
  BY <1>1 DEF Programs
<1> QED
  BY <1>2 DEF Programs

\* A copy put on top of the others, of which three are kept.
Top(s, x) == IF Len(Append(s, x)) > 3 THEN Tail(Append(s, x)) ELSE Append(s, x)

LEMMA TopKeeps ==
  ASSUME NEW S, NEW s \in Seq(S), NEW x \in S, Len(s) <= 3
  PROVE  /\ Top(s, x) \in Seq(S) /\ Len(Top(s, x)) >= 1 /\ Len(Top(s, x)) <= 3
         /\ Top(s, x)[Len(Top(s, x))] = x
         /\ \A i \in 1..Len(s) : Len(s) - i <= 1 =>
              \E k \in 1..Len(Top(s, x)) :
                Top(s, x)[k] = s[i] /\ Len(Top(s, x)) - k = Len(s) - i + 1
<1>1. /\ Append(s, x) \in Seq(S) /\ Len(Append(s, x)) = Len(s) + 1
      /\ Append(s, x)[Len(s) + 1] = x
      /\ \A i \in 1..Len(s) : Append(s, x)[i] = s[i]
  OBVIOUS
<1>2. CASE Len(s) < 3
  <2>1. Top(s, x) = Append(s, x)
    BY <1>1, <1>2 DEF Top
  <2>2. \A i \in 1..Len(s) : i \in 1..Len(Append(s, x)) /\ Append(s, x)[i] = s[i]
                             /\ Len(Append(s, x)) - i = Len(s) - i + 1
    BY <1>1
  <2> QED
    BY <1>1, <1>2, <2>1, <2>2
<1>3. CASE Len(s) = 3
  <2>1. Top(s, x) = Tail(Append(s, x))
    BY <1>1, <1>3 DEF Top
  <2>2. /\ Tail(Append(s, x)) \in Seq(S) /\ Len(Tail(Append(s, x))) = 3
        /\ \A k \in 1..3 : Tail(Append(s, x))[k] = Append(s, x)[k + 1]
    BY <1>1, <1>3
  <2>3. ASSUME NEW i \in 1..Len(s), Len(s) - i <= 1
        PROVE  \E k \in 1..3 : Tail(Append(s, x))[k] = s[i] /\ 3 - k = Len(s) - i + 1
    <3>1. i - 1 \in 1..3 /\ Tail(Append(s, x))[i - 1] = s[i] /\ 3 - (i - 1) = Len(s) - i + 1
      BY <1>1, <1>3, <2>2, <2>3
    <3> QED
      BY <3>1
  <2>4. Tail(Append(s, x))[3] = x
    BY <1>1, <1>3, <2>2
  <2>5. /\ Top(s, x) \in Seq(S) /\ Len(Top(s, x)) = 3 /\ Top(s, x)[3] = x
    BY <2>1, <2>2, <2>4
  <2>6. \A i \in 1..Len(s) : Len(s) - i <= 1 =>
          \E k \in 1..3 : Top(s, x)[k] = s[i] /\ 3 - k = Len(s) - i + 1
    BY <2>1, <2>3
  <2> QED
    BY <2>5, <2>6
<1>4. Len(s) < 3 \/ Len(s) = 3
  <2>1. Len(s) \in Nat
    OBVIOUS
  <2>2. \A n \in Nat : n <= 3 => n < 3 \/ n = 3
    OBVIOUS
  <2> QED
    BY <2>1, <2>2
<1> QED
  BY <1>2, <1>3, <1>4

LEMMA TopHolds ==
  ASSUME NEW S, NEW s \in Seq(S), NEW x \in S, Len(s) <= 3, NEW i \in 1..Len(s), Len(s) - i <= 1
  PROVE  \E k \in 1..Len(Top(s, x)) : Top(s, x)[k] = s[i] /\ Len(Top(s, x)) - k = Len(s) - i + 1
BY TopKeeps

LEMMA StoreTypeStep ==
  ASSUME Database!TypeOK, InOrder, Database!Next
  PROVE  Database!TypeOK'
<1>t. /\ program \in Programs /\ MaxVersion \in Nat \ {0} /\ MaxStarts \in Nat
      /\ backups \in Seq(SUBSET (1..MaxVersion)) /\ Len(backups) <= 3
      /\ ledger \subseteq 1..MaxVersion /\ tables \subseteq 1..MaxVersion
      /\ before \subseteq 1..MaxVersion /\ tries \in Nat /\ torn \in BOOLEAN
      /\ Database!Down \in Programs /\ starts \in 0..MaxStarts
  BY StoreTypes DEF Database!TypeOK
<1>v. program.version \in 1..MaxVersion /\ program.next \in 0..MaxVersion + 1 /\ 0 \in 0..MaxVersion + 1
      /\ 1 \in 0..MaxVersion + 1
  BY <1>t DEF Programs
<1>g. ASSUME program' \in Programs, ledger' \subseteq 1..MaxVersion, tables' \subseteq 1..MaxVersion,
             before' \subseteq 1..MaxVersion, tries' \in Nat, torn' \in BOOLEAN,
             backups' \in Seq(SUBSET (1..MaxVersion)), Len(backups') <= 3,
             starts' \in 0..MaxStarts
      PROVE  Database!TypeOK'
  <2> QED
    BY <1>g DEF Database!TypeOK, Database!Migrations, Database!KeepBackups, Programs
<1>1. CASE Database!Start
  <2>1. program' \in Programs
    BY <1>1, <1>t DEF Database!Start, Database!Migrations, Programs
  <2> QED
    BY <1>1, <1>g, <1>t, <2>1 DEF Database!Start
<1>2. CASE Database!Backup
  <2>1. program' \in Programs
    BY <1>2, <1>t, <1>v, Went DEF Database!Backup
  <2>2. backups' = backups \/ backups' = Top(backups, ledger)
    BY <1>2 DEF Database!Backup, Top, Database!KeepBackups
  <2>3. /\ Top(backups, ledger) \in Seq(SUBSET (1..MaxVersion))
        /\ Len(Top(backups, ledger)) <= 3
    <3>1. ledger \in SUBSET (1..MaxVersion)
      BY <1>t
    <3> QED
      BY <1>t, <3>1, TopKeeps
  <2> QED
    BY <1>2, <1>g, <1>t, <2>1, <2>2, <2>3 DEF Database!Backup, Database!Same
<1>3. CASE Database!Migrate
  <2>1. program.next \in 1..MaxVersion
    <3>1. program.next >= 1 /\ program.next <= program.version
      BY <1>3 DEF Database!Migrate, InOrder
    <3> QED
      BY <1>t, <1>v, <3>1
  <2>2. program.next + 1 \in 0..MaxVersion + 1 /\ program.at \in {"migrate", "repair"}
    BY <1>3, <1>t, <2>1 DEF Database!Migrate
  <2>3. program' \in Programs
    BY <1>3, <1>t, <2>2, Went DEF Database!Migrate
  <2>4. ledger' \subseteq 1..MaxVersion /\ tables' \subseteq 1..MaxVersion
    BY <1>3, <1>t, <2>1 DEF Database!Migrate
  <2> QED
    BY <1>3, <1>g, <1>t, <2>3, <2>4 DEF Database!Migrate, Database!Same
<1>4. CASE Database!MigrateFails \/ Database!Stop
  <2>1. program' \in Programs
    BY <1>4, <1>t DEF Database!MigrateFails, Database!Stop, Programs
  <2>2. torn' \in BOOLEAN
    BY <1>4, <1>t DEF Database!MigrateFails, Database!Stop, Database!Same
  <2> QED
    BY <1>4, <1>g, <1>t, <2>1, <2>2 DEF Database!MigrateFails, Database!Stop, Database!Same
<1>5. CASE Database!Up \/ Database!Fix \/ Database!Reset
  <2>1. program' \in Programs
    BY <1>5, <1>t, <1>v, Went DEF Database!Up, Database!Fix, Database!Reset
  <2>2. tries' \in Nat
    BY <1>5, <1>t DEF Database!Up, Database!Fix, Database!Reset, Database!Same
  <2>3. before' \subseteq 1..MaxVersion
    BY <1>5, <1>t DEF Database!Up, Database!Fix, Database!Reset, Database!Same
  <2>4. UNCHANGED <<ledger, tables, backups, torn, starts>>
    BY <1>5 DEF Database!Up, Database!Fix, Database!Reset, Database!Same
  <2> QED
    BY <1>g, <1>t, <2>1, <2>2, <2>3, <2>4
<1>6. CASE Database!Drop
  <2>1. program.next + 1 \in 0..MaxVersion + 1
    BY <1>6, <1>t, <1>v DEF Database!Drop, Database!Migrations
  <2>2. program' \in Programs
    BY <1>6, <1>t, <2>1, Went DEF Database!Drop
  <2>3. ledger' \subseteq 1..MaxVersion /\ tables' \subseteq 1..MaxVersion
    BY <1>6, <1>t DEF Database!Drop
  <2> QED
    BY <1>6, <1>g, <1>t, <2>2, <2>3 DEF Database!Drop, Database!Same
<1>7. CASE Database!Dropped \/ Database!ResetCut
  <2>1. program' \in Programs
    BY <1>7, <1>t, <1>v, Went DEF Database!Dropped, Database!ResetCut
  <2> QED
    BY <1>7, <1>g, <1>t, <2>1 DEF Database!Dropped, Database!ResetCut
<1> QED
  BY <1>1, <1>2, <1>3, <1>4, <1>5, <1>6, <1>7 DEF Database!Next

\* The copy put on top does not push the one to keep out, within three starts.
LEMMA CopyMade ==
  ASSUME Database!TypeOK, Copies, program.at = "backup", ~torn, before # {}, tries <= 3,
         backups' = Top(backups, ledger), before' = before, tries' = tries
  PROVE  Kept(tries - 1)'
<1>t. /\ backups \in Seq(SUBSET (1..MaxVersion)) /\ Len(backups) <= 3
      /\ ledger \in SUBSET (1..MaxVersion) /\ tries \in Nat /\ tries >= 1
  BY StoreTypes DEF Copies
<1>1. /\ Len(backups') >= 1 /\ Len(backups') \in Nat
      /\ backups'[Len(backups')] = ledger
      /\ \A i \in 1..Len(backups) : Len(backups) - i <= 1 =>
           \E k \in 1..Len(backups') :
             backups'[k] = backups[i] /\ Len(backups') - k = Len(backups) - i + 1
  <2>1. /\ Top(backups, ledger) \in Seq(SUBSET (1..MaxVersion))
        /\ Len(Top(backups, ledger)) >= 1
        /\ Top(backups, ledger)[Len(Top(backups, ledger))] = ledger
        /\ \A i \in 1..Len(backups) : Len(backups) - i <= 1 =>
             \E k \in 1..Len(Top(backups, ledger)) :
               /\ Top(backups, ledger)[k] = backups[i]
               /\ Len(Top(backups, ledger)) - k = Len(backups) - i + 1
    <3> DEFINE S == SUBSET (1..MaxVersion)
    <3>1. backups \in Seq(S) /\ ledger \in S /\ Len(backups) <= 3
      BY <1>t
    <3> HIDE DEF S
    <3>2. /\ Top(backups, ledger) \in Seq(S)
          /\ Len(Top(backups, ledger)) >= 1
          /\ Top(backups, ledger)[Len(Top(backups, ledger))] = ledger
      BY <3>1, TopKeeps
    <3>3. ASSUME NEW i \in 1..Len(backups), Len(backups) - i <= 1
          PROVE  \E k \in 1..Len(Top(backups, ledger)) :
                   /\ Top(backups, ledger)[k] = backups[i]
                   /\ Len(Top(backups, ledger)) - k = Len(backups) - i + 1
      BY <3>1, <3>3, TopHolds
    <3> USE DEF S
    <3> QED
      BY <3>2, <3>3
  <2>2. backups' \in Seq(SUBSET (1..MaxVersion))
    BY <2>1
  <2>3. Len(backups') \in Nat
    BY <2>2
  <2> QED
    BY <2>1, <2>3
<1>2. CASE ledger = before
  <2>1. Len(backups') \in 1..Len(backups') /\ Len(backups') - Len(backups') <= tries - 1
    BY <1>t, <1>1
  <2> QED
    BY <1>1, <1>2, <2>1 DEF Kept
<1>3. CASE ledger # before
  <2>1. PICK i \in 1..Len(backups) : backups[i] = before /\ Len(backups) - i <= tries - 2
    BY <1>3 DEF Copies, Kept
  <2>2. Len(backups) \in Nat
    BY <1>t
  <2>3. Len(backups) - i <= 1
    BY <1>t, <2>1, <2>2
  <2>4. PICK k \in 1..Len(backups') :
          backups'[k] = backups[i] /\ Len(backups') - k = Len(backups) - i + 1
    BY <1>1, <2>3
  <2>5. Len(backups') - k <= tries - 1
    BY <1>t, <2>1, <2>2, <2>4
  <2> QED
    BY <2>1, <2>4, <2>5 DEF Kept
<1> QED
  BY <1>2, <1>3

\* A start is let in, and its copy made.
LEMMA StartStep ==
  ASSUME StoreInv, Database!Start \/ Database!Backup
  PROVE  InOrder' /\ Truthful' /\ Copies'
<1>t. /\ program \in Programs /\ MaxVersion \in Nat \ {0} /\ tries \in Nat
      /\ program.version \in 1..MaxVersion /\ 1 \in 0..MaxVersion + 1
      /\ ledger \subseteq 1..MaxVersion
  BY StoreTypes DEF StoreInv, Programs
<1>1. CASE Database!Start
  <2>1. /\ program.at = "down" /\ program'.at = "backup" /\ tries' = tries + 1
        /\ UNCHANGED <<ledger, tables, backups, before, torn>>
    BY <1>1 DEF Database!Start
  <2>2. InOrder' /\ Truthful'
    BY <2>1 DEF StoreInv, InOrder, Truthful
  <2>3. ASSUME ~torn, before # {}, tries' <= 3, ledger # before PROVE Kept(tries - 2)'
    <3>1. Kept(tries - 1)
      BY <1>t, <2>1, <2>3 DEF StoreInv, Copies
    <3>2. \A n : n <= tries - 1 => n <= tries' - 2
      BY <1>t, <2>1
    <3>3. tries' - 2 = tries - 1
      BY <1>t, <2>1
    <3> QED
      BY <2>1, <3>1, <3>3 DEF Kept
  <2> QED
    BY <1>t, <2>1, <2>2, <2>3 DEF Copies
<1>2. CASE Database!Backup
  <2>1. /\ program.at = "backup" /\ program'.at = "migrate" /\ program'.next = 1
        /\ program'.version = program.version
        /\ UNCHANGED <<ledger, tables, before, tries, torn>>
    BY <1>2, <1>t, Went DEF Database!Backup, Database!Same
  <2>2. InOrder' /\ Truthful'
    BY <1>t, <2>1 DEF StoreInv, InOrder, Truthful
  <2>3. Database!Pending' = Database!Pending /\ tries >= 1
    BY <2>1 DEF Database!Pending, StoreInv, Copies
  <2>4. ASSUME ~torn, before # {}, tries <= 3, ledger # before \/ Database!Pending # {}
        PROVE  Kept(tries - 1)'
    <3>1. CASE backups' = Top(backups, ledger)
      BY <2>1, <2>4, <3>1, CopyMade DEF StoreInv
    <3>2. CASE backups' = backups /\ Database!Pending \in {{}, 1..program.version}
      <4>1. ledger # before
        <5>1. CASE Database!Pending = {}
          BY <2>4, <5>1
        <5>2. CASE Database!Pending = 1..program.version
          <6>1. 1 \notin ledger
            BY <1>t, <5>2 DEF Database!Pending
          <6>2. \A m \in ledger : 1 \in 1..m
            BY <1>t
          <6>3. ledger = {}
            BY <6>1, <6>2 DEF StoreInv, InOrder
          <6> QED
            BY <2>4, <6>3
        <5> QED
          BY <3>2, <5>1, <5>2
      <4>2. PICK i \in 1..Len(backups) : backups[i] = before /\ Len(backups) - i <= tries - 2
        BY <2>1, <2>4, <4>1 DEF StoreInv, Copies, Kept
      <4>3. Len(backups) \in Nat
        BY StoreTypes DEF StoreInv
      <4>4. Len(backups) - i <= tries - 1
        BY <1>t, <4>2, <4>3
      <4> QED
        BY <2>1, <3>2, <4>2, <4>4 DEF Kept
    <3> QED
      BY <1>2, <3>1, <3>2 DEF Database!Backup, Top, Database!KeepBackups
  <2> QED
    BY <2>1, <2>2, <2>3, <2>4 DEF Copies
<1> QED
  BY <1>1, <1>2

\* A migration is applied, or fails.
LEMMA MigrationStep ==
  ASSUME StoreInv, Database!Migrate \/ Database!MigrateFails
  PROVE  InOrder' /\ Truthful' /\ Copies'
<1>t. /\ program \in Programs /\ MaxVersion \in Nat \ {0} /\ tries \in Nat
      /\ program.version \in 1..MaxVersion /\ program.next \in 0..MaxVersion + 1
      /\ ledger \subseteq 1..MaxVersion
  BY StoreTypes DEF StoreInv, Programs
<1>1. CASE Database!Migrate
  <2> DEFINE n == program.next
  <2>1. program.at \in {"migrate", "repair"} /\ n >= 1 /\ n <= program.version
    BY <1>1 DEF Database!Migrate, StoreInv, InOrder
  <2>2. n \in 1..MaxVersion /\ n + 1 \in 0..MaxVersion + 1
    BY <1>t, <2>1
  <2>3. /\ program'.at = program.at /\ program'.next = n + 1 /\ program'.version = program.version
    BY <1>1, <1>t, <2>1, <2>2, Went DEF Database!Migrate
  <2>4. /\ ledger' = ledger \cup {n} /\ UNCHANGED <<backups, before, tries, torn>>
        /\ ledger = tables => ledger' = tables'
    BY <1>1 DEF Database!Migrate, Database!Same
  <2>5. \A m \in 1..program.version : m < n => m \in ledger
    BY <2>1 DEF StoreInv, InOrder
  <2>6. InOrder'
    <3>1. \A m \in 1..n : m \in ledger'
      BY <1>t, <2>2, <2>1, <2>4, <2>5
    <3>2. \A m \in ledger' : 1..m \subseteq ledger'
      BY <2>4, <3>1 DEF StoreInv, InOrder
    <3>3. n + 1 >= 1 /\ \A m \in 1..program.version : m < n + 1 => m \in ledger'
      BY <1>t, <2>2, <3>1
    <3> QED
      BY <2>1, <2>3, <3>2, <3>3 DEF InOrder
  <2>7. Truthful'
    BY <2>1, <2>3, <2>4 DEF StoreInv, Truthful
  <2>8. ledger' # ledger \/ Database!Pending' # {} => Database!Pending # {}
    BY <1>t, <2>1, <2>2, <2>3, <2>4 DEF Database!Pending
  <2>9. ASSUME ~torn, before # {}, tries <= 3, program.at = "migrate",
               ledger' # before \/ Database!Pending' # {}
        PROVE  Kept(tries - 1)'
    <3>1. Kept(tries - 1)
      BY <2>8, <2>9 DEF StoreInv, Copies
    <3> QED
      BY <2>4, <3>1 DEF Kept
  <2> QED
    BY <2>1, <2>3, <2>4, <2>6, <2>7, <2>9 DEF StoreInv, Copies
<1>2. CASE Database!MigrateFails
  <2>1. /\ UNCHANGED <<ledger, tables, backups, before, tries, torn>>
        /\ program.at \in {"migrate", "repair"} /\ Database!Pending # {}
    BY <1>2 DEF Database!MigrateFails, Database!Same
  <2>2. /\ program.at = "migrate" => program'.at = "down"
        /\ program.at = "repair" => program'.at = "up"
    BY <1>2, <1>t DEF Database!MigrateFails, Programs, Database!Down
  <2>3. InOrder' /\ Truthful'
    BY <2>1, <2>2 DEF StoreInv, InOrder, Truthful
  <2>4. ASSUME ~torn, before # {}, tries <= 3, program.at = "migrate" PROVE Kept(tries - 1)'
    <3>1. Kept(tries - 1)
      BY <2>1, <2>4 DEF StoreInv, Copies
    <3> QED
      BY <2>1, <3>1 DEF Kept
  <2> QED
    BY <2>1, <2>2, <2>3, <2>4 DEF StoreInv, Copies
<1> QED
  BY <1>1, <1>2

\* The program comes up, checks its database, or drops it.
LEMMA RunningStep ==
  ASSUME StoreInv, \/ Database!Up \/ Database!Fix \/ Database!Reset \/ Database!Drop
                   \/ Database!Dropped \/ Database!ResetCut \/ Database!Stop
  PROVE  InOrder' /\ Truthful' /\ Copies'
<1>t. /\ program \in Programs /\ MaxVersion \in Nat \ {0} /\ tries \in Nat
      /\ program.version \in 1..MaxVersion /\ program.next \in 0..MaxVersion + 1
      /\ 0 \in 0..MaxVersion + 1 /\ 1 \in 0..MaxVersion + 1
      /\ ledger \subseteq 1..MaxVersion /\ tables \subseteq 1..MaxVersion
  BY StoreTypes DEF StoreInv, Programs
<1>n. program.next = 0 \/ program.next > 0
  <2>1. \A n \in 0..MaxVersion + 1 : n = 0 \/ n > 0
    BY <1>t
  <2> QED
    BY <1>t, <2>1
<1>1. CASE Database!Up
  <2>1. /\ program'.at = "up" /\ program'.version = program.version
        /\ before' = ledger /\ UNCHANGED <<ledger, tables, torn>>
        /\ program.at \in {"migrate", "repair"} /\ program.next > program.version
    BY <1>1, <1>t, Went DEF Database!Up
  <2>2. \A m \in 1..program.version : m < program.next
    BY <1>t, <2>1
  <2>3. Database!Pending' = {}
    BY <2>1, <2>2 DEF StoreInv, InOrder, Database!Pending
  <2> QED
    BY <2>1, <2>3 DEF StoreInv, InOrder, Truthful, Copies
<1>2. CASE Database!Fix
  <2>1. /\ program.at = "up" /\ program'.at = "repair" /\ program'.next = 1
        /\ program'.version = program.version /\ Database!Pending # {}
        /\ UNCHANGED <<ledger, tables, backups, before, tries, torn>>
    BY <1>2, <1>t, Went DEF Database!Fix, Database!Same
  <2> QED
    BY <1>t, <2>1 DEF StoreInv, InOrder, Truthful, Copies
<1>3. CASE Database!Reset
  <2>1. /\ program.at = "up" /\ program'.at = "drop" /\ program'.next = 0 /\ before' = {}
        /\ UNCHANGED <<ledger, tables, backups, tries, torn>>
    BY <1>3, <1>t, Went DEF Database!Reset
  <2> QED
    BY <2>1 DEF StoreInv, InOrder, Truthful, Copies
<1>4. CASE Database!Drop
  <2>1. program.next + 1 \in 0..MaxVersion + 1 /\ program.at = "drop"
    BY <1>4, <1>t DEF Database!Drop, Database!Migrations
  <2>2. /\ program'.at = "drop" /\ program'.next = program.next + 1
        /\ UNCHANGED <<backups, before, tries, torn>>
    BY <1>4, <1>t, <2>1, Went DEF Database!Drop, Database!Same
  <2>3. program'.next > 0
    BY <1>t, <2>2
  <2>4. ledger' = {}
    <3>1. CASE program.next = 0
      BY <1>4, <1>t, <3>1 DEF Database!Drop, Database!Migrations
    <3>2. CASE program.next > 0
      <4>1. ledger = {}
        BY <2>1, <3>2 DEF StoreInv, InOrder
      <4> QED
        BY <1>4, <4>1 DEF Database!Drop
    <3> QED
      BY <1>n, <3>1, <3>2
  <2>5. \A m \in tables' : m >= program.next + 1
    <3>1. \A m \in tables : m >= program.next
      BY <1>t, <2>1 DEF StoreInv, InOrder
    <3>2. program.next \notin tables' /\ tables' \subseteq tables
      BY <1>4, <1>t DEF Database!Drop
    <3> QED
      BY <1>t, <3>1, <3>2
  <2> QED
    BY <2>1, <2>2, <2>3, <2>4, <2>5 DEF StoreInv, InOrder, Truthful, Copies
<1>5. CASE Database!Dropped
  <2>1. /\ program.at = "drop" /\ program.next > MaxVersion
        /\ program'.at = "repair" /\ program'.next = 1
        /\ UNCHANGED <<ledger, tables, before>>
    BY <1>5, <1>t, Went DEF Database!Dropped
  <2>2. ledger = {} /\ tables = {}
    BY <1>t, <2>1 DEF StoreInv, InOrder
  <2>3. \A m \in 1..program'.version : ~(m < 1)
    OBVIOUS
  <2> QED
    BY <2>1, <2>2, <2>3 DEF StoreInv, InOrder, Truthful, Copies
<1>6. CASE Database!ResetCut
  <2>1. program'.at = "up" /\ torn' /\ UNCHANGED <<ledger, before>>
    BY <1>6, <1>t, Went DEF Database!ResetCut
  <2> QED
    BY <2>1 DEF StoreInv, InOrder, Truthful, Copies
<1>7. CASE Database!Stop
  <2>1. /\ program.at # "down" /\ program'.at = "down"
        /\ torn' = (torn \/ (program.at = "drop" /\ program.next > 0))
        /\ UNCHANGED <<ledger, tables, backups, before, tries>>
    BY <1>7 DEF Database!Stop, Database!Down
  <2>2. InOrder'
    BY <2>1 DEF StoreInv, InOrder
  <2>3. Truthful'
    BY <1>n, <2>1 DEF StoreInv, Truthful
  <2>4. ASSUME ~torn', before # {}, tries <= 3, ledger # before PROVE Kept(tries - 1)'
    <3>1. program.at \in {"backup", "migrate"}
      BY <1>t, <2>1, <2>4 DEF StoreInv, Copies, Programs
    <3>2. Kept(tries - 1) \/ Kept(tries - 2)
      BY <2>1, <2>4, <3>1 DEF StoreInv, Copies
    <3>3. PICK i \in 1..Len(backups) :
            backups[i] = before /\ (Len(backups) - i <= tries - 1 \/ Len(backups) - i <= tries - 2)
      BY <3>2 DEF Kept
    <3>4. Len(backups) \in Nat
      BY StoreTypes DEF StoreInv
    <3>5. Len(backups) - i <= tries - 1
      BY <1>t, <3>3, <3>4
    <3> QED
      BY <2>1, <3>3, <3>5 DEF Kept
  <2> QED
    BY <2>1, <2>2, <2>3, <2>4 DEF StoreInv, Copies
<1> QED
  BY <1>1, <1>2, <1>3, <1>4, <1>5, <1>6, <1>7

LEMMA StoreInit ==
  ASSUME Database!Init
  PROVE  StoreInv
<1>1. MaxVersion \in Nat \ {0} /\ MaxStarts \in Nat
  BY ServicesConstants
<1>2. Database!TypeOK
  <2>1. backups \in Seq(SUBSET (1..MaxVersion)) /\ Len(backups) <= 3
    BY DEF Database!Init
  <2> QED
    <3>1. /\ program = [at |-> "down", version |-> 1, next |-> 0] /\ ledger = {} /\ tables = {}
          /\ before = {} /\ tries = 0 /\ torn = FALSE /\ starts = 0
      BY DEF Database!Init, Database!Down
    <3>2. 1 \in 1..MaxVersion /\ 0 \in 0..MaxVersion + 1 /\ 0 \in 0..MaxStarts
      BY <1>1
    <3>3. /\ program.at = "down" /\ program.version \in 1..MaxVersion
          /\ program.next \in 0..MaxVersion + 1
      BY <3>1, <3>2
    <3>4. program \in Programs
      BY <3>1, <3>2 DEF Programs
    <3> QED
      BY <2>1, <3>1, <3>2, <3>4 DEF Database!TypeOK, Database!Migrations, Database!KeepBackups, Programs
<1> QED
  BY <1>2 DEF Database!Init, StoreInv, InOrder, Truthful, Copies, Database!Down

\* Whatever the versions started, the failures and the Resets, an upgrade that no program has come up
\* on has its copy, for three starts; and the ledger says what is there.
THEOREM UpgradeIsBackedHolds == ServicesSpec => []UpgradeIsBacked
<1> DEFINE Inv == on = "database" => StoreInv
<1>1. ServicesInit => Inv
  BY StoreInit DEF ServicesInit
<1>2. Inv /\ [ServicesNext]_servicesVars => Inv'
  <2> SUFFICES ASSUME StoreInv, on = "database", on' = "database",
                      [ServicesNext]_servicesVars
               PROVE  StoreInv'
    BY DEF ServicesNext, servicesVars
  <2>1. CASE Database!Next
    <3>1. Database!TypeOK'
      BY <2>1, StoreTypeStep DEF StoreInv
    <3>2. InOrder' /\ Truthful' /\ Copies'
      BY <2>1, StartStep, MigrationStep, RunningStep DEF Database!Next
    <3> QED
      BY <3>1, <3>2 DEF StoreInv
  <2>2. CASE UNCHANGED database
    BY <2>2 DEF database, StoreInv, InOrder, Truthful, Copies, Kept, Database!TypeOK, Database!Pending
  <2> QED
    BY <2>1, <2>2 DEF ServicesNext, servicesVars
<1>3. Inv => UpgradeIsBacked
  <2> SUFFICES ASSUME StoreInv PROVE Database!UpgradeIsBacked
    BY DEF UpgradeIsBacked
  <2>1. ~torn /\ program.at # "drop" => ledger = tables
    BY DEF StoreInv, Truthful
  <2>2. ASSUME program.at \in {"down", "backup", "migrate"}, ledger # before, before # {},
               tries <= 3, ~torn
        PROVE  before \in Database!ToSet(backups)
    <3>1. Kept(tries - 1) \/ Kept(tries - 2)
      BY <2>2 DEF StoreInv, Copies
    <3>2. \E i \in 1..Len(backups) : backups[i] = before
      BY <3>1 DEF Kept
    <3>3. backups \in Seq(SUBSET (1..MaxVersion))
      BY StoreTypes DEF StoreInv
    <3> QED
      BY <3>2, <3>3 DEF Database!ToSet
  <2> QED
    BY <2>1, <2>2 DEF Database!UpgradeIsBacked, Database!KeepBackups
<1> QED
  BY <1>1, <1>2, <1>3, PTL DEF ServicesSpec

-----------------------------------------------------------------------------
(* A guide being written.                                                  *)

\* Conversations.
Talks == Seq(Agent!Messages)

\* Each call has its result.
Whole(msgs) == \A i \in 1..Len(msgs) :
                 msgs[i] = "calls" => i < Len(msgs) /\ msgs[i + 1] = "results"

\* The rounds a conversation holds have been counted; until the last it is whole, and
\* then no more is saved of it.
Counted == /\ Agent!Done(loop.msgs) <= loop.round
           /\ loop.round < MaxRounds => Whole(loop.msgs)

\* The parser holds the words of the reply that is coming, if it has any.
Heard == /\ loop.at # "idle" => guide = "none"
         /\ loop.at = "post" => words = {} /\ ~loop.wrote
         /\ loop.at \in {"stream", "reply"} => words = IF loop.wrote THEN {"last"} ELSE {}
         /\ loop.at = "reply" => loop.finished

AgentInv == /\ Agent!TypeOK /\ Agent!AnswerIsOneReply /\ Agent!CarriesWholeRounds
            /\ Counted /\ Heard

LEMMA DoneType ==
  ASSUME NEW msgs \in Talks
  PROVE  /\ IsFiniteSet({i \in 1..Len(msgs) : msgs[i] = "calls"})
         /\ Agent!Done(msgs) \in Nat
<1> DEFINE asked == {i \in 1..Len(msgs) : msgs[i] = "calls"}
<1>1. IsFiniteSet(1..Len(msgs))
  BY FS_Interval
<1>2. IsFiniteSet(asked)
  BY <1>1, FS_Subset
<1>3. Cardinality(asked) \in Nat
  BY <1>2, FS_CardinalityType
<1>4. Agent!Done(msgs) = Cardinality(asked)
  BY DEF Agent!Done, Agent!Cardinality, Cardinality
<1> QED
  BY <1>2, <1>3, <1>4

\* Two messages more are a round more, if they are a call and its result.
LEMMA DoneGrows ==
  ASSUME NEW msgs \in Talks, NEW a \in Agent!Messages,
         NEW b \in Agent!Messages \ {"calls"}
  PROVE  /\ msgs \o <<a, b>> \in Talks
         /\ Agent!Done(msgs \o <<a, b>>) = Agent!Done(msgs) + IF a = "calls" THEN 1 ELSE 0
<1> DEFINE more == msgs \o <<a, b>>
           n == Len(msgs)
           old == {i \in 1..n : msgs[i] = "calls"}
           new == {i \in 1..Len(more) : more[i] = "calls"}
<1>1. /\ more \in Talks /\ Len(more) = n + 2 /\ n \in Nat
      /\ \A i \in 1..n : more[i] = msgs[i]
      /\ more[n + 1] = a /\ more[n + 2] = b
  BY DEF Talks
<1>2. Agent!Done(msgs) = Cardinality(old) /\ Agent!Done(more) = Cardinality(new)
  BY DEF Agent!Done, Agent!Cardinality, Cardinality
<1>3. IsFiniteSet(old) /\ Cardinality(old) \in Nat
  BY <1>2, DoneType
<1>4. new = IF a = "calls" THEN old \cup {n + 1} ELSE old
  BY <1>1
<1>5. n + 1 \notin old
  BY <1>1
<1>6. Cardinality(old \cup {n + 1}) = Cardinality(old) + 1
  BY <1>3, <1>5, FS_AddElement
<1>7. Cardinality(new) = Cardinality(old) + IF a = "calls" THEN 1 ELSE 0
  <2> HIDE DEF new, old
  <2>1. CASE a = "calls"
    BY <1>4, <1>6, <2>1
  <2>2. CASE a # "calls"
    BY <1>3, <1>4, <2>2
  <2> QED
    BY <2>1, <2>2
<1> QED
  BY <1>1, <1>2, <1>7

LEMMA WholeGrows ==
  ASSUME NEW msgs \in Talks, NEW a \in Agent!Messages,
         NEW b \in Agent!Messages \ {"calls"}, Whole(msgs), a = "calls" => b = "results"
  PROVE  Whole(msgs \o <<a, b>>)
<1> DEFINE more == msgs \o <<a, b>>
           n == Len(msgs)
<1>1. /\ Len(more) = n + 2 /\ n \in Nat
      /\ \A i \in 1..n : more[i] = msgs[i]
      /\ more[n + 1] = a /\ more[n + 2] = b
  BY DEF Talks
<1> SUFFICES ASSUME NEW i \in 1..Len(more), more[i] = "calls"
             PROVE  i < Len(more) /\ more[i + 1] = "results"
  BY DEF Whole
<1>2. CASE i \in 1..n
  <2>1. i < n /\ msgs[i + 1] = "results"
    BY <1>1, <1>2 DEF Whole
  <2>2. i + 1 \in 1..n
    BY <1>1, <1>2, <2>1
  <2> QED
    BY <1>1, <1>2, <2>1, <2>2
<1>3. CASE i = n + 1
  BY <1>1, <1>3
<1>4. i # n + 2
  BY <1>1
<1> QED
  BY <1>1, <1>2, <1>3, <1>4

\* No round is in no messages, or in the work so far as plain text.
LEMMA DoneNothing ==
  /\ <<>> \in Talks /\ Agent!Done(<<>>) = 0 /\ Whole(<<>>)
  /\ <<"flat">> \in Talks /\ Agent!Done(<<"flat">>) = 0
<1>1. /\ {i \in 1..Len(<<>>) : <<>>[i] = "calls"} = {}
      /\ {i \in 1..Len(<<"flat">>) : <<"flat">>[i] = "calls"} = {}
  OBVIOUS
<1>2. Cardinality({}) = 0
  BY FS_EmptySet
<1>3. Agent!Done(<<>>) = 0 /\ Agent!Done(<<"flat">>) = 0
  BY <1>1, <1>2 DEF Agent!Done, Agent!Cardinality, Cardinality
<1> QED
  BY <1>3 DEF Agent!Messages, Whole, Talks

Loops == [at: {"idle", "post", "stream", "reply"}, msgs: Talks, round: Nat,
          cuts: 0..2, nudges: 0..1, flat: BOOLEAN, attempt: 1..2, post: 1..3,
          wrote: BOOLEAN, called: BOOLEAN, finished: BOOLEAN]

LEMMA AgentTypes ==
  Agent!TypeOK <=> /\ loop \in Loops /\ saved \in Talks
                   /\ words \subseteq {"last", "earlier"}
                   /\ guide \in {"none", "written", "failed"} /\ runs \in 0..MaxRuns
BY DEF Agent!TypeOK, Loops, Talks, Agent!Cuts, Agent!Nudges, Agent!Attempts, Agent!Posts

LEMMA OpenedShape ==
  ASSUME NEW msgs \in Talks, NEW n \in 1..2
  PROVE  /\ Agent!Opened(msgs, n) \in Loops
         /\ Agent!Opened(msgs, n).at = "post" /\ Agent!Opened(msgs, n).msgs = msgs
         /\ Agent!Opened(msgs, n).round = Agent!Done(msgs)
         /\ ~Agent!Opened(msgs, n).wrote
<1>1. Agent!Done(msgs) \in Nat
  BY DoneType
<1> QED
  BY <1>1 DEF Agent!Opened, Loops, Agent!Cuts, Agent!Nudges

LEMMA ClosedShape ==
  /\ Agent!Closed \in Loops /\ Agent!Closed.at = "idle" /\ Agent!Closed.msgs = <<>>
  /\ Agent!Closed.round = 0
  /\ \A f \in BOOLEAN : [Agent!Closed EXCEPT !.finished = f] \in Loops
<1>1. /\ Agent!Opened(<<>>, 1) \in Loops /\ Agent!Opened(<<>>, 1).msgs = <<>>
      /\ Agent!Opened(<<>>, 1).round = 0
  BY DoneNothing, OpenedShape
<1>2. Agent!Closed = [Agent!Opened(<<>>, 1) EXCEPT !.at = "idle"]
  BY DEF Agent!Closed
<1> HIDE DEF Agent!Opened
<1>3. Agent!Closed \in Loops /\ Agent!Closed.at = "idle" /\ Agent!Closed.msgs = <<>>
      /\ Agent!Closed.round = 0
  BY <1>1, <1>2 DEF Loops
<1> QED
  BY <1>3 DEF Loops

LEMMA AskShape ==
  ASSUME NEW l \in Loops, Agent!Ask(l)
  PROVE  /\ loop' \in Loops /\ loop'.at = "post" /\ loop'.msgs = l.msgs
         /\ loop'.round = l.round /\ ~loop'.wrote
<1>1. /\ l.msgs \in Talks /\ l.round \in Nat /\ l.cuts \in 0..2 /\ l.nudges \in 0..1
      /\ l.flat \in BOOLEAN /\ l.attempt \in 1..2
  BY DEF Loops
<1>2. loop' = [at |-> "post", msgs |-> l.msgs, round |-> l.round, cuts |-> l.cuts,
               nudges |-> l.nudges, flat |-> l.flat, attempt |-> l.attempt, post |-> 1,
               wrote |-> FALSE, called |-> FALSE, finished |-> FALSE]
  BY DEF Agent!Ask, Loops
<1> QED
  BY <1>1, <1>2 DEF Loops

LEMMA AgentStep ==
  ASSUME ServicesConstants, AgentInv, Agent!Next
  PROVE  AgentInv'
<1>t. /\ loop \in Loops /\ saved \in Talks
      /\ words \subseteq {"last", "earlier"}
      /\ guide \in {"none", "written", "failed"} /\ runs \in 0..MaxRuns
      /\ MaxRounds \in Nat /\ MaxRuns \in Nat /\ loop.round \in Nat
  BY AgentTypes DEF AgentInv, Loops, ServicesConstants
<1>s. Agent!Done(saved) <= MaxRounds /\ Whole(saved)
  BY DEF AgentInv, Agent!CarriesWholeRounds, Whole
<1>d. Agent!Done(loop.msgs) \in Nat /\ Agent!Done(saved) \in Nat /\ loop.msgs \in Talks
  <2>1. loop.msgs \in Talks
    BY <1>t DEF Loops
  <2> QED
    BY <1>t, <2>1, DoneType
\* What is saved, and what the loop has, keep their rounds.
<1>k. ASSUME loop' \in Loops, saved' \in Talks, words' \subseteq {"last", "earlier"},
             guide' \in {"none", "written", "failed"}, runs' \in 0..MaxRuns,
             Agent!Done(saved') <= MaxRounds, Whole(saved'),
             Agent!Done(loop'.msgs) <= loop'.round,
             loop'.round < MaxRounds => Whole(loop'.msgs),
             Heard', guide' = "written" => words' = {"last"} /\ loop'.finished
      PROVE  AgentInv'
  <2>1. Agent!TypeOK'
    BY <1>k DEF Agent!TypeOK, Loops, Talks, Agent!Cuts, Agent!Nudges, Agent!Attempts, Agent!Posts
  <2>2. Agent!CarriesWholeRounds'
    BY <1>k DEF Agent!CarriesWholeRounds, Whole
  <2>3. Counted'
    BY <1>k DEF Counted, Whole
  <2> QED
    BY <1>k, <2>1, <2>2, <2>3 DEF AgentInv, Agent!AnswerIsOneReply
<1>c. /\ Agent!Done(loop.msgs) <= loop.round
      /\ loop.round < MaxRounds => Whole(loop.msgs)
  BY DEF AgentInv, Counted
<1>h. Heard /\ Agent!AnswerIsOneReply
  BY DEF AgentInv
\* The guide fails.
<1>f. ASSUME Agent!Fail PROVE AgentInv'
  <2>1. /\ loop' = Agent!Closed /\ guide' = "failed" /\ saved' = saved /\ words' = words
        /\ runs' = runs
    BY <1>f DEF Agent!Fail
  <2>2. Heard'
    BY <2>1, ClosedShape DEF Heard
  <2> QED
    BY <1>k, <1>t, <1>s, <2>1, <2>2, ClosedShape, DoneNothing
\* The loop goes on with the messages it has.
<1>g. ASSUME loop' \in Loops, loop'.msgs = loop.msgs, loop'.round = loop.round,
             saved' = saved, words' \subseteq {"last", "earlier"}, guide' = guide, runs' = runs,
             loop.at # "idle", Heard'
      PROVE  AgentInv'
  BY <1>k, <1>t, <1>s, <1>c, <1>h, <1>g DEF Heard
<1>1. CASE Agent!StartGuide
  <2>1. /\ loop' = Agent!Opened(saved, 1) /\ words' = {} /\ guide' = "none"
        /\ runs' = runs + 1 /\ saved' = saved /\ runs < MaxRuns
    BY <1>1 DEF Agent!StartGuide
  <2>2. /\ loop' \in Loops /\ loop'.at = "post" /\ loop'.msgs = saved
        /\ loop'.round = Agent!Done(saved) /\ ~loop'.wrote
    BY <1>t, <2>1, OpenedShape
  <2>3. Heard'
    BY <2>1, <2>2 DEF Heard
  <2> QED
    BY <1>k, <1>t, <1>s, <1>d, <2>1, <2>2, <2>3
<1>2. CASE Agent!Refused
  <2>1. /\ loop' \in Loops /\ loop'.msgs = loop.msgs /\ loop'.round = loop.round
        /\ loop'.at = "post" /\ loop'.wrote = loop.wrote
    BY <1>2, <1>t DEF Agent!Refused, Loops, Agent!Posts
  <2>2. loop.at = "post" /\ UNCHANGED <<saved, words, guide, runs>>
    BY <1>2 DEF Agent!Refused
  <2>3. Heard'
    BY <1>h, <2>1, <2>2 DEF Heard
  <2> QED
    BY <1>g, <1>t, <2>1, <2>2, <2>3
<1>3. CASE Agent!CallFails \/ Agent!StreamFails \/ Agent!NoAnswer
  BY <1>3, <1>f DEF Agent!CallFails, Agent!StreamFails, Agent!NoAnswer
<1>4. CASE Agent!Accepted
  <2>1. /\ loop' \in Loops /\ loop'.msgs = loop.msgs /\ loop'.round = loop.round
        /\ loop'.at = "stream" /\ loop'.wrote = loop.wrote
    BY <1>4, <1>t DEF Agent!Accepted, Loops
  <2>2. loop.at = "post" /\ UNCHANGED <<saved, guide, runs>>
    BY <1>4 DEF Agent!Accepted
  <2>3. words = {} /\ words' = {}
    BY <1>4, <1>h, <2>2 DEF Heard, Agent!Accepted
  <2>4. Heard'
    BY <1>h, <2>1, <2>2, <2>3 DEF Heard
  <2> QED
    BY <1>g, <1>t, <2>1, <2>2, <2>3, <2>4
<1>5. CASE Agent!Text
  <2>1. /\ loop' \in Loops /\ loop'.msgs = loop.msgs /\ loop'.round = loop.round
        /\ loop'.at = "stream" /\ loop'.wrote
    BY <1>5, <1>t DEF Agent!Text, Loops
  <2>2. /\ loop.at = "stream" /\ words' = words \cup {"last"} /\ UNCHANGED <<saved, guide, runs>>
    BY <1>5 DEF Agent!Text
  <2>3. words' = {"last"}
    BY <1>h, <2>2 DEF Heard
  <2>4. Heard'
    BY <1>h, <2>1, <2>2, <2>3 DEF Heard
  <2> QED
    BY <1>g, <1>t, <2>1, <2>2, <2>3, <2>4
<1>6. CASE Agent!CallPart \/ Agent!Finish
  <2>1. /\ loop' \in Loops /\ loop'.msgs = loop.msgs /\ loop'.round = loop.round
        /\ loop'.at = "stream" /\ loop'.wrote = loop.wrote
    BY <1>6, <1>t DEF Agent!CallPart, Agent!Finish, Loops
  <2>2. loop.at = "stream" /\ UNCHANGED <<saved, words, guide, runs>>
    BY <1>6 DEF Agent!CallPart, Agent!Finish
  <2>3. Heard'
    BY <1>h, <2>1, <2>2 DEF Heard
  <2> QED
    BY <1>g, <1>t, <2>1, <2>2, <2>3
<1>7. CASE Agent!StreamEnds
  <2>1. /\ loop' \in Loops /\ loop'.msgs = loop.msgs /\ loop'.round = loop.round
        /\ loop'.at = "reply" /\ loop'.wrote = loop.wrote /\ loop'.finished
    BY <1>7, <1>t DEF Agent!StreamEnds, Loops
  <2>2. loop.at = "stream" /\ UNCHANGED <<saved, words, guide, runs>>
    BY <1>7 DEF Agent!StreamEnds
  <2>3. Heard'
    BY <1>h, <2>1, <2>2 DEF Heard
  <2> QED
    BY <1>g, <1>t, <2>1, <2>2, <2>3
<1>8. CASE Agent!AskAgain
  <2>1. /\ [loop EXCEPT !.cuts = @ - 1] \in Loops
        /\ [loop EXCEPT !.cuts = @ - 1].msgs = loop.msgs
        /\ [loop EXCEPT !.cuts = @ - 1].round = loop.round
    BY <1>8, <1>t DEF Agent!AskAgain, Loops
  <2>2. /\ loop' \in Loops /\ loop'.at = "post" /\ loop'.msgs = loop.msgs
        /\ loop'.round = loop.round /\ ~loop'.wrote
    BY <1>8, <2>1, AskShape DEF Agent!AskAgain
  <2>3. loop.at = "stream" /\ ~loop.wrote /\ UNCHANGED <<saved, words, guide, runs>>
    BY <1>8 DEF Agent!AskAgain
  <2>4. Heard'
    BY <1>h, <2>2, <2>3 DEF Heard
  <2> QED
    BY <1>g, <1>t, <2>2, <2>3, <2>4
<1>9. CASE Agent!Written
  <2>1. /\ loop' = [Agent!Closed EXCEPT !.finished = loop.finished]
        /\ guide' = "written" /\ saved' = <<>> /\ words' = words /\ runs' = runs
        /\ loop.at = "reply" /\ loop.wrote
    BY <1>9 DEF Agent!Written, Agent!Concluding
  <2>2. words = {"last"} /\ loop.finished
    BY <1>h, <2>1 DEF Heard
  <2>3. loop' \in Loops /\ loop'.at = "idle" /\ loop'.msgs = <<>> /\ loop'.round = 0 /\ loop'.finished
    BY <1>t, <2>1, <2>2, ClosedShape DEF Loops
  <2>4. Heard'
    BY <2>3 DEF Heard
  <2> QED
    BY <1>k, <1>t, <2>1, <2>2, <2>3, <2>4, DoneNothing
<1>10. CASE Agent!Incomplete
  <2>1. /\ loop' = Agent!Opened(saved, loop.attempt + 1) /\ loop.attempt + 1 \in 1..2
        /\ words' = {} /\ UNCHANGED <<saved, guide, runs>> /\ loop.at = "reply"
    BY <1>10, <1>t DEF Agent!Incomplete, Agent!Concluding, Loops, Agent!Attempts
  <2>2. /\ loop' \in Loops /\ loop'.at = "post" /\ loop'.msgs = saved
        /\ loop'.round = Agent!Done(saved) /\ ~loop'.wrote
    BY <1>t, <2>1, OpenedShape
  <2>3. Heard'
    BY <1>h, <2>1, <2>2 DEF Heard
  <2>4. guide' = "none"
    BY <1>h, <2>1 DEF Heard
  <2> QED
    BY <1>k, <1>t, <1>s, <1>d, <2>1, <2>2, <2>3, <2>4
<1>11. CASE Agent!Flatten
  <2> DEFINE l == [loop EXCEPT !.flat = TRUE, !.msgs = <<"flat">>, !.round = @ + 1]
  <2>1. /\ Agent!Ask(l) /\ loop.at = "reply" /\ ~loop.wrote /\ loop.round >= MaxRounds
        /\ UNCHANGED <<saved, words, guide, runs>>
    BY <1>11, <1>t DEF Agent!Flatten, Agent!Concluding, Agent!Final
  <2>2. l \in Loops /\ l.msgs = <<"flat">> /\ l.round = loop.round + 1
    <3>1. <<"flat">> \in Talks
      BY DoneNothing
    <3>2. PICK msgs : msgs = <<"flat">>
      OBVIOUS
    <3>3. l = [loop EXCEPT !.flat = TRUE, !.msgs = msgs, !.round = loop.round + 1]
      BY <1>t, <3>2 DEF Loops
    <3>4. loop.round + 1 \in Nat /\ msgs \in Talks
      BY <1>t, <3>1, <3>2
    <3> HIDE DEF l
    <3>5. l \in Loops /\ l.msgs = msgs /\ l.round = loop.round + 1
      BY <1>t, <3>3, <3>4 DEF Loops
    <3> QED
      BY <3>2, <3>5
  <2> HIDE DEF l
  <2>3. /\ loop' \in Loops /\ loop'.at = "post" /\ loop'.msgs = <<"flat">>
        /\ loop'.round = loop.round + 1 /\ ~loop'.wrote
    BY <2>1, <2>2, AskShape
  <2>4. Heard' /\ guide' = "none"
    BY <1>h, <2>1, <2>3 DEF Heard
  <2>5. 0 <= loop'.round /\ ~(loop'.round < MaxRounds)
    BY <1>t, <2>1, <2>3
  <2> QED
    BY <1>k, <1>t, <1>s, <2>1, <2>3, <2>4, <2>5, DoneNothing
<1>12. CASE Agent!Nudge
  <2> DEFINE a == IF loop.called THEN "calls" ELSE "empty"
             msgs == loop.msgs \o <<a, "nudge">>
             l == [loop EXCEPT !.nudges = @ - 1, !.round = @ + 1, !.msgs = msgs]
  <2>1. /\ Agent!Ask(l) /\ loop.at = "reply" /\ ~loop.wrote /\ loop.nudges > 0
        /\ loop.called => loop.round >= MaxRounds
        /\ UNCHANGED <<saved, words, guide, runs>>
    BY <1>12, <1>t DEF Agent!Nudge, Agent!Concluding, Agent!Final
  <2>2. a \in Agent!Messages /\ "nudge" \in Agent!Messages \ {"calls"}
    BY DEF Agent!Messages
  <2>3. msgs \in Talks /\ Agent!Done(msgs) <= loop.round + 1
    BY <1>t, <1>c, <1>d, <2>2, DoneGrows
  <2>4. ~loop.called /\ loop.round < MaxRounds => Whole(msgs)
    BY <1>c, <1>d, <2>2, WholeGrows
  <2> HIDE DEF msgs, a
  <2>5. l \in Loops /\ l.msgs = msgs /\ l.round = loop.round + 1
    <3>1. l = [loop EXCEPT !.nudges = loop.nudges - 1, !.round = loop.round + 1, !.msgs = msgs]
      BY <1>t DEF Loops
    <3>2. loop.round + 1 \in Nat /\ loop.nudges - 1 \in 0..1
      BY <1>t, <2>1 DEF Loops
    <3> HIDE DEF l
    <3> QED
      BY <1>t, <2>3, <3>1, <3>2 DEF Loops
  <2> HIDE DEF l
  <2>6. /\ loop' \in Loops /\ loop'.at = "post" /\ loop'.msgs = msgs
        /\ loop'.round = loop.round + 1 /\ ~loop'.wrote
    BY <2>1, <2>5, AskShape
  <2>7. Heard' /\ guide' = "none"
    BY <1>h, <2>1, <2>6 DEF Heard
  <2>8. loop'.round < MaxRounds => Whole(loop'.msgs)
    BY <1>t, <2>1, <2>4, <2>6
  <2> QED
    BY <1>k, <1>t, <1>s, <2>1, <2>3, <2>6, <2>7, <2>8
<1>13. CASE Agent!Round
  <2> DEFINE msgs == loop.msgs \o <<"calls", "results">>
             l == [loop EXCEPT !.msgs = msgs, !.round = @ + 1]
  <2>1. /\ Agent!Ask(l) /\ saved' = msgs /\ loop.at = "reply" /\ loop.round < MaxRounds
        /\ words' = (IF loop.wrote THEN {} ELSE words) /\ UNCHANGED <<guide, runs>>
    BY <1>13, <1>t DEF Agent!Round, Agent!Final
  <2>2. "calls" \in Agent!Messages /\ "results" \in Agent!Messages \ {"calls"}
    BY DEF Agent!Messages
  <2>3. msgs \in Talks /\ Agent!Done(msgs) = Agent!Done(loop.msgs) + 1
    BY <1>d, <2>2, DoneGrows
  <2>4. Whole(msgs)
    BY <1>c, <1>d, <2>1, <2>2, WholeGrows
  <2> HIDE DEF msgs
  <2>5. l \in Loops /\ l.msgs = msgs /\ l.round = loop.round + 1
    <3>1. l = [loop EXCEPT !.msgs = msgs, !.round = loop.round + 1]
      BY <1>t DEF Loops
    <3>2. loop.round + 1 \in Nat
      BY <1>t
    <3> HIDE DEF l
    <3> QED
      BY <1>t, <2>3, <3>1, <3>2 DEF Loops
  <2> HIDE DEF l
  <2>6. /\ loop' \in Loops /\ loop'.at = "post" /\ loop'.msgs = msgs
        /\ loop'.round = loop.round + 1 /\ ~loop'.wrote
    BY <2>1, <2>5, AskShape
  <2>7. words' = {}
    BY <1>h, <2>1 DEF Heard
  <2>8. Heard' /\ guide' = "none"
    BY <1>h, <2>1, <2>6, <2>7 DEF Heard
  <2>9. Agent!Done(msgs) <= loop.round + 1 /\ Agent!Done(msgs) <= MaxRounds
    BY <1>t, <1>c, <1>d, <2>1, <2>3
  <2> QED
    BY <1>k, <1>t, <2>1, <2>3, <2>4, <2>6, <2>7, <2>8, <2>9
<1>14. CASE Agent!Interrupted
  <2>1. loop.at # "idle" /\ loop' = Agent!Closed /\ UNCHANGED <<saved, words, guide, runs>>
    BY <1>14 DEF Agent!Interrupted
  <2>2. Heard' /\ guide' = "none"
    BY <1>h, <2>1, ClosedShape DEF Heard
  <2> QED
    BY <1>k, <1>t, <1>s, <2>1, <2>2, ClosedShape, DoneNothing
<1>15. CASE Agent!StartOver
  <2>1. saved' = <<>> /\ UNCHANGED <<loop, words, guide, runs>>
    BY <1>15 DEF Agent!StartOver
  <2>2. Heard'
    BY <1>h, <2>1 DEF Heard
  <2> QED
    BY <1>k, <1>t, <1>c, <1>h, <2>1, <2>2, DoneNothing DEF Agent!AnswerIsOneReply
<1> QED
  BY <1>1, <1>2, <1>3, <1>4, <1>5, <1>6, <1>7, <1>8, <1>9, <1>10, <1>11, <1>12, <1>13, <1>14, <1>15
     DEF Agent!Next

LEMMA AgentInit ==
  ASSUME ServicesConstants, Agent!Init
  PROVE  AgentInv
<1>1. loop = Agent!Closed /\ saved = <<>> /\ words = {} /\ guide = "none" /\ runs = 0
  BY DEF Agent!Init
<1>2. Agent!TypeOK
  BY <1>1, AgentTypes, ClosedShape, DoneNothing DEF ServicesConstants
<1>3. Agent!CarriesWholeRounds
  BY <1>1, DoneNothing DEF Agent!CarriesWholeRounds, Whole, ServicesConstants
<1>4. Counted /\ Heard /\ Agent!AnswerIsOneReply
  BY <1>1, ClosedShape, DoneNothing DEF Counted, Heard, Agent!AnswerIsOneReply
<1> QED
  BY <1>2, <1>3, <1>4 DEF AgentInv

\* A guide is the words of one whole reply, none of a reply that was cut or of what was said
\* before a tool call, and what is carried on from is whole rounds, never more than a guide may
\* take, whatever the model answers, the stream does, and cuts the run (agent/loop.go).
THEOREM GuideIsOneReplyHolds == ServicesSpec => []GuideIsOneReply
<1> DEFINE Inv == on = "agent" => AgentInv
<1>1. ServicesInit => Inv
  BY AgentInit, ServicesConstants DEF ServicesInit
<1>2. Inv /\ [ServicesNext]_servicesVars => Inv'
  <2> SUFFICES ASSUME AgentInv, on = "agent", on' = "agent",
                      [ServicesNext]_servicesVars
               PROVE  AgentInv'
    BY DEF ServicesNext, servicesVars
  <2>1. CASE Agent!Next
    BY <2>1, AgentStep, ServicesConstants
  <2>2. CASE UNCHANGED agent
    BY <2>2 DEF agent, AgentInv, Agent!TypeOK, Agent!AnswerIsOneReply, Agent!CarriesWholeRounds,
                Counted, Heard, Whole
  <2> QED
    BY <2>1, <2>2 DEF ServicesNext, servicesVars
<1>3. Inv => GuideIsOneReply
  BY DEF AgentInv, GuideIsOneReply
<1> QED
  BY <1>1, <1>2, <1>3, PTL DEF ServicesSpec
=============================================================================
