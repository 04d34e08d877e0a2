-------------------------------- MODULE Update --------------------------------
(***************************************************************************)
(* The program replacing itself by a newer release.  What GitHub says and  *)
(* serves may change between a check and the update, and any step may      *)
(* fail; a requested restart or a crash starts what is on disk, beside     *)
(* what a process that died has left there, which nothing clears.  Bytes,  *)
(* keys and archives are left out: a download is whole or not, and a       *)
(* program says a version.  Bounds: Versions, MaxReleases, MaxCrashes.     *)
(***************************************************************************)
EXTENDS Integers

CONSTANTS
  Updaters,    \* requests to update, under way at a time
  Majors,      \* bound: the numbers of versions
  MaxReleases, \* bound: what is published while the program runs
  MaxCrashes

VARIABLES
  running, \* the version that runs
  exe,     \* the program on disk
  latest,  \* the newest release as GitHub has it
  checked, \* the last check: the release it found, and whether it is newer
  working, \* an update is in progress, or has been installed
  update,  \* each request
  files,   \* the temporary files of each, by whether they hold what they should
  litter,  \* those that outlived their process
  done,    \* an update is installed and the restart asked for
  releases,
  crashes

vars == <<running, exe, latest, checked, working, update, files, litter, done,
          releases, crashes>>
world == <<latest, releases, crashes, running, litter>>

\* MAJOR.MINOR.PATCH as one number, and a prerelease of it, 0 for none.
Versions == [n: Majors, pre: 0..1]
Released == {v \in Versions : v.pre = 0}

\* newerThan: a release comes after its prereleases.
Newer(v, o) == \/ v.n > o.n
               \/ v.n = o.n /\ v.pre # o.pre /\ (v.pre = 0 \/ (o.pre # 0 /\ v.pre > o.pre))

NotChecked == [version |-> CHOOSE v \in Released : TRUE, newer |-> FALSE]
Idle == [at |-> "idle", version |-> NotChecked.version, says |-> NotChecked.version]
NoFile == [archive |-> "none", program |-> "none"]

GoTo(u, at) == update' = [update EXCEPT ![u].at = at]
Step(u, from, at) == update[u].at = from /\ GoTo(u, at)

-----------------------------------------------------------------------------

Publish ==
  /\ releases < MaxReleases
  /\ \E v \in Released : latest' = v
  /\ releases' = releases + 1
  /\ UNCHANGED <<exe, running, checked, working, update, files, litter, done, crashes>>

Check ==
  /\ checked' = [version |-> latest, newer |-> Newer(latest, running)]
  /\ UNCHANGED <<exe, world, working, update, files, done>>

Apply_Unlocked(u) ==
  /\ update[u].at = "idle" /\ checked.newer
  /\ working' = TRUE
  /\ update' = [update EXCEPT ![u] = [Idle EXCEPT !.at = "sums", !.version = checked.version]]
  /\ UNCHANGED <<exe, world, checked, files, done>>

\* Apply takes the release of the last check, whatever is checked later.
Apply(u) ==
  /\ update[u].at = "idle" /\ checked.newer /\ ~working
  /\ working' = TRUE
  /\ update' = [update EXCEPT ![u] = [Idle EXCEPT !.at = "sums", !.version = checked.version]]
  /\ UNCHANGED <<exe, world, checked, files, done>>

\* The checksums, and that they are signed.
Trust(u) ==
  /\ Step(u, "sums", "download")
  /\ UNCHANGED <<exe, world, checked, working, files, done>>

Download(u) ==
  /\ Step(u, "download", "compare")
  /\ \E got \in {"whole", "other"} : files' = [files EXCEPT ![u].archive = got]
  /\ UNCHANGED <<exe, world, checked, working, done>>

Compare(u) ==
  /\ files[u].archive = "whole" /\ Step(u, "compare", "extract")
  /\ UNCHANGED <<exe, world, checked, working, files, done>>

\* The program is taken out of the archive; the archive goes as fetch returns.
Extract(u) ==
  /\ update[u].at = "extract"
  /\ \E v \in Released :
       update' = [update EXCEPT ![u].at = "try", ![u].says = v]
  /\ files' = [files EXCEPT ![u].program = files[u].archive]
  /\ UNCHANGED <<exe, world, checked, working, done>>

\* It is run once, to say its version.
Try(u) ==
  /\ update[u].says = update[u].version /\ Step(u, "try", "install")
  /\ files' = [files EXCEPT ![u].archive = "none"]
  /\ UNCHANGED <<exe, world, checked, working, done>>

Install(u) ==
  /\ update[u].at = "install"
  /\ exe' = [version |-> update[u].says, whole |-> files[u].program = "whole"]
  /\ update' = [update EXCEPT ![u] = Idle] /\ files' = [files EXCEPT ![u] = NoFile]
  /\ done' = TRUE
  /\ UNCHANGED <<world, checked, working>>

\* Any step but the rename may fail, and the last one too: nothing is replaced, the
\* files go, and an update may be tried again.
Fail(u) ==
  /\ update[u].at # "idle"
  /\ update' = [update EXCEPT ![u] = Idle] /\ files' = [files EXCEPT ![u] = NoFile]
  /\ working' = FALSE
  /\ UNCHANGED <<exe, world, checked, done>>

-----------------------------------------------------------------------------

\* The files that are there as the process ends, by the number of the crashes before it.
Lying == {f \in [life: {crashes}, of: Updaters, file: DOMAIN NoFile] : files[f.of][f.file] # "none"}

\* What is on disk starts, and knows nothing.
Anew ==
  /\ running' = exe.version /\ checked' = NotChecked /\ working' = FALSE /\ done' = FALSE
  /\ update' = [u \in Updaters |-> Idle] /\ files' = [u \in Updaters |-> NoFile]
  /\ litter' = litter \cup Lying
  /\ UNCHANGED <<exe, latest, releases>>

Restart == done /\ Anew /\ UNCHANGED crashes

Crash ==
  /\ crashes < MaxCrashes /\ crashes' = crashes + 1
  /\ Anew

-----------------------------------------------------------------------------

Init ==
  /\ running \in Versions /\ exe = [version |-> running, whole |-> TRUE]
  /\ latest \in Released /\ checked = NotChecked /\ working = FALSE
  /\ update = [u \in Updaters |-> Idle] /\ files = [u \in Updaters |-> NoFile]
  /\ litter = {} /\ done = FALSE /\ releases = 0 /\ crashes = 0

Next == \/ Publish \/ Check \/ Restart \/ Crash
        \/ \E u \in Updaters : \/ Apply(u) \/ Trust(u) \/ Download(u) \/ Compare(u)
                               \/ Extract(u) \/ Try(u) \/ Install(u) \/ Fail(u)

Spec == Init /\ [][Next]_vars

-----------------------------------------------------------------------------

TypeOK ==
  /\ running \in Versions /\ exe \in [version: Versions, whole: BOOLEAN]
  /\ latest \in Released /\ checked \in [version: Versions, newer: BOOLEAN]
  /\ working \in BOOLEAN /\ done \in BOOLEAN
  /\ update \in [Updaters -> [at: {"idle", "sums", "download", "compare", "extract", "try",
                                   "install"}, version: Versions, says: Versions]]
  /\ files \in [Updaters -> [archive: {"none", "whole", "other"},
                             program: {"none", "whole", "other"}]]
  /\ litter \subseteq [life: 0..MaxCrashes, of: Updaters, file: {"archive", "program"}]
  /\ releases \in 0..MaxReleases /\ crashes \in 0..MaxCrashes

\* What is on disk is the program that runs or a whole newer one; it is replaced by one
\* request at a time and not again before it has run; an update that failed leaves no
\* files and does not keep the next from being tried; a restart leaves none either, and a
\* crash those of one update.
OneSoundUpdate ==
  LET busy == {u \in Updaters : update[u].at # "idle"}
  IN /\ exe.whole /\ (exe.version = running \/ Newer(exe.version, running))
     /\ \A u, w \in busy : u = w
     /\ (working <=> done \/ busy # {}) /\ (done => busy = {})
     /\ \A u \in Updaters : files[u] # NoFile => u \in busy
     /\ \A f \in litter : f.life < crashes
     /\ \A f, g \in litter : f.life = g.life => f.of = g.of
=============================================================================
