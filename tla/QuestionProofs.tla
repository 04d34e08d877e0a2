--------------------------- MODULE QuestionProofs ---------------------------
(***************************************************************************)
(* What holds of Question for every set of jobs and of requests, and       *)
(* however much the student does and however often something fails.        *)
(***************************************************************************)
EXTENDS Question, FiniteSetTheorems, TLAPS

\* The requests that are to change the notes.
Noting == {r \in Requests : req[r].op = "notes"}

\* Notes are counted once for each act: those asked for, and those under way.
NotesInv == asked.notes + Cardinality(Noting) <= acts

\* A request that is under way is for something.
Acting == \A r \in Requests : req[r].op = "none" => req[r].at = "none"

-----------------------------------------------------------------------------
(* What the steps share.                                                   *)

LEMMA RequestSetsFinite ==
  ASSUME NEW S, S \subseteq Requests
  PROVE  IsFiniteSet(S) /\ Cardinality(S) \in Nat
<1>1. IsFiniteSet(S)
  BY QuestionConstants, FS_Subset
<1> QED
  BY <1>1, FS_CardinalityType

\* What Enqueue does: a job that was over begins its life, and waits.
LEMMA EnqueueShape ==
  ASSUME NEW k, Enqueue(k)
  PROVE  \E j \in Jobs : /\ status[j] = "none"
                         /\ status' = [status EXCEPT ![j] = "waiting"]
                         /\ kind' = [kind EXCEPT ![j] = k]
<1>1. (CHOOSE f \in Free : TRUE) \in Free
  BY DEF Enqueue
<1> QED
  BY <1>1 DEF Enqueue, Free, Unfinished

LEMMA IdleShape ==
  /\ Idle \in Runs /\ Idle.at = "idle" /\ Idle.copy = NoSource /\ ~Idle.plain
  /\ Idle.rest = "pending" /\ ~Idle.err /\ ~Idle.stopped /\ NoSource \in Sources
<1>1. NoSource \in Sources
  BY QuestionConstants DEF NoSource, Sources
<1> QED
  BY <1>1 DEF Idle, Runs

LEMMA SourceShape ==
  ASSUME row \in Rows
  PROVE  /\ Source \in Sources /\ Source.notes = row.notes /\ Source.mine = row.mine
         /\ Rest \in {"pending", "located"}
BY DEF Source, Sources, Rest, Rows

LEMMA WriteShape ==
  ASSUME row \in Rows, NEW r \in Rows, Write(r)
  PROVE  row' \in Rows
BY DEF Write

LEMMA GoToShape ==
  ASSUME run \in [Jobs -> Runs], NEW j \in Jobs,
         NEW p \in {"idle", "begun", "work", "setWaiting", "setFailed", "back"}, GoTo(j, p)
  PROVE  run' \in [Jobs -> Runs]
BY DEF GoTo, Runs

LEMMA LeaveShape ==
  ASSUME run \in [Jobs -> Runs], NEW j \in Jobs, NEW e \in BOOLEAN, Leave(j, e)
  PROVE  /\ run' \in [Jobs -> Runs] /\ \A k \in Jobs \ {j} : run'[k] = run[k]
         /\ run'[j].at = "back" /\ run'[j].err = e /\ run'[j].stopped = run[j].stopped
<1> DEFINE left == [Idle EXCEPT !.at = "back", !.err = e, !.stopped = run[j].stopped]
<1>1. left \in Runs /\ left.at = "back" /\ left.err = e /\ left.stopped = run[j].stopped
  BY IdleShape DEF Runs
<1>2. run' = [run EXCEPT ![j] = left]
  BY DEF Leave
<1> HIDE DEF left
<1> QED
  BY <1>1, <1>2

\* A request that is to change the notes has room to.
LEMMA NotesRoom ==
  ASSUME TypeOK, NotesInv, NEW r \in Requests, req[r].op = "notes"
  PROVE  asked.notes + 1 \in 0..MaxActs
<1>1. r \in Noting /\ Noting \subseteq Requests
  BY DEF Noting
<1>2. IsFiniteSet(Noting) /\ Cardinality(Noting) \in Nat
  BY <1>1, RequestSetsFinite
<1>3. Cardinality(Noting) # 0
  BY <1>1, <1>2, FS_EmptySet
<1> QED
  BY <1>2, <1>3, QuestionConstants DEF NotesInv, TypeOK, Sources

LEMMA ResultShape ==
  ASSUME TypeOK, NotesInv, NEW r \in Requests,
         req[r].at \in {"stop", "commit"}, req[r].op # "none"
  PROVE  Result(req[r].op) \in Rows
<1>1. req[r].op = "notes" => asked.notes + 1 \in 0..MaxActs
  BY NotesRoom
<1>2. {"located", "pending", "gone"} \subseteq States /\ Rest \in States /\ {} \in SUBSET Sources
  BY DEF States, Unstarted, Rest
<1>3. Cleared \in Rows /\ Unlocated \in Rows
  BY <1>2 DEF TypeOK, Rows, Cleared, Unlocated
<1>4. req[r].op \in {"notes", "correct", "reread", "point", "remove", "again", "page", "text", "write"}
  BY DEF TypeOK, Reqs
<1>5. CASE req[r].op = "notes"
  <2>1. [Cleared EXCEPT !.notes = asked.notes + 1] \in Rows
    BY <1>1, <1>3, <1>5 DEF Rows
  <2> QED
    BY <1>5, <2>1 DEF Result
<1>6. CASE req[r].op \in {"correct", "reread"}
  <2>1. \A b \in BOOLEAN : [Cleared EXCEPT !.mine = b] \in Rows
    BY <1>3 DEF Rows
  <2> QED
    BY <1>6, <2>1 DEF Result
<1>7. CASE req[r].op = "point"
  <2>1. [Unlocated EXCEPT !.boxed = TRUE, !.inBook = TRUE, !.figs = FALSE, !.mine = FALSE] \in Rows
    BY <1>3 DEF Rows
  <2> QED
    BY <1>7, <2>1 DEF Result
<1>8. CASE req[r].op = "again"
  <2>1. [Cleared EXCEPT !.state = Rest] \in Rows
    BY <1>2, <1>3 DEF Rows
  <2> QED
    BY <1>8, <2>1 DEF Result
<1>9. CASE req[r].op \in {"page", "text"}
  <2>1. /\ [Unlocated EXCEPT !.boxed = FALSE] \in Rows
        /\ [Unlocated EXCEPT !.boxed = FALSE, !.inBook = FALSE, !.figs = FALSE,
                              !.mine = FALSE] \in Rows
    BY <1>3 DEF Rows
  <2> QED
    BY <1>9, <2>1 DEF Result
<1>10. CASE req[r].op \in {"write", "remove"}
  <2>1. [row EXCEPT !.state = "located"] \in Rows /\ [row EXCEPT !.state = "gone"] \in Rows
    BY <1>2 DEF Rows, TypeOK
  <2> QED
    BY <1>10, <2>1 DEF Result
<1> QED
  BY <1>4, <1>5, <1>6, <1>7, <1>8, <1>9, <1>10

-----------------------------------------------------------------------------
(* Type correctness.                                                       *)

LEMMA TypeInit == Init => TypeOK
<1> SUFFICES ASSUME Init PROVE TypeOK
  OBVIOUS
<1>1. row \in Rows
  <2>1. PICK s \in {"pending", "unwritten"}, b \in BOOLEAN, p \in BOOLEAN :
          row = [state |-> s, inBook |-> b, page |-> p, boxed |-> FALSE, figs |-> p,
                 notes |-> 0, mine |-> FALSE, walk |-> {}]
    BY DEF Init
  <2>2. s \in States /\ 0 \in 0..MaxActs
    BY QuestionConstants DEF States, Unstarted
  <2> QED
    BY <2>1, <2>2 DEF Rows
<1>2. run \in [Jobs -> Runs]
  BY IdleShape DEF Init
<1>3. req \in [Requests -> Reqs]
  BY DEF Init, Reqs, NoRequest
<1>4. /\ status \in [Jobs -> {"none", "waiting", "working"}]
      /\ kind \in [Jobs -> {"find", "read", "guide"}]
  BY DEF Init
<1>5. /\ asked = NoSource /\ crossed = FALSE /\ broken = FALSE /\ paused = FALSE
      /\ acts = 0 /\ faults = 0
  BY DEF Init
<1>6. asked \in Sources /\ crossed \in BOOLEAN /\ broken \in BOOLEAN /\ paused \in BOOLEAN
  BY <1>5, IdleShape, Zenon
<1>7. acts \in 0..MaxActs /\ faults \in 0..MaxFaults
  BY <1>5, QuestionConstants
<1> QED
  BY <1>1, <1>2, <1>3, <1>4, <1>6, <1>7 DEF TypeOK

LEMMA TypeStep == TypeOK /\ NotesInv /\ Acting /\ [Next]_vars => TypeOK'
<1> SUFFICES ASSUME TypeOK, NotesInv, Acting, [Next]_vars PROVE TypeOK'
  OBVIOUS
<1> USE QuestionConstants DEF TypeOK, Elsewhere, history, jobs, bounds
<1>s. {"located", "failed", "ready", "pending"} \subseteq States
  BY DEF States, Unstarted
<1>e. ASSUME NEW k \in {"find", "read", "guide"}, Enqueue(k)
      PROVE  /\ status' \in [Jobs -> {"none", "waiting", "working"}]
             /\ kind' \in [Jobs -> {"find", "read", "guide"}]
  BY <1>e, EnqueueShape
<1>d. ASSUME NEW S, Drop(S)
      PROVE  /\ status' \in [Jobs -> {"none", "waiting", "working"}]
             /\ kind' \in [Jobs -> {"find", "read", "guide"}]
  BY <1>d DEF Drop
<1>f. ASSUME Fault PROVE acts' \in 0..MaxActs /\ faults' \in 0..MaxFaults
  BY <1>f DEF Fault
<1>1. CASE UNCHANGED vars
  BY <1>1 DEF vars, TypeOK
<1>2. ASSUME NEW j \in Jobs, Begin(j) PROVE TypeOK'
  <2>1. status' \in [Jobs -> {"none", "waiting", "working"}]
    BY <1>2 DEF Begin, Queue!Begin
  <2>2. run' \in [Jobs -> Runs]
    <3> DEFINE begun == [Idle EXCEPT !.at = "begun", !.copy = Source, !.rest = Rest,
                                   !.plain = kind[j] = "find" /\ row.inBook /\ ~row.boxed]
               done == [Idle EXCEPT !.at = "back"]
    <3>1. begun \in Runs /\ done \in Runs
      BY IdleShape, SourceShape DEF Runs
    <3> HIDE DEF begun, done
    <3>2. run' = [run EXCEPT ![j] = IF Exists THEN begun ELSE done]
      BY <1>2 DEF Begin, begun, done
    <3> QED
      BY <3>1, <3>2
  <2> QED
    BY <1>2, <2>1, <2>2 DEF Begin
<1>3. ASSUME NEW j \in Jobs, Mark(j) PROVE TypeOK'
  <2>1. Doing[kind[j]] \in States
    BY DEF Doing, States, Unstarted
  <2> QED
    BY <1>3, <2>1 DEF Mark, Write, GoTo, Rows, Runs
<1>4. ASSUME NEW j \in Jobs, RewriteReference(j) PROVE TypeOK'
  BY <1>4 DEF RewriteReference, Write, Sources, Rows, Runs
<1>5. ASSUME NEW j \in Jobs, Find(j) PROVE TypeOK'
  <2>1. PICK f \in BOOLEAN :
          /\ Write([row EXCEPT !.page = TRUE, !.figs = f, !.mine = FALSE, !.state = "located"])
          /\ Enqueue(IF f THEN "read" ELSE "guide")
    BY <1>5 DEF Find
  <2>2. [row EXCEPT !.page = TRUE, !.figs = f, !.mine = FALSE, !.state = "located"] \in Rows
    BY <1>s DEF Rows
  <2> QED
    BY <1>5, <1>e, <2>1, <2>2, WriteShape, LeaveShape DEF Find
<1>6. ASSUME NEW j \in Jobs, Read(j) PROVE TypeOK'
  <2>1. [row EXCEPT !.mine = FALSE, !.state = "located"] \in Rows
    BY <1>s DEF Rows
  <2> QED
    BY <1>6, <1>e, <2>1, WriteShape, LeaveShape DEF Read
<1>7. ASSUME NEW j \in Jobs, CrossCheck(j) PROVE TypeOK'
  BY <1>7, SourceShape DEF CrossCheck, Runs
<1>8. ASSUME NEW j \in Jobs, SaveGuide(j) PROVE TypeOK'
  <2>1. [row EXCEPT !.walk = {run[j].copy}, !.state = "ready"] \in Rows
    BY <1>s DEF Rows, Runs
  <2> QED
    BY <1>8, <2>1, WriteShape, LeaveShape DEF SaveGuide
<1>9. ASSUME NEW j \in Jobs, StepFails(j) PROVE TypeOK'
  <2>1. acts' \in 0..MaxActs /\ faults' \in 0..MaxFaults
    BY <1>9, <1>f DEF StepFails
  <2>2. run' \in [Jobs -> Runs]
    BY <1>9, LeaveShape, GoToShape DEF StepFails
  <2> QED
    BY <1>9, <2>1, <2>2 DEF StepFails
<1>10. ASSUME NEW j \in Jobs, SetWaiting(j) PROVE TypeOK'
  <2>1. [row EXCEPT !.state = run[j].rest] \in Rows
    BY <1>s DEF Rows, Runs
  <2> QED
    BY <1>10, <2>1, WriteShape, LeaveShape DEF SetWaiting
<1>11. ASSUME NEW j \in Jobs, SetFailed(j) PROVE TypeOK'
  <2>1. [row EXCEPT !.state = "failed"] \in Rows
    BY <1>s DEF Rows, Runs
  <2> QED
    BY <1>11, <2>1, WriteShape, LeaveShape DEF SetFailed
<1>12. ASSUME NEW j \in Jobs, Return(j) PROVE TypeOK'
  BY <1>12, <1>d, IdleShape DEF Return
<1>13. ASSUME NEW r \in Requests, Student(r) PROVE TypeOK'
  <2>1. ASSUME NEW op \in {"notes", "correct", "reread", "point", "remove", "again", "page", "text", "write"},
               NEW p \in {"plain", "select", "commit"}, Start(r, op, p)
        PROVE  TypeOK'
    <3>1. (row.inBook /\ ~row.page) \in BOOLEAN
      OBVIOUS
    <3>2. [NoRequest EXCEPT !.op = op, !.at = p, !.find = row.inBook /\ ~row.page] \in Reqs
      BY <3>1 DEF NoRequest, Reqs
    <3> QED
      BY <2>1, <3>2 DEF Start, Act
  <2> QED
    BY <1>13, <2>1
       DEF Student, SetNotes, Correct, Reread, PointOut, Remove, Retry, WriteGuide
<1>14. ASSUME NEW r \in Requests, PlainNotes(r) PROVE TypeOK'
  <2>1. asked.notes + 1 \in 0..MaxActs
    BY <1>14, NotesRoom DEF PlainNotes
  <2>2. [row EXCEPT !.notes = asked.notes + 1] \in Rows /\ asked' \in Sources
    BY <1>14, <2>1 DEF PlainNotes, Rows, Sources
  <2>3. req' \in [Requests -> Reqs]
    BY <1>14 DEF PlainNotes, Over, NoRequest, Reqs
  <2> QED
    BY <1>14, <2>2, <2>3, WriteShape DEF PlainNotes
<1>15. ASSUME NEW r \in Requests, PlainCorrect(r) PROVE TypeOK'
  <2>1. [row EXCEPT !.mine = TRUE] \in Rows /\ [asked EXCEPT !.mine = TRUE] \in Sources
    BY DEF Rows, Sources
  <2>2. req' \in [Requests -> Reqs]
    <3>1. CASE Over(r)
      BY <3>1 DEF Over, NoRequest, Reqs
    <3>2. CASE Onward(r, "select")
      BY <3>2 DEF Onward, Reqs
    <3> QED
      BY <1>15, <3>1, <3>2 DEF PlainCorrect
  <2> QED
    BY <1>15, <2>1, <2>2, WriteShape DEF PlainCorrect
<1>16. ASSUME NEW r \in Requests, Select(r) PROVE TypeOK'
  BY <1>16 DEF Select, Reqs, Unfinished
<1>17. ASSUME NEW r \in Requests, NEW j \in Jobs, StopJob(r, j) PROVE TypeOK'
  <2>1. req' \in [Requests -> Reqs]
    BY <1>17 DEF StopJob, Reqs
  <2>2. run' \in [Jobs -> Runs]
    BY <1>17 DEF StopJob, Runs
  <2> QED
    BY <1>17, <1>d, <2>1, <2>2 DEF StopJob
<1>18. ASSUME NEW r \in Requests, Commit(r) PROVE TypeOK'
  <2>1. req' \in [Requests -> Reqs]
    BY <1>18 DEF Commit, Over, NoRequest, Reqs
  <2>2. req[r].at \in {"stop", "commit"} /\ req[r].op # "none"
    BY <1>18 DEF Commit, Acting
  <2>3. row' \in Rows
    BY <1>18, <2>2, ResultShape, WriteShape DEF Commit
  <2>4. NextJob(r) \in {"find", "read", "guide"}
    BY DEF NextJob
  <2>5. /\ status' \in [Jobs -> {"none", "waiting", "working"}]
        /\ kind' \in [Jobs -> {"find", "read", "guide"}]
    BY <1>18, <1>e, <2>4 DEF Commit
  <2>6. asked' \in Sources
    <3>1. req[r].op = "notes" => [asked EXCEPT !.notes = @ + 1] \in Sources
      BY NotesRoom DEF Sources
    <3>2. \A b \in BOOLEAN : [asked EXCEPT !.mine = b] \in Sources
      BY DEF Sources
    <3> QED
      BY <1>18, <3>1, <3>2 DEF Commit, Asked
  <2> QED
    BY <1>18, <2>1, <2>3, <2>5, <2>6 DEF Commit
<1>19. ASSUME NEW r \in Requests, HangUp(r) PROVE TypeOK'
  BY <1>19, <1>f DEF HangUp, Over, NoRequest, Reqs
<1>20. CASE Pause \/ Resume
  BY <1>20, <1>f DEF Pause, Resume
<1>21. CASE Crash
  BY <1>21, <1>f, IdleShape DEF Crash, NoRequest, Reqs
<1> QED
  BY <1>1, <1>2, <1>3, <1>4, <1>5, <1>6, <1>7, <1>8, <1>9, <1>10, <1>11, <1>12, <1>13, <1>14,
     <1>15, <1>16, <1>17, <1>18, <1>19, <1>20, <1>21
     DEF Next, Handler, Request

\* What the steps leave alone, of what the counting of notes is about.
LEMMA NotesStep == TypeOK /\ NotesInv /\ Acting /\ [Next]_vars => NotesInv' /\ Acting'
<1> SUFFICES ASSUME TypeOK, NotesInv, Acting, [Next]_vars PROVE NotesInv' /\ Acting'
  OBVIOUS
<1> USE QuestionConstants DEF TypeOK, Elsewhere, history, jobs, bounds
<1>c. /\ IsFiniteSet(Noting) /\ Cardinality(Noting) \in Nat
      /\ IsFiniteSet(Noting') /\ Cardinality(Noting') \in Nat
  BY RequestSetsFinite DEF Noting
<1>n. asked.notes \in Nat /\ acts \in Nat
  BY DEF Sources
<1>a. Act => acts' = acts + 1
  BY DEF Act
<1>b. UNCHANGED bounds \/ Fault => acts' = acts
  BY DEF Fault
\* A request that goes on, or that ends.
<1>o. ASSUME NEW r \in Requests, req' = [req EXCEPT ![r] = NoRequest]
      PROVE  /\ Acting' /\ Noting' = Noting \ {r}
             /\ Cardinality(Noting') = IF req[r].op = "notes" THEN Cardinality(Noting) - 1
                                                            ELSE Cardinality(Noting)
  <2>1. Noting' = Noting \ {r} /\ (r \in Noting <=> req[r].op = "notes")
    BY <1>o DEF Noting, NoRequest
  <2>2. Acting'
    BY <1>o DEF Acting, NoRequest
  <2> QED
    BY <1>c, <2>1, <2>2, FS_RemoveElement
<1>i. ASSUME \A r \in Requests : req'[r].op = req[r].op, asked'.notes = asked.notes, acts' = acts
      PROVE  NotesInv'
  <2>1. Noting' = Noting
    BY <1>i DEF Noting
  <2> QED
    BY <1>i, <2>1 DEF NotesInv
<1>u. ASSUME UNCHANGED <<req, asked, acts>> PROVE NotesInv' /\ Acting'
  BY <1>i, <1>u DEF Acting
<1>1. CASE UNCHANGED vars
  BY <1>1, <1>u DEF vars
<1>2. ASSUME NEW j \in Jobs, Begin(j) \/ Handler(j) PROVE NotesInv' /\ Acting'
  <2>1. UNCHANGED <<req, asked, acts>>
    BY <1>2, <1>b DEF Begin, Handler, Mark, RewriteReference, Find, Read, CrossCheck, SaveGuide, StepFails,
       SetWaiting, SetFailed, Return
  <2> QED
    BY <1>u, <2>1
<1>3. ASSUME NEW r \in Requests, Student(r) PROVE NotesInv' /\ Acting'
  <2>1. ASSUME NEW op \in {"notes", "correct", "reread", "point", "remove", "again", "page", "text", "write"},
               NEW p \in {"plain", "select", "commit"}, Start(r, op, p)
        PROVE  NotesInv' /\ Acting'
    <3>1. req' = [req EXCEPT ![r] = [NoRequest EXCEPT !.op = op, !.at = p,
                                                      !.find = row.inBook /\ ~row.page]]
      BY <2>1 DEF Start
    <3>2. Acting'
      BY <3>1 DEF Acting, NoRequest
    <3>3. Noting' \subseteq Noting \cup {r}
      BY <3>1 DEF Noting, NoRequest
    <3>4. Cardinality(Noting') <= Cardinality(Noting) + 1
      <4>1. /\ IsFiniteSet(Noting \cup {r})
            /\ Cardinality(Noting \cup {r}) = IF r \in Noting THEN Cardinality(Noting)
                                                 ELSE Cardinality(Noting) + 1
        BY <1>c, FS_AddElement
      <4>2. Cardinality(Noting') <= Cardinality(Noting \cup {r})
        BY <3>3, <4>1, FS_Subset
      <4>3. Cardinality(Noting \cup {r}) \in Nat
        BY <4>1, FS_CardinalityType
      <4> QED
        BY <1>c, <4>1, <4>2, <4>3
    <3>5. asked' = asked /\ acts' = acts + 1
      BY <2>1, <1>a DEF Start
    <3> QED
      BY <1>c, <1>n, <3>2, <3>4, <3>5 DEF NotesInv
  <2> QED
    BY <1>3, <2>1
       DEF Student, SetNotes, Correct, Reread, PointOut, Remove, Retry, WriteGuide
<1>4. ASSUME NEW r \in Requests, PlainNotes(r) PROVE NotesInv' /\ Acting'
  <2>1. asked'.notes = asked.notes + 1 /\ acts' = acts /\ req[r].op = "notes"
    BY <1>4 DEF PlainNotes, Sources
  <2>2. Acting' /\ Cardinality(Noting') = Cardinality(Noting) - 1
    BY <1>4, <1>o, <2>1 DEF PlainNotes, Over
  <2> QED
    BY <1>c, <1>n, <2>1, <2>2 DEF NotesInv
<1>5. ASSUME NEW r \in Requests, PlainCorrect(r) PROVE NotesInv' /\ Acting'
  <2>1. asked'.notes = asked.notes /\ acts' = acts /\ req[r].op = "correct"
    BY <1>5 DEF PlainCorrect, Sources
  <2>2. CASE Over(r)
    BY <2>1, <2>2, <1>c, <1>n, <1>o DEF Over, NotesInv
  <2>3. CASE Onward(r, "select")
    <3>1. (\A q \in Requests : req'[q].op = req[q].op) /\ Acting'
      BY <2>1, <2>3 DEF Onward, Reqs, Acting
    <3> QED
      BY <1>i, <2>1, <3>1
  <2> QED
    BY <1>5, <2>2, <2>3 DEF PlainCorrect
<1>6. ASSUME NEW r \in Requests, Select(r) \/ \E j \in Jobs : StopJob(r, j)
      PROVE  NotesInv' /\ Acting'
  <2>1. asked' = asked /\ acts' = acts
    BY <1>6 DEF Select, StopJob
  <2>2. ASSUME NEW j \in Jobs, StopJob(r, j)
        PROVE  (\A q \in Requests : req'[q].op = req[q].op) /\ Acting'
    <3>1. req' = [req EXCEPT ![r] = [req[r] EXCEPT !.todo = @ \ {j}]]
      BY <2>2 DEF StopJob
    <3>2. req'[r].op = req[r].op /\ req'[r].at = req[r].at
      BY <3>1 DEF Reqs
    <3>3. \A q \in Requests \ {r} : req'[q] = req[q]
      BY <3>1
    <3> QED
      BY <3>2, <3>3 DEF Acting
  <2>3. ASSUME Select(r)
        PROVE  (\A q \in Requests : req'[q].op = req[q].op) /\ Acting'
    BY <2>3 DEF Select, Reqs, Acting
  <2> QED
    BY <1>6, <1>i, <2>1, <2>2, <2>3
<1>7. ASSUME NEW r \in Requests, Commit(r) PROVE NotesInv' /\ Acting'
  <2>1. asked'.notes = IF req[r].op = "notes" THEN asked.notes + 1 ELSE asked.notes
    BY <1>7 DEF Commit, Asked, Sources, Reqs
  <2>2. acts' = acts /\ Over(r)
    BY <1>7 DEF Commit
  <2>3. /\ Acting'
        /\ Cardinality(Noting') = IF req[r].op = "notes" THEN Cardinality(Noting) - 1
                                                         ELSE Cardinality(Noting)
    BY <1>o, <2>2 DEF Over
  <2> QED
    BY <1>c, <1>n, <2>1, <2>2, <2>3 DEF NotesInv
<1>8. ASSUME NEW r \in Requests, HangUp(r) PROVE NotesInv' /\ Acting'
  <2>1. asked' = asked /\ acts' = acts /\ Over(r)
    BY <1>8, <1>b DEF HangUp
  <2>2. /\ Acting'
        /\ Cardinality(Noting') = IF req[r].op = "notes" THEN Cardinality(Noting) - 1
                                                         ELSE Cardinality(Noting)
    BY <1>o, <2>1 DEF Over
  <2> QED
    BY <1>c, <1>n, <2>1, <2>2 DEF NotesInv
<1>9. CASE Pause \/ Resume
  BY <1>9, <1>b, <1>u DEF Pause, Resume
<1>10. CASE Crash
  <2>1. asked' = asked /\ acts' = acts /\ req' = [r \in Requests |-> NoRequest]
    BY <1>10, <1>b DEF Crash
  <2>2. Noting' = {} /\ Acting'
    BY <2>1 DEF Noting, Acting, NoRequest
  <2> QED
    BY <1>c, <1>n, <2>1, <2>2, FS_EmptySet DEF NotesInv
<1> QED
  BY <1>1, <1>2, <1>3, <1>4, <1>5, <1>6, <1>7, <1>8, <1>9, <1>10 DEF Next, Request

LEMMA NotesInit == Init => NotesInv /\ Acting
<1> SUFFICES ASSUME Init PROVE NotesInv /\ Acting
  OBVIOUS
<1>1. req = [r \in Requests |-> NoRequest] /\ asked = NoSource /\ acts = 0
  BY DEF Init
<1>2. Noting = {} /\ Acting
  BY <1>1 DEF Noting, Acting, NoRequest
<1> QED
  BY <1>1, <1>2, FS_EmptySet DEF NotesInv, NoSource

-----------------------------------------------------------------------------
\* Every variable of a question, of its jobs, of their runs and of the requests has its
\* type in every state: no write of a handler or of a request makes another row.
THEOREM QuestionTypeCorrect == Spec => []TypeOK
<1>1. Init => TypeOK /\ NotesInv /\ Acting
  BY TypeInit, NotesInit
<1>2. TypeOK /\ NotesInv /\ Acting /\ [Next]_vars => (TypeOK /\ NotesInv /\ Acting)'
  BY TypeStep, NotesStep
<1> QED
  BY <1>1, <1>2, PTL DEF Spec

-----------------------------------------------------------------------------
(* A found question is never left without a guide.                         *)

\* A job works while its run is under way, and a run that says "waiting" says it
\* because of a pause that cannot end before it.
RunsMatch ==
  \A j \in Jobs : /\ status[j] = "working" <=> ~At(j, "idle")
                  /\ At(j, "setWaiting") => paused
                  /\ status[j] # "working" => ~run[j].stopped

\* A job that will go on with the question: it waits, or it runs and nobody has
\* stopped it; one that comes back waits again, if its error is the pause's.
Carries(j) == \/ status[j] = "waiting"
              \/ /\ status[j] = "working" /\ ~run[j].stopped
                 /\ At(j, "back") => run[j].err /\ paused

\* A question that awaits its guide, or that is about to be said to, has such a job.
Carried ==
  /\ Exists /\ ~broken /\ \A r \in Requests : ~Stopping(r)
  /\ row.state \in Awaiting \/ \E j \in Jobs : At(j, "setWaiting")
  => \E j \in Jobs : Carries(j)

\* The step leaves the status of a job alone, or enqueues it.
Kept(j) == status'[j] = status[j] \/ (status[j] = "none" /\ status'[j] = "waiting")

\* One run goes on, its job with it.
LEMMA RunsAfter ==
  ASSUME TypeOK, RunsMatch, NEW j \in Jobs, NEW n, paused' = paused, run' = [run EXCEPT ![j] = n],
         \A k \in Jobs \ {j} : Kept(k),
         /\ status'[j] = "working" <=> n.at # "idle"
         /\ n.at = "setWaiting" => paused
         /\ status'[j] # "working" => ~n.stopped
  PROVE  RunsMatch'
<1>1. run'[j] = n /\ \A k \in Jobs \ {j} : run'[k] = run[k]
  BY DEF TypeOK
<1> QED
  BY <1>1 DEF RunsMatch, At, Kept

LEMMA RunsStep == TypeOK /\ RunsMatch /\ [Next]_vars => RunsMatch'
<1> SUFFICES ASSUME TypeOK, RunsMatch, [Next]_vars PROVE RunsMatch'
  OBVIOUS
<1> USE DEF Elsewhere, jobs, Kept
\* A job that is enqueued was not at work.
<1>e. ASSUME NEW k, Enqueue(k)
      PROVE  \A j \in Jobs : Kept(j)
  <2>1. PICK j \in Jobs : status[j] = "none" /\ status' = [status EXCEPT ![j] = "waiting"]
    BY <1>e, EnqueueShape
  <2> QED
    BY <2>1 DEF TypeOK
\* The handler of j leaves what it does with e to the queue.
<1>l. ASSUME NEW j \in Jobs, NEW e, status[j] = "working", Leave(j, e), paused' = paused,
             \A k \in Jobs : Kept(k)
      PROVE  RunsMatch'
  <2>1. status'[j] = "working"
    BY <1>l
  <2> QED
    BY <1>l, <2>1, RunsAfter DEF Leave, Idle
<1>w. \A j \in Jobs : ~At(j, "idle") => status[j] = "working"
  BY DEF RunsMatch
<1>1. CASE UNCHANGED vars
  BY <1>1 DEF vars, RunsMatch, At
<1>2. ASSUME NEW j \in Jobs, Begin(j) PROVE RunsMatch'
  <2>1. PICK n : n.at \in {"begun", "back"} /\ ~n.stopped /\ run' = [run EXCEPT ![j] = n]
    <3> DEFINE begun == [Idle EXCEPT !.at = "begun", !.copy = Source, !.rest = Rest,
                                   !.plain = kind[j] = "find" /\ row.inBook /\ ~row.boxed]
               done == [Idle EXCEPT !.at = "back"]
    <3>1. begun.at = "begun" /\ ~begun.stopped /\ done.at = "back" /\ ~done.stopped
      BY IdleShape DEF Idle
    <3> HIDE DEF begun, done
    <3>2. run' = [run EXCEPT ![j] = IF Exists THEN begun ELSE done]
      BY <1>2 DEF Begin, begun, done
    <3> QED
      BY <3>1, <3>2
  <2>2. status' = [status EXCEPT ![j] = "working"] /\ paused' = paused
    BY <1>2 DEF Begin, Queue!Begin
  <2> QED
    BY <2>1, <2>2, RunsAfter DEF TypeOK
<1>3. ASSUME NEW j \in Jobs, Mark(j) \/ RewriteReference(j) \/ CrossCheck(j) PROVE RunsMatch'
  <2>1. status[j] = "working" /\ status' = status /\ paused' = paused
    BY <1>3, <1>w DEF Mark, RewriteReference, CrossCheck, At
  <2>2. PICK n : n.at = "work" /\ run' = [run EXCEPT ![j] = n]
    <3>1. CASE Mark(j)
      BY <3>1 DEF Mark, GoTo, TypeOK, Runs
    <3>2. CASE RewriteReference(j)
      BY <3>2 DEF RewriteReference, At, TypeOK, Runs
    <3>3. CASE CrossCheck(j)
      BY <3>3 DEF CrossCheck, At, TypeOK, Runs
    <3> QED
      BY <1>3, <3>1, <3>2, <3>3
  <2> QED
    BY <2>1, <2>2, RunsAfter
<1>4. ASSUME NEW j \in Jobs, Find(j) \/ Read(j) \/ SaveGuide(j) \/ SetWaiting(j) \/ SetFailed(j)
      PROVE  RunsMatch'
  <2>1. PICK e \in BOOLEAN : Leave(j, e) /\ paused' = paused /\ status[j] = "working"
    BY <1>4, <1>w DEF Find, Read, SaveGuide, SetWaiting, SetFailed, At
  <2>2. \A k \in Jobs : Kept(k)
    <3>1. CASE Find(j)
      <4>1. PICK f \in BOOLEAN : Enqueue(IF f THEN "read" ELSE "guide")
        BY <3>1 DEF Find
      <4> QED
        BY <4>1, <1>e
    <3>2. CASE Read(j)
      BY <3>2, <1>e DEF Read
    <3>3. CASE ~Find(j) /\ ~Read(j)
      BY <1>4, <3>3 DEF SaveGuide, SetWaiting, SetFailed
    <3> QED
      BY <3>1, <3>2, <3>3
  <2> QED
    BY <2>1, <2>2, <1>l
<1>5. ASSUME NEW j \in Jobs, StepFails(j) PROVE RunsMatch'
  <2>1. status[j] = "working" /\ status' = status /\ paused' = paused
    BY <1>5, <1>w DEF StepFails, At
  <2>2. CASE run[j].stopped
    <3>1. Leave(j, TRUE)
      BY <1>5, <2>2 DEF StepFails
    <3> QED
      BY <1>l, <2>1, <3>1
  <2>3. CASE ~run[j].stopped
    <3>1. PICK p \in {"setWaiting", "setFailed"} :
            GoTo(j, p) /\ (p = "setWaiting" => paused)
      BY <1>5, <2>3 DEF StepFails, TypeOK
    <3>2. run' = [run EXCEPT ![j] = [run[j] EXCEPT !.at = p]]
      BY <3>1 DEF GoTo
    <3>3. [run[j] EXCEPT !.at = p].at = p
      BY DEF TypeOK, Runs
    <3> QED
      BY <2>1, <3>1, <3>2, <3>3, RunsAfter
  <2> QED
    BY <2>2, <2>3
<1>6. ASSUME NEW j \in Jobs, Return(j) PROVE RunsMatch'
  <2>1. status'[j] # "working" /\ \A k \in Jobs \ {j} : status'[k] = status[k]
    BY <1>6 DEF Return, Drop, TypeOK
  <2>2. run' = [run EXCEPT ![j] = Idle] /\ paused' = paused
    BY <1>6 DEF Return
  <2> QED
    BY <2>1, <2>2, IdleShape, RunsAfter
<1>7. ASSUME NEW r \in Requests,
             Student(r) \/ PlainNotes(r) \/ PlainCorrect(r) \/ Select(r) \/ Commit(r) \/ HangUp(r)
      PROVE  RunsMatch'
  <2>1. run' = run /\ paused' = paused
    BY <1>7 DEF Student, SetNotes, Correct, Reread, PointOut, Remove, Retry, WriteGuide, Start,
                PlainNotes, PlainCorrect, Select, Commit, HangUp
  <2>2. \A k \in Jobs : Kept(k)
    <3>1. CASE Commit(r)
      <4>1. status' = status \/ Enqueue(NextJob(r))
        BY <3>1 DEF Commit
      <4> QED
        BY <4>1, <1>e
    <3>2. CASE ~Commit(r)
      BY <1>7, <3>2
         DEF Student, SetNotes, Correct, Reread, PointOut, Remove, Retry, WriteGuide, Start,
             PlainNotes, PlainCorrect, Select, HangUp
    <3> QED
      BY <3>1, <3>2
  <2> QED
    BY <2>1, <2>2 DEF RunsMatch, At
<1>8. ASSUME NEW r \in Requests, NEW j \in Jobs, StopJob(r, j) PROVE RunsMatch'
  <2>1. CASE status[j] = "working"
    <3>1. run' = [run EXCEPT ![j] = [run[j] EXCEPT !.stopped = TRUE]]
      BY <1>8, <2>1 DEF StopJob
    <3>2. [run[j] EXCEPT !.stopped = TRUE].at = run[j].at
      BY DEF TypeOK, Runs
    <3>3. status' = status /\ paused' = paused
      BY <1>8, <2>1 DEF StopJob
    <3> QED
      BY <2>1, <3>1, <3>2, <3>3, RunsAfter DEF RunsMatch, At
  <2>2. CASE status[j] # "working"
    <3>1. run' = run /\ paused' = paused
      BY <1>8, <2>2 DEF StopJob
    <3>2. \A k \in Jobs : status'[k] = status[k] \/ (status[k] = "waiting" /\ status'[k] = "none")
      <4>1. status' = status \/ (status[j] = "waiting" /\ Drop({j}))
        BY <1>8 DEF StopJob
      <4> QED
        BY <4>1 DEF Drop
    <3> QED
      BY <3>1, <3>2 DEF RunsMatch, At
  <2> QED
    BY <2>1, <2>2
<1>9. CASE Pause \/ Resume
  BY <1>9 DEF Pause, Resume, RunsMatch, At
<1>10. CASE Crash
  <2>1. \A j \in Jobs : run'[j] = Idle /\ status'[j] # "working"
    BY <1>10 DEF Crash
  <2> QED
    BY <2>1, IdleShape DEF RunsMatch, At
<1> QED
  BY <1>1, <1>2, <1>3, <1>4, <1>5, <1>6, <1>7, <1>8, <1>9, <1>10 DEF Next, Handler, Request

LEMMA RunsInit == Init => RunsMatch
<1> SUFFICES ASSUME Init PROVE RunsMatch
  OBVIOUS
<1>1. \A j \in Jobs : run[j] = Idle /\ status[j] # "working"
  BY DEF Init
<1> QED
  BY <1>1, IdleShape DEF RunsMatch, At

LEMMA CarriedInit == Init => Carried
<1> SUFFICES ASSUME Init PROVE Carried
  OBVIOUS
<1>1. \A j \in Jobs : ~At(j, "setWaiting")
  BY IdleShape DEF Init, At
<1>2. row.state \in {"pending", "unwritten"}
  BY DEF Init
<1>3. row.state = "pending" => status[1] = "waiting"
  BY QuestionConstants DEF Init
<1> QED
  BY <1>1, <1>2, <1>3, QuestionConstants DEF Carried, Awaiting, Carries

LEMMA CarriedStep == TypeOK /\ RunsMatch /\ Carried /\ [Next]_vars => Carried'
<1> SUFFICES ASSUME TypeOK, RunsMatch, Carried, [Next]_vars PROVE Carried'
  OBVIOUS
<1> USE DEF Elsewhere, jobs, history
\* A step that leaves a job that carries the question on.
<1>c. ASSUME NEW j \in Jobs, Carries(j)' PROVE Carried'
  BY <1>c DEF Carried
<1>e. ASSUME NEW k, Enqueue(k) PROVE Carried'
  <2>1. PICK j \in Jobs : status' = [status EXCEPT ![j] = "waiting"]
    BY <1>e, EnqueueShape
  <2>2. status'[j] = "waiting"
    BY <2>1 DEF TypeOK
  <2> QED
    BY <1>c, <2>2 DEF Carries
<1>w. \A j \in Jobs : ~At(j, "idle") => status[j] = "working"
  BY DEF RunsMatch
<1>p. ASSUME UNCHANGED <<row.state, run, status>>, paused => paused', broken => broken',
             \A r \in Requests : Stopping(r) => Stopping(r)'
      PROVE  Carried'
  BY <1>p DEF Carried, Exists, Carries, At
<1>1. CASE UNCHANGED vars
  BY <1>1, <1>p DEF vars, Stopping
<1>2. ASSUME NEW j \in Jobs, Begin(j) PROVE Carried'
  <2>1. CASE Exists
    <3> DEFINE begun == [Idle EXCEPT !.at = "begun", !.copy = Source, !.rest = Rest,
                                   !.plain = kind[j] = "find" /\ row.inBook /\ ~row.boxed]
    <3>1. begun.at = "begun" /\ ~begun.stopped
      BY IdleShape DEF Idle
    <3>2. run' = [run EXCEPT ![j] = begun] /\ status' = [status EXCEPT ![j] = "working"]
      BY <1>2, <2>1 DEF Begin, Queue!Begin
    <3> HIDE DEF begun
    <3>3. run'[j] = begun /\ status'[j] = "working"
      BY <3>2 DEF TypeOK
    <3> QED
      BY <1>c, <3>1, <3>3 DEF Carries, At
  <2>2. CASE ~Exists
    BY <1>2, <2>2 DEF Begin, Exists, Carried
  <2> QED
    BY <2>1, <2>2
<1>3. ASSUME NEW j \in Jobs, Mark(j) \/ RewriteReference(j) \/ CrossCheck(j) PROVE Carried'
  <2>1. status'[j] = "working" /\ run'[j].at = "work" /\ ~run'[j].stopped
    <3>1. CASE Mark(j)
      BY <1>w, <3>1 DEF Mark, GoTo, At, Alive, TypeOK, Runs
    <3>2. CASE RewriteReference(j)
      BY <1>w, <3>2 DEF RewriteReference, At, Alive, TypeOK, Runs
    <3>3. CASE CrossCheck(j)
      BY <1>w, <3>3 DEF CrossCheck, At, Alive, TypeOK, Runs
    <3> QED
      BY <1>3, <3>1, <3>2, <3>3
  <2> QED
    BY <1>c, <2>1 DEF Carries, At
<1>4. ASSUME NEW j \in Jobs, Find(j) \/ Read(j) PROVE Carried'
  BY <1>4, <1>e DEF Find, Read
<1>5. ASSUME NEW j \in Jobs, SaveGuide(j) PROVE Carried'
  <2>1. row'.state \notin Awaiting \/ ~Exists'
    BY <1>5 DEF SaveGuide, Write, Exists, Awaiting, TypeOK, Rows
  <2>2. \A k \in Jobs : run'[k].at # "setWaiting"
    <3>1. Leave(j, FALSE) /\ ~paused
      BY <1>5 DEF SaveGuide, Alive
    <3>2. run'[j].at = "back" /\ \A k \in Jobs \ {j} : run'[k] = run[k]
      BY <3>1, LeaveShape DEF TypeOK
    <3> QED
      BY <3>1, <3>2 DEF RunsMatch, At
  <2> QED
    BY <2>1, <2>2 DEF Carried, At
<1>6. ASSUME NEW j \in Jobs, StepFails(j) PROVE Carried'
  <2>1. status' = status /\ status[j] = "working" /\ UNCHANGED <<row, paused, req, broken>>
    BY <1>6, <1>w DEF StepFails, At
  <2>2. CASE run[j].stopped
    <3>1. run'[j].at = "back" /\ \A k \in Jobs \ {j} : run'[k] = run[k]
      BY <1>6, <2>2, LeaveShape DEF StepFails, TypeOK
    <3>2. ~Carries(j)
      BY <2>1, <2>2 DEF Carries
    <3> QED
      BY <2>1, <3>1, <3>2 DEF Carried, Carries, At, Exists, Stopping
  <2>3. CASE ~run[j].stopped
    <3>1. run'[j].at \in {"setWaiting", "setFailed"} /\ ~run'[j].stopped
      BY <1>6, <2>3 DEF StepFails, GoTo, TypeOK, Runs
    <3> QED
      BY <1>c, <2>1, <3>1 DEF Carries, At
  <2> QED
    BY <2>2, <2>3
<1>7. ASSUME NEW j \in Jobs, SetWaiting(j) \/ SetFailed(j) PROVE Carried'
  <2>1. /\ status' = status /\ status[j] = "working" /\ UNCHANGED <<paused, req, broken>>
        /\ Exists' = Exists
    BY <1>7, <1>w DEF SetWaiting, SetFailed, At, Write, Exists, TypeOK, Rows, Runs
  <2>2. /\ run'[j].at = "back" /\ run'[j].err /\ run'[j].stopped = run[j].stopped
        /\ \A k \in Jobs \ {j} : run'[k] = run[k]
    BY <1>7, LeaveShape DEF SetWaiting, SetFailed, TypeOK
  <2> SUFFICES ASSUME /\ Exists' /\ ~broken' /\ \A r \in Requests : ~Stopping(r)'
                      /\ row'.state \in Awaiting \/ \E k \in Jobs : At(k, "setWaiting")'
               PROVE  \E k \in Jobs : Carries(k)'
    BY DEF Carried
  \* One of the runs is about to say "waiting": so the queue is paused.
  <2>3. PICK k \in Jobs : At(k, "setWaiting")
    <3>1. CASE SetWaiting(j)
      BY <3>1 DEF SetWaiting
    <3>2. CASE SetFailed(j)
      <4>1. row'.state \notin Awaiting
        BY <2>1, <3>2 DEF SetFailed, Write, Awaiting, TypeOK, Rows
      <4> QED
        BY <2>2, <4>1 DEF At
    <3> QED
      BY <1>7, <3>1, <3>2
  <2>4. paused /\ paused'
    BY <2>1, <2>3 DEF RunsMatch
  <2>5. PICK c \in Jobs : Carries(c)
    BY <2>1, <2>3 DEF Carried, Stopping
  <2>6. CASE c = j
    BY <2>1, <2>2, <2>4, <2>5, <2>6 DEF Carries
  <2>7. CASE c # j
    BY <2>1, <2>2, <2>4, <2>5, <2>7 DEF Carries, At
  <2> QED
    BY <2>6, <2>7
<1>8. ASSUME NEW j \in Jobs, Return(j) PROVE Carried'
  <2>1. CASE ~run[j].stopped /\ run[j].err /\ paused
    <3>1. status'[j] = "waiting"
      BY <1>8, <2>1 DEF Return, TypeOK
    <3> QED
      BY <1>c, <3>1 DEF Carries
  <2>2. CASE ~(~run[j].stopped /\ run[j].err /\ paused)
    <3>1. /\ Drop({j}) /\ run' = [run EXCEPT ![j] = Idle] /\ UNCHANGED <<row, paused, req, broken>>
          /\ At(j, "back") /\ status[j] = "working"
      BY <1>8, <1>w, <2>2 DEF Return, At
    <3>2. \A k \in Jobs \ {j} : run'[k] = run[k] /\ status'[k] = status[k]
      BY <3>1 DEF Drop
    <3>3. ~Carries(j) /\ run'[j].at = "idle"
      BY <2>2, <3>1, IdleShape DEF Carries, TypeOK
    <3> QED
      BY <3>1, <3>2, <3>3 DEF Carried, Carries, At, Exists, Stopping
  <2> QED
    BY <2>1, <2>2
<1>9. ASSUME NEW r \in Requests, Student(r) \/ PlainNotes(r) \/ PlainCorrect(r) PROVE Carried'
  <2>1. UNCHANGED <<run, status, paused, broken>>
    BY <1>9 DEF Student, SetNotes, Correct, Reread, PointOut, Remove, Retry, WriteGuide, Start,
                PlainNotes, PlainCorrect
  <2>2. row'.state = row.state
    BY <1>9 DEF Student, SetNotes, Correct, Reread, PointOut, Remove, Retry, WriteGuide, Start,
                PlainNotes, PlainCorrect, Write, TypeOK, Rows
  <2>3. ~Stopping(r) /\ \A q \in Requests \ {r} : req'[q] = req[q]
    <3>1. \A p, q : Start(r, p, q) => ~Stopping(r) /\ \A t \in Requests \ {r} : req'[t] = req[t]
      BY DEF Start, Stopping, NoRequest
    <3>2. CASE Student(r)
      BY <3>1, <3>2 DEF Student, SetNotes, Correct, Reread, PointOut, Remove, Retry, WriteGuide
    <3>3. CASE PlainNotes(r) \/ PlainCorrect(r)
      <4>1. req[r].at = "plain" /\ (Over(r) \/ Onward(r, "select"))
        BY <3>3 DEF PlainNotes, PlainCorrect
      <4>2. \A q \in Requests \ {r} : req'[q] = req[q]
        BY <4>1 DEF Over, Onward, TypeOK
      <4> QED
        BY <4>1, <4>2 DEF Stopping
    <3> QED
      BY <1>9, <3>2, <3>3
  <2> QED
    BY <1>p, <2>1, <2>2, <2>3 DEF Stopping
<1>10. ASSUME NEW r \in Requests, Select(r) \/ \E j \in Jobs : StopJob(r, j) PROVE Carried'
  <2>1. Stopping(r)'
    BY <1>10 DEF Select, StopJob, Stopping, TypeOK, Reqs
  <2> QED
    BY <2>1 DEF Carried
<1>11. ASSUME NEW r \in Requests, Commit(r) PROVE Carried'
  <2>1. CASE req[r].op = "remove"
    <3>1. ~Exists'
      BY <1>11, <2>1 DEF Commit, Write, Result, Exists, TypeOK, Rows
    <3> QED
      BY <3>1 DEF Carried
  <2>2. CASE req[r].op # "remove"
    BY <1>11, <1>e, <2>2 DEF Commit
  <2> QED
    BY <2>1, <2>2
<1>12. ASSUME NEW r \in Requests, HangUp(r) PROVE Carried'
  BY <1>12 DEF HangUp, Carried
<1>13. CASE Pause
  BY <1>13, <1>p DEF Pause, Stopping
<1>14. CASE Resume
  <2>1. \A j \in Jobs : status[j] # "working"
    BY <1>14 DEF Resume
  <2> QED
    BY <1>14, <2>1 DEF Resume, Carried, Carries, At, Exists, Stopping
<1>15. CASE Crash
  <2>1. \A j \in Jobs : status[j] # "none" => Carries(j)'
    BY <1>15 DEF Crash, Carries
  <2>2. \A j \in Jobs : Carries(j) => Carries(j)'
    BY <2>1 DEF Carries
  <2>3. row' = row /\ (~broken' => ~broken /\ \A r \in Requests : ~Stopping(r))
    BY <1>15 DEF Crash
  <2>4. \A j \in Jobs : ~At(j, "setWaiting")'
    BY <1>15, IdleShape DEF Crash, At
  <2> QED
    BY <2>2, <2>3, <2>4 DEF Carried, Exists
<1> QED
  BY <1>1, <1>2, <1>3, <1>4, <1>5, <1>6, <1>7, <1>8, <1>9, <1>10, <1>11, <1>12, <1>13, <1>14, <1>15
     DEF Next, Handler, Request

-----------------------------------------------------------------------------
\* "A found question is never left without a guide": one that waits or is being worked on
\* has a job, whatever was stopped, paused, retried or crashed meanwhile, unless a request
\* that had stopped it died.
THEOREM NoneStrandedHolds == Spec => []NoneStranded
<1>1. Init => /\ TypeOK /\ NotesInv /\ Acting
              /\ RunsMatch /\ Carried
  BY TypeInit, NotesInit, RunsInit, CarriedInit
<1>2. TypeOK /\ NotesInv /\ Acting /\ RunsMatch /\ Carried /\ [Next]_vars
        => (TypeOK /\ NotesInv /\ Acting /\ RunsMatch /\ Carried)'
  BY TypeStep, NotesStep, RunsStep, CarriedStep
<1>3. Carried => NoneStranded
  <2> SUFFICES ASSUME Carried, row.state \in Awaiting, ~broken,
                      \A r \in Requests : req[r] = NoRequest
               PROVE  Unfinished # {}
    BY DEF NoneStranded
  <2>1. Exists /\ \A r \in Requests : ~Stopping(r)
    BY DEF Exists, Awaiting, Stopping, NoRequest
  <2> QED
    BY <2>1 DEF Carried, Carries, Unfinished
<1> QED
  BY <1>1, <1>2, <1>3, PTL DEF Spec

-----------------------------------------------------------------------------
(* A guide follows what the student asked it to be written from.           *)

\* While no edit has crossed anything: the question says what was asked for, no job is
\* left that would undo the student's reading, every run that read the question read
\* that, and the requests under way still ask for what the question has.
CurrentInv ==
  Exists /\ ~crossed =>
    /\ row.notes = asked.notes
    /\ asked.mine => row.mine /\ row.page /\ Undoing = {}
    /\ \A j \in PastReading : Follows(run[j].copy)
    /\ \A r \in Requests : /\ req[r].op = "correct" => row.page
                           /\ req[r].op = "again" /\ req[r].find => ~asked.mine
    /\ row.state = "ready" => \A w \in row.walk : Follows(w)

LEMMA CurrentInit == Init => CurrentInv
<1> SUFFICES ASSUME Init PROVE CurrentInv
  OBVIOUS
<1>1. row.state # "ready" /\ row.notes = 0 /\ asked = NoSource /\ PastReading = {}
  BY IdleShape DEF Init, PastReading
<1>2. \A r \in Requests : req[r].op = "none"
  BY DEF Init, NoRequest
<1> QED
  BY <1>1, <1>2 DEF CurrentInv, NoSource

\* A step that asks for nothing new.
LEMMA QuietStep ==
  ASSUME CurrentInv, asked' = asked, crossed => crossed', Exists' => Exists,
         Exists => /\ row'.notes = row.notes /\ row'.mine = row.mine /\ row'.page = row.page
                   /\ row'.state = "ready" => row.state = "ready" /\ row'.walk = row.walk,
         Undoing' \subseteq Undoing,
         \A j \in PastReading' : j \in PastReading /\ run'[j].copy = run[j].copy,
         \A r \in Requests : \/ req'[r].op = req[r].op /\ req'[r].find = req[r].find
                             \/ req'[r].op = "none"
  PROVE  CurrentInv'
BY DEF CurrentInv, Follows

\* One run goes on, with what it had read or with none of it.
LEMMA RunGoesOn ==
  ASSUME TypeOK, NEW j \in Jobs, status[j] # "none",
         NEW n, run' = [run EXCEPT ![j] = n],
         \A k \in Jobs : kind'[k] = kind[k] /\ (k # j => status'[k] = status[k]),
         status'[j] # "none" /\ kind[j] # "guide" /\ ~n.stopped /\ (n.at = "back" => n.err)
           => ~run[j].stopped /\ (run[j].at = "back" => run[j].err),
         n.at \in {"begun", "work"} /\ ~n.stopped
           => run[j].at \in {"begun", "work"} /\ ~run[j].stopped /\ n.copy = run[j].copy
  PROVE  /\ Undoing' \subseteq Undoing
         /\ \A k \in PastReading' : k \in PastReading /\ run'[k].copy = run[k].copy
<1>1. run'[j] = n /\ \A k \in Jobs \ {j} : run'[k] = run[k]
  BY DEF TypeOK
<1> QED
  BY <1>1 DEF Undoing, PastReading, At

LEMMA CurrentStep == TypeOK /\ Acting /\ RunsMatch /\ CurrentInv /\ [Next]_vars => CurrentInv'
<1> SUFFICES ASSUME TypeOK, Acting, RunsMatch, CurrentInv, [Next]_vars PROVE CurrentInv'
  OBVIOUS
<1> USE DEF Elsewhere, jobs, history
<1>w. \A j \in Jobs : ~At(j, "idle") => status[j] = "working"
  BY DEF RunsMatch
<1>i. \A j \in Jobs : status[j] # "working" => At(j, "idle") /\ ~run[j].stopped
  BY DEF RunsMatch
\* The row stays gone.
<1>g. ASSUME NEW n, Write(n) PROVE Exists' => Exists
  BY <1>g DEF Write, Exists
\* The job a step enqueues has read nothing, and undoes nothing if it is to write.
<1>e. ASSUME NEW k, Enqueue(k), run' = run
      PROVE  PastReading' = PastReading /\ (k = "guide" => Undoing' \subseteq Undoing)
  <2>1. PICK j \in Jobs : /\ status[j] = "none" /\ status' = [status EXCEPT ![j] = "waiting"]
                          /\ kind' = [kind EXCEPT ![j] = k]
    BY <1>e, EnqueueShape
  <2>2. PastReading' = PastReading
    BY <1>e DEF PastReading
  <2>3. kind'[j] = k /\ \A i \in Jobs \ {j} : kind'[i] = kind[i] /\ status'[i] = status[i]
    BY <2>1 DEF TypeOK
  <2> QED
    BY <1>e, <2>2, <2>3 DEF Undoing, At
\* A run that leaves its handler has read nothing.
<1>l. ASSUME NEW j \in Jobs, NEW e \in BOOLEAN, Leave(j, e)
      PROVE  \A k \in PastReading' : k \in PastReading /\ run'[k].copy = run[k].copy
  <2>1. run'[j].at = "back" /\ \A k \in Jobs \ {j} : run'[k] = run[k]
    BY <1>l, LeaveShape DEF TypeOK
  <2> QED
    BY <2>1 DEF PastReading
<1>1. CASE UNCHANGED vars
  BY <1>1 DEF vars, CurrentInv, Follows, Exists, Undoing, PastReading, At
<1>2. ASSUME NEW j \in Jobs, Begin(j) PROVE CurrentInv'
  <2>1. /\ status[j] = "waiting" /\ status' = [status EXCEPT ![j] = "working"]
        /\ UNCHANGED <<row, kind, req, asked, crossed>>
    BY <1>2 DEF Begin, Queue!Begin
  <2>2. CASE Exists
    <3> DEFINE begun == [Idle EXCEPT !.at = "begun", !.copy = Source, !.rest = Rest,
                                   !.plain = kind[j] = "find" /\ row.inBook /\ ~row.boxed]
    <3>1. begun.at = "begun" /\ begun.copy = Source
      BY IdleShape DEF Idle
    <3>2. run' = [run EXCEPT ![j] = begun]
      BY <1>2, <2>2 DEF Begin
    <3> HIDE DEF begun
    <3>3. run'[j] = begun /\ \A k \in Jobs \ {j} : run'[k] = run[k]
      BY <3>2 DEF TypeOK
    <3>4. Undoing' \subseteq Undoing
      BY <1>i, <2>1, <3>1, <3>3 DEF Undoing, At, TypeOK
    <3>5. \A k \in PastReading' : run'[k].copy = Source \/ (k \in PastReading /\ run'[k] = run[k])
      BY <3>1, <3>3 DEF PastReading
    <3>6. Source.notes = row.notes /\ Source.mine = row.mine
      BY DEF Source
    <3> QED
      BY <2>1, <3>4, <3>5, <3>6 DEF CurrentInv, Follows, Exists
  <2>3. CASE ~Exists
    BY <2>1, <2>3 DEF CurrentInv, Exists
  <2> QED
    BY <2>2, <2>3
<1>3. ASSUME NEW j \in Jobs, Mark(j) PROVE CurrentInv'
  <2>1. Doing[kind[j]] # "ready"
    BY DEF Doing, TypeOK
  <2>2. Exists => /\ row'.notes = row.notes /\ row'.mine = row.mine /\ row'.page = row.page
                  /\ row'.state # "ready"
    BY <1>3, <2>1 DEF Mark, Write, TypeOK, Rows
  <2>3. /\ status[j] = "working" /\ run[j].at = "begun"
        /\ Exists' => Exists
        /\ UNCHANGED <<kind, status, req, asked, crossed>>
    BY <1>3, <1>w, <1>g DEF Mark, At
  <2>4. PICK n : /\ run' = [run EXCEPT ![j] = n]
                 /\ n.at = "work" /\ n.stopped = run[j].stopped /\ n.copy = run[j].copy
    <3>1. run' = [run EXCEPT ![j] = [run[j] EXCEPT !.at = "work"]]
      BY <1>3 DEF Mark, GoTo
    <3>2. /\ [run[j] EXCEPT !.at = "work"].at = "work"
          /\ [run[j] EXCEPT !.at = "work"].stopped = run[j].stopped
          /\ [run[j] EXCEPT !.at = "work"].copy = run[j].copy
      BY DEF TypeOK, Runs
    <3> QED
      BY <3>1, <3>2
  <2>5. /\ Undoing' \subseteq Undoing
        /\ \A k \in PastReading' : k \in PastReading /\ run'[k].copy = run[k].copy
    BY <2>3, <2>4, RunGoesOn
  <2>6. asked' = asked /\ crossed' = crossed /\ req' = req
    BY <2>3
  <2> QED
    BY <2>2, <2>3, <2>5, <2>6, QuietStep
<1>4. ASSUME NEW j \in Jobs, RewriteReference(j) PROVE CurrentInv'
  <2>1. /\ row' = [row EXCEPT !.notes = run[j].copy.notes] /\ j \in PastReading
        /\ status[j] = "working" /\ run[j].at = "work"
        /\ UNCHANGED <<kind, status, req, asked, crossed>>
    BY <1>4, <1>w DEF RewriteReference, Write, At, PastReading, Alive
  <2>2. run' = [run EXCEPT ![j] = [run[j] EXCEPT !.plain = FALSE]]
    BY <1>4 DEF RewriteReference
  <2>3. /\ [run[j] EXCEPT !.plain = FALSE].at = run[j].at
        /\ [run[j] EXCEPT !.plain = FALSE].stopped = run[j].stopped
        /\ [run[j] EXCEPT !.plain = FALSE].copy = run[j].copy
    BY DEF TypeOK, Runs
  <2>4. /\ Undoing' \subseteq Undoing
        /\ \A k \in PastReading' : k \in PastReading /\ run'[k].copy = run[k].copy
    BY <2>1, <2>2, <2>3, RunGoesOn
  <2>5. ~crossed /\ Exists => run[j].copy.notes = asked.notes
    BY <2>1 DEF CurrentInv, Follows
  <2>6. /\ row'.notes = run[j].copy.notes /\ row'.mine = row.mine /\ row'.page = row.page
        /\ row'.state = row.state /\ row'.walk = row.walk
    BY <2>1 DEF TypeOK, Rows
  <2> QED
    BY <2>1, <2>4, <2>5, <2>6 DEF CurrentInv, Follows, Exists
<1>5. ASSUME NEW j \in Jobs, Find(j) \/ Read(j) PROVE CurrentInv'
  \* It is one that undoes the student's reading, so there is none to undo.
  <2>1. j \in Undoing /\ UNCHANGED <<req, asked, crossed>>
    BY <1>5, <1>w DEF Find, Read, Undoing, At, Alive
  <2>2. Leave(j, FALSE)
    BY <1>5 DEF Find, Read
  <2>3. /\ Exists' => Exists
        /\ Exists => /\ row'.notes = row.notes /\ row'.state = "located"
                     /\ row.page => row'.page
    <3>1. CASE Find(j)
      <4>1. PICK f \in BOOLEAN : Write([row EXCEPT !.page = TRUE, !.figs = f, !.mine = FALSE, !.state = "located"])
        BY <3>1 DEF Find
      <4> QED
        BY <4>1, <1>g DEF Write, TypeOK, Rows
    <3>2. CASE Read(j)
      BY <3>2, <1>g DEF Read, Write, TypeOK, Rows
    <3> QED
      BY <1>5, <3>1, <3>2
  <2>4. \A k \in PastReading' : k \in PastReading /\ run'[k].copy = run[k].copy
    BY <1>l, <2>2
  <2> QED
    BY <2>1, <2>3, <2>4 DEF CurrentInv, Follows
<1>6. ASSUME NEW j \in Jobs, CrossCheck(j) PROVE CurrentInv'
  <2>1. /\ status[j] = "working" /\ kind[j] = "guide"
        /\ UNCHANGED <<row, kind, status, req, asked, crossed>>
    BY <1>6, <1>w DEF CrossCheck, At
  <2>2. run' = [run EXCEPT ![j] = [run[j] EXCEPT !.copy = Source]]
    BY <1>6 DEF CrossCheck
  <2>3. [run[j] EXCEPT !.copy = Source].copy = Source
    BY DEF TypeOK, Runs
  <2>4. run'[j].copy = Source /\ \A k \in Jobs \ {j} : run'[k] = run[k]
    BY <2>2, <2>3 DEF TypeOK
  <2>5. Undoing' \subseteq Undoing
    BY <2>1, <2>4 DEF Undoing, At
  <2>6. \A k \in PastReading' : run'[k].copy = Source \/ (k \in PastReading /\ run'[k] = run[k])
    BY <2>4 DEF PastReading
  <2>7. Source.notes = row.notes /\ Source.mine = row.mine
    BY DEF Source
  <2> QED
    BY <2>1, <2>5, <2>6, <2>7 DEF CurrentInv, Follows, Exists
<1>7. ASSUME NEW j \in Jobs, SaveGuide(j) PROVE CurrentInv'
  <2>1. /\ j \in PastReading /\ Leave(j, FALSE) /\ status[j] = "working" /\ kind[j] = "guide"
        /\ UNCHANGED <<kind, status, req, asked, crossed>>
    BY <1>7, <1>w DEF SaveGuide, At, Alive, PastReading
  <2>2. /\ Exists' => Exists
        /\ Exists => /\ row'.notes = row.notes /\ row'.mine = row.mine /\ row'.page = row.page
                     /\ row'.walk = {run[j].copy}
    BY <1>7, <1>g DEF SaveGuide, Write, TypeOK, Rows
  <2>3. \A k \in PastReading' : k \in PastReading /\ run'[k].copy = run[k].copy
    BY <1>l, <2>1
  <2>4. \A k \in Jobs \ {j} : run'[k] = run[k]
    BY <2>1, LeaveShape DEF TypeOK
  <2>5. Undoing' \subseteq Undoing
    BY <2>1, <2>4 DEF Undoing, At
  <2> QED
    BY <2>1, <2>2, <2>3, <2>5 DEF CurrentInv, Follows
<1>8. ASSUME NEW j \in Jobs, StepFails(j) PROVE CurrentInv'
  <2>1. /\ status[j] = "working" /\ run[j].at \in {"begun", "work"}
        /\ UNCHANGED <<row, kind, status, req, asked, crossed>>
    BY <1>8, <1>w DEF StepFails, At
  <2>2. /\ Undoing' \subseteq Undoing
        /\ \A k \in PastReading' : k \in PastReading /\ run'[k].copy = run[k].copy
    <3>1. CASE run[j].stopped
      <4>1. Leave(j, TRUE)
        BY <1>8, <3>1 DEF StepFails
      <4>2. run'[j].stopped /\ \A k \in Jobs \ {j} : run'[k] = run[k]
        BY <3>1, <4>1, LeaveShape DEF TypeOK
      <4> QED
        BY <1>l, <2>1, <4>1, <4>2 DEF Undoing, At
    <3>2. CASE ~run[j].stopped
      <4>1. PICK p \in {"setWaiting", "setFailed"} : GoTo(j, p)
        BY <1>8, <3>2 DEF StepFails
      <4>2. run' = [run EXCEPT ![j] = [run[j] EXCEPT !.at = p]]
        BY <4>1 DEF GoTo
      <4>3. [run[j] EXCEPT !.at = p].at = p
        BY DEF TypeOK, Runs
      <4> QED
        BY <2>1, <3>2, <4>1, <4>2, <4>3, RunGoesOn
    <3> QED
      BY <3>1, <3>2
  <2> QED
    BY <2>1, <2>2, QuietStep DEF Exists
<1>9. ASSUME NEW j \in Jobs, SetWaiting(j) \/ SetFailed(j) PROVE CurrentInv'
  <2>1. /\ status[j] = "working" /\ run[j].at # "back" /\ Leave(j, TRUE)
        /\ UNCHANGED <<kind, status, req, asked, crossed>>
    BY <1>9, <1>w DEF SetWaiting, SetFailed, At
  <2>2. Exists' => Exists
    BY <1>9, <1>g DEF SetWaiting, SetFailed
  <2>3. Exists => /\ row'.notes = row.notes /\ row'.mine = row.mine /\ row'.page = row.page
                  /\ row'.state # "ready"
    BY <1>9 DEF SetWaiting, SetFailed, Write, TypeOK, Rows, Runs
  <2>4. run'[j].stopped = run[j].stopped /\ \A k \in Jobs \ {j} : run'[k] = run[k]
    BY <2>1, LeaveShape DEF TypeOK
  <2>5. Undoing' \subseteq Undoing
    BY <2>1, <2>4 DEF Undoing, At
  <2>6. \A k \in PastReading' : k \in PastReading /\ run'[k].copy = run[k].copy
    BY <1>l, <2>1
  <2> QED
    BY <2>1, <2>2, <2>3, <2>5, <2>6, QuietStep
<1>10. ASSUME NEW j \in Jobs, Return(j) PROVE CurrentInv'
  <2>1. /\ run[j].at = "back" /\ status[j] = "working" /\ UNCHANGED <<row, req, asked, crossed>>
        /\ run' = [run EXCEPT ![j] = Idle]
    BY <1>10, <1>w DEF Return, At
  <2>2. \A k \in Jobs \ {j} : run'[k] = run[k] /\ status'[k] = status[k] /\ kind'[k] = kind[k]
    BY <1>10, <2>1 DEF Return, Drop, TypeOK
  <2>3. run'[j].at = "idle"
    BY <2>1, IdleShape DEF TypeOK
  <2>4. status'[j] # "none" => ~run[j].stopped /\ run[j].err /\ kind'[j] = kind[j]
    BY <1>10 DEF Return, Drop
  <2>5. Undoing' \subseteq Undoing
    BY <2>1, <2>2, <2>4 DEF Undoing, At
  <2>6. \A k \in PastReading' : k \in PastReading /\ run'[k].copy = run[k].copy
    BY <2>2, <2>3 DEF PastReading
  <2> QED
    BY <2>1, <2>5, <2>6, QuietStep DEF Exists
<1>11. ASSUME NEW r \in Requests, Student(r) PROVE CurrentInv'
  <2>1. ASSUME NEW op, NEW p, Start(r, op, p), op = "correct" => row.page PROVE CurrentInv'
    <3>1. UNCHANGED <<row, kind, status, run, asked, crossed>> /\ Exists
      BY <2>1 DEF Start
    <3>2. req'[r].op = op /\ (req'[r].find => ~row.page)
      BY <2>1 DEF Start, NoRequest, TypeOK, Rows
    <3>3. \A q \in Requests \ {r} : req'[q] = req[q]
      BY <2>1 DEF Start
    <3>4. Undoing' = Undoing /\ PastReading' = PastReading
      BY <3>1 DEF Undoing, PastReading, At
    <3> QED
      BY <2>1, <3>1, <3>2, <3>3, <3>4 DEF CurrentInv, Follows
  <2> QED
    BY <1>11, <2>1
       DEF Student, SetNotes, Correct, Reread, PointOut, Remove, Retry, WriteGuide, Figured
<1>12. ASSUME NEW r \in Requests, PlainNotes(r) PROVE CurrentInv'
  <2>1. /\ UNCHANGED <<kind, status, run>> /\ Over(r) /\ req[r].op = "notes"
        /\ crossed' = (crossed \/ PastReading # {} \/ row.state = "ready")
        /\ asked' = [asked EXCEPT !.notes = @ + 1]
        /\ Exists' => Exists
    BY <1>12, <1>g DEF PlainNotes
  <2>2. Exists => /\ row'.notes = asked.notes + 1 /\ row'.mine = row.mine /\ row'.page = row.page
                  /\ row'.state = row.state
    BY <1>12 DEF PlainNotes, Write, TypeOK, Rows
  <2>3. asked'.notes = asked.notes + 1 /\ asked'.mine = asked.mine
    BY <2>1 DEF TypeOK, Sources
  <2>4. Undoing' = Undoing /\ PastReading' = PastReading
    BY <2>1 DEF Undoing, PastReading, At
  <2>5. \A q \in Requests : req'[q] = req[q] \/ req'[q].op = "none"
    BY <2>1 DEF Over, NoRequest
  <2>6. \A q \in Requests : req'[q].op = "correct" \/ req'[q].op = "again" => req'[q] = req[q]
    BY <2>5
  <2>7. ~crossed' => ~crossed /\ PastReading = {} /\ row.state # "ready"
    BY <2>1
  <2> QED
    BY <2>1, <2>2, <2>3, <2>4, <2>6, <2>7 DEF CurrentInv
<1>13. ASSUME NEW r \in Requests, PlainCorrect(r) PROVE CurrentInv'
  <2>1. /\ UNCHANGED <<kind, status, run>> /\ req[r].op = "correct"
    BY <1>13 DEF PlainCorrect
  <2>2. Undoing' = Undoing /\ PastReading' = PastReading
    BY <2>1 DEF Undoing, PastReading, At
  <2>3. CASE row.state \in {"located", "unwritten"}
    <3>1. /\ crossed' = (crossed \/ PastReading # {} \/ Undoing # {} \/ Beside(r))
          /\ asked' = [asked EXCEPT !.mine = TRUE] /\ Over(r)
          /\ row' = [row EXCEPT !.mine = TRUE] /\ Exists
      BY <1>13, <2>3 DEF PlainCorrect, Write, Exists
    <3>2. ~crossed' => ~crossed /\ PastReading = {} /\ Undoing = {} /\ ~Beside(r)
      BY <3>1
    <3>3. ~Beside(r) => \A q \in Requests : req'[q].op = "none"
      BY <3>1 DEF Over, Beside, NoRequest, TypeOK
    <3>4. /\ row'.notes = row.notes /\ row'.mine /\ row'.page = row.page /\ row'.state = row.state
          /\ asked'.notes = asked.notes
      BY <3>1 DEF TypeOK, Rows, Sources
    <3> QED
      BY <2>1, <2>2, <2>3, <3>1, <3>2, <3>3, <3>4 DEF CurrentInv
  <2>4. CASE row.state \notin {"located", "unwritten"}
    <3>1. Onward(r, "select") /\ UNCHANGED <<row, asked, crossed>>
      BY <1>13, <2>4 DEF PlainCorrect
    <3>2. \A q \in Requests : req'[q].op = req[q].op /\ req'[q].find = req[q].find
      BY <3>1 DEF Onward, TypeOK, Reqs
    <3>3. \A k \in PastReading' : k \in PastReading /\ run'[k].copy = run[k].copy
      BY <2>1, <2>2
    <3> QED
      BY <2>2, <3>1, <3>2, <3>3, QuietStep DEF Exists
  <2> QED
    BY <2>3, <2>4
<1>14. ASSUME NEW r \in Requests, Select(r) PROVE CurrentInv'
  <2>1. UNCHANGED <<row, kind, status, run, asked, crossed>>
    BY <1>14 DEF Select
  <2>2. \A q \in Requests : req'[q].op = req[q].op /\ req'[q].find = req[q].find
    BY <1>14 DEF Select, TypeOK, Reqs
  <2>3. Undoing' = Undoing /\ PastReading' = PastReading
    BY <2>1 DEF Undoing, PastReading, At
  <2> QED
    BY <2>1, <2>2, <2>3, QuietStep DEF Exists
<1>15. ASSUME NEW r \in Requests, NEW j \in Jobs, StopJob(r, j) PROVE CurrentInv'
  <2>1. UNCHANGED <<row, asked, crossed>>
    BY <1>15 DEF StopJob
  <2>2. \A q \in Requests : req'[q].op = req[q].op /\ req'[q].find = req[q].find
    BY <1>15 DEF StopJob, TypeOK, Reqs
  <2>3. /\ \A k \in Jobs \ {j} : run'[k] = run[k]
        /\ run'[j].copy = run[j].copy /\ run'[j].at = run[j].at /\ run'[j].err = run[j].err
        /\ run[j].stopped => run'[j].stopped
    BY <1>15 DEF StopJob, TypeOK, Runs
  <2>4. \A k \in Jobs : status'[k] # "none" => status[k] # "none" /\ kind'[k] = kind[k]
    BY <1>15 DEF StopJob, Drop
  <2>5. /\ Undoing' \subseteq Undoing
        /\ \A k \in PastReading' : k \in PastReading /\ run'[k].copy = run[k].copy
    BY <2>3, <2>4 DEF Undoing, PastReading, At
  <2> QED
    BY <2>1, <2>2, <2>5, QuietStep DEF Exists
<1>16. ASSUME NEW r \in Requests, Commit(r) PROVE CurrentInv'
  <2>1. /\ Over(r) /\ run' = run /\ asked' = Asked(req[r].op) /\ Write(Result(req[r].op))
        /\ Exists' => Exists
        /\ req[r].op # "remove" => Enqueue(NextJob(r))
    BY <1>16, <1>g DEF Commit
  <2>2. ~crossed' => /\ ~crossed /\ PastReading = {} /\ ~Beside(r)
                     /\ req[r].op = "correct" => Undoing = {}
    BY <1>16 DEF Commit
  <2> SUFFICES ASSUME Exists', ~crossed' PROVE CurrentInv'
    BY DEF CurrentInv
  <2>3. /\ Exists /\ ~crossed /\ PastReading = {} /\ row' = Result(req[r].op)
        /\ req[r].op = "correct" => Undoing = {}
    BY <2>1, <2>2 DEF Write
  <2>4. \A q \in Requests : req'[q].op = "none"
    BY <2>1, <2>2 DEF Beside, Over, NoRequest, TypeOK
  <2>5. PastReading' = {}
    BY <2>1, <2>3 DEF PastReading
  <2>6. req[r].op \in {"notes", "correct", "reread", "point", "again", "page", "text", "write"}
    <3>1. req[r].op # "remove"
      BY <2>1, <2>3 DEF Result, Exists, TypeOK, Rows
    <3>2. req[r].op # "none"
      BY <1>16 DEF Commit, Acting
    <3> QED
      BY <3>1, <3>2 DEF TypeOK, Reqs
  <2>7. Enqueue(NextJob(r))
    BY <2>1, <2>6
  <2>8. /\ Cleared \in Rows /\ Cleared.notes = row.notes /\ Cleared.mine = row.mine
        /\ Cleared.page = row.page /\ Cleared.state = "located"
        /\ Unlocated \in Rows /\ Unlocated.notes = row.notes /\ Unlocated.state = "pending"
    <3>1. {"located", "pending"} \subseteq States /\ {} \in SUBSET Sources
      BY DEF States, Unstarted
    <3> QED
      BY <3>1 DEF TypeOK, Rows, Cleared, Unlocated
  \* It says what was asked for, and no guide.
  <2>9. row'.state # "ready" /\ row'.notes = asked'.notes
    <3>1. CASE req[r].op = "notes"
      BY <2>1, <2>3, <2>8, <3>1 DEF Result, Asked, Rows, TypeOK, Sources
    <3>2. CASE req[r].op \in {"correct", "reread"}
      BY <2>1, <2>3, <2>8, <3>2 DEF Result, Asked, Rows, TypeOK, Sources, CurrentInv
    <3>3. CASE req[r].op \in {"point", "page", "text"}
      BY <2>1, <2>3, <2>8, <3>3 DEF Result, Asked, Rows, TypeOK, Sources, CurrentInv
    <3>4. CASE req[r].op = "again"
      BY <2>1, <2>3, <2>8, <3>4, SourceShape DEF Result, Asked, Rows, TypeOK, CurrentInv
    <3>5. CASE req[r].op = "write"
      BY <2>1, <2>3, <2>8, <3>5 DEF Result, Asked, Rows, TypeOK, CurrentInv
    <3> QED
      BY <2>6, <3>1, <3>2, <3>3, <3>4, <3>5
  \* What would have the figures read anew is for a question of which nobody read them.
  <2>10. asked'.mine => row'.mine /\ row'.page /\ NextJob(r) = "guide" /\ Undoing = {}
    <3>1. CASE req[r].op = "notes"
      BY <2>1, <2>3, <2>8, <3>1 DEF Result, Asked, Rows, TypeOK, Sources, CurrentInv, NextJob
    <3>2. CASE req[r].op = "correct"
      BY <2>1, <2>3, <2>8, <3>2 DEF Result, Asked, Rows, TypeOK, Sources, CurrentInv, NextJob
    <3>3. CASE req[r].op \in {"reread", "point", "page", "text"}
      BY <2>1, <3>3 DEF Asked, TypeOK, Sources
    <3>4. CASE req[r].op = "again"
      BY <2>1, <2>3, <2>8, <3>4 DEF Result, Asked, Rows, TypeOK, CurrentInv, NextJob
    <3>5. CASE req[r].op = "write"
      BY <2>1, <2>3, <2>8, <3>5 DEF Result, Asked, Rows, TypeOK, CurrentInv, NextJob
    <3> QED
      BY <2>6, <3>1, <3>2, <3>3, <3>4, <3>5
  <2>11. asked'.mine => Undoing' = {}
    BY <1>e, <2>1, <2>7, <2>10
  <2> QED
    BY <2>4, <2>5, <2>9, <2>10, <2>11 DEF CurrentInv
<1>17. ASSUME NEW r \in Requests, HangUp(r) PROVE CurrentInv'
  <2>1. UNCHANGED <<row, kind, status, run, asked, crossed>> /\ Over(r)
    BY <1>17 DEF HangUp
  <2>2. \A q \in Requests : req'[q] = req[q] \/ req'[q].op = "none"
    BY <2>1 DEF Over, NoRequest
  <2>3. Undoing' = Undoing /\ PastReading' = PastReading
    BY <2>1 DEF Undoing, PastReading, At
  <2> QED
    BY <2>1, <2>2, <2>3, QuietStep DEF Exists
<1>18. CASE Pause \/ Resume
  <2>1. UNCHANGED <<row, kind, status, run, req, asked, crossed>>
    BY <1>18 DEF Pause, Resume
  <2>2. Undoing' = Undoing /\ PastReading' = PastReading
    BY <2>1 DEF Undoing, PastReading, At
  <2> QED
    BY <2>1, <2>2, QuietStep DEF Exists
<1>19. CASE Crash
  <2>1. UNCHANGED <<row, kind, asked>> /\ \A q \in Requests : req'[q].op = "none"
    BY <1>19 DEF Crash, NoRequest
  <2>2. \A k \in Jobs : run'[k].at = "idle" /\ (status'[k] # "none" => status[k] # "none")
    BY <1>19, IdleShape DEF Crash
  <2>3. ~crossed' => ~crossed /\ \A k \in Jobs : ~At(k, "back") /\ ~run[k].stopped
    BY <1>19 DEF Crash
  <2>4. PastReading' = {}
    BY <2>2 DEF PastReading
  <2>5. ~crossed' => Undoing' \subseteq Undoing
    BY <2>1, <2>2, <2>3 DEF Undoing
  <2> QED
    BY <2>1, <2>3, <2>4, <2>5 DEF CurrentInv, Follows, Exists
<1> QED
  BY <1>1, <1>2, <1>3, <1>4, <1>5, <1>6, <1>7, <1>8, <1>9, <1>10, <1>11, <1>12, <1>13, <1>14,
     <1>15, <1>16, <1>17, <1>18, <1>19
     DEF Next, Handler, Request

-----------------------------------------------------------------------------
\* A guide that is there follows the professor's notes and the reading of the figures the
\* student asked for, however many jobs, retries, pauses and crashes came between, unless
\* an edit crossed a run that had read the question, or another edit.
THEOREM GuideIsCurrentHolds == Spec => []GuideIsCurrent
<1>1. Init => TypeOK /\ NotesInv /\ Acting /\ RunsMatch /\ CurrentInv
  BY TypeInit, NotesInit, RunsInit, CurrentInit
<1>2. TypeOK /\ NotesInv /\ Acting /\ RunsMatch /\ CurrentInv /\ [Next]_vars
        => (TypeOK /\ NotesInv /\ Acting /\ RunsMatch /\ CurrentInv)'
  BY TypeStep, NotesStep, RunsStep, CurrentStep
<1>3. CurrentInv => GuideIsCurrent
  BY DEF CurrentInv, GuideIsCurrent, Exists
<1> QED
  BY <1>1, <1>2, <1>3, PTL DEF Spec
=============================================================================
