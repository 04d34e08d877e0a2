-------------------------- MODULE BookImportProofs --------------------------
(***************************************************************************)
(* Theorems about BookImport.                                              *)
(***************************************************************************)
EXTENDS BookImport, TLAPS

IsRead(p) == page[p] \in {"text", "blank"}
AllRead == \A p \in Pages : IsRead(p)

\* Nothing has happened before the upload.
FreshInv ==
  book.state = "absent" =>
    /\ run.at = "idle"
    /\ \A j \in Jobs : status[j] = "none" /\ kind[j] = "examine"
    /\ \A r \in Requests : req[r] = NoRequest

\* A handler's job is a working one.
RunInv == run.at # "idle" => run.job \in Jobs /\ status[run.job] = "working"

\* A name of the student's is known for one, in the row and in what a patch will write.
NameInv ==
  /\ book.name = "student" => book.edited
  /\ \A r \in Requests : req[r].name = "student" => req[r].edited

Clean == vector = {} /\ ~book.sections /\ \A p \in Pages : page[p] = "unread"

\* What is on record at each point of the handlers, as long as there is a row.
PageInv ==
  /\ \A p \in Pages : /\ page[p] = "text" => p \notin Blank
                      /\ page[p] = "blank" => p \in Blank
  /\ ~Present => Clean
  /\ Present /\ ~book.scan /\ run.at \in {"handover", "prepare"} => AllRead
  /\ Present /\ ~book.scan => \A j \in Jobs : kind[j] = "prepare" => AllRead
  /\ run.at = "read" =>
       /\ book.scan
       /\ Present => \A p \in Pages : IF p \in run.todo THEN ~IsRead(p)
                                                      ELSE page[p] # "unread"
  /\ Present /\ run.at \in {"name", "index", "search", "embed"} => AllRead
  /\ Present /\ run.at \in {"search", "embed"} => book.sections
  /\ Present /\ run.at = "embed" =>
       \A p \in Pages : /\ p \in run.todo => page[p] = "text"
                        /\ page[p] = "text" => p \in vector \cup run.todo

Waits == \E j \in Jobs : status[j] = "waiting"

\* Without a Stop, whoever writes "queued" leaves a job that is owed.
BackInv ==
  ~asked =>
    /\ \A r \in Requests : /\ req[r].op \in {"none", "retry", "patch"}
                           /\ req[r].at # "select" /\ req[r].todo = {}
    /\ ~run.stopped
    /\ run.at = "requeuing" => run.cut
    /\ run.at = "back" /\ book.state \in Going => (run.err /\ run.cut) \/ Waits

ImportInv == /\ TypeOK /\ FreshInv /\ RunInv /\ NameInv /\ PageInv /\ BackInv
             /\ ReadyMeansRead /\ Backed

\* One step of PagesKept, one of EditStays.
StaysRead ==
  \A p \in Pages : page[p] \in {"text", "blank"} /\ book'.state # "removed"
                    => page'[p] = page[p]
StaysNamed ==
  book.name = "student" /\ book'.name # "student" =>
    \/ At("classify") /\ ~run.edited
    \/ \E r \in Requests : Stale(r) /\ req'[r] # req[r]

-----------------------------------------------------------------------------
(* Steps keep the types.                                                   *)

LEMMA TypeStep ==
  ASSUME ImportInv, [Next]_vars
  PROVE  TypeOK'
<1>0. TypeOK /\ RunInv /\ PageInv
  BY DEF ImportInv
<1>1. ASSUME GetBook PROVE TypeOK'
  <2>1. run.job \in Jobs
    BY <1>0, <1>1
    DEF GetBook, At, RunInv
  <2>2. kind[run.job] \in {"examine", "prepare"} /\ book.edited \in BOOLEAN
    BY <1>0, <1>1, <2>1
    DEF TypeOK, Books
  <2>3. run' \in Runs
    BY <1>0, <1>1, <2>2
    DEF GetBook, Alive, TypeOK, Runs, Points, Steps
  <2> QED
    BY <1>0, <1>1, <2>1, <2>2, <2>3
    DEF GetBook, content, queue, TypeOK
<1>2. ASSUME LoseContext PROVE TypeOK'
  BY <1>0, <1>2, ImportConstants
  DEF LoseContext, StaysBut, GoTo, InCall, content, queue, TypeOK, Present, Books,
      Runs, Points, Reqs, Steps
<1>3. ASSUME Fail PROVE TypeOK'
  <2>1. run' \in Runs
    BY <1>0, <1>3
    DEF Fail, GoTo, TypeOK, Runs, Points
  <2>2. trouble' \in 0..MaxTrouble
    BY <1>0, <1>3, ImportConstants
    DEF Fail, Troubled, TypeOK
  <2> QED
    BY <1>0, <1>3, <2>1, <2>2
    DEF Fail, content, queue, TypeOK
<1>4. ASSUME Examine PROVE TypeOK'
  BY <1>0, <1>4, ImportConstants
  DEF Examine, At, StaysBut, GoTo, InState, content, queue, TypeOK, Present, Books,
      Runs, Points, Reqs, Steps
<1>5. ASSUME Classify PROVE TypeOK'
  <2>1. book' \in Books
    BY <1>0, <1>5
    DEF Classify, Named, InState, TypeOK, Books, Present
  <2>2. page' \in [Pages -> {"blank", "text", "unread", "failed"}]
    BY <1>0, <1>5
    DEF Classify, Settled, TypeOK
  <2>3. run' \in Runs
    BY <1>0, <1>5
    DEF Classify, StaysBut, GoTo, TypeOK, Runs, Points, Steps
  <2>4. \A p \in Pages : page[p] = "text" => page'[p] = "text"
    BY <1>0, <1>5
    DEF Classify, Settled, PageInv
  <2> QED
    BY <1>0, <1>5, <2>1, <2>2, <2>3, <2>4
    DEF Classify, StaysBut, content, queue, TypeOK
<1>6. ASSUME Handover PROVE TypeOK'
  BY <1>0, <1>6, ImportConstants
  DEF Handover, At, GoTo, InState, Enqueue, NewJob, Queue!Submit, content, queue,
      TypeOK, Present, Books, Runs, Points, Reqs, Steps
<1>7. ASSUME Prepare PROVE TypeOK'
  BY <1>0, <1>7, ImportConstants
  DEF Prepare, At, InState, Unread, content, queue, TypeOK, Present, Books, Runs,
      Points, Reqs, Steps
<1>8. ASSUME NEW p \in Pages, ReadPage(p) PROVE TypeOK'
  <2>1. book' \in Books
    BY <1>0, <1>8
    DEF ReadPage, InState, TypeOK, Books, Present
  <2>2. page' \in [Pages -> {"blank", "text", "unread", "failed"}]
    BY <1>0, <1>8
    DEF ReadPage, Settled, TypeOK
  <2>3. run' \in Runs
    BY <1>0, <1>8
    DEF ReadPage, GoTo, TypeOK, Runs, Points, Steps
  <2>4. trouble' \in 0..MaxTrouble
    BY <1>0, <1>8, ImportConstants
    DEF ReadPage, Troubled, TypeOK
  <2>5. \A q \in Pages : page[q] = "text" => page'[q] = "text"
    BY <1>0, <1>8
    DEF ReadPage, Present, At, First, IsRead, PageInv, Clean, TypeOK
  <2> QED
    BY <1>0, <1>8, <2>1, <2>2, <2>3, <2>4, <2>5
    DEF ReadPage, content, queue, TypeOK
<1>9. ASSUME ReadAll PROVE TypeOK'
  <2>1. book' \in Books
    BY <1>0, <1>9
    DEF ReadAll, StaysBut, InState, TypeOK, Books, Present
  <2>2. run' \in Runs
    BY <1>0, <1>9
    DEF ReadAll, StaysBut, GoTo, TypeOK, Runs, Points, Steps
  <2> QED
    BY <1>0, <1>9, <2>1, <2>2
    DEF ReadAll, StaysBut, content, queue, TypeOK
<1>10. ASSUME Name PROVE TypeOK'
  <2>1. book' \in Books
    BY <1>0, <1>10
    DEF Name, TypeOK, Books, Present
  <2>2. run' \in Runs
    BY <1>0, <1>10
    DEF Name, StaysBut, GoTo, TypeOK, Runs, Points, Steps
  <2> QED
    BY <1>0, <1>10, <2>1, <2>2
    DEF Name, StaysBut, content, queue, TypeOK
<1>11. ASSUME Index PROVE TypeOK'
  <2>1. book' \in Books
    BY <1>0, <1>11
    DEF Index, TypeOK, Books, Present
  <2>2. run' \in Runs
    BY <1>0, <1>11
    DEF Index, StaysBut, GoTo, TypeOK, Runs, Points, Steps
  <2> QED
    BY <1>0, <1>11, <2>1, <2>2
    DEF Index, StaysBut, content, queue, TypeOK
<1>12. ASSUME Search PROVE TypeOK'
  BY <1>0, <1>12, ImportConstants
  DEF Search, At, InState, Lacking, content, queue, TypeOK, Present, Books, Runs,
      Points, Reqs, Steps
<1>13. ASSUME NEW p \in Pages, Embed(p) PROVE TypeOK'
  <2>1. book' \in Books
    BY <1>0, <1>13
    DEF Embed, InState, TypeOK, Books, Present
  <2>2. run' \in Runs
    BY <1>0, <1>13
    DEF Embed, GoTo, TypeOK, Runs, Points, Steps
  <2>3. vector' \subseteq {q \in Pages : page[q] = "text"}
    BY <1>0, <1>13
    DEF Embed, Present, At, First, PageInv, TypeOK
  <2> QED
    BY <1>0, <1>13, <2>1, <2>2, <2>3
    DEF Embed, content, queue, TypeOK
<1>14. ASSUME Ready PROVE TypeOK'
  BY <1>0, <1>14, ImportConstants
  DEF Ready, At, InState, StaysBut, GoTo, content, queue, TypeOK, Present, Books,
      Runs, Points, Reqs, Steps
<1>15. ASSUME Decide PROVE TypeOK'
  BY <1>0, <1>15, ImportConstants
  DEF Decide, At, StaysBut, GoTo, Leaves, content, queue, TypeOK, Present, Books,
      Runs, Points, Reqs, Steps
<1>16. ASSUME WriteBack PROVE TypeOK'
  BY <1>0, <1>16, ImportConstants
  DEF WriteBack, At, InState, content, queue, TypeOK, Present, Books, Runs, Points,
      Reqs, Steps
<1>17. ASSUME Return PROVE TypeOK'
  BY <1>0, <1>17, ImportConstants
  DEF Return, At, Verdict, Idle, Queue!Return, content, queue, TypeOK, Present,
      Books, Runs, Points, Reqs, Steps
<1>18. ASSUME Cut PROVE TypeOK'
  <2>1. run' \in Runs
    BY <1>0, <1>18
    DEF Cut, TypeOK, Runs
  <2>2. trouble' \in 0..MaxTrouble
    BY <1>0, <1>18, ImportConstants
    DEF Cut, Troubled, TypeOK
  <2> QED
    BY <1>0, <1>18, <2>1, <2>2
    DEF Cut, content, queue, TypeOK
<1>19. ASSUME Crash PROVE TypeOK'
  BY <1>0, <1>19, ImportConstants
  DEF Crash, Troubled, Idle, NoRequest, Queue!Unwind, content, queue, TypeOK,
      Present, Books, Runs, Points, Reqs, Steps
<1>20. ASSUME Upload PROVE TypeOK'
  BY <1>0, <1>20, ImportConstants
  DEF Upload, Enqueue, NewJob, Queue!Submit, content, queue, TypeOK, Present, Books,
      Runs, Points, Reqs, Steps
<1>21. ASSUME NEW r \in Requests, Update(r) PROVE TypeOK'
  <2>1. req[r] \in Reqs /\ NoRequest \in Reqs
    BY <1>0, <1>21
    DEF TypeOK, Reqs, NoRequest
  <2>2. req' \in [Requests -> Reqs]
    BY <1>0, <1>21, <2>1
    DEF Update, Ends, TypeOK
  <2>3. req[r].name \in {"given", "student"} /\ req[r].edited \in BOOLEAN
    BY <2>1
    DEF Reqs
  <2>4. book' \in Books
    BY <1>0, <1>21, <2>3
    DEF Update, TypeOK, Books
  <2> QED
    BY <1>0, <1>21, <2>2, <2>4
    DEF Update, content, queue, TypeOK
<1>22. ASSUME NEW j \in Jobs, Begin(j) PROVE TypeOK'
  BY <1>0, <1>22, ImportConstants
  DEF Begin, At, Idle, Queue!Begin, content, queue, TypeOK, Present, Books, Runs,
      Points, Reqs, Steps
<1>23. ASSUME NEW j \in Jobs, End(j) PROVE TypeOK'
  BY <1>0, <1>23, ImportConstants
  DEF End, Queue!End, content, queue, TypeOK, Present, Books, Runs, Points, Reqs,
      Steps
<1>24. ASSUME NEW r \in Requests, NEW op \in {"stop", "remove", "retry"}, Arrive(r, op)
      PROVE TypeOK'
  <2>1. req'[r] \in Reqs /\ req' = [req EXCEPT ![r] = req'[r]]
    BY <1>0, <1>24
    DEF Arrive, TypeOK, Reqs, NoRequest
  <2>2. req' \in [Requests -> Reqs]
    BY <1>0, <2>1
    DEF TypeOK
  <2>3. trouble' \in 0..MaxTrouble
    BY <1>0, <1>24, ImportConstants
    DEF Arrive, Troubled, TypeOK
  <2>4. asked' \in BOOLEAN
    BY <1>0, <1>24
    DEF Arrive, TypeOK
  <2> QED
    BY <1>0, <1>24, <2>2, <2>3, <2>4
    DEF Arrive, content, queue, TypeOK
<1>25. ASSUME NEW r \in Requests, Select(r) PROVE TypeOK'
  <2>1. req[r] \in Reqs
    BY <1>0, <1>25
    DEF TypeOK
  <2>2. [req[r] EXCEPT !.at = "write",
       !.todo = {j \in Jobs : status[j] \in {"waiting", "working",
       "leaving"}}] \in Reqs
    BY <1>0, <1>25, <2>1
    DEF Reqs
  <2>3. req' \in [Requests -> Reqs]
    BY <1>0, <1>25, <2>2
    DEF Select, TypeOK
  <2> QED
    BY <1>0, <1>25, <2>1, <2>2, <2>3
    DEF Select, content, queue, TypeOK
<1>26. ASSUME NEW r \in Requests, NEW j \in Jobs, StopJob(r, j) PROVE TypeOK'
  <2>1. req[r] \in Reqs
    BY <1>0, <1>26
    DEF TypeOK
  <2>2. [req[r] EXCEPT !.todo = @ \ {j}] \in Reqs
    BY <1>0, <1>26, <2>1
    DEF Reqs
  <2>3. req' \in [Requests -> Reqs]
    BY <1>0, <1>26, <2>2
    DEF StopJob, TypeOK
  <2>4. run' \in Runs
    BY <1>0, <1>26
    DEF StopJob, TypeOK, Runs
  <2>5. place' = place /\ status' \in [Jobs -> {"none", "waiting", "working",
       "leaving", "done", "failed", "cancelled"}]
    BY <1>0, <1>26
    DEF StopJob, Queue!Unwind, TypeOK
  <2> QED
    BY <1>0, <1>26, <2>1, <2>2, <2>3, <2>4, <2>5
    DEF StopJob, content, queue, TypeOK
<1>27. ASSUME NEW r \in Requests, Stop(r) PROVE TypeOK'
  <2>1. book' \in Books
    BY <1>0, <1>27
    DEF Stop, InState, TypeOK, Books, Present
  <2>2. req' \in [Requests -> Reqs]
    BY <1>0, <1>27
    DEF Stop, Ends, NoRequest, TypeOK, Reqs
  <2> QED
    BY <1>0, <1>27, <2>1, <2>2
    DEF Stop, content, queue, TypeOK
<1>28. ASSUME NEW r \in Requests, Remove(r) PROVE TypeOK'
  BY <1>0, <1>28, ImportConstants
  DEF Remove, Ends, NoRequest, content, queue, TypeOK, Present, Books, Runs, Points,
      Reqs, Steps
<1>29. ASSUME NEW r \in Requests, Retry(r) PROVE TypeOK'
  <2>1. book' \in Books
    BY <1>0, <1>29
    DEF Retry, InState, TypeOK, Books, Present
  <2>2. req' \in [Requests -> Reqs]
    BY <1>0, <1>29
    DEF Retry, Ends, NoRequest, TypeOK, Reqs
  <2>3. kind' \in [Jobs -> {"examine", "prepare"}] /\ verdict' = verdict
    BY <1>0, <1>29
    DEF Retry, Enqueue, TypeOK
  <2> QED
    BY <1>0, <1>29, <2>1, <2>2, <2>3
    DEF Retry, Enqueue, Queue!Submit, content, TypeOK
<1>30. ASSUME NEW r \in Requests, HangUp(r) PROVE TypeOK'
  BY <1>0, <1>30, ImportConstants
  DEF HangUp, Troubled, NoRequest, content, queue, TypeOK, Present, Books, Runs,
      Points, Reqs, Steps
<1>31. ASSUME UNCHANGED vars PROVE TypeOK'
  BY <1>0, <1>31, ImportConstants
  DEF vars, TypeOK, Present, Books, Runs, Points, Reqs, Steps
<1>32. ASSUME NEW r \in Requests, NEW field \in {"title", "author", "colour"}, Patch(r, field)
      PROVE  TypeOK'
  <2>1. book.name \in {"given", "student"} /\ book.edited \in BOOLEAN
    BY <1>0
    DEF TypeOK, Books
  <2>2. req'[r] \in Reqs /\ req' = [req EXCEPT ![r] = req'[r]]
    BY <1>0, <1>32, <2>1
    DEF Patch, TypeOK, Reqs, NoRequest
  <2>3. req' \in [Requests -> Reqs]
    BY <1>0, <2>2
    DEF TypeOK
  <2>4. trouble' \in 0..MaxTrouble
    BY <1>0, <1>32, ImportConstants
    DEF Patch, Troubled, TypeOK
  <2> QED
    BY <1>0, <1>32, <2>3, <2>4
    DEF Patch, content, queue, TypeOK
<1> QED
  BY <1>1, <1>2, <1>3, <1>4, <1>5, <1>6, <1>7, <1>8, <1>9, <1>10, <1>11,
     <1>12, <1>13, <1>14, <1>15, <1>16, <1>17, <1>18, <1>19, <1>20, <1>21, <1>22,
     <1>23, <1>24, <1>25, <1>26, <1>27, <1>28, <1>29, <1>30, <1>31, <1>32
  DEF Next, Handler, Request

(* Steps keep FreshInv, RunInv and NameInv.                                *)

LEMMA ShapeStep ==
  ASSUME ImportInv, [Next]_vars
  PROVE  FreshInv' /\ RunInv' /\ NameInv'
<1>0. TypeOK /\ FreshInv /\ RunInv /\ NameInv
  BY DEF ImportInv
<1>1. ASSUME GetBook PROVE FreshInv' /\ RunInv' /\ NameInv'
  BY <1>0, <1>1, ImportConstants
  DEF GetBook, At, content, queue, FreshInv, RunInv, NameInv, TypeOK, Present,
      Going, Books, Reqs, NoRequest, Runs
<1>2. ASSUME LoseContext PROVE FreshInv' /\ RunInv' /\ NameInv'
  <2>1. book.state # "absent"
    BY <1>0, <1>2
    DEF LoseContext, At, InCall, Steps, FreshInv
  <2>2. book'.state # "absent" /\ NameInv'
    BY <1>0, <1>2, <2>1
    DEF LoseContext, Present, NameInv, TypeOK, Books, StaysBut
  <2>3. run.job \in Jobs /\ status[run.job] = "working"
    BY <1>0, <1>2
    DEF LoseContext, At, InCall, Steps, RunInv
  <2>4. run'.job = run.job /\ status' = status
    BY <1>0, <1>2
    DEF LoseContext, content, queue, StaysBut, GoTo, TypeOK, Runs
  <2> QED
    BY <1>0, <1>2, <2>1, <2>2, <2>3, <2>4
    DEF FreshInv, RunInv
<1>3. ASSUME Fail PROVE FreshInv' /\ RunInv' /\ NameInv'
  <2>1. book.state # "absent"
    BY <1>0, <1>3
    DEF Fail, At, InCall, Steps, FreshInv
  <2>2. book'.state # "absent" /\ NameInv'
    BY <1>0, <1>3, <2>1
    DEF Fail, Present, NameInv, TypeOK, Books
  <2>3. run.job \in Jobs /\ status[run.job] = "working"
    BY <1>0, <1>3
    DEF Fail, At, InCall, Steps, RunInv
  <2>4. run'.job = run.job /\ status' = status
    BY <1>0, <1>3
    DEF Fail, content, queue, StaysBut, GoTo, TypeOK, Runs
  <2> QED
    BY <1>0, <1>3, <2>1, <2>2, <2>3, <2>4
    DEF FreshInv, RunInv
<1>4. ASSUME Examine PROVE FreshInv' /\ RunInv' /\ NameInv'
  BY <1>0, <1>4, ImportConstants
  DEF Examine, At, StaysBut, GoTo, InState, content, queue, FreshInv, RunInv,
      NameInv, TypeOK, Present, Going, Books, Reqs, NoRequest, Runs
<1>5. ASSUME Classify PROVE FreshInv' /\ RunInv' /\ NameInv'
  <2>1. book.state # "absent"
    BY <1>0, <1>5
    DEF Classify, At, InCall, Steps, FreshInv
  <2>2. book'.state # "absent" /\ NameInv'
    BY <1>0, <1>5, <2>1
    DEF Classify, StaysBut, queue, Present, NameInv, TypeOK, Books, Named, InState
  <2>3. run.job \in Jobs /\ status[run.job] = "working"
    BY <1>0, <1>5
    DEF Classify, At, InCall, Steps, RunInv
  <2>4. run'.job = run.job /\ status' = status
    BY <1>0, <1>5
    DEF Classify, content, queue, StaysBut, GoTo, TypeOK, Runs
  <2> QED
    BY <1>0, <1>5, <2>1, <2>2, <2>3, <2>4
    DEF FreshInv, RunInv
<1>6. ASSUME Handover PROVE FreshInv' /\ RunInv' /\ NameInv'
  BY <1>0, <1>6, ImportConstants
  DEF Handover, At, GoTo, InState, Enqueue, NewJob, Queue!Submit, content, queue,
      FreshInv, RunInv, NameInv, TypeOK, Present, Going, Books, Reqs, NoRequest,
      Runs
<1>7. ASSUME Prepare PROVE FreshInv' /\ RunInv' /\ NameInv'
  BY <1>0, <1>7, ImportConstants
  DEF Prepare, At, InState, Unread, content, queue, FreshInv, RunInv, NameInv,
      TypeOK, Present, Going, Books, Reqs, NoRequest, Runs
<1>8. ASSUME NEW p \in Pages, ReadPage(p) PROVE FreshInv' /\ RunInv' /\ NameInv'
  <2>1. book.state # "absent"
    BY <1>0, <1>8
    DEF ReadPage, At, InCall, Steps, FreshInv
  <2>2. book'.state # "absent" /\ NameInv'
    BY <1>0, <1>8, <2>1
    DEF ReadPage, Present, NameInv, TypeOK, Books, InState
  <2>3. run.job \in Jobs /\ status[run.job] = "working"
    BY <1>0, <1>8
    DEF ReadPage, At, InCall, Steps, RunInv
  <2>4. run'.job = run.job /\ status' = status
    BY <1>0, <1>8
    DEF ReadPage, content, queue, StaysBut, GoTo, TypeOK, Runs
  <2> QED
    BY <1>0, <1>8, <2>1, <2>2, <2>3, <2>4
    DEF FreshInv, RunInv
<1>9. ASSUME ReadAll PROVE FreshInv' /\ RunInv' /\ NameInv'
  <2>1. book.state # "absent"
    BY <1>0, <1>9
    DEF ReadAll, At, InCall, Steps, FreshInv
  <2>2. book'.state # "absent" /\ NameInv'
    BY <1>0, <1>9, <2>1
    DEF ReadAll, Present, NameInv, TypeOK, Books, InState, StaysBut
  <2>3. run.job \in Jobs /\ status[run.job] = "working"
    BY <1>0, <1>9
    DEF ReadAll, At, InCall, Steps, RunInv
  <2>4. run'.job = run.job /\ status' = status
    BY <1>0, <1>9
    DEF ReadAll, content, queue, StaysBut, GoTo, TypeOK, Runs
  <2> QED
    BY <1>0, <1>9, <2>1, <2>2, <2>3, <2>4
    DEF FreshInv, RunInv
<1>10. ASSUME Name PROVE FreshInv' /\ RunInv' /\ NameInv'
  <2>1. book.state # "absent"
    BY <1>0, <1>10
    DEF Name, At, InCall, Steps, FreshInv
  <2>2. book'.state # "absent" /\ NameInv'
    BY <1>0, <1>10, <2>1
    DEF Name, StaysBut, queue, Present, NameInv, TypeOK, Books
  <2>3. run.job \in Jobs /\ status[run.job] = "working"
    BY <1>0, <1>10
    DEF Name, At, InCall, Steps, RunInv
  <2>4. run'.job = run.job /\ status' = status
    BY <1>0, <1>10
    DEF Name, content, queue, StaysBut, GoTo, TypeOK, Runs
  <2> QED
    BY <1>0, <1>10, <2>1, <2>2, <2>3, <2>4
    DEF FreshInv, RunInv
<1>11. ASSUME Index PROVE FreshInv' /\ RunInv' /\ NameInv'
  <2>1. book.state # "absent"
    BY <1>0, <1>11
    DEF Index, At, InCall, Steps, FreshInv
  <2>2. book'.state # "absent" /\ NameInv'
    BY <1>0, <1>11, <2>1
    DEF Index, StaysBut, queue, Present, NameInv, TypeOK, Books
  <2>3. run.job \in Jobs /\ status[run.job] = "working"
    BY <1>0, <1>11
    DEF Index, At, InCall, Steps, RunInv
  <2>4. run'.job = run.job /\ status' = status
    BY <1>0, <1>11
    DEF Index, content, queue, StaysBut, GoTo, TypeOK, Runs
  <2> QED
    BY <1>0, <1>11, <2>1, <2>2, <2>3, <2>4
    DEF FreshInv, RunInv
<1>12. ASSUME Search PROVE FreshInv' /\ RunInv' /\ NameInv'
  BY <1>0, <1>12, ImportConstants
  DEF Search, At, InState, Lacking, content, queue, FreshInv, RunInv, NameInv,
      TypeOK, Present, Going, Books, Reqs, NoRequest, Runs
<1>13. ASSUME NEW p \in Pages, Embed(p) PROVE FreshInv' /\ RunInv' /\ NameInv'
  <2>1. book.state # "absent"
    BY <1>0, <1>13
    DEF Embed, At, InCall, Steps, FreshInv
  <2>2. book'.state # "absent" /\ NameInv'
    BY <1>0, <1>13, <2>1
    DEF Embed, Present, NameInv, TypeOK, Books, InState
  <2>3. run.job \in Jobs /\ status[run.job] = "working"
    BY <1>0, <1>13
    DEF Embed, At, InCall, Steps, RunInv
  <2>4. run'.job = run.job /\ status' = status
    BY <1>0, <1>13
    DEF Embed, content, queue, StaysBut, GoTo, TypeOK, Runs
  <2> QED
    BY <1>0, <1>13, <2>1, <2>2, <2>3, <2>4
    DEF FreshInv, RunInv
<1>14. ASSUME Ready PROVE FreshInv' /\ RunInv' /\ NameInv'
  BY <1>0, <1>14, ImportConstants
  DEF Ready, At, InState, StaysBut, GoTo, content, queue, FreshInv, RunInv, NameInv,
      TypeOK, Present, Going, Books, Reqs, NoRequest, Runs
<1>15. ASSUME Decide PROVE FreshInv' /\ RunInv' /\ NameInv'
  BY <1>0, <1>15, ImportConstants
  DEF Decide, At, StaysBut, GoTo, Leaves, content, queue, FreshInv, RunInv, NameInv,
      TypeOK, Present, Going, Books, Reqs, NoRequest, Runs
<1>16. ASSUME WriteBack PROVE FreshInv' /\ RunInv' /\ NameInv'
  BY <1>0, <1>16, ImportConstants
  DEF WriteBack, At, InState, content, queue, FreshInv, RunInv, NameInv, TypeOK,
      Present, Going, Books, Reqs, NoRequest, Runs
<1>17. ASSUME Return PROVE FreshInv' /\ RunInv' /\ NameInv'
  BY <1>0, <1>17, ImportConstants
  DEF Return, At, Verdict, Idle, Queue!Return, content, queue, FreshInv, RunInv,
      NameInv, TypeOK, Present, Going, Books, Reqs, NoRequest, Runs
<1>18. ASSUME Cut PROVE FreshInv' /\ RunInv' /\ NameInv'
  BY <1>0, <1>18, ImportConstants
  DEF Cut, At, Troubled, content, queue, FreshInv, RunInv, NameInv, TypeOK, Present,
      Going, Books, Reqs, NoRequest, Runs
<1>19. ASSUME Crash PROVE FreshInv' /\ RunInv' /\ NameInv'
  BY <1>0, <1>19, ImportConstants
  DEF Crash, Troubled, Idle, NoRequest, Queue!Unwind, content, queue, FreshInv,
      RunInv, NameInv, TypeOK, Present, Going, Books, Reqs, Runs
<1>20. ASSUME Upload PROVE FreshInv' /\ RunInv' /\ NameInv'
  BY <1>0, <1>20, ImportConstants
  DEF Upload, Enqueue, NewJob, Queue!Submit, content, queue, FreshInv, RunInv,
      NameInv, TypeOK, Present, Going, Books, Reqs, NoRequest, Runs
<1>21. ASSUME NEW r \in Requests, Update(r) PROVE FreshInv' /\ RunInv' /\ NameInv'
  BY <1>0, <1>21, ImportConstants
  DEF Update, Ends, NoRequest, content, queue, FreshInv, RunInv, NameInv, TypeOK, Present, Going,
      Books, Reqs, NoRequest, Runs
<1>22. ASSUME NEW j \in Jobs, Begin(j) PROVE FreshInv' /\ RunInv' /\ NameInv'
  BY <1>0, <1>22, ImportConstants
  DEF Begin, At, Idle, Queue!Begin, content, queue, FreshInv, RunInv, NameInv,
      TypeOK, Present, Going, Books, Reqs, NoRequest, Runs
<1>23. ASSUME NEW j \in Jobs, End(j) PROVE FreshInv' /\ RunInv' /\ NameInv'
  BY <1>0, <1>23, ImportConstants
  DEF End, Queue!End, content, queue, FreshInv, RunInv, NameInv, TypeOK, Present,
      Going, Books, Reqs, NoRequest, Runs
<1>24. ASSUME NEW r \in Requests, NEW op \in {"stop", "remove", "retry"}, Arrive(r, op)
      PROVE FreshInv' /\ RunInv' /\ NameInv'
  <2>1. book.state # "absent"
    BY <1>24
    DEF Arrive, Admits, Present, Going
  <2>2. req' = [req EXCEPT ![r] = req'[r]] /\ req'[r].name = "given"
    BY <1>0, <1>24
    DEF Arrive, NoRequest, TypeOK
  <2> QED
    BY <1>0, <1>24, <2>1, <2>2
    DEF Arrive, content, queue, FreshInv, RunInv, NameInv, TypeOK
<1>25. ASSUME NEW r \in Requests, Select(r) PROVE FreshInv' /\ RunInv' /\ NameInv'
  <2>1. book.state # "absent"
    BY <1>0, <1>25
    DEF Select, FreshInv, NoRequest
  <2> QED
    BY <1>0, <1>25, <2>1
    DEF Select, content, queue, FreshInv, RunInv, NameInv, TypeOK, Reqs
<1>26. ASSUME NEW r \in Requests, NEW j \in Jobs, StopJob(r, j)
      PROVE FreshInv' /\ RunInv' /\ NameInv'
  BY <1>0, <1>26, ImportConstants
  DEF StopJob, Queue!Unwind, content, queue, FreshInv, RunInv, NameInv, TypeOK,
      Present, Going, Books, Reqs, NoRequest, Runs
<1>27. ASSUME NEW r \in Requests, Stop(r) PROVE FreshInv' /\ RunInv' /\ NameInv'
  BY <1>0, <1>27, ImportConstants
  DEF Stop, Ends, InState, NoRequest, content, queue, FreshInv, RunInv, NameInv,
      TypeOK, Present, Going, Books, Reqs, Runs
<1>28. ASSUME NEW r \in Requests, Remove(r) PROVE FreshInv' /\ RunInv' /\ NameInv'
  BY <1>0, <1>28, ImportConstants
  DEF Remove, Ends, NoRequest, content, queue, FreshInv, RunInv, NameInv, TypeOK,
      Present, Going, Books, Reqs, Runs
<1>29. ASSUME NEW r \in Requests, Retry(r) PROVE FreshInv' /\ RunInv' /\ NameInv'
  BY <1>0, <1>29, ImportConstants
  DEF Retry, Ends, InState, NoRequest, Enqueue, NewJob, Queue!Submit, content,
      queue, FreshInv, RunInv, NameInv, TypeOK, Present, Going, Books, Reqs, Runs
<1>30. ASSUME NEW r \in Requests, HangUp(r) PROVE FreshInv' /\ RunInv' /\ NameInv'
  BY <1>0, <1>30, ImportConstants
  DEF HangUp, Troubled, NoRequest, content, queue, FreshInv, RunInv, NameInv,
      TypeOK, Present, Going, Books, Reqs, Runs
<1>31. ASSUME UNCHANGED vars PROVE FreshInv' /\ RunInv' /\ NameInv'
  BY <1>0, <1>31, ImportConstants
  DEF vars, FreshInv, RunInv, NameInv, TypeOK, Present, Going, Books, Reqs,
      NoRequest, Runs
<1>32. ASSUME NEW r \in Requests, NEW field \in {"title", "author", "colour"}, Patch(r, field)
      PROVE  FreshInv' /\ RunInv' /\ NameInv'
  BY <1>0, <1>32, ImportConstants
  DEF Patch, Troubled, NoRequest, content, queue, FreshInv, RunInv, NameInv, TypeOK, Present, Going,
      Books, Reqs, NoRequest, Runs
<1> QED
  BY <1>1, <1>2, <1>3, <1>4, <1>5, <1>6, <1>7, <1>8, <1>9, <1>10, <1>11,
     <1>12, <1>13, <1>14, <1>15, <1>16, <1>17, <1>18, <1>19, <1>20, <1>21, <1>22,
     <1>23, <1>24, <1>25, <1>26, <1>27, <1>28, <1>29, <1>30, <1>31, <1>32
  DEF Next, Handler, Request

(* Steps keep what is on record of the pages.                               *)

LEMMA PageStep ==
  ASSUME ImportInv, [Next]_vars
  PROVE  PageInv' /\ ReadyMeansRead'
<1>0. TypeOK /\ FreshInv /\ RunInv /\ PageInv /\ ReadyMeansRead /\ TypeOK'
  BY TypeStep DEF ImportInv
<1>1. ASSUME GetBook PROVE PageInv' /\ ReadyMeansRead'
  <2>1. /\ run'.at \in {"back", "examine", "prepare"} /\ run.job \in Jobs
        /\ run'.at = "prepare" => kind[run.job] = "prepare" /\ Present
    BY <1>0, <1>1
    DEF GetBook, At, RunInv, TypeOK, Runs
  <2> QED
    BY <1>0, <1>1, <2>1
    DEF GetBook, content, queue, PageInv, ReadyMeansRead, AllRead, IsRead, Present,
        Clean
<1>2. ASSUME LoseContext PROVE PageInv' /\ ReadyMeansRead'
  BY <1>0, <1>2, ImportConstants
  DEF LoseContext, StaysBut, GoTo, InCall, content, queue, PageInv, ReadyMeansRead,
      Present, AllRead, IsRead, Clean, Steps
<1>3. ASSUME Fail PROVE PageInv' /\ ReadyMeansRead'
  BY <1>0, <1>3, ImportConstants
  DEF Fail, GoTo, Troubled, InCall, content, queue, PageInv, ReadyMeansRead,
      Present, AllRead, IsRead, Clean, Steps
<1>4. ASSUME Examine PROVE PageInv' /\ ReadyMeansRead'
  BY <1>0, <1>4, ImportConstants
  DEF Examine, At, StaysBut, GoTo, InState, content, queue, PageInv, ReadyMeansRead,
      Present, AllRead, IsRead, Clean, Steps
<1>5. ASSUME Classify PROVE PageInv' /\ ReadyMeansRead'
  <2>1. run'.at \in {"handover", "erred"} /\ kind' = kind /\ vector' = vector
    BY <1>0, <1>5
    DEF Classify, StaysBut, GoTo, queue, TypeOK, Runs
  <2>2. book \in Books
    BY <1>0, <1>5
    DEF TypeOK
  <2>3. \/ ~Present /\ book' = book /\ page' = page
      \/ /\ Present
         /\ book' = Named([book EXCEPT !.state = "preparing"])
         /\ page' = IF book.scan THEN page
                    ELSE [p \in Pages |-> IF p \in Blank THEN "blank" ELSE "text"]
    BY <1>0, <1>5
    DEF Classify, StaysBut, GoTo, At, Named, InState, Settled
  <2>4. Present => /\ book'.state = "preparing" /\ book'.scan = book.scan
                   /\ book'.sections = book.sections
    BY <1>0, <1>5, <2>2, <2>3
    DEF Named, Books
  <2>5. Present' = Present
    BY <1>0, <1>5, <2>3, <2>4
    DEF Present
  <2> QED
    BY <1>0, <1>5, <2>1, <2>2, <2>3, <2>4, <2>5
    DEF PageInv, ReadyMeansRead, AllRead, IsRead, Present, Clean, Named
<1>6. ASSUME Handover PROVE PageInv' /\ ReadyMeansRead'
  BY <1>0, <1>6, ImportConstants
  DEF Handover, At, GoTo, InState, Enqueue, NewJob, Queue!Submit, content, queue,
      PageInv, ReadyMeansRead, Present, AllRead, IsRead, Clean, Steps
<1>7. ASSUME Prepare PROVE PageInv' /\ ReadyMeansRead'
  BY <1>0, <1>7, ImportConstants
  DEF Prepare, At, InState, Unread, content, queue, PageInv, ReadyMeansRead,
      Present, AllRead, IsRead, Clean, Steps
<1>8. ASSUME NEW p \in Pages, ReadPage(p) PROVE PageInv' /\ ReadyMeansRead'
  <2>1. /\ run'.at \in {"read", "erred"} /\ run.at = "read" /\ p \in run.todo
        /\ run'.at = "read" => Present /\ run'.todo = run.todo \ {p}
    BY <1>0, <1>8
    DEF ReadPage, At, First, GoTo, TypeOK, Runs
  <2>2. book \in Books /\ vector' = vector /\ kind' = kind
    BY <1>0, <1>8
    DEF ReadPage, queue, TypeOK
  <2>3. \/ ~Present /\ book' = book /\ page' = page
      \/ /\ Present /\ book' = [book EXCEPT !.state = "preparing"]
         /\ \/ page' = [page EXCEPT ![p] = IF p \in Blank THEN "blank" ELSE "text"]
            \/ page' = [page EXCEPT ![p] = "failed"]
    BY <1>0, <1>8
    DEF ReadPage, At, First, GoTo, InState, Settled, Troubled
  <2>4. Present => /\ book'.state = "preparing" /\ book'.scan = book.scan
                   /\ book'.sections = book.sections
    BY <1>0, <1>8, <2>2, <2>3
    DEF Books
  <2>5. Present' = Present
    BY <1>0, <1>8, <2>3, <2>4
    DEF Present
  <2> QED
    BY <1>0, <1>8, <2>1, <2>2, <2>3, <2>4, <2>5
    DEF TypeOK, PageInv, ReadyMeansRead, AllRead, IsRead, Present, Clean
<1>9. ASSUME ReadAll PROVE PageInv' /\ ReadyMeansRead'
  <2>1. /\ run.at = "read" /\ run.todo = {} /\ page' = page /\ vector' = vector
        /\ run'.todo = run.todo /\ kind' = kind /\ run'.at \in {"name", "erred"}
    BY <1>0, <1>9
    DEF ReadAll, At, content, StaysBut, GoTo, queue, TypeOK, Runs
  <2>2. run'.at = "name" => \A p \in Pages : page[p] # "failed"
    BY <1>0, <1>9
    DEF ReadAll, StaysBut, GoTo, TypeOK, Runs
  <2>3. /\ book'.scan = book.scan /\ Present' = Present /\ book'.sections = book.sections
        /\ book'.state \in {book.state, "preparing"}
    BY <1>0, <1>9
    DEF ReadAll, InState, Present, TypeOK, Books
  <2>4. \A p \in Pages : page[p] \in {"unread", "failed", "blank", "text"}
    BY <1>0, <1>9
    DEF TypeOK
  <2> QED
    BY <1>0, <1>9, <2>1, <2>2, <2>3, <2>4
    DEF PageInv, ReadyMeansRead, AllRead, IsRead, Present, Clean
<1>10. ASSUME Name PROVE PageInv' /\ ReadyMeansRead'
  <2>1. run.at = "name" /\ run'.at \in {"index", "erred"} /\ run'.todo = run.todo
    BY <1>0, <1>10
    DEF Name, At, StaysBut, GoTo, TypeOK, Runs
  <2>2. /\ book'.scan = book.scan /\ Present' = Present /\ page' = page /\ vector' = vector
        /\ kind' = kind /\ book'.state = book.state /\ book'.sections = book.sections
    BY <1>0, <1>10
    DEF Name, Present, content, StaysBut, queue, TypeOK, Books
  <2> QED
    BY <1>0, <1>10, <2>1, <2>2
    DEF Name, At, PageInv, ReadyMeansRead, AllRead, IsRead, Present, Clean
<1>11. ASSUME Index PROVE PageInv' /\ ReadyMeansRead'
  <2>1. /\ run.at = "index" /\ page' = page /\ vector' = vector /\ run'.todo = run.todo
        /\ kind' = kind /\ run'.at \in {"search", "erred"}
    BY <1>0, <1>11
    DEF Index, At, content, StaysBut, GoTo, queue, TypeOK, Runs
  <2>2. IF Present THEN book' = [book EXCEPT !.state = "preparing",
       !.sections = TRUE]
                     ELSE book' = book
    BY <1>0, <1>11
    DEF Index, At, StaysBut, GoTo
  <2>3. book \in Books
    BY <1>0, <1>11
    DEF TypeOK
  <2>4. IF Present THEN book'.state = "preparing" /\ book'.sections /\ book'.scan = book.scan
                     ELSE book' = book
    BY <1>0, <1>11, <2>2, <2>3
    DEF Books
  <2>5. Present' = Present
    BY <1>0, <1>11, <2>4
    DEF Present
  <2> QED
    BY <1>0, <1>11, <2>1, <2>2, <2>3, <2>4, <2>5
    DEF PageInv, ReadyMeansRead, AllRead, IsRead, Present, Clean
<1>12. ASSUME Search PROVE PageInv' /\ ReadyMeansRead'
  BY <1>0, <1>12, ImportConstants
  DEF Search, At, InState, Lacking, content, queue, PageInv, ReadyMeansRead,
      Present, AllRead, IsRead, Clean, Steps
<1>13. ASSUME NEW p \in Pages, Embed(p) PROVE PageInv' /\ ReadyMeansRead'
  <2>1. /\ run'.at \in {"embed", "erred"} /\ run.at = "embed" /\ p \in run.todo
        /\ run'.at = "embed" => Present /\ run'.todo = run.todo \ {p} /\ vector' = vector \cup {p}
    BY <1>0, <1>13
    DEF Embed, At, First, GoTo, TypeOK, Runs
  <2>2. /\ book'.scan = book.scan /\ book'.sections = book.sections /\ Present' = Present
        /\ book'.state # "ready" /\ page' = page /\ kind' = kind
        /\ ~Present => vector' = vector
    BY <1>0, <1>13
    DEF Embed, InState, Present, queue, TypeOK, Books
  <2> QED
    BY <1>0, <1>13, <2>1, <2>2
    DEF TypeOK, PageInv, ReadyMeansRead, AllRead, IsRead, Present, Clean
<1>14. ASSUME Ready PROVE PageInv' /\ ReadyMeansRead'
  <2>1. /\ run'.at = "back" /\ run.at = "embed" /\ run.todo = {}
        /\ page' = page /\ vector' = vector /\ kind' = kind
    BY <1>0, <1>14
    DEF Ready, At, StaysBut, GoTo, content, queue, TypeOK, Runs
  <2>2. book'.scan = book.scan /\ book'.sections = book.sections /\ Present' = Present
    BY <1>0, <1>14
    DEF Ready, InState, Present, TypeOK, Books
  <2>3. book'.state = "ready" => Present
    BY <1>0, <1>14
    DEF Ready, InState, Present, TypeOK, Books
  <2>4. Present => AllRead /\ book.sections /\ vector = {p \in Pages : page[p] = "text"}
    BY <1>0, <1>14, <2>1
    DEF PageInv, TypeOK
  <2> QED
    BY <1>0, <1>14, <2>1, <2>2, <2>3, <2>4
    DEF PageInv, ReadyMeansRead, AllRead, IsRead, Present, Clean
<1>15. ASSUME Decide PROVE PageInv' /\ ReadyMeansRead'
  BY <1>0, <1>15, ImportConstants
  DEF Decide, At, StaysBut, GoTo, Leaves, content, queue, PageInv, ReadyMeansRead,
      Present, AllRead, IsRead, Clean, Steps
<1>16. ASSUME WriteBack PROVE PageInv' /\ ReadyMeansRead'
  BY <1>0, <1>16, ImportConstants
  DEF WriteBack, At, InState, content, queue, PageInv, ReadyMeansRead, Present,
      AllRead, IsRead, Clean, Steps
<1>17. ASSUME Return PROVE PageInv' /\ ReadyMeansRead'
  BY <1>0, <1>17, ImportConstants
  DEF Return, At, Verdict, Idle, Queue!Return, content, queue, PageInv,
      ReadyMeansRead, Present, AllRead, IsRead, Clean, Steps
<1>18. ASSUME Cut PROVE PageInv' /\ ReadyMeansRead'
  BY <1>0, <1>18, ImportConstants
  DEF Cut, At, Troubled, content, queue, PageInv, ReadyMeansRead, Present, AllRead,
      IsRead, Clean, Steps
<1>19. ASSUME Crash PROVE PageInv' /\ ReadyMeansRead'
  BY <1>0, <1>19, ImportConstants
  DEF Crash, Troubled, Idle, NoRequest, Queue!Unwind, content, queue, PageInv,
      ReadyMeansRead, Present, AllRead, IsRead, Clean, Steps
<1>20. ASSUME Upload PROVE PageInv' /\ ReadyMeansRead'
  <2>1. /\ book.state = "absent" /\ book'.state = "queued" /\ book'.scan = book.scan
        /\ book'.sections = book.sections
    BY <1>0, <1>20
    DEF Upload, TypeOK, Books
  <2>2. /\ page' = page /\ vector' = vector /\ run' = run /\ run.at = "idle"
        /\ \A j \in Jobs : kind'[j] = "examine"
    BY <1>0, <1>20, <2>1
    DEF Upload, content, Enqueue, FreshInv, TypeOK
  <2> QED
    BY <1>0, <1>20, <2>1, <2>2
    DEF PageInv, ReadyMeansRead, AllRead, IsRead, Present, Clean
<1>21. ASSUME NEW r \in Requests, Update(r) PROVE PageInv' /\ ReadyMeansRead'
  BY <1>0, <1>21, ImportConstants
  DEF Update, Ends, NoRequest, content, queue, PageInv, ReadyMeansRead, Present, AllRead, IsRead,
      Clean, Steps
<1>22. ASSUME NEW j \in Jobs, Begin(j) PROVE PageInv' /\ ReadyMeansRead'
  BY <1>0, <1>22, ImportConstants
  DEF Begin, At, Idle, Queue!Begin, content, queue, PageInv, ReadyMeansRead,
      Present, AllRead, IsRead, Clean, Steps
<1>23. ASSUME NEW j \in Jobs, End(j) PROVE PageInv' /\ ReadyMeansRead'
  BY <1>0, <1>23, ImportConstants
  DEF End, Queue!End, content, queue, PageInv, ReadyMeansRead, Present, AllRead,
      IsRead, Clean, Steps
<1>24. ASSUME NEW r \in Requests, NEW op \in {"stop", "remove", "retry"}, Arrive(r, op)
      PROVE PageInv' /\ ReadyMeansRead'
  BY <1>0, <1>24, ImportConstants
  DEF Arrive, Troubled, Admits, NoRequest, content, queue, PageInv, ReadyMeansRead,
      Present, AllRead, IsRead, Clean, Steps
<1>25. ASSUME NEW r \in Requests, Select(r) PROVE PageInv' /\ ReadyMeansRead'
  BY <1>0, <1>25, ImportConstants
  DEF Select, content, queue, PageInv, ReadyMeansRead, Present, AllRead, IsRead,
      Clean, Steps
<1>26. ASSUME NEW r \in Requests, NEW j \in Jobs, StopJob(r, j)
      PROVE PageInv' /\ ReadyMeansRead'
  BY <1>0, <1>26, ImportConstants
  DEF StopJob, Queue!Unwind, content, queue, PageInv, ReadyMeansRead, Present,
      AllRead, IsRead, Clean, Steps
<1>27. ASSUME NEW r \in Requests, Stop(r) PROVE PageInv' /\ ReadyMeansRead'
  BY <1>0, <1>27, ImportConstants
  DEF Stop, Ends, InState, NoRequest, content, queue, PageInv, ReadyMeansRead,
      Present, AllRead, IsRead, Clean, Steps
<1>28. ASSUME NEW r \in Requests, Remove(r) PROVE PageInv' /\ ReadyMeansRead'
  BY <1>0, <1>28, ImportConstants
  DEF Remove, Ends, NoRequest, content, queue, PageInv, ReadyMeansRead, Present,
      AllRead, IsRead, Clean, Steps
<1>29. ASSUME NEW r \in Requests, Retry(r) PROVE PageInv' /\ ReadyMeansRead'
  BY <1>0, <1>29, ImportConstants
  DEF Retry, Ends, InState, NoRequest, Enqueue, NewJob, Queue!Submit, content,
      queue, PageInv, ReadyMeansRead, Present, AllRead, IsRead, Clean, Steps
<1>30. ASSUME NEW r \in Requests, HangUp(r) PROVE PageInv' /\ ReadyMeansRead'
  BY <1>0, <1>30, ImportConstants
  DEF HangUp, Troubled, NoRequest, content, queue, PageInv, ReadyMeansRead, Present,
      AllRead, IsRead, Clean, Steps
<1>31. ASSUME UNCHANGED vars PROVE PageInv' /\ ReadyMeansRead'
  BY <1>0, <1>31, ImportConstants
  DEF vars, PageInv, ReadyMeansRead, Present, AllRead, IsRead, Clean, Steps
<1>32. ASSUME NEW r \in Requests, NEW field \in {"title", "author", "colour"}, Patch(r, field)
      PROVE  PageInv' /\ ReadyMeansRead'
  BY <1>0, <1>32, ImportConstants
  DEF Patch, Troubled, NoRequest, content, queue, PageInv, ReadyMeansRead, Present, AllRead, IsRead,
      Clean, Steps
<1> QED
  BY <1>1, <1>2, <1>3, <1>4, <1>5, <1>6, <1>7, <1>8, <1>9, <1>10, <1>11,
     <1>12, <1>13, <1>14, <1>15, <1>16, <1>17, <1>18, <1>19, <1>20, <1>21, <1>22,
     <1>23, <1>24, <1>25, <1>26, <1>27, <1>28, <1>29, <1>30, <1>31, <1>32
  DEF Next, Handler, Request

(* Steps keep a job behind a book on its way.                               *)

LEMMA BackStep ==
  ASSUME ImportInv, [Next]_vars
  PROVE  BackInv' /\ Backed'
<1>0. TypeOK /\ FreshInv /\ RunInv /\ BackInv /\ Backed /\ TypeOK' /\ RunInv'
  BY TypeStep, ShapeStep DEF ImportInv
<1>1. ASSUME GetBook PROVE BackInv' /\ Backed'
  <2>1. /\ run'.at \in {"back", "examine", "prepare"} /\ run'.stopped = run.stopped
        /\ run'.cut = run.cut /\ run'.err = ~Alive
    BY <1>0, <1>1
    DEF GetBook, At, RunInv, TypeOK, Runs
  <2>2. run'.at = "back" => ~Alive \/ ~Present
    BY <1>0, <1>1
    DEF GetBook, At, RunInv, TypeOK, Runs
  <2>3. req' = req /\ asked' = asked /\ book' = book
    BY <1>0, <1>1
    DEF GetBook
  <2>4. Backed'
    BY <1>0, <1>1, <2>1
    DEF RunInv, Backed, Owed
  <2> QED
    BY <1>0, <1>1, <2>1, <2>2, <2>3, <2>4
    DEF BackInv, Going, Waits, Alive, Present
<1>2. ASSUME LoseContext PROVE BackInv' /\ Backed'
  BY <1>0, <1>2
  DEF LoseContext, StaysBut, GoTo, InCall, content, queue, BackInv, Backed, Waits,
      Owed, Going, Present, Steps, Runs
<1>3. ASSUME Fail PROVE BackInv' /\ Backed'
  BY <1>0, <1>3
  DEF Fail, GoTo, Troubled, InCall, content, queue, BackInv, Backed, Waits, Owed,
      Going, Present, Steps, Runs
<1>4. ASSUME Examine PROVE BackInv' /\ Backed'
  <2>1. run'.at \in {"classify"} /\ run'.stopped = run.stopped
    BY <1>0, <1>4
    DEF Examine, At, StaysBut, GoTo, TypeOK, Runs
  <2>2. req' = req /\ asked' = asked
    BY <1>0, <1>4
    DEF Examine, StaysBut
  <2>3. Backed'
    BY <1>0, <1>4, <2>1
    DEF RunInv, Backed, Owed
  <2> QED
    BY <1>0, <1>4, <2>1, <2>2, <2>3
    DEF BackInv, Going, Waits
<1>5. ASSUME Classify PROVE BackInv' /\ Backed'
  <2>1. run'.at \in {"handover", "erred"} /\ run'.stopped = run.stopped
    BY <1>0, <1>5
    DEF Classify, At, StaysBut, GoTo, TypeOK, Runs
  <2>2. req' = req /\ asked' = asked
    BY <1>0, <1>5
    DEF Classify, StaysBut
  <2>3. Backed'
    BY <1>0, <1>5, <2>1
    DEF RunInv, Backed, Owed
  <2> QED
    BY <1>0, <1>5, <2>1, <2>2, <2>3
    DEF BackInv, Going, Waits
<1>6. ASSUME Handover PROVE BackInv' /\ Backed'
  <2>1. run'.at = "back" /\ run'.stopped = run.stopped
    BY <1>0, <1>6
    DEF Handover, GoTo, TypeOK, Runs
  <2>2. req' = req /\ asked' = asked
    BY <1>0, <1>6
    DEF Handover
  <2>3. \E j \in Jobs : status'[j] = "waiting"
    BY <1>0, <1>6
    DEF Handover, Enqueue, Queue!Submit, TypeOK
  <2>4. Backed'
    BY <1>0, <1>6, <2>3
    DEF Backed, Owed
  <2> QED
    BY <1>0, <1>6, <2>1, <2>2, <2>3, <2>4
    DEF BackInv, Going, Waits
<1>7. ASSUME Prepare PROVE BackInv' /\ Backed'
  <2>1. run'.at \in {"read", "name"} /\ run'.stopped = run.stopped
    BY <1>0, <1>7
    DEF Prepare, At, StaysBut, GoTo, TypeOK, Runs
  <2>2. req' = req /\ asked' = asked
    BY <1>0, <1>7
    DEF Prepare, StaysBut
  <2>3. Backed'
    BY <1>0, <1>7, <2>1
    DEF RunInv, Backed, Owed
  <2> QED
    BY <1>0, <1>7, <2>1, <2>2, <2>3
    DEF BackInv, Going, Waits
<1>8. ASSUME NEW p \in Pages, ReadPage(p) PROVE BackInv' /\ Backed'
  <2>1. run'.at \in {"read", "erred"} /\ run'.stopped = run.stopped
    BY <1>0, <1>8
    DEF ReadPage, At, StaysBut, GoTo, TypeOK, Runs
  <2>2. req' = req /\ asked' = asked
    BY <1>0, <1>8
    DEF ReadPage, StaysBut
  <2>3. Backed'
    BY <1>0, <1>8, <2>1
    DEF RunInv, Backed, Owed
  <2> QED
    BY <1>0, <1>8, <2>1, <2>2, <2>3
    DEF BackInv, Going, Waits
<1>9. ASSUME ReadAll PROVE BackInv' /\ Backed'
  <2>1. run'.at \in {"name", "erred"} /\ run'.stopped = run.stopped
    BY <1>0, <1>9
    DEF ReadAll, At, StaysBut, GoTo, TypeOK, Runs
  <2>2. req' = req /\ asked' = asked
    BY <1>0, <1>9
    DEF ReadAll, StaysBut
  <2>3. Backed'
    BY <1>0, <1>9, <2>1
    DEF RunInv, Backed, Owed
  <2> QED
    BY <1>0, <1>9, <2>1, <2>2, <2>3
    DEF BackInv, Going, Waits
<1>10. ASSUME Name PROVE BackInv' /\ Backed'
  <2>1. run'.at \in {"index", "erred"} /\ run'.stopped = run.stopped
    BY <1>0, <1>10
    DEF Name, At, StaysBut, GoTo, TypeOK, Runs
  <2>2. req' = req /\ asked' = asked
    BY <1>0, <1>10
    DEF Name, StaysBut
  <2>3. Backed'
    BY <1>0, <1>10, <2>1
    DEF RunInv, Backed, Owed
  <2> QED
    BY <1>0, <1>10, <2>1, <2>2, <2>3
    DEF BackInv, Going, Waits
<1>11. ASSUME Index PROVE BackInv' /\ Backed'
  <2>1. run'.at \in {"search", "erred"} /\ run'.stopped = run.stopped
    BY <1>0, <1>11
    DEF Index, At, StaysBut, GoTo, TypeOK, Runs
  <2>2. req' = req /\ asked' = asked
    BY <1>0, <1>11
    DEF Index, StaysBut
  <2>3. Backed'
    BY <1>0, <1>11, <2>1
    DEF RunInv, Backed, Owed
  <2> QED
    BY <1>0, <1>11, <2>1, <2>2, <2>3
    DEF BackInv, Going, Waits
<1>12. ASSUME Search PROVE BackInv' /\ Backed'
  <2>1. run'.at \in {"embed"} /\ run'.stopped = run.stopped
    BY <1>0, <1>12
    DEF Search, At, StaysBut, GoTo, TypeOK, Runs
  <2>2. req' = req /\ asked' = asked
    BY <1>0, <1>12
    DEF Search, StaysBut
  <2>3. Backed'
    BY <1>0, <1>12, <2>1
    DEF RunInv, Backed, Owed
  <2> QED
    BY <1>0, <1>12, <2>1, <2>2, <2>3
    DEF BackInv, Going, Waits
<1>13. ASSUME NEW p \in Pages, Embed(p) PROVE BackInv' /\ Backed'
  <2>1. run'.at \in {"embed", "erred"} /\ run'.stopped = run.stopped
    BY <1>0, <1>13
    DEF Embed, At, StaysBut, GoTo, TypeOK, Runs
  <2>2. req' = req /\ asked' = asked
    BY <1>0, <1>13
    DEF Embed, StaysBut
  <2>3. Backed'
    BY <1>0, <1>13, <2>1
    DEF RunInv, Backed, Owed
  <2> QED
    BY <1>0, <1>13, <2>1, <2>2, <2>3
    DEF BackInv, Going, Waits
<1>14. ASSUME Ready PROVE BackInv' /\ Backed'
  BY <1>0, <1>14
  DEF Ready, At, InState, StaysBut, GoTo, content, queue, BackInv, Backed, Waits,
      Owed, Going, Present, Steps, Runs
<1>15. ASSUME Decide PROVE BackInv' /\ Backed'
  BY <1>0, <1>15
  DEF Decide, At, StaysBut, GoTo, Leaves, content, queue, BackInv, Backed, Waits,
      Owed, Going, Present, Steps, Runs
<1>16. ASSUME WriteBack PROVE BackInv' /\ Backed'
  <2>1. /\ run'.at = "back" /\ run'.err /\ run'.stopped = run.stopped /\ run'.cut = run.cut
        /\ run.at \in {"failing", "requeuing"}
    BY <1>0, <1>16
    DEF WriteBack, TypeOK, Runs
  <2>2. req' = req /\ asked' = asked
    BY <1>0, <1>16
    DEF WriteBack
  <2>3. run.at = "failing" => book'.state \notin Going
    BY <1>0, <1>16
    DEF WriteBack, At, InState, Present, Going, TypeOK, Books
  <2>4. Backed'
    BY <1>0, <1>16, <2>1
    DEF RunInv, Backed, Owed
  <2> QED
    BY <1>0, <1>16, <2>1, <2>2, <2>3, <2>4
    DEF BackInv, Going, Waits
<1>17. ASSUME Return PROVE BackInv' /\ Backed'
  <2>1. /\ run.at = "back" /\ run' = Idle /\ book' = book /\ req' = req /\ asked' = asked
        /\ status' = [status EXCEPT ![run.job] = "leaving"]
        /\ verdict' = [verdict EXCEPT ![run.job] = Verdict]
    BY <1>0, <1>17
    DEF Return, At, Queue!Return
  <2>2. run.job \in Jobs /\ status[run.job] = "working"
    BY <1>0, <1>17, <2>1
    DEF RunInv
  <2>3. ASSUME ~asked, book.state \in Going, run.err /\ run.cut
        PROVE  status'[run.job] = "leaving" /\ verdict'[run.job] = "waiting"
    BY <1>0, <1>17, <2>1, <2>2, <2>3
    DEF BackInv, Verdict, TypeOK
  <2>4. ASSUME NEW k \in Jobs, status[k] = "waiting" PROVE status'[k] = "waiting"
    BY <1>0, <1>17, <2>1, <2>2, <2>4
    DEF TypeOK
  <2>5. Backed'
    BY <1>0, <1>17, <2>1, <2>2, <2>3, <2>4
    DEF Backed, Owed, BackInv, Waits
  <2> QED
    BY <1>0, <1>17, <2>1, <2>2, <2>3, <2>4, <2>5
    DEF BackInv, Going, Waits, Idle
<1>18. ASSUME Cut PROVE BackInv' /\ Backed'
  BY <1>0, <1>18
  DEF Cut, At, Troubled, content, queue, BackInv, Backed, Waits, Owed, Going,
      Present, Steps, Runs
<1>19. ASSUME Crash PROVE BackInv' /\ Backed'
  BY <1>0, <1>19
  DEF Crash, Troubled, Idle, NoRequest, Queue!Unwind, content, queue, BackInv,
      Backed, Waits, Owed, Going, Present, Steps, Runs
<1>20. ASSUME Upload PROVE BackInv' /\ Backed'
  <2>1. run' = run /\ req' = req /\ asked' = asked
    BY <1>0, <1>20
    DEF Upload
  <2>2. \E j \in Jobs : status'[j] = "waiting"
    BY <1>0, <1>20
    DEF Upload, Enqueue, Queue!Submit, TypeOK
  <2>3. Backed'
    BY <1>0, <1>20, <2>2
    DEF Backed, Owed
  <2> QED
    BY <1>0, <1>20, <2>1, <2>2, <2>3
    DEF BackInv, Going, Waits
<1>21. ASSUME NEW r \in Requests, Update(r) PROVE BackInv' /\ Backed'
  BY <1>0, <1>21
  DEF Update, Ends, NoRequest, content, queue, BackInv, Backed, Waits, Owed, Going, Present, Steps,
      Runs
<1>22. ASSUME NEW j \in Jobs, Begin(j) PROVE BackInv' /\ Backed'
  BY <1>0, <1>22
  DEF Begin, At, Idle, Queue!Begin, content, queue, BackInv, Backed, Waits, Owed,
      Going, Present, Steps, Runs
<1>23. ASSUME NEW j \in Jobs, End(j) PROVE BackInv' /\ Backed'
  BY <1>0, <1>23
  DEF End, Queue!End, content, queue, BackInv, Backed, Waits, Owed, Going, Present,
      Steps, Runs
<1>24. ASSUME NEW r \in Requests, NEW op \in {"stop", "remove", "retry"}, Arrive(r, op)
      PROVE BackInv' /\ Backed'
  <2>1. run' = run /\ book' = book /\ status' = status /\ verdict' = verdict
    BY <1>0, <1>24
    DEF Arrive, queue
  <2>2. ~asked' => ~asked /\ op = "retry"
    BY <1>0, <1>24
    DEF Arrive, TypeOK
  <2>3. op = "retry" => /\ req' = [req EXCEPT ![r] = req'[r]]
                        /\ req'[r].op = "retry" /\ req'[r].at = "write" /\ req'[r].todo = {}
    BY <1>0, <1>24
    DEF Arrive, NoRequest, TypeOK
  <2>4. Backed'
    BY <1>0, <1>24, <2>1, <2>2
    DEF Backed, Owed, Going
  <2> QED
    BY <1>0, <1>24, <2>1, <2>2, <2>3, <2>4
    DEF BackInv, Going, Waits, TypeOK
<1>25. ASSUME NEW r \in Requests, Select(r) PROVE BackInv' /\ Backed'
  BY <1>0, <1>25
  DEF Select, content, queue, BackInv, Backed, Waits, Owed, Going, Present, Steps,
      Runs
<1>26. ASSUME NEW r \in Requests, NEW j \in Jobs, StopJob(r, j)
      PROVE BackInv' /\ Backed'
  BY <1>0, <1>26
  DEF StopJob, Queue!Unwind, content, queue, BackInv, Backed, Waits, Owed, Going,
      Present, Steps, Runs
<1>27. ASSUME NEW r \in Requests, Stop(r) PROVE BackInv' /\ Backed'
  BY <1>0, <1>27
  DEF Stop, Ends, InState, NoRequest, content, queue, BackInv, Backed, Waits, Owed,
      Going, Present, Steps, Runs
<1>28. ASSUME NEW r \in Requests, Remove(r) PROVE BackInv' /\ Backed'
  BY <1>0, <1>28
  DEF Remove, Ends, NoRequest, content, queue, BackInv, Backed, Waits, Owed, Going,
      Present, Steps, Runs
<1>29. ASSUME NEW r \in Requests, Retry(r) PROVE BackInv' /\ Backed'
  <2>1. run' = run /\ req' = [req EXCEPT ![r] = NoRequest] /\ asked' = asked
    BY <1>0, <1>29
    DEF Retry, Ends
  <2>2. \E j \in Jobs : status'[j] = "waiting"
    BY <1>0, <1>29
    DEF Retry, Enqueue, Queue!Submit, TypeOK
  <2>3. Backed'
    BY <1>0, <1>29, <2>2
    DEF Backed, Owed
  <2> QED
    BY <1>0, <1>29, <2>1, <2>2, <2>3
    DEF BackInv, Going, Waits, NoRequest, TypeOK
<1>30. ASSUME NEW r \in Requests, HangUp(r) PROVE BackInv' /\ Backed'
  BY <1>0, <1>30
  DEF HangUp, Troubled, NoRequest, content, queue, BackInv, Backed, Waits, Owed,
      Going, Present, Steps, Runs
<1>31. ASSUME UNCHANGED vars PROVE BackInv' /\ Backed'
  BY <1>0, <1>31
  DEF vars, BackInv, Backed, Waits, Owed, Going, Present, Steps, Runs
<1>32. ASSUME NEW r \in Requests, NEW field \in {"title", "author", "colour"}, Patch(r, field)
      PROVE  BackInv' /\ Backed'
  BY <1>0, <1>32
  DEF Patch, Troubled, NoRequest, content, queue, BackInv, Backed, Waits, Owed, Going, Present, Steps,
      Runs
<1> QED
  BY <1>1, <1>2, <1>3, <1>4, <1>5, <1>6, <1>7, <1>8, <1>9, <1>10, <1>11,
     <1>12, <1>13, <1>14, <1>15, <1>16, <1>17, <1>18, <1>19, <1>20, <1>21, <1>22,
     <1>23, <1>24, <1>25, <1>26, <1>27, <1>28, <1>29, <1>30, <1>31, <1>32
  DEF Next, Handler, Request

(* Steps keep what was read.                                               *)

LEMMA KeepStep ==
  ASSUME ImportInv, [Next]_vars
  PROVE  StaysRead
<1>0. TypeOK /\ PageInv
  BY DEF ImportInv
<1>1. ASSUME GetBook PROVE StaysRead
  BY <1>0, <1>1
  DEF GetBook, At, content, queue, StaysRead
<1>2. ASSUME LoseContext PROVE StaysRead
  BY <1>0, <1>2
  DEF LoseContext, StaysBut, GoTo, InCall, content, queue, StaysRead
<1>3. ASSUME Fail PROVE StaysRead
  BY <1>0, <1>3
  DEF Fail, GoTo, Troubled, InCall, content, queue, StaysRead
<1>4. ASSUME Examine PROVE StaysRead
  BY <1>0, <1>4
  DEF Examine, At, StaysBut, GoTo, InState, content, queue, StaysRead
<1>5. ASSUME Classify PROVE StaysRead
  <2>1. \/ page' = page
      \/ page' = [p \in Pages |-> IF p \in Blank THEN "blank" ELSE "text"]
    BY <1>0, <1>5
    DEF Classify, Settled, At, StaysBut, GoTo, Named, InState
  <2> QED
    BY <1>0, <1>5, <2>1
    DEF TypeOK, PageInv, IsRead, StaysRead
<1>6. ASSUME Handover PROVE StaysRead
  BY <1>0, <1>6
  DEF Handover, At, GoTo, InState, Enqueue, NewJob, Queue!Submit, content, queue,
      StaysRead
<1>7. ASSUME Prepare PROVE StaysRead
  BY <1>0, <1>7
  DEF Prepare, At, InState, Unread, content, queue, StaysRead
<1>8. ASSUME NEW p \in Pages, ReadPage(p) PROVE StaysRead
  <2>1. \/ page' = page
      \/ /\ Present /\ run.at = "read" /\ p \in run.todo
         /\ \E s \in {"text", "blank", "failed"} : page' = [page EXCEPT ![p] = s]
    BY <1>0, <1>8
    DEF ReadPage, Settled, At, First, GoTo, InState, Troubled
  <2>2. \A q \in Pages : q # p \/ page' = page => page'[q] = page[q]
    BY <1>0, <1>8, <2>1
    DEF TypeOK
  <2>3. page' = page \/ ~IsRead(p)
    BY <1>0, <1>8, <2>1
    DEF PageInv
  <2> QED
    BY <1>0, <1>8, <2>1, <2>2, <2>3
    DEF IsRead, StaysRead
<1>9. ASSUME ReadAll PROVE StaysRead
  BY <1>0, <1>9
  DEF ReadAll, At, StaysBut, GoTo, InState, content, queue, StaysRead
<1>10. ASSUME Name PROVE StaysRead
  BY <1>0, <1>10
  DEF Name, At, StaysBut, GoTo, content, queue, StaysRead
<1>11. ASSUME Index PROVE StaysRead
  BY <1>0, <1>11
  DEF Index, At, StaysBut, GoTo, content, queue, StaysRead
<1>12. ASSUME Search PROVE StaysRead
  BY <1>0, <1>12
  DEF Search, At, InState, Lacking, content, queue, StaysRead
<1>13. ASSUME NEW p \in Pages, Embed(p) PROVE StaysRead
  BY <1>0, <1>13
  DEF Embed, At, First, InState, GoTo, content, queue, StaysRead
<1>14. ASSUME Ready PROVE StaysRead
  BY <1>0, <1>14
  DEF Ready, At, InState, StaysBut, GoTo, content, queue, StaysRead
<1>15. ASSUME Decide PROVE StaysRead
  BY <1>0, <1>15
  DEF Decide, At, StaysBut, GoTo, Leaves, content, queue, StaysRead
<1>16. ASSUME WriteBack PROVE StaysRead
  BY <1>0, <1>16
  DEF WriteBack, At, InState, content, queue, StaysRead
<1>17. ASSUME Return PROVE StaysRead
  BY <1>0, <1>17
  DEF Return, At, Verdict, Idle, Queue!Return, content, queue, StaysRead
<1>18. ASSUME Cut PROVE StaysRead
  BY <1>0, <1>18
  DEF Cut, At, Troubled, content, queue, StaysRead
<1>19. ASSUME Crash PROVE StaysRead
  BY <1>0, <1>19
  DEF Crash, Troubled, Idle, NoRequest, Queue!Unwind, content, queue, StaysRead
<1>20. ASSUME Upload PROVE StaysRead
  BY <1>0, <1>20
  DEF Upload, Enqueue, NewJob, Queue!Submit, content, queue, StaysRead
<1>21. ASSUME NEW r \in Requests, Update(r) PROVE StaysRead
  BY <1>0, <1>21
  DEF Update, Ends, NoRequest, content, queue, StaysRead
<1>22. ASSUME NEW j \in Jobs, Begin(j) PROVE StaysRead
  BY <1>0, <1>22
  DEF Begin, At, Idle, Queue!Begin, content, queue, StaysRead
<1>23. ASSUME NEW j \in Jobs, End(j) PROVE StaysRead
  BY <1>0, <1>23
  DEF End, Queue!End, content, queue, StaysRead
<1>24. ASSUME NEW r \in Requests, NEW op \in {"stop", "remove", "retry"}, Arrive(r, op)
      PROVE StaysRead
  BY <1>0, <1>24
  DEF Arrive, Troubled, Admits, NoRequest, content, queue, StaysRead
<1>25. ASSUME NEW r \in Requests, Select(r) PROVE StaysRead
  BY <1>0, <1>25
  DEF Select, content, queue, StaysRead
<1>26. ASSUME NEW r \in Requests, NEW j \in Jobs, StopJob(r, j) PROVE StaysRead
  BY <1>0, <1>26
  DEF StopJob, Queue!Unwind, content, queue, StaysRead
<1>27. ASSUME NEW r \in Requests, Stop(r) PROVE StaysRead
  BY <1>0, <1>27
  DEF Stop, Ends, InState, NoRequest, content, queue, StaysRead
<1>28. ASSUME NEW r \in Requests, Remove(r) PROVE StaysRead
  <2>1. book'.state = "removed"
    BY <1>0, <1>28
    DEF Remove, TypeOK, Books
  <2> QED
    BY <1>0, <1>28, <2>1
    DEF StaysRead
<1>29. ASSUME NEW r \in Requests, Retry(r) PROVE StaysRead
  BY <1>0, <1>29
  DEF Retry, Ends, InState, NoRequest, Enqueue, NewJob, Queue!Submit, content,
      queue, StaysRead
<1>30. ASSUME NEW r \in Requests, HangUp(r) PROVE StaysRead
  BY <1>0, <1>30
  DEF HangUp, Troubled, NoRequest, content, queue, StaysRead
<1>31. ASSUME UNCHANGED vars PROVE StaysRead
  BY <1>0, <1>31
  DEF vars, StaysRead
<1>32. ASSUME NEW r \in Requests, NEW field \in {"title", "author", "colour"}, Patch(r, field)
      PROVE  StaysRead
  BY <1>0, <1>32
  DEF Patch, Troubled, NoRequest, content, queue, StaysRead
<1> QED
  BY <1>1, <1>2, <1>3, <1>4, <1>5, <1>6, <1>7, <1>8, <1>9, <1>10, <1>11,
     <1>12, <1>13, <1>14, <1>15, <1>16, <1>17, <1>18, <1>19, <1>20, <1>21, <1>22,
     <1>23, <1>24, <1>25, <1>26, <1>27, <1>28, <1>29, <1>30, <1>31, <1>32
  DEF Next, Handler, Request

(* Steps keep an edit.                                                     *)

LEMMA EditStep ==
  ASSUME ImportInv, [Next]_vars
  PROVE  StaysNamed
<1>0. TypeOK /\ NameInv
  BY DEF ImportInv
<1>1. ASSUME GetBook PROVE StaysNamed
  BY <1>0, <1>1
  DEF GetBook, At, content, queue, StaysNamed, TypeOK, Books, NameInv, Present
<1>2. ASSUME LoseContext PROVE StaysNamed
  BY <1>0, <1>2
  DEF LoseContext, StaysBut, GoTo, InCall, content, queue, StaysNamed, At, TypeOK,
      Books, NameInv, Present
<1>3. ASSUME Fail PROVE StaysNamed
  BY <1>0, <1>3
  DEF Fail, GoTo, Troubled, InCall, content, queue, StaysNamed, At, TypeOK, Books,
      NameInv, Present
<1>4. ASSUME Examine PROVE StaysNamed
  BY <1>0, <1>4
  DEF Examine, At, StaysBut, GoTo, InState, content, queue, StaysNamed, TypeOK,
      Books, NameInv, Present
<1>5. ASSUME Classify PROVE StaysNamed
  BY <1>0, <1>5
  DEF Classify, At, StaysBut, GoTo, InState, Named, Settled, content, queue,
      StaysNamed, TypeOK, Books, NameInv, Present
<1>6. ASSUME Handover PROVE StaysNamed
  BY <1>0, <1>6
  DEF Handover, At, GoTo, InState, Enqueue, NewJob, Queue!Submit, content, queue,
      StaysNamed, TypeOK, Books, NameInv, Present
<1>7. ASSUME Prepare PROVE StaysNamed
  BY <1>0, <1>7
  DEF Prepare, At, InState, Unread, content, queue, StaysNamed, TypeOK, Books,
      NameInv, Present
<1>8. ASSUME NEW p \in Pages, ReadPage(p) PROVE StaysNamed
  BY <1>0, <1>8
  DEF ReadPage, At, First, InState, GoTo, Troubled, Settled, content, queue,
      StaysNamed, TypeOK, Books, NameInv, Present
<1>9. ASSUME ReadAll PROVE StaysNamed
  BY <1>0, <1>9
  DEF ReadAll, At, StaysBut, GoTo, InState, content, queue, StaysNamed, TypeOK,
      Books, NameInv, Present
<1>10. ASSUME Name PROVE StaysNamed
  BY <1>0, <1>10
  DEF Name, At, StaysBut, GoTo, content, queue, StaysNamed, TypeOK, Books, NameInv,
      Present
<1>11. ASSUME Index PROVE StaysNamed
  BY <1>0, <1>11
  DEF Index, At, StaysBut, GoTo, content, queue, StaysNamed, TypeOK, Books, NameInv,
      Present
<1>12. ASSUME Search PROVE StaysNamed
  BY <1>0, <1>12
  DEF Search, At, InState, Lacking, content, queue, StaysNamed, TypeOK, Books,
      NameInv, Present
<1>13. ASSUME NEW p \in Pages, Embed(p) PROVE StaysNamed
  BY <1>0, <1>13
  DEF Embed, At, First, InState, GoTo, content, queue, StaysNamed, TypeOK, Books,
      NameInv, Present
<1>14. ASSUME Ready PROVE StaysNamed
  BY <1>0, <1>14
  DEF Ready, At, InState, StaysBut, GoTo, content, queue, StaysNamed, TypeOK, Books,
      NameInv, Present
<1>15. ASSUME Decide PROVE StaysNamed
  BY <1>0, <1>15
  DEF Decide, At, StaysBut, GoTo, Leaves, content, queue, StaysNamed, TypeOK, Books,
      NameInv, Present
<1>16. ASSUME WriteBack PROVE StaysNamed
  BY <1>0, <1>16
  DEF WriteBack, At, InState, content, queue, StaysNamed, TypeOK, Books, NameInv,
      Present
<1>17. ASSUME Return PROVE StaysNamed
  BY <1>0, <1>17
  DEF Return, At, Verdict, Idle, Queue!Return, content, queue, StaysNamed, TypeOK,
      Books, NameInv, Present
<1>18. ASSUME Cut PROVE StaysNamed
  BY <1>0, <1>18
  DEF Cut, At, Troubled, content, queue, StaysNamed, TypeOK, Books, NameInv, Present
<1>19. ASSUME Crash PROVE StaysNamed
  BY <1>0, <1>19
  DEF Crash, Troubled, Idle, NoRequest, Queue!Unwind, content, queue, StaysNamed,
      At, TypeOK, Books, NameInv, Present
<1>20. ASSUME Upload PROVE StaysNamed
  BY <1>0, <1>20
  DEF Upload, Enqueue, NewJob, Queue!Submit, content, queue, StaysNamed, At, TypeOK,
      Books, NameInv, Present
<1>21. ASSUME NEW r \in Requests, Update(r) PROVE StaysNamed
  <2>1. req[r].op = "patch" /\ req'[r].op = "none"
    BY <1>0, <1>21
    DEF Update, Ends, NoRequest, TypeOK
  <2>2. book'.name # book.name => req[r].name # book.name
    BY <1>0, <1>21
    DEF Update, TypeOK, Books
  <2> QED
    BY <2>1, <2>2
    DEF StaysNamed, Stale
<1>22. ASSUME NEW j \in Jobs, Begin(j) PROVE StaysNamed
  BY <1>0, <1>22
  DEF Begin, At, Idle, Queue!Begin, content, queue, StaysNamed, TypeOK, Books,
      NameInv, Present
<1>23. ASSUME NEW j \in Jobs, End(j) PROVE StaysNamed
  BY <1>0, <1>23
  DEF End, Queue!End, content, queue, StaysNamed, At, TypeOK, Books, NameInv,
      Present
<1>24. ASSUME NEW r \in Requests, NEW op \in {"stop", "remove", "retry"}, Arrive(r, op)
      PROVE StaysNamed
  BY <1>0, <1>24
  DEF Arrive, Troubled, Admits, NoRequest, content, queue, StaysNamed, At, TypeOK,
      Books, NameInv, Present
<1>25. ASSUME NEW r \in Requests, Select(r) PROVE StaysNamed
  BY <1>0, <1>25
  DEF Select, content, queue, StaysNamed, At, TypeOK, Books, NameInv, Present
<1>26. ASSUME NEW r \in Requests, NEW j \in Jobs, StopJob(r, j) PROVE StaysNamed
  BY <1>0, <1>26
  DEF StopJob, Queue!Unwind, content, queue, StaysNamed, At, TypeOK, Books, NameInv,
      Present
<1>27. ASSUME NEW r \in Requests, Stop(r) PROVE StaysNamed
  BY <1>0, <1>27
  DEF Stop, Ends, InState, NoRequest, content, queue, StaysNamed, At, TypeOK, Books,
      NameInv, Present
<1>28. ASSUME NEW r \in Requests, Remove(r) PROVE StaysNamed
  BY <1>0, <1>28
  DEF Remove, Ends, NoRequest, content, queue, StaysNamed, At, TypeOK, Books,
      NameInv, Present
<1>29. ASSUME NEW r \in Requests, Retry(r) PROVE StaysNamed
  BY <1>0, <1>29
  DEF Retry, Ends, InState, NoRequest, Enqueue, NewJob, Queue!Submit, content,
      queue, StaysNamed, At, TypeOK, Books, NameInv, Present
<1>30. ASSUME NEW r \in Requests, HangUp(r) PROVE StaysNamed
  BY <1>0, <1>30
  DEF HangUp, Troubled, NoRequest, content, queue, StaysNamed, At, TypeOK, Books,
      NameInv, Present
<1>31. ASSUME UNCHANGED vars PROVE StaysNamed
  BY <1>0, <1>31
  DEF vars, StaysNamed, At, TypeOK, Books, NameInv, Present
<1>32. ASSUME NEW r \in Requests, NEW field \in {"title", "author", "colour"}, Patch(r, field)
      PROVE  StaysNamed
  BY <1>0, <1>32
  DEF Patch, Troubled, NoRequest, content, queue, StaysNamed, At, TypeOK, Books, NameInv, Present
<1> QED
  BY <1>1, <1>2, <1>3, <1>4, <1>5, <1>6, <1>7, <1>8, <1>9, <1>10, <1>11,
     <1>12, <1>13, <1>14, <1>15, <1>16, <1>17, <1>18, <1>19, <1>20, <1>21, <1>22,
     <1>23, <1>24, <1>25, <1>26, <1>27, <1>28, <1>29, <1>30, <1>31, <1>32
  DEF Next, Handler, Request

-----------------------------------------------------------------------------
(* The invariant.                                                          *)

LEMMA ImportInit == Init => ImportInv
<1> SUFFICES ASSUME Init PROVE ImportInv
  OBVIOUS
<1>1. TypeOK
  <2>1. book \in Books /\ run \in Runs
    BY DEF Init, Books, Runs, Points, Idle
  <2>2. NoRequest \in Reqs
    BY DEF Reqs, NoRequest
  <2>3. req \in [Requests -> Reqs] /\ trouble \in 0..MaxTrouble
    BY <2>2, ImportConstants DEF Init
  <2>4. vector \subseteq {p \in Pages : page[p] = "text"}
    BY DEF Init
  <2> QED
    BY <2>1, <2>3, <2>4 DEF Init, TypeOK
<1>2. FreshInv /\ RunInv /\ NameInv
  BY DEF Init, FreshInv, RunInv, NameInv, Idle, NoRequest
<1>3. PageInv /\ ReadyMeansRead
  BY DEF Init, PageInv, ReadyMeansRead, Present, Clean, Idle
<1>4. BackInv /\ Backed
  BY DEF Init, BackInv, Backed, Idle, NoRequest, Going
<1> QED
  BY <1>1, <1>2, <1>3, <1>4 DEF ImportInv

LEMMA ImportStep == ImportInv /\ [Next]_vars => ImportInv'
  BY TypeStep, ShapeStep, PageStep, BackStep DEF ImportInv

LEMMA Invariance == Spec => []ImportInv
<1>1. ImportInv /\ [Next]_vars => ImportInv'
  BY ImportStep
<1> QED
  BY ImportInit, <1>1, PTL DEF Spec

\* Every variable of a book's import has its type.
THEOREM ImportTypeCorrect == Spec => []TypeOK
<1>1. ImportInv => TypeOK
  BY DEF ImportInv
<1> QED
  BY Invariance, <1>1, PTL

\* A book that says it is ready is complete.
THEOREM ReadyMeansReadHolds == Spec => []ReadyMeansRead
<1>1. ImportInv => ReadyMeansRead
  BY DEF ImportInv
<1> QED
  BY Invariance, <1>1, PTL

\* A book on its way, which nobody asked to stop, has a job.
THEOREM BackedHolds == Spec => []Backed
<1>1. ImportInv => Backed
  BY DEF ImportInv
<1> QED
  BY Invariance, <1>1, PTL

\* A removed book leaves no pages, vectors or sections.
THEOREM RemovedLeavesNothingHolds == Spec => []RemovedLeavesNothing
<1>1. ImportInv => RemovedLeavesNothing
  BY DEF ImportInv, PageInv, Present, Clean, RemovedLeavesNothing
<1> QED
  BY Invariance, <1>1, PTL

\* A page once read stays read until the book is removed.
THEOREM PagesKeptHolds == Spec => PagesKept
<1>1. ImportInv /\ [Next]_vars => [StaysRead]_vars
  BY KeepStep
<1>2. Spec => [][StaysRead]_vars
  BY Invariance, <1>1, PTL DEF Spec
<1> QED
  BY <1>2 DEF PagesKept, StaysRead

\* The student's title for the book stays, but for an examination or a patch that read
\* the row before it was given.
THEOREM EditStaysHolds == Spec => EditStays
<1>1. ImportInv /\ [Next]_vars => [StaysNamed]_vars
  BY EditStep
<1>2. Spec => [][StaysNamed]_vars
  BY Invariance, <1>1, PTL DEF Spec
<1> QED
  BY <1>2 DEF EditStays, StaysNamed
=============================================================================
