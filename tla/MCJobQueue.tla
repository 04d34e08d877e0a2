----------------------------- MODULE MCJobQueue -----------------------------
(* Small instances of JobQueue, cut from the lanes and kinds main.go and the *)
(* features register: import's examine and prepare, and the tutor's turns.   *)
EXTENDS JobQueueContract, TLC

MCJobs1 == {1}
MCJobs2 == 1..2
MCJobs3 == 1..3

MCKinds == {"examine", "prepare", "turn"}
MCLaneOf == [k \in MCKinds |-> IF k = "turn" THEN "turn" ELSE "import"]
\* "retired" is a kind only an older version of the program enqueued.
MCImportKinds == {"examine", "prepare", "retired"}
MCImportLaneOf == [k \in MCImportKinds |-> "import"]

\* Two at a time, as turns run; and main.go's one import at a time.
MCPairs == "import" :> 2 @@ "turn" :> 2
MCNarrowLimit == [l \in {"import"} |-> 1]

Job(k, subject, key, p) ==
  [kind |-> k, subject |-> subject, key |-> key, priority |-> p]

MCSpecs == {Job("examine", "b1", "", 2), Job("prepare", "b1", "", 1),
            Job("turn", "t1", "b1", 0)}
MCImportSpecs == {Job("examine", "b1", "", 2), Job("prepare", "b1", "", 1),
                  Job("retired", "b1", "", 0)}
MCOneSpec == {Job("prepare", "b1", "", 1)}
=============================================================================
