--------------------------- MODULE MCTaskAdmission ---------------------------
(***************************************************************************)
(* Admission under contention.  The child works in the write scope of its  *)
(* parent, as children do; the rival replaces the child, waits for it to   *)
(* succeed and writes in the same scope; the readers only read.  Two       *)
(* leaves may run, one of them on a limited route, and routes can be       *)
(* recorded at any time.                                                   *)
(* Nobody is assigned: admission does not look at assignees.  A succeeded  *)
(* Task may be run again, which is admitted like a resumed one.            *)
(***************************************************************************)
EXTENDS TaskRuns, TLC

CONSTANTS parent, child, rival, reader1, reader2

MCTasks == {parent, child, rival, reader1, reader2}
MCAgents == {}
MCRoutes == {"GENERAL", "RESEARCH"}
MCParent == [t \in MCTasks |-> IF t = child THEN parent ELSE NoTask]
MCSupersedes == [t \in MCTasks |-> IF t = rival THEN child ELSE NoTask]
MCDependencies == [t \in MCTasks |-> IF t = rival THEN {child} ELSE {}]
MCSameScope == [t \in MCTasks |-> MCTasks]
MCReadOnly == {reader1, reader2}
MCRouteLimit == [r \in MCRoutes |-> IF r = "RESEARCH" THEN 1 ELSE 0]
MCRequested == {"succeeded"}

\* What the two properties suppose of the hierarchy.
ASSUME MCHierarchy == TwoLevels /\ ChildrenShareScope

ReaderSymmetry == Permutations({reader1, reader2})
=============================================================================
