----------------------------- MODULE MCTaskRuns -----------------------------
(***************************************************************************)
(* The life of one Task across a restart: up to three Runs, two assignees  *)
(* that may be exchanged or missing, effects, and stale callers that hold  *)
(* any Run and name any actor.                                             *)
(***************************************************************************)
EXTENDS TaskRuns, TLC

CONSTANTS t1, a1, a2

MCTasks == {t1}
MCAgents == {a1, a2}
MCRoutes == {"GENERAL"}
MCParent == [t \in MCTasks |-> NoTask]
MCSupersedes == [t \in MCTasks |-> NoTask]
MCDependencies == [t \in MCTasks |-> {}]
MCSameScope == [t \in MCTasks |-> {}]
MCRouteLimit == [r \in MCRoutes |-> 0]
MCRequested == {"queued", "waiting", "failed", "superseded"}
AgentSymmetry == Permutations(MCAgents)
=============================================================================
