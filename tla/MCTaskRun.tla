------------------------------- MODULE MCTaskRun -------------------------------
(* TaskRun on a small instance: one command of each kind, and a start with two models. *)
EXTENDS TaskRun
MCOp == Kinds \cup {"climb"}
MCKind == [op \in MCOp |-> IF op = "climb" THEN "start" ELSE op]
MCFiles ==
    [op \in MCOp |-> CASE op = "start" -> {1} [] op = "import" -> {2} [] op = "answer" -> {3} [] OTHER -> {}]
MCLadder == [op \in MCOp |-> CASE op = "climb" -> 2 [] op = "bind" -> 0 [] OTHER -> 1]
MCPlans == {{"climb"}, {"start", "answer"}, {"start", "import"}, {"start", "analyze", "approve"},
            {"bind", "import", "resume"}, {"pure"}}
================================================================================
