------------------------- MODULE MCAnalysisPipeline -------------------------
(* Values of the constants of AnalysisPipeline for the model checker.      *)
EXTENDS AnalysisPipeline, TLC

CONSTANTS p1, p2, b1, b2, s1, s2, r1

\* Every snapshot has a readable editorial; or none has any.
Editorial == [s \in Snapshots |-> "editorial"]
NoEditorial == [s \in Snapshots |-> "absent"]

AllRoles == Roles

\* Budgets: analysis calls and reasoning calls.
Budget(a, r) == [k \in Kinds |-> IF k = "analysis" THEN a ELSE r]
OneCall == {Budget(0, 1)}
ReasoningBudgets == {Budget(0, 2)}
AmpleBudgets == {Budget(3, 1)}
RaisedBudgets == {Budget(1, 0), Budget(3, 1)}
WideJob == Budget(9, 9)
TightJob == Budget(2, 1)

PipelineSymmetry == Permutations(Pipelines)
=============================================================================
