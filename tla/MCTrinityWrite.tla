--------------------------- MODULE MCTrinityWrite ---------------------------
(* Small instances of TrinityWrite for TLC. *)
EXTENDS TrinityWrite, TLC

CONSTANTS a1, a2, p1, tAgent, tAdmin, tCurator

TwoAgents == {a1, a2}
OnePayload == {p1}
ThreeTasks == {tAgent, tAdmin, tCurator}
PayloadUnits == [p \in OnePayload |-> 2]
TaskGrant == [t \in ThreeTasks |-> 3]
AgentSymmetry == Permutations({a1, a2})

=============================================================================
