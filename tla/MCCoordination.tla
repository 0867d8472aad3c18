--------------------------- MODULE MCCoordination ---------------------------
(* Small instances of Coordination for TLC. *)
EXTENDS Coordination

CONSTANTS c1, c2, op, a1, written, incident

TwoConns == {c1, c2}
TwoAgents == {op, a1}
TwoNames == {written, incident}
OneIncident == {incident}
OnePattern == {{written}}
AgentExpires == [a \in TwoAgents |-> IF a = op THEN 0 ELSE 3]
ConnSymmetry == Permutations(TwoConns)

=============================================================================
