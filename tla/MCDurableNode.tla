--------------------------- MODULE MCDurableNode ---------------------------
(* DurableNode with one or two connection threads, for TLC.                *)
EXTENDS DurableNode, TLC

CONSTANTS c1, c2, s1, s2

OneClient == {c1}
TwoClients == {c1, c2}

OneShard == {s1}
TwoShards == {s1, s2}

\* The connection threads are interchangeable.
ClientSymmetry == Permutations(TwoClients)

=============================================================================
