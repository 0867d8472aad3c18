---------------------------- MODULE MCGovernance ----------------------------
(* Small instances of Governance for TLC. *)
EXTENDS Governance, TLC

CONSTANTS o1, o2, s1, s2, free, g1, e1, everywhere, governance

TwoOperators == {o1, o2}
ThreeSchemas == {s1, s2, free}
TwoVersions == s1 :> 1 @@ s2 :> 2 @@ free :> 0
TwoSchemas == {s1, s2}
OneGap == {g1}
OneEntity == {e1}
TwoScopes == {everywhere, governance}

Founding == [at |-> 1, seq |-> 1]
SmallWrites ==
    [schema : ThreeSchemas, whole : BOOLEAN, exempt : {FALSE}, anchored : BOOLEAN,
     scope : {None, governance}, cites : {NoDecision, Founding}, names : {{}, {e1}}]

\* One kind of trouble at a time: verbs with a failed commit; a longer sequence
\* of verbs with two snapshots; decisions that come and go; gaps.
Few == [verbs |-> 3, snaps |-> 1, crashes |-> 1, kept |-> 0, registers |-> 1,
        decisions |-> 0, transitions |-> 0, dispatches |-> 0]
FourTroubles ==
    {[Few EXCEPT !.kept = 1],
     [Few EXCEPT !.verbs = 4, !.snaps = 2],
     [Few EXCEPT !.verbs = 2, !.decisions = 2],
     [Few EXCEPT !.verbs = 2, !.registers = 0, !.crashes = 2, !.transitions = 2, !.dispatches = 4]}

OperatorSymmetry == Permutations(TwoOperators)

=============================================================================
