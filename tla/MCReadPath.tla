----------------------------- MODULE MCReadPath -----------------------------
(* Small instances of ReadPath for TLC. *)
EXTENDS ReadPath

CONSTANTS s1, s2

OneSubject == {s1}
SkeletonAndFull == {"L0", "L3"}
Budgets == [t \in SkeletonAndFull |-> IF t = "L0" THEN 2 ELSE 0]
Weights == [t \in SkeletonAndFull |-> IF t = "L0" THEN 1 ELSE 2]
Ranks == [v \in Views |-> CASE v = BoardView -> 3 [] v = TailView -> 4 [] OTHER -> IF v[2] = s1 THEN 1 ELSE 2]
Capacities == [d \in CacheTiers |-> IF d = "l1" THEN 2 ELSE 5]

=============================================================================
