----------------------------- MODULE MCCuration -----------------------------
(* Small instances of Curation for TLC. *)
EXTENDS Curation

CONSTANTS s1, plain, blank, ghost

OneSlot == {s1}
ThreeObjects == {plain, blank, ghost}

=============================================================================
