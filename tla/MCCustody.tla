----------------------------- MODULE MCCustody -----------------------------
(* Small instances of Custody for TLC. *)
EXTENDS Custody

CONSTANTS b1

OneBlob == {b1}

=============================================================================
