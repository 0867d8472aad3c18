---------------------------- MODULE MCWalStream ----------------------------
(* WalStream on small sets of writers and frames, for TLC.                 *)
EXTENDS WalStream, TLC

CONSTANTS w1, w2, f1, f2

TwoWriters == {w1, w2}
TwoFrames == {f1, f2}

=============================================================================
