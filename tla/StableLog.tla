----------------------------- MODULE StableLog -----------------------------
(***************************************************************************)
(* What a WAL stream promises its callers, without files, batches, syncs   *)
(* or crashes: "Append and block until the group commit containing this    *)
(* frame is durable" (persist/wal.rs, WalWriter::append).                  *)
(*                                                                         *)
(* A frame is asked for, settles on the disk, alone or with others of its  *)
(* batch, and is then returned to its caller.  A settled frame is settled  *)
(* for ever; one whose caller never hears of it may settle all the same.   *)
(***************************************************************************)
CONSTANT Frames   \* the frames ever appended

VARIABLES
    asked,     \* frames some caller has started to append
    stable,    \* frames no crash can take away
    returned   \* frames whose append has returned Ok

logvars == <<asked, stable, returned>>

Init ==
    /\ asked = {}
    /\ stable = {}
    /\ returned = {}

\* A caller starts to append a frame.
Ask(f) ==
    /\ f \notin asked
    /\ asked' = asked \cup {f}
    /\ UNCHANGED <<stable, returned>>

\* A group commit makes frames durable: only frames that were asked for.
Settle(batch) ==
    /\ batch # {}
    /\ batch \subseteq asked \ stable
    /\ stable' = stable \cup batch
    /\ UNCHANGED <<asked, returned>>

\* An append returns Ok: only for a frame that is durable, and once.
Return(f) ==
    /\ f \in stable \ returned
    /\ returned' = returned \cup {f}
    /\ UNCHANGED <<asked, stable>>

Next ==
    \/ \E f \in Frames : Ask(f) \/ Return(f)
    \/ \E batch \in SUBSET Frames : Settle(batch)

Spec == Init /\ [][Next]_logvars

=============================================================================
