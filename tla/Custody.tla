------------------------------- MODULE Custody -------------------------------
(***************************************************************************)
(* Keys and the audit chain: the keyring and what is sealed with it (Kms,  *)
(* CasStore and SnapshotStore in persist/mod.rs), the hash chain of audit  *)
(* records (AuditChain in obs.rs), the "kms rotate" verb and the checks of *)
(* a boot (bootstrap/mod.rs).                                              *)
(*                                                                         *)
(* Whatever seals and whatever rotates holds the mutation barrier, so one  *)
(* caller is here at a time; disk errors and crashes cut into it.  The     *)
(* keyring is written to a temporary file and renamed, so it is on disk    *)
(* whole or not at all.  The audit chain is appended to: a line is         *)
(* buffered, flushed, synced, and only then is the head in memory moved.   *)
(* A key is a number, its material the number of its generation: no two    *)
(* generated keys are equal.  The hash of a record is a number of its own. *)
(***************************************************************************)
EXTENDS Integers, Sequences, FiniteSets, FiniteSetsExt, SequencesExt

CONSTANTS
    Blobs,        \* contents of the CAS
    MaxSeals,     \* bound: frames and snapshots sealed
    MaxLines,     \* bound: audit records
    MaxCrashes,   \* bound: crashes
    MaxDiskErrors \* bound: writes and syncs that fail

ASSUME CustodyBounds == {MaxSeals, MaxLines, MaxCrashes, MaxDiskErrors} \subseteq Nat

VARIABLES
    status,     \* "up", "down", or "refused" by the boot
    pc,         \* the step of the verb or request that is running
    ring,       \* KeyRingState in memory
    keyring,    \* keyring.cbor
    generated,  \* how many keys were ever generated
    sealed,     \* the sealed payloads on disk
    lines,      \* the lines of audit.chain
    buffer,     \* the lines in its BufWriter
    synced,     \* how many lines are known to be on the disk
    head,       \* ChainState: the last hash and the next number
    used,       \* how much of each bound has been used
    \* What has happened, for the properties:
    acked,      \* the hashes append returned, in order
    broken,     \* an append failed, or a crash tore a line
    stranded    \* the keyring in memory was lost before it was written

keys == <<ring, keyring, generated, sealed, stranded>>
audit == <<lines, buffer, synced, head, acked, broken>>
vars == <<status, pc, keys, audit, used>>

NoRing == [active |-> 0, keys |-> <<>>]
Genesis == [prev |-> 0, seq |-> 0]

Limits == [seals |-> MaxSeals, crashes |-> MaxCrashes, disk |-> MaxDiskErrors, records |-> MaxLines]

Spend(k) ==
    /\ used[k] < Limits[k]
    /\ used' = [used EXCEPT ![k] = @ + 1]

-----------------------------------------------------------------------------
(* Kms.  Key i of a ring is keys[i]; ids are given in order.               *)

\* Mutant of Rotated: the keys before the new one are forgotten.
RotatedAlone ==
    [active |-> Len(ring.keys) + 1,
     keys |-> [i \in 1..Len(ring.keys) + 1 |-> generated + 1]]

\* The ring that rotate makes, in memory and for persist_state.
Rotated == [active |-> Len(ring.keys) + 1, keys |-> Append(ring.keys, generated + 1)]

\* seal: the payload carries the id of the active key.
Seal(what) == [what |-> what, id |-> ring.active, key |-> ring.keys[ring.active]]

\* unseal with the ring r: the key of that id, and its HMAC agrees.
Unseals(r, s) == s.id \in DOMAIN r.keys /\ r.keys[s.id] = s.key

\* A WAL frame or a snapshot is sealed and written.
WriteSealed ==
    /\ status = "up" /\ pc = "idle"
    /\ Spend("seals")
    /\ sealed' = sealed \cup {Seal(<<"frame", used.seals + 1>>)}
    /\ UNCHANGED <<status, pc, ring, keyring, generated, stranded, audit>>

\* CasStore::put: a blob that is there is left as it is.
PutBlob(b) ==
    /\ status = "up" /\ pc = "idle"
    /\ ~ \E s \in sealed : s.what = <<"blob", b>>
    /\ sealed' = sealed \cup {Seal(<<"blob", b>>)}
    /\ UNCHANGED <<status, pc, ring, keyring, generated, stranded, audit, used>>

-----------------------------------------------------------------------------
(* AuditChain.                                                             *)

\* Lines that end in a newline are whole; a line can lack just that, or more.
Line(event) ==
    [event |-> event, prev |-> head.prev, seq |-> head.seq,
     hash |-> used.records + 1, end |-> "whole"]

\* Text after a line without its newline is glued to it: both are on disk and
\* neither can be read.
Glue(file, new) ==
    IF file = <<>> \/ new = <<>> \/ Last(file).end # "open" THEN file \o new
    ELSE Front(file) \o <<[Last(file) EXCEPT !.end = "torn"], [Head(new) EXCEPT !.end = "torn"]>>
            \o Tail(new)

\* scan: every line is whole or lacks its newline, and names its predecessor.
Linked(file) ==
    \A i \in DOMAIN file :
        /\ file[i].end # "torn"
        /\ file[i].seq = i - 1
        /\ file[i].prev = IF i = 1 THEN 0 ELSE file[i - 1].hash

\* Mutant of Scan: the number of the last record is taken for the next one.
ScanLast(file) ==
    IF file = <<>> THEN Genesis ELSE [prev |-> Last(file).hash, seq |-> Last(file).seq]

\* The head that open recovers from the file.
Scan(file) ==
    IF file = <<>> THEN Genesis ELSE [prev |-> Last(file).hash, seq |-> Len(file)]

\* Mutant of AppendOk: the head moves without the sync.
AppendOkUnsynced(event) ==
    /\ lines' = Glue(lines, Append(buffer, Line(event)))
    /\ buffer' = <<>>
    /\ head' = [prev |-> Line(event).hash, seq |-> head.seq + 1]
    /\ acked' = Append(acked, Line(event).hash)
    /\ Spend("records")
    /\ UNCHANGED <<synced, broken>>

\* append that returns Ok.
AppendOk(event) ==
    /\ lines' = Glue(lines, Append(buffer, Line(event)))
    /\ buffer' = <<>>
    /\ synced' = Len(lines')
    /\ head' = [prev |-> Line(event).hash, seq |-> head.seq + 1]
    /\ acked' = Append(acked, Line(event).hash)
    /\ Spend("records")
    /\ UNCHANGED broken

\* append that returns Err: the flush fails and the line stays in the buffer,
\* or the sync fails and it is in the file.  The head stays in either case.
AppendErr(event) ==
    /\ used.disk < MaxDiskErrors /\ used.records < MaxLines
    /\ used' = [used EXCEPT !.disk = @ + 1, !.records = @ + 1]
    /\ \/ buffer' = Append(buffer, Line(event)) /\ UNCHANGED lines
       \/ lines' = Glue(lines, Append(buffer, Line(event))) /\ buffer' = <<>>
    /\ broken' = TRUE
    /\ UNCHANGED <<synced, head, acked>>

\* audit_event of some other operation.
AuditEvent ==
    /\ status = "up" /\ pc = "idle"
    /\ AppendOk("other") \/ AppendErr("other")
    /\ UNCHANGED <<status, pc, keys>>

-----------------------------------------------------------------------------
(* "kms rotate".                                                           *)

\* Mutant of RequestRotation: the record of the result is thought to be enough.
RequestRotationUnrecorded ==
    /\ status = "up" /\ pc = "idle"
    /\ pc' = "rotate"
    /\ UNCHANGED <<status, keys, audit, used>>

\* The intent is recorded first; without the record nothing is rotated.
RequestRotation ==
    /\ status = "up" /\ pc = "idle"
    /\ \/ AppendOk("requested") /\ pc' = "rotate"
       \/ AppendErr("requested") /\ UNCHANGED pc
    /\ UNCHANGED <<status, keys>>

\* Kms::rotate: the ring in memory changes, then the file; when that fails the
\* error is returned and the new key stays active in memory.
Rotate ==
    /\ status = "up" /\ pc = "rotate"
    /\ ring' = Rotated
    /\ generated' = generated + 1
    /\ \/ keyring' = Rotated /\ pc' = "record" /\ UNCHANGED used
       \/ Spend("disk") /\ pc' = "idle" /\ UNCHANGED keyring
    /\ UNCHANGED <<status, sealed, stranded, audit>>

RecordRotation ==
    /\ status = "up" /\ pc = "record"
    /\ AppendOk("rotated") \/ AppendErr("rotated")
    /\ pc' = "idle"
    /\ UNCHANGED <<status, keys>>

-----------------------------------------------------------------------------
(* Crashes and boots.                                                      *)

\* What a crash leaves of the lines that are not synced, the one being written
\* among them: some first ones, and perhaps a part of the next.
Remains ==
    LET being == CASE pc = "idle" -> {<<>>, <<Line("other")>>, <<Line("requested")>>}
                   [] pc = "rotate" -> {<<>>}
                   [] pc = "record" -> {<<>>, <<Line("rotated")>>}
        upTo(file, n) ==
            {SubSeq(file, 1, n)} \cup
            {Append(SubSeq(file, 1, n), [file[n + 1] EXCEPT !.end = end]) :
                end \in IF n = Len(file) THEN {} ELSE {"open", "torn"}}
    IN  UNION {UNION {upTo(Glue(lines, buffer \o b), n) : n \in synced..Len(Glue(lines, buffer \o b))}
                  : b \in being}

Crash ==
    /\ status = "up"
    /\ used.crashes < MaxCrashes
    /\ used' = [used EXCEPT !.crashes = @ + 1, !.records = @ + 1]
    /\ status' = "down"
    /\ pc' = "idle"
    /\ lines' \in Remains
    /\ buffer' = <<>>
    /\ synced' = Len(lines')
    /\ broken' = (broken \/ \E i \in DOMAIN lines' : lines'[i].end # "whole")
    /\ stranded' = (stranded \/ ring # keyring)
    /\ ring' = NoRing
    /\ head' = Genesis
    /\ UNCHANGED <<keyring, generated, sealed, acked>>

\* Node::open and recover: the keyring is read, the chain scanned, and the frames
\* and the snapshot unsealed; any of them may refuse the boot.  Blobs are read
\* when they are asked for.
Boot ==
    /\ status = "down"
    /\ status' = IF Linked(lines) /\ \A s \in sealed : s.what[1] = "frame" => Unseals(keyring, s)
                 THEN "up" ELSE "refused"
    /\ ring' = keyring
    /\ head' = Scan(lines)
    /\ UNCHANGED <<pc, keyring, generated, sealed, stranded, lines, buffer, synced, acked, broken, used>>

-----------------------------------------------------------------------------

\* The first boot: load_or_create_keyring, and an empty chain.
FirstRing == [active |-> 1, keys |-> <<1>>]

Init ==
    /\ status = "up"
    /\ pc = "idle"
    /\ ring = FirstRing
    /\ keyring = FirstRing
    /\ generated = 1
    /\ sealed = {}
    /\ lines = <<>>
    /\ buffer = <<>>
    /\ synced = 0
    /\ head = Genesis
    /\ used = [seals |-> 0, crashes |-> 0, disk |-> 0, records |-> 0]
    /\ acked = <<>>
    /\ broken = FALSE
    /\ stranded = FALSE

Next ==
    \/ WriteSealed
    \/ \E b \in Blobs : PutBlob(b)
    \/ AuditEvent
    \/ RequestRotation
    \/ Rotate
    \/ RecordRotation
    \/ Crash
    \/ Boot

Spec == Init /\ [][Next]_vars

-----------------------------------------------------------------------------
(* Properties.                                                             *)

\* Whatever is sealed on disk, under whichever key, can be unsealed after a
\* restart, as long as no rotation whose file could not be written was lost in
\* a crash or is still in memory only.  The next rotation that is written makes
\* one that was not written good, with what was sealed in between.
SealedReadable ==
    (~ stranded /\ (status = "up" => ring = keyring)) =>
        \A s \in sealed : Unseals(keyring, s)

\* Line j is glued to a line, not acknowledged, that lacked its newline after a crash.
BehindCut(j) ==
    /\ j > 1
    /\ lines[j - 1].end = "torn"
    /\ \A k \in DOMAIN acked : acked[k] # lines[j - 1].hash

\* Every record whose append returned Ok is on disk, once, in the order in which
\* they were acknowledged, and no crash takes one away, whatever failed before.
\* Each has a line of its own that can be read, but for the one that was written
\* right behind a line whose newline a crash took; docs/ObservabilityAudit.md:165
\* ("Records MUST NOT be dropped") knows of no such case.  (Whether a scan of the whole
\* file gets as far as that line is what ChainVerifies is about.)
AckedOnDisk ==
    /\ \A i \in DOMAIN acked : \E j \in DOMAIN lines :
        lines[j].hash = acked[i] /\ (lines[j].end = "torn" => BehindCut(j))
    /\ \A i, k \in DOMAIN acked : \A j, l \in DOMAIN lines :
        lines[j].hash = acked[i] /\ lines[l].hash = acked[k] => (i < k <=> j < l)

\* No key is on disk that the chain has no request for: a rotation does not
\* become invisible when the process stops right after it.
RotationVisible ==
    Len(keyring.keys) - 1 <=
        Cardinality({i \in DOMAIN lines : lines[i].event = "requested"})

\* The chain can be scanned, and its head is the one in memory, unless an
\* append has failed or a crash has torn a line.
ChainVerifies ==
    ~ broken => Linked(lines) /\ (status = "up" => head = Scan(lines))

=============================================================================
