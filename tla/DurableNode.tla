---------------------------- MODULE DurableNode ----------------------------
(***************************************************************************)
(* The durability protocol of an UltraCortex node: node.rs, the write path *)
(* of router/mod.rs and the recovery of bootstrap/mod.rs.                  *)
(*                                                                         *)
(* Connection threads (Clients) take a logical time before any lock, then  *)
(* the mutation barrier, and run one WAL/audit transaction: Prepare,       *)
(* audit record, Commit, apply.  A successful request then may write a     *)
(* snapshot named by ITS logical time.  After a crash or an exit the node  *)
(* restores the snapshot the manifest names and replays the frames with a  *)
(* later logical time, sorted by logical time.                             *)
(*                                                                         *)
(* A transaction goes to one shard's WAL stream.  What WalStream shows of  *)
(* a stream is here one step: a frame is appended, or not, or a process    *)
(* that ends or a failed write leaves a fragment of it.  A boot reopens a  *)
(* stream behind its fragment, and a replay stops in front of it.  The     *)
(* cells are kept as the transactions applied to them.                     *)
(***************************************************************************)
EXTENDS Integers, Sequences, FiniteSets

CONSTANTS
    Clients,         \* connection threads
    Shards,          \* the WAL streams
    Verbs,           \* what clients ask for: a subset of Kinds and AdminVerbs
    SnapInterval,    \* AUTO_SNAPSHOT_LOGICAL_INTERVAL
    SnapFrames,      \* AUTO_SNAPSHOT_WAL_BYTES, in frames
    MaxRequests,     \* bound: requests ever received
    MaxCrashes,      \* bound: crashes
    MaxAuditErrors,  \* bound: failed appends to the audit chain
    MaxWalErrors,    \* bound: failed appends to a WAL stream
    MaxSaveErrors    \* bound: failed writes of a snapshot or the manifest

\* The transactions of the model: a fact, a supersession edge between two
\* facts, a timeline event, a scratchpad note, a quarantine absorption, and
\* the curator output that follows a fact.
Kinds == {"fact", "supersede", "event", "note", "absorb"}
AdminVerbs == {"snapshot", "shutdown"}

ASSUME VerbsKnown == Verbs \subseteq Kinds \cup AdminVerbs

ASSUME ShardsExist == Shards # {}

ASSUME NodeBounds ==
    /\ SnapInterval \in Nat \ {0}
    /\ SnapFrames \in Nat
    /\ MaxRequests \in Nat
    /\ MaxCrashes \in Nat
    /\ MaxAuditErrors \in Nat
    /\ MaxWalErrors \in Nat
    /\ MaxSaveErrors \in Nat

Free == "free"
ASSUME FreeIsNoClient == Free \notin Clients

VARIABLES
    status,        \* "up", "down", "recovering", or a boot that failed: on
                   \* the log, "refused", or on a check of it, "unverified"
    clock,         \* LogicalClock
    pc,            \* pc[c]: the step client c is at
    verb,          \* verb[c]: what c's request asks for
    tx,            \* tx[c]: the transaction c is committing
    snapAt,        \* snapAt[c]: the logical time c's snapshot is named by
    captured,      \* captured[c]: the state c captured for a snapshot
    guard,         \* mutation_barrier: its holder, or Free
    autoLock,      \* auto_snapshot_lock: its holder, or Free
    shuttingDown,  \* shutting_down
    mem,           \* the cells
    nodeManifest,  \* Node::manifest, in memory
    watermark,     \* last_snapshot_logical_at
    walFrames,     \* durable_wal_bytes, in frames
    wal,           \* every frame of every shard, in the order appended
    hidden,        \* the frames of wal behind a fragment: no replay reads them
    tail,          \* tail[s]: whether shard s has a fragment, see Tails
    chain,         \* whether the audit chain can be read, see Chains
    audited,       \* the transactions with a record in the audit chain
    snaps,         \* the snapshot files
    manifest,      \* the manifest file
    todo,          \* recovery: the frames still to replay
    prepared,      \* recovery: prepares without a commit yet
    requests,      \* requests received so far; names the next one
    answered,      \* transactions of requests answered with success
    failed,        \* transactions given up with an error before their commit
    faults         \* how much of each fault budget has been used

locks == <<guard, autoLock>>
stream == <<wal, hidden, tail>>
files == <<stream, chain, audited, snaps, manifest>>
recovery == <<todo, prepared>>
history == <<answered, failed>>
policy == <<nodeManifest, watermark, walFrames>>

vars == <<status, clock, pc, verb, tx, snapAt, captured, locks, shuttingDown,
          mem, policy, files, recovery, requests, history, faults>>

FaultKinds == {"crash", "audit", "wal", "save"}
Budget == [k \in FaultKinds |->
             CASE k = "crash" -> MaxCrashes
               [] k = "audit" -> MaxAuditErrors
               [] k = "wal"   -> MaxWalErrors
               [] k = "save"  -> MaxSaveErrors]

Spend(k) ==
    /\ faults[k] < Budget[k]
    /\ faults' = [faults EXCEPT ![k] = @ + 1]

-----------------------------------------------------------------------------
(* The cells, as far as replay tells them apart.                           *)

TxKinds == Kinds \cup {"curate"}

\* id names the payload; old and new are the two facts of an edge; qseq is
\* the sequence number the quarantine id was made from; shard is the stream
\* its handle hashes to.
Tx == [id : Nat, at : Nat, kind : TxKinds, old : Nat, new : Nat, qseq : Nat,
       shard : Shards]

NoTx == [id |-> 0, at |-> 0, kind |-> "note", old |-> 0, new |-> 0, qseq |-> 0,
         shard |-> CHOOSE s \in Shards : TRUE]

EmptyMem == [facts |-> {}, edges |-> {}, timeline |-> <<>>, pad |-> NoTx,
             quarantine |-> {}, nextSeq |-> 0, curated |-> {}]

FactIds(m) == {t.id : t \in m.facts}
Superseded(m) == {t.old : t \in m.edges}

\* The operation succeeds on these cells: FactCell::supersede wants two known
\* facts and an old one not yet superseded, absorb_with_qid a known id or the
\* id made from the next sequence number.
CanApply(m, t) ==
    CASE t.kind = "supersede" -> /\ {t.old, t.new} \subseteq FactIds(m)
                                 /\ t.old \notin Superseded(m)
      [] t.kind = "absorb"    -> t \in m.quarantine \/ t.qseq = m.nextSeq
      [] OTHER                -> TRUE

\* Mutant of Apply: a timeline event is never recorded on replay or live.
ApplyNoEvents(m, t) ==
    CASE t.kind = "fact"      -> [m EXCEPT !.facts = @ \cup {t}]
      [] t.kind = "supersede" -> [m EXCEPT !.edges = @ \cup {t}]
      [] t.kind = "event"     -> m
      [] t.kind = "note"      -> [m EXCEPT !.pad = t]
      [] t.kind = "absorb"    -> [m EXCEPT !.quarantine = @ \cup {t},
                                           !.nextSeq = @ + 1]
      [] t.kind = "curate"    -> [m EXCEPT !.curated = @ \cup {t}]

\* apply_write live and replay_frame on recovery.  A fact is inserted unless
\* its handle exists, an event is always appended, a note overwrites, a known
\* quarantine id is skipped, a curator output is upserted.
Apply(m, t) ==
    CASE t.kind = "fact"      -> [m EXCEPT !.facts = @ \cup {t}]
      [] t.kind = "supersede" -> [m EXCEPT !.edges = @ \cup {t}]
      [] t.kind = "event"     -> [m EXCEPT !.timeline = Append(@, t)]
      [] t.kind = "note"      -> [m EXCEPT !.pad = t]
      [] t.kind = "absorb"    -> IF t \in m.quarantine THEN m
                                 ELSE [m EXCEPT !.quarantine = @ \cup {t},
                                                !.nextSeq = @ + 1]
      [] t.kind = "curate"    -> [m EXCEPT !.curated = @ \cup {t}]

\* The transactions whose effect a reader of these cells can see.
Visible(m) ==
    m.facts \cup m.edges \cup m.quarantine \cup m.curated
    \cup {m.timeline[i] : i \in 1 .. Len(m.timeline)}
    \cup ({m.pad} \ {NoTx})

-----------------------------------------------------------------------------
(* Requests: handle_envelope, handle_write, handle_supersede.              *)

Frame(op, t) == [op |-> op, tx |-> t]

\* A stream is whole, or has a fragment in its last epoch, which a boot takes
\* for a torn tail, or one in an earlier epoch, which no boot accepts.
Tails == {"whole", "torn", "lost"}

\* A batch may fill the epoch of its stream, and the next one is opened.
Rolled(S) ==
    {u \in [Shards -> Tails] : \A s \in Shards :
        u[s] = tail[s] \/ (s \in S /\ tail[s] = "torn" /\ u[s] = "lost")}

\* A frame is written behind whatever its stream holds.
WriteFrame(op, t) ==
    /\ wal' = Append(wal, Frame(op, t))
    /\ hidden' = IF tail[t.shard] = "whole" THEN hidden ELSE hidden \cup {Len(wal) + 1}
    /\ tail' \in Rolled({t.shard})

\* The frame c is appending is written in part.
TearFrame(c) ==
    /\ pc[c] \in {"prepare", "commit"}
    /\ tail[tx[c].shard] = "whole"
    /\ tail' = [tail EXCEPT ![tx[c].shard] = "torn"]
    /\ UNCHANGED <<wal, hidden>>

\* The audit chain can be read to its end; or its end is a record nobody was
\* told of, whole or in part, on which a scan or the next record may fail; or
\* it cannot be read.  Custody tells these apart.
Chains == {"whole", "doubtful", "broken"}

RecordAudit == chain' \in IF chain = "doubtful" THEN {"whole", "broken"} ELSE {chain}
DoubtAudit == chain' \in {chain} \cup (IF chain = "whole" THEN {"doubtful"} ELSE {})

\* serve_stream: the flag is looked at between two requests, before the thread
\* blocks in read_frame.
AwaitFrame(c) ==
    /\ status = "up"
    /\ pc[c] = "idle"
    /\ ~shuttingDown
    /\ pc' = [pc EXCEPT ![c] = "read"]
    /\ UNCHANGED <<status, clock, verb, tx, snapAt, captured, locks, shuttingDown,
                   mem, policy, files, recovery, requests, history, faults>>

\* A request arrives and takes its logical time, before any lock.  Nothing
\* looks at the flag again.
Receive(c, v) ==
    /\ status = "up"
    /\ pc[c] = "read"
    /\ requests < MaxRequests
    /\ requests' = requests + 1
    /\ clock' = clock + 1
    /\ verb' = [verb EXCEPT ![c] = v]
    /\ tx' = [tx EXCEPT ![c] = [NoTx EXCEPT !.id = requests', !.at = clock']]
    /\ snapAt' = [snapAt EXCEPT ![c] = clock']
    /\ pc' = [pc EXCEPT ![c] = CASE v = "snapshot" -> "capture"
                                 [] v = "shutdown" -> "shutdown"
                                 [] OTHER          -> "guard"]
    /\ UNCHANGED <<status, captured, locks, shuttingDown, mem, policy,
                   files, recovery, history, faults>>

\* The barrier is taken and the transaction made: the frame of a supersession
\* names two known facts and the id of an absorption is made from next_seq.
Acquire(c) ==
    /\ status = "up"
    /\ pc[c] = "guard"
    /\ guard = Free
    /\ guard' = c
    /\ \E old, new \in FactIds(mem) \cup {0}, s \in Shards :
          /\ IF verb[c] = "supersede"
             THEN old # new /\ CanApply(mem, [tx[c] EXCEPT !.kind = "supersede",
                                                       !.old = old, !.new = new])
             ELSE old = 0 /\ new = 0
          /\ tx' = [tx EXCEPT ![c] =
                      [@ EXCEPT !.kind = verb[c], !.old = old, !.new = new, !.shard = s,
                                !.qseq = IF verb[c] = "absorb"
                                         THEN mem.nextSeq ELSE 0]]
    /\ pc' = [pc EXCEPT ![c] = "prepare"]
    /\ UNCHANGED <<status, clock, verb, snapAt, captured, autoLock, shuttingDown,
                   mem, policy, files, recovery, requests, history, faults>>

\* A supersession of an unknown or an already superseded fact is an error; a
\* client may always name an unknown one.
Reject(c) ==
    /\ status = "up"
    /\ pc[c] = "guard"
    /\ guard = Free
    /\ verb[c] = "supersede"
    /\ pc' = [pc EXCEPT ![c] = "idle"]
    /\ UNCHANGED <<status, clock, verb, tx, snapAt, captured, locks, shuttingDown,
                   mem, policy, files, recovery, requests, history, faults>>

\* append_wal succeeds: the frame is durable and counts towards a snapshot.
AppendWal(c, op, next) ==
    /\ WriteFrame(op, tx[c])
    /\ walFrames' = walFrames + 1
    /\ pc' = [pc EXCEPT ![c] = next]

\* Mutant of Prepare: the cells change when the transaction is prepared.
PrepareApplying(c) ==
    /\ status = "up"
    /\ pc[c] = "prepare"
    /\ AppendWal(c, "prepare", "audit")
    /\ mem' = Apply(mem, tx[c])
    /\ UNCHANGED <<status, clock, verb, tx, snapAt, captured, locks, shuttingDown,
                   nodeManifest, watermark, chain, audited, snaps, manifest,
                   recovery, requests, history, faults>>

Prepare(c) ==
    /\ status = "up"
    /\ pc[c] = "prepare"
    /\ AppendWal(c, "prepare", "audit")
    /\ UNCHANGED <<status, clock, verb, tx, snapAt, captured, locks, shuttingDown,
                   mem, nodeManifest, watermark, chain, audited, snaps, manifest,
                   recovery, requests, history, faults>>

\* audit_event: the mandatory record is durable before the commit.
Audit(c) ==
    /\ status = "up"
    /\ pc[c] = "audit"
    /\ RecordAudit
    /\ audited' = audited \cup {tx[c]}
    /\ pc' = [pc EXCEPT ![c] = "commit"]
    /\ UNCHANGED <<status, clock, verb, tx, snapAt, captured, locks, shuttingDown,
                   mem, policy, stream, snaps, manifest, recovery, requests,
                   history, faults>>

Commit(c) ==
    /\ status = "up"
    /\ pc[c] = "commit"
    /\ AppendWal(c, "commit", "apply")
    /\ UNCHANGED <<status, clock, verb, tx, snapAt, captured, locks, shuttingDown,
                   mem, nodeManifest, watermark, chain, audited, snaps, manifest,
                   recovery, requests, history, faults>>

\* The request is answered with the error of its transaction, which is given
\* up unless its commit frame was handed to the WAL.
AnswerError(c) ==
    /\ pc' = [pc EXCEPT ![c] = "idle"]
    /\ guard' = Free
    /\ failed' = IF pc[c] = "commit" THEN failed ELSE failed \cup {tx[c]}

\* A failed append of a prepare or commit frame.  The frame may be in the
\* stream all the same: WalStream's failed sync, or failed write that is
\* written again with the next batch.  Or the write failed half-way; what is
\* written next, this frame once more included, is behind the fragment.
AppendFails(c) ==
    /\ status = "up"
    /\ pc[c] \in {"prepare", "commit"}
    /\ Spend("wal")
    /\ \/ UNCHANGED <<wal, hidden>> /\ tail' \in Rolled({tx[c].shard})
       \/ WriteFrame(pc[c], tx[c])
       \/ TearFrame(c)
    /\ AnswerError(c)
    /\ UNCHANGED <<status, clock, verb, tx, snapAt, captured, autoLock,
                   shuttingDown, mem, policy, chain, audited, snaps, manifest,
                   recovery, requests, answered>>

\* Mutant of AuditFails: the record is best effort, the commit goes on.
AuditFailsIgnored(c) ==
    /\ status = "up"
    /\ pc[c] = "audit"
    /\ Spend("audit")
    /\ DoubtAudit
    /\ pc' = [pc EXCEPT ![c] = "commit"]
    /\ UNCHANGED <<status, clock, verb, tx, snapAt, captured, locks, shuttingDown,
                   mem, policy, stream, audited, snaps, manifest, recovery,
                   requests, history>>

\* A failed audit append stops the node for good.
AuditFails(c) ==
    /\ status = "up"
    /\ pc[c] = "audit"
    /\ Spend("audit")
    /\ DoubtAudit
    /\ shuttingDown' = TRUE
    /\ AnswerError(c)
    /\ UNCHANGED <<status, clock, verb, tx, snapAt, captured, autoLock, mem,
                   policy, stream, audited, snaps, manifest, recovery, requests,
                   answered>>

\* The transactions with a commit frame in the WAL.
Committed == {wal[i].tx : i \in {j \in 1 .. Len(wal) : wal[j].op = "commit"}}

\* The request of c is answered with success.
AnswerOk(c) ==
    /\ pc' = [pc EXCEPT ![c] = "idle"]
    /\ answered' = answered \cup {t \in Committed : t.id = tx[c].id}

\* Mutant of ApplyTx: the barrier is still held when maybe_snapshot is called.
ApplyTxHoldingBarrier(c) ==
    /\ status = "up"
    /\ pc[c] = "apply"
    /\ mem' = Apply(mem, tx[c])
    /\ \/ /\ tx[c].kind = "fact"
          /\ pc' = [pc EXCEPT ![c] = "curate"]
          /\ UNCHANGED <<guard, answered>>
       \/ /\ tx[c].kind = "absorb"
          /\ guard' = Free
          /\ AnswerOk(c)
       \/ /\ tx[c].kind \notin {"fact", "absorb"}
          /\ pc' = [pc EXCEPT ![c] = "policy"]
          /\ UNCHANGED <<guard, answered>>
    /\ UNCHANGED <<status, clock, verb, tx, snapAt, captured, autoLock,
                   shuttingDown, policy, files, recovery, requests, failed,
                   faults>>

\* The durable transaction is applied.  A fact is followed by a curation cycle
\* under the same barrier; an absorption answers the request, whose error
\* carries the quarantine id; the others go on to the snapshot policy.
ApplyTx(c) ==
    /\ status = "up"
    /\ pc[c] = "apply"
    /\ mem' = Apply(mem, tx[c])
    /\ \/ /\ tx[c].kind = "fact"
          /\ pc' = [pc EXCEPT ![c] = "curate"]
          /\ UNCHANGED <<guard, answered>>
       \/ /\ tx[c].kind = "absorb"
          /\ guard' = Free
          /\ AnswerOk(c)
       \/ /\ tx[c].kind \notin {"fact", "absorb"}
          /\ guard' = Free
          /\ pc' = [pc EXCEPT ![c] = "policy"]
          /\ UNCHANGED answered
    /\ UNCHANGED <<status, clock, verb, tx, snapAt, captured, autoLock,
                   shuttingDown, policy, files, recovery, requests, failed,
                   faults>>

\* run_curation_cycle takes a logical time of its own and persists its output
\* by the same protocol.
Curate(c) ==
    /\ status = "up"
    /\ pc[c] = "curate"
    /\ clock' = clock + 1
    /\ \E s \in Shards :
          tx' = [tx EXCEPT ![c] = [NoTx EXCEPT !.id = tx[c].id, !.at = clock',
                                               !.kind = "curate", !.shard = s]]
    /\ pc' = [pc EXCEPT ![c] = "prepare"]
    /\ UNCHANGED <<status, verb, snapAt, captured, locks, shuttingDown, mem,
                   policy, files, recovery, requests, history, faults>>

-----------------------------------------------------------------------------
(* Snapshots: maybe_snapshot, write_snapshot_internal, shutdown.           *)

\* at.saturating_sub(watermark) reaches the interval, or enough WAL.
SnapshotDue(at) ==
    \/ walFrames >= SnapFrames
    \/ at - watermark >= SnapInterval

\* maybe_snapshot: under auto_snapshot_lock, held until the snapshot is done.
MaybeSnapshot(c) ==
    /\ status = "up"
    /\ pc[c] = "policy"
    /\ autoLock = Free
    /\ \/ /\ SnapshotDue(snapAt[c])
          /\ autoLock' = c
          /\ pc' = [pc EXCEPT ![c] = "capture"]
          /\ UNCHANGED answered
       \/ /\ ~SnapshotDue(snapAt[c])
          /\ AnswerOk(c)
          /\ UNCHANGED autoLock
    /\ UNCHANGED <<status, clock, verb, tx, snapAt, captured, guard, shuttingDown,
                   mem, policy, files, recovery, requests, failed, faults>>

\* The admin verb shutdown: Node::shutdown raises the flag first and names
\* its snapshot by the logical time of that moment.
BeginShutdown(c) ==
    /\ status = "up"
    /\ pc[c] = "shutdown"
    /\ shuttingDown' = TRUE
    /\ snapAt' = [snapAt EXCEPT ![c] = clock]
    /\ pc' = [pc EXCEPT ![c] = "capture"]
    /\ UNCHANGED <<status, clock, verb, tx, captured, locks, mem, policy, files,
                   recovery, requests, history, faults>>

\* snapshot_all: every cell is captured under the mutation barrier.
Capture(c) ==
    /\ status = "up"
    /\ pc[c] = "capture"
    /\ guard = Free
    /\ captured' = [captured EXCEPT ![c] = mem]
    /\ pc' = [pc EXCEPT ![c] = "file"]
    /\ UNCHANGED <<status, clock, verb, tx, snapAt, locks, shuttingDown, mem,
                   policy, files, recovery, requests, history, faults>>

\* A snapshot file: its name is made from the logical time and the content.
Snapshot(c) == [at |-> snapAt[c], mem |-> captured[c]]

\* Mutant of WriteSnapshot: the file is left to be written later.
WriteSnapshotLater(c) ==
    /\ status = "up"
    /\ pc[c] = "file"
    /\ pc' = [pc EXCEPT ![c] = "manifest"]
    /\ UNCHANGED <<status, clock, verb, tx, snapAt, captured, locks, shuttingDown,
                   mem, policy, files, recovery, requests, history, faults>>

\* SnapshotStore::write: atomic_write of a whole file.
WriteSnapshot(c) ==
    /\ status = "up"
    /\ pc[c] = "file"
    /\ snaps' = snaps \cup {Snapshot(c)}
    /\ pc' = [pc EXCEPT ![c] = "manifest"]
    /\ UNCHANGED <<status, clock, verb, tx, snapAt, captured, locks, shuttingDown,
                   mem, policy, stream, chain, audited, manifest, recovery,
                   requests, history, faults>>

\* The manifest in memory names the snapshot just written.
NameSnapshot(c) ==
    nodeManifest' = [nodeManifest EXCEPT !.at = snapAt[c], !.snap = Snapshot(c)]

\* The manifest is saved, and the policy starts again from it.
SaveManifest(c) ==
    /\ status = "up"
    /\ pc[c] = "manifest"
    /\ NameSnapshot(c)
    /\ manifest' = nodeManifest'
    /\ watermark' = snapAt[c]
    /\ walFrames' = 0
    /\ pc' = [pc EXCEPT ![c] = "report"]
    /\ UNCHANGED <<status, clock, verb, tx, snapAt, captured, locks, shuttingDown,
                   mem, stream, chain, audited, snaps, recovery, requests,
                   history, faults>>

ReleaseAuto(c) == autoLock' = IF autoLock = c THEN Free ELSE autoLock

\* The audit event snapshot.completed, then the answer; a shutdown goes on.
Report(c) ==
    /\ status = "up"
    /\ pc[c] = "report"
    /\ RecordAudit
    /\ ReleaseAuto(c)
    /\ IF verb[c] = "shutdown"
       THEN pc' = [pc EXCEPT ![c] = "clean"] /\ UNCHANGED answered
       ELSE AnswerOk(c)
    /\ UNCHANGED <<status, clock, verb, tx, snapAt, captured, guard, shuttingDown,
                   mem, policy, stream, audited, snaps, manifest, recovery,
                   requests, failed, faults>>

\* That audit event fails: the node stops, and a request whose transaction
\* is durable is answered with an error.
ReportFails(c) ==
    /\ status = "up"
    /\ pc[c] = "report"
    /\ Spend("audit")
    /\ DoubtAudit
    /\ shuttingDown' = TRUE
    /\ ReleaseAuto(c)
    /\ pc' = [pc EXCEPT ![c] = "idle"]
    /\ UNCHANGED <<status, clock, verb, tx, snapAt, captured, guard, mem, policy,
                   stream, audited, snaps, manifest, recovery, requests, history>>

\* The last change of shutdown: manifest(clean = true).
MarkClean(c) ==
    nodeManifest' = [nodeManifest EXCEPT !.at = snapAt[c], !.clean = TRUE]

\* The WAL streams are synced, which may roll a full one, and the clean
\* manifest is saved.
CleanManifest(c) ==
    /\ status = "up"
    /\ pc[c] = "clean"
    /\ tail' \in Rolled(Shards)
    /\ MarkClean(c)
    /\ manifest' = nodeManifest'
    /\ AnswerOk(c)
    /\ UNCHANGED <<status, clock, verb, tx, snapAt, captured, locks, shuttingDown,
                   mem, watermark, walFrames, wal, hidden, chain, audited, snaps,
                   recovery, requests, failed, faults>>

\* The snapshot file is not written, or the manifest is not saved although
\* the one in memory has changed, or a stream is not synced at shutdown.  The
\* request is answered with the error; its transaction is durable.
SaveFails(c) ==
    /\ status = "up"
    /\ Spend("save")
    /\ \/ pc[c] = "file" /\ UNCHANGED <<nodeManifest, tail>>
       \/ pc[c] = "manifest" /\ NameSnapshot(c) /\ UNCHANGED tail
       \/ pc[c] = "clean" /\ (MarkClean(c) \/ UNCHANGED nodeManifest)
                          /\ tail' \in Rolled(Shards)
    /\ ReleaseAuto(c)
    /\ pc' = [pc EXCEPT ![c] = "idle"]
    /\ UNCHANGED <<status, clock, verb, tx, snapAt, captured, guard, shuttingDown,
                   mem, watermark, walFrames, wal, hidden, chain, audited, snaps,
                   manifest, recovery, requests, history>>

-----------------------------------------------------------------------------
(* The process ends, and the node boots again.                             *)

NoSnapshot == [at |-> 0, mem |-> EmptyMem]

FreshManifest == [at |-> 0, snap |-> NoSnapshot, clean |-> FALSE]

\* Everything but the files is gone.  A frame or an audit record that is just
\* being written may be there in part.
ProcessEnds ==
    /\ status' = "down"
    /\ pc' = [c \in Clients |-> "idle"]
    /\ guard' = Free
    /\ autoLock' = Free
    /\ UNCHANGED stream \/ \E c \in Clients : TearFrame(c)
    /\ IF status = "recovering" \/ \E c \in Clients : pc[c] \in {"audit", "report"}
       THEN DoubtAudit
       ELSE UNCHANGED chain
    /\ UNCHANGED <<clock, verb, tx, snapAt, captured, shuttingDown, mem, policy,
                   audited, snaps, manifest, requests, answered, failed>>

Crash ==
    /\ status \in {"up", "recovering"}
    /\ Spend("crash")
    /\ ProcessEnds
    /\ todo' = {}
    /\ prepared' = {}

\* run() returns once it sees the flag: it joins the listeners, not the
\* connection threads, so a request may be cut off at any step.
Exit ==
    /\ status = "up"
    /\ shuttingDown
    /\ ProcessEnds
    /\ UNCHANGED <<recovery, faults>>

\* Node::open fails on an audit chain it cannot read, and the replay on a
\* fragment before the last epoch of a stream.
BootOutcome ==
    \/ chain # "whole" /\ status' = "unverified"
    \/ chain # "broken" /\ status' = IF \E s \in Shards : tail[s] = "lost"
                                     THEN "refused" ELSE "recovering"

\* Mutant of RecoverBegin: the frame at the snapshot's own logical time is
\* replayed as well (< where the code has <=).
RecoverBeginInclusive ==
    /\ status = "down"
    /\ BootOutcome
    /\ clock' = 0
    /\ shuttingDown' = FALSE
    /\ nodeManifest' = FreshManifest
    /\ watermark' = 0
    /\ walFrames' = 0
    /\ mem' = manifest.snap.mem
    /\ todo' = {i \in (1 .. Len(wal)) \ hidden : wal[i].tx.at >= manifest.snap.at}
    /\ prepared' = {}
    /\ UNCHANGED <<pc, verb, tx, snapAt, captured, locks, files, requests,
                   history, faults>>

\* Node::open, then recover: the snapshot the manifest names is restored (see
\* ManifestNamesSnapshot) and the frames after it that can be read are
\* collected.  Node::open makes a fresh manifest in memory, and boot leaves it
\* there.
RecoverBegin ==
    /\ status = "down"
    /\ BootOutcome
    /\ clock' = 0
    /\ shuttingDown' = FALSE
    /\ nodeManifest' = FreshManifest
    /\ watermark' = 0
    /\ walFrames' = 0
    /\ mem' = manifest.snap.mem
    /\ todo' = {i \in (1 .. Len(wal)) \ hidden : wal[i].tx.at > manifest.snap.at}
    /\ prepared' = {}
    /\ UNCHANGED <<pc, verb, tx, snapAt, captured, locks, files, requests,
                   history, faults>>

CellOf(t) == CASE t.kind \in {"fact", "supersede"} -> 2
               [] t.kind = "event"                 -> 3
               [] t.kind = "note"                  -> 4
               [] t.kind = "absorb"                -> 26
               [] t.kind = "curate"                -> 30

OpOf(f) == IF f.op = "prepare" THEN 10 ELSE 11

\* The order of the replay: logical time, cell, operation, and the order of
\* the streams for the rest (a stable sort).
ReplaysBefore(i, j) ==
    LET f == wal[i]  g == wal[j] IN
    \/ f.tx.at < g.tx.at
    \/ f.tx.at = g.tx.at /\ CellOf(f.tx) < CellOf(g.tx)
    \/ f.tx.at = g.tx.at /\ CellOf(f.tx) = CellOf(g.tx) /\ OpOf(f) < OpOf(g)
    \/ f.tx.at = g.tx.at /\ CellOf(f.tx) = CellOf(g.tx) /\ OpOf(f) = OpOf(g) /\ i < j

AdvanceTo(t) == clock' = IF clock < t THEN t ELSE clock

\* Mutant of ReplayFrame: a prepare is applied without waiting for its commit.
ReplayFrameOnPrepare(i) ==
    /\ status = "recovering"
    /\ i \in todo
    /\ \A j \in todo \ {i} : ReplaysBefore(i, j)
    /\ todo' = todo \ {i}
    /\ LET t == wal[i].tx IN
         IF wal[i].op = "prepare" /\ CanApply(mem, t)
         THEN mem' = Apply(mem, t) /\ AdvanceTo(t.at)
         ELSE UNCHANGED <<clock, mem>>
    /\ UNCHANGED <<status, pc, verb, tx, snapAt, captured, locks, shuttingDown,
                   policy, files, prepared, requests, history, faults>>

\* One turn of replay_stream.  A prepare is kept; a commit applies the prepare
\* it belongs to.  A commit without one, or an operation the cell rejects,
\* fails the boot.
ReplayFrame(i) ==
    /\ status = "recovering"
    /\ i \in todo
    /\ \A j \in todo \ {i} : ReplaysBefore(i, j)
    /\ todo' = todo \ {i}
    /\ LET t == wal[i].tx IN
       \/ /\ wal[i].op = "prepare"
          /\ prepared' = prepared \cup {t}
          /\ UNCHANGED <<status, clock, mem>>
       \/ /\ wal[i].op = "commit"
          /\ t \in prepared
          /\ CanApply(mem, t)
          /\ mem' = Apply(mem, t)
          /\ prepared' = prepared \ {t}
          /\ AdvanceTo(t.at)
          /\ UNCHANGED status
       \/ /\ wal[i].op = "commit"
          /\ ~(t \in prepared /\ CanApply(mem, t))
          /\ status' = "refused"
          /\ UNCHANGED <<clock, mem, prepared>>
    /\ UNCHANGED <<pc, verb, tx, snapAt, captured, locks, shuttingDown, policy,
                   files, requests, history, faults>>

\* The checks before the node serves: the audit chain, and the signatures of
\* the curators' ledger, which may have a full batch once a curator output is
\* committed (Curation says when a batch lacks its signature).
MayFailChecks == chain # "whole" \/ \E t \in Committed : t.kind = "curate"

\* The audit record node.boot.  A boot that cannot write it ends there, and may
\* be tried again.
BootRecorded == RecordAudit /\ status' = "up" /\ UNCHANGED faults
BootRecordFails == DoubtAudit /\ status' = "down" /\ Spend("audit")

\* Mutant of RecoverEnd: the clock is not advanced to the manifest's time.
RecoverEndNoAdvance ==
    /\ status = "recovering"
    /\ todo = {}
    /\ BootRecorded
    /\ prepared' = {}
    /\ UNCHANGED <<clock, pc, verb, tx, snapAt, captured, locks, shuttingDown,
                   mem, policy, stream, audited, snaps, manifest, todo, requests,
                   history>>

\* Mutant of RecoverEnd: the boot waits for the commit of every prepare.
RecoverEndAwaitingCommits ==
    /\ status = "recovering"
    /\ todo = {}
    /\ prepared = {}
    /\ AdvanceTo(manifest.at)
    /\ BootRecorded
    /\ UNCHANGED <<pc, verb, tx, snapAt, captured, locks, shuttingDown, mem,
                   policy, stream, audited, snaps, manifest, recovery, requests,
                   history>>

\* The clock is at least the manifest's; prepares without commit are dropped.
\* The boot is refused by a check, or recorded and the node serves.
RecoverEnd ==
    /\ status = "recovering"
    /\ todo = {}
    /\ AdvanceTo(manifest.at)
    /\ prepared' = {}
    /\ \/ MayFailChecks /\ status' = "unverified" /\ UNCHANGED <<chain, faults>>
       \/ chain # "broken" /\ (BootRecorded \/ BootRecordFails)
    /\ UNCHANGED <<pc, verb, tx, snapAt, captured, locks, shuttingDown, mem,
                   policy, stream, audited, snaps, manifest, todo, requests,
                   history>>

-----------------------------------------------------------------------------
Init ==
    /\ status = "up"
    /\ clock = 0
    /\ pc = [c \in Clients |-> "idle"]
    /\ verb = [c \in Clients |-> "note"]
    /\ tx = [c \in Clients |-> NoTx]
    /\ snapAt = [c \in Clients |-> 0]
    /\ captured = [c \in Clients |-> EmptyMem]
    /\ guard = Free
    /\ autoLock = Free
    /\ shuttingDown = FALSE
    /\ mem = EmptyMem
    /\ nodeManifest = FreshManifest
    /\ watermark = 0
    /\ walFrames = 0
    /\ wal = <<>>
    /\ hidden = {}
    /\ tail = [s \in Shards |-> "whole"]
    /\ chain = "whole"
    /\ audited = {}
    /\ snaps = {}
    /\ manifest = FreshManifest
    /\ todo = {}
    /\ prepared = {}
    /\ requests = 0
    /\ answered = {}
    /\ failed = {}
    /\ faults = [k \in FaultKinds |-> 0]

\* What the thread of client c does on its own.
ClientStep(c) ==
    \/ Acquire(c)
    \/ Reject(c)
    \/ Prepare(c)
    \/ Audit(c)
    \/ Commit(c)
    \/ AppendFails(c)
    \/ AuditFails(c)
    \/ ApplyTx(c)
    \/ Curate(c)
    \/ MaybeSnapshot(c)
    \/ BeginShutdown(c)
    \/ Capture(c)
    \/ WriteSnapshot(c)
    \/ SaveManifest(c)
    \/ Report(c)
    \/ ReportFails(c)
    \/ CleanManifest(c)
    \/ SaveFails(c)

RecoveryStep ==
    \/ RecoverBegin
    \/ \E i \in 1 .. Len(wal) : ReplayFrame(i)
    \/ RecoverEnd

Next ==
    \/ \E c \in Clients : AwaitFrame(c)
    \/ \E c \in Clients, v \in Verbs : Receive(c, v)
    \/ \E c \in Clients : ClientStep(c)
    \/ Crash
    \/ Exit
    \/ RecoveryStep

\* Connection threads and the boot are scheduled; nothing forces a request, a
\* crash or an exit.  A thread that waits for a lock gets it once the others
\* leave it free: with finitely many requests weak fairness says no more.
Fairness ==
    /\ \A c \in Clients : WF_vars(ClientStep(c))
    /\ WF_vars(RecoveryStep)

Spec == Init /\ [][Next]_vars

FairSpec == Spec /\ Fairness

-----------------------------------------------------------------------------
(* Properties.                                                             *)

Mem == [facts : SUBSET Tx, edges : SUBSET Tx, timeline : Seq(Tx), pad : Tx,
        quarantine : SUBSET Tx, nextSeq : Nat, curated : SUBSET Tx]
WalFrame == [op : {"prepare", "commit"}, tx : Tx]
SnapshotFile == [at : Nat, mem : Mem]
Manifest == [at : Nat, snap : SnapshotFile, clean : BOOLEAN]
ClientPc == {"idle", "read", "guard", "prepare", "audit", "commit", "apply",
             "curate", "policy", "shutdown", "capture", "file", "manifest",
             "report", "clean"}

\* Every variable has its type (the fields of Node, node.rs:214-245), and the
\* threads on their way to the barrier ask for a mutation.
TypeOK ==
    /\ status \in {"up", "down", "recovering", "refused", "unverified"}
    /\ clock \in Nat
    /\ pc \in [Clients -> ClientPc]
    /\ verb \in [Clients -> Kinds \cup AdminVerbs]
    /\ \A c \in Clients : pc[c] = "guard" => verb[c] \in Kinds
    /\ tx \in [Clients -> Tx]
    /\ snapAt \in [Clients -> Nat]
    /\ captured \in [Clients -> Mem]
    /\ guard \in Clients \cup {Free}
    /\ autoLock \in Clients \cup {Free}
    /\ shuttingDown \in BOOLEAN
    /\ mem \in Mem
    /\ nodeManifest \in Manifest
    /\ watermark \in Nat
    /\ walFrames \in Nat
    /\ wal \in Seq(WalFrame)
    /\ hidden \subseteq Nat
    /\ tail \in [Shards -> Tails]
    /\ chain \in Chains
    /\ audited \subseteq Tx
    /\ snaps \subseteq SnapshotFile
    /\ manifest \in Manifest
    /\ todo \subseteq Nat
    /\ prepared \subseteq Tx
    /\ requests \in Nat
    /\ answered \subseteq Tx
    /\ failed \subseteq Tx
    /\ faults \in [FaultKinds -> Nat]

\* Every state-changing frame that recovery would apply was audited first: no
\* interleaving of requests, failure of the chain or crash leaves a committed
\* transaction without its mandatory record (node.rs:456-458, 704-705).
CommittedIsAudited == Committed \subseteq audited

\* What a reader can see, live, after any recovery, or in any snapshot file, is
\* the effect of committed transactions only: state never runs ahead of the
\* log (router/mod.rs:290-322, node.rs:704-705, "durable before the associated
\* state transition becomes visible").
VisibleIsCommitted ==
    /\ Visible(mem) \subseteq Committed
    /\ \A s \in snaps : Visible(s.mem) \subseteq Committed

\* A transaction answered with an error because its prepare frame or its audit
\* record could not be appended has no effect, live or after a recovery, even
\* where its prepare frame is in the WAL: "a later required audit cannot turn
\* into a client-visible failure followed by a replayed mutation"
\* (node.rs:469-472).
FailedNeverVisible == failed \cap Visible(mem) = {}

\* The steps of a transaction that run under the mutation barrier.
InTransaction == {"prepare", "audit", "commit", "apply", "curate"}

\* Exactly the thread inside a transaction holds the barrier, so no two of them
\* interleave between Prepare and apply, and the thread that goes on to
\* maybe_snapshot, which takes the barrier again, does not hold it
\* (Router::handle, router/mod.rs:61-65, node.rs:532-534, 577-579).
BarrierHeldInTransaction ==
    \A c \in Clients : pc[c] \in InTransaction <=> guard = c

\* A boot that starts now finds the snapshot file the manifest names
\* (snapshots.write before manifest.save, node.rs:774-788).
ManifestNamesSnapshot == manifest.snap \in snaps \cup {NoSnapshot}

\* Every write answered with success is there whenever the node is up, whatever
\* crashes and restarts happened in between (notes apart, which are overwritten):
\* "torn tail is normal after a crash; corruption *before* the tail is not"
\* (wal.rs:375-377).  A request that a later one has overtaken refutes it, and
\* so does a write to a stream that was reopened behind a fragment.
AnsweredIsVisible ==
    status = "up" => {t \in answered : t.kind # "note"} \subseteq Visible(mem)

\* The commit frame of t is behind a fragment.
Hidden(t) == \E i \in hidden : wal[i] = Frame("commit", t)

\* What one connection at a time can rely on: whatever failed appends, failed
\* saves, crashes, fragments, snapshots and restarts there are, the only
\* answered writes that a node which is up can lack are those whose commit was
\* written behind a fragment (latest_epoch_state, wal.rs:233; replay_file,
\* wal.rs:420-446) and overwritten notes.
AnsweredUnlessHidden ==
    status = "up" =>
        \A t \in answered : t.kind = "note" \/ t \in Visible(mem) \/ Hidden(t)

\* No frame was appended behind a fragment, and no epoch was closed over one.
NothingHidden == hidden = {} /\ \A s \in Shards : tail[s] # "lost"

\* Recovery never fails on a log the node itself has written as long as no
\* append to it has failed and nothing is hidden in it: a fragment at the end
\* of any stream, left by any crash, does not stop a boot.
RecoveryAccepted == faults["wal"] = 0 /\ NothingHidden => status # "refused"

\* The committed transactions of one kind, in the order they were committed.
CommitOrder(k) ==
    LET made[n \in 0 .. Len(wal)] ==
            IF n = 0 THEN <<>>
            ELSE IF wal[n].op = "commit" /\ wal[n].tx.kind = k
                 THEN Append(made[n - 1], wal[n].tx)
                 ELSE made[n - 1]
    IN  made[Len(wal)]

\* Whenever the node is up, no append has failed, nothing in the log is hidden
\* and no commit waits for its apply, the timeline and the scratchpad are what
\* the commits made, in the order the live node applied them: a restart is not
\* observable ("byte-identical replay trivially true", router/mod.rs:21-22).
MemMatchesLog ==
    /\ status = "up"
    /\ faults["wal"] = 0
    /\ NothingHidden
    /\ \A c \in Clients : pc[c] # "apply"
    =>
        /\ mem.timeline = CommitOrder("event")
        /\ LET notes == CommitOrder("note") IN
             mem.pad = IF notes = <<>> THEN NoTx ELSE notes[Len(notes)]
        /\ Committed = Visible(mem) \cup {t \in Committed : t.kind = "note"}

\* Every request is answered or ends with the process: nobody waits for ever
\* for the barrier or for auto_snapshot_lock.
EveryRequestReturns ==
    \A c \in Clients : pc[c] \notin {"idle", "read"} ~> pc[c] = "idle"

\* Every boot ends: the node serves, refuses, or crashes again.
EveryBootEnds ==
    status = "recovering" ~> status \in {"up", "refused", "unverified", "down"}

=============================================================================
