# UltraCortex in TLA+

UltraCortex is a single Rust binary that keeps the shared memory of a group of
agents: requests arrive over a socket, change cells, and are logged, audited,
snapshotted and recovered. This directory models the parts whose correctness
depends on the order of steps and on what fails between them. Line numbers refer
to the repository's sources; `PROJECT.json` maps every definition to its lines.

## 1. Inventory

| Part | State | Operations | Hard behaviour | Correct when |
|---|---|---|---|---|
| WAL stream (`persist/wal.rs`) | epoch files, flusher's buffer, offset, pending acks | append, sync, shutdown, flusher loop, rollover, open, replay_dir | group commit between threads; failed write, sync, open; torn tail | an acknowledged frame is durable and replayable; every call returns |
| Node (`node.rs`) | mutation barrier, auto_snapshot_lock, manifest, watermark, all cells | durable transaction, maybe_snapshot, write_snapshot, shutdown | crash between prepare, audit, commit and apply; barrier against snapshot; shutdown racing the exit | nothing visible that is not committed and audited; snapshots are one instant |
| Router (`router/mod.rs`) | logical clock, cells, gates | write, supersede, recall, view, subscribe, dispute, curation | logical time taken before the barrier | answered writes survive; errors leave nothing behind |
| Recovery and operator plane (`bootstrap/mod.rs`) | frames to replay, prepares | boot, recover, replay_stream, replay_frame, replay_admin_op, admin_dispatch | merge of the streams, boundary at the snapshot | the recovered cells are the ones the live node had; no boot is refused |
| Manifest, snapshots, CAS, keys, view cache (`persist/mod.rs`) | files written by rename, keyring, cache index and byte counts | save, load, write, put, rotate, seal, evict, invalidate | crash or disk error between two files | the manifest names an existing snapshot; what is sealed stays readable; no stale view |
| Trinity budgets and quarantine (`trinity/*.rs`) | budgets, items | five-step chain, reserve and charge, absorb, reinject | reservation released on every path; reinjection is two transactions | reserved covers what runs; nothing is driven twice |
| Trinity rules (`trinity/cells.rs`) | contracts, anchors, decisions, vocabulary, gaps | migrations, decisions, accepted deltas, gap accounting | validated live in one order, replayed in another; changes that are not logged | what an operator was told is in force; a boot is not refused |
| Curators (`curator/*.rs`) | outputs with status, judgments, adjudications, ledger, calibration | cycle, flag, adjudicate, resolve, probe, batch signing | a cycle is a row of transactions that can be cut anywhere | nothing is active unreviewed; the ledger survives as it was |
| Coordination and events (`cells/coord.rs`, `router/events.rs`) | registry, subscriptions, ring, pending deliveries | publish, drain_for, since_for, subscribe | ring eviction against slow readers; subscription racing publication | no event twice or out of order; acknowledged subscriptions last |
| Reading (`cells/memory.rs`, `cells/index.rs`, `router/view.rs`) | facts, timeline, indexes | insert, supersede, recall, render | indexes and cache against facts, across restarts | no superseded fact is served; recall finds what is active |
| Audit chain (`obs.rs`) | chain file, head | append, scan | partial line at a crash, failed sync | each record follows the one before; acknowledged ones stay |
| Connections (`proto/mod.rs`) | one thread per connection | handshake, serve_stream | threads outlive `run` | every request is answered or ends with the process |
| Codecs, cryptography, TOML, CLI, DeepSeek text | none | pure functions | – | not modelled |

A connection thread calls the router, which takes a logical time, then the
mutation barrier, then runs the node's transaction. The transaction appends to a
WAL stream (a channel to the flusher thread, and a blocking wait), to the audit
chain, and to the WAL stream again, and only then changes the cells. A successful
write is followed by a curation cycle, and perhaps by a snapshot. All of these
meet again at boot, where the manifest, a snapshot and the streams rebuild the
cells.

## 2. Modules

| Module | Models |
|---|---|
| `StableLog` | what a WAL stream promises its callers |
| `WalStream`, `WalStreamProofs`, `MCWalStream` | `persist/wal.rs` and the file system under it; theorems, among them that it implements `StableLog`; instances |
| `DurableNode`, `DurableNodeProofs`, `MCDurableNode` | the transaction, snapshot and shutdown of `node.rs`, the write path of `router/mod.rs`, recovery in `bootstrap/mod.rs`, manifest and snapshots of `persist/mod.rs`, connection threads of `proto/mod.rs` |
| `TrinityWrite`, `TrinityWriteProofs`, `MCTrinityWrite` | `trinity/chain.rs`, the budgets and the quarantine of `trinity/cells.rs`, the governed write and supersede paths of `router/mod.rs`, reinject and reject of `bootstrap/mod.rs` |
| `Governance`, `GovernanceProofs`, `MCGovernance` | the other cells of `trinity/cells.rs`: what the chain decides and how operators and the embedding program change it |
| `Ledger` | `curator/ledger.rs` as operators on a ledger |
| `Curation`, `CurationProofs`, `MCCuration` | the curation cycle over librarian, warden, adjudicator, guardrails and `Ledger` |
| `Coordination`, `CoordinationProofs`, `MCCoordination` | registry and subscriptions of `cells/coord.rs`, `router/events.rs`, token checks |
| `ReadPath`, `ReadPathProofs`, `MCReadPath` | facts, timeline and indexes, recall, views, the view cache |
| `Custody`, `CustodyProofs`, `MCCustody` | keyring, sealed files, audit chain, key rotation, checks of a boot |

The modules share the abstraction that a durable transaction is one step. It is
`DurableNode`'s to show what the step consists of and `WalStream`'s what an
append is. A snapshot keeps of each cell what its `snapshot_state` keeps
(`Captured` and the `...State` operators). Where a cell checks what it replays, its
module also has a commit that
failed for the caller and was kept by the log ("kept"), which `DurableNode` shows
to be possible.

### WalStream

A file is a sequence of entries: whole frames, or `Torn` for bytes that
`read_frame` rejects. `disk[e]` is epoch file `e`, `synced[e]` how much of it is
known durable. Writers are blocked in `send` (channel full) or in `wait` (no
acknowledgement yet). The flusher's program counter follows `flusher_loop`:
`Recv`, `Gather`/`GatherEnd` (the group-commit window), `Write`/`WriteFail`,
`Sync`/`SyncFail`, one `Ack` per waiter, then `KeepEpoch`, `Roll` or `RollFail`,
and `Close`. A failed write leaves any prefix of the buffer, perhaps with a
fragment, in the file, and leaves buffer and offset as they were, as in the code.
`Crash` keeps every synced entry and any prefix of the rest, perhaps torn, of
every epoch file and of a write under way. `Reopen` takes the file's length as
the offset, whatever the file ends with. `Replayed` is what `replay_dir` returns.

Offsets count entries, not bytes; `CRC` and the frame layout are the difference
between a frame and `Torn`. Each frame is appended once, so a frame in two places
is a duplicate.

### DurableNode

Each client is a connection thread. `Receive` takes the logical time before any
lock, as `handle_envelope` does; `Acquire` takes the barrier and fixes the
transaction; `Prepare`, `Audit`, `Commit` and `ApplyTx` are the steps of
`durable_transaction_with_audits` and its caller. A fact is followed by a
curation cycle, a second transaction under the same barrier (`Curate`).
`MaybeSnapshot` to `Report` are the snapshot path, `BeginShutdown` to
`CleanManifest` the shutdown. `AppendFails`, `AuditFails`, `ReportFails` and
`SaveFails` are the error returns. `Crash` and `Exit` end the process; `Exit` may
cut a request at any step because `run` joins the listeners only.
`RecoverBegin`, `ReplayFrame` in the order of `ReplaysBefore`, and `RecoverEnd`
are the boot. It fails where the code's does: on an audit chain it cannot read
(`BootOutcome`), on a stream with a fragment in a closed epoch, on a frame the cells
reject ("refused"), on the checks before the node serves and on the record of the
boot (`MayFailChecks`, `BootRecordFails`). `failed` has the transactions whose request was answered with an
error before its commit frame was handed to the WAL; what a failed append of the
commit frame itself leaves is section 4.

The cells are kept as what replay tells apart: a fact is inserted once, a
supersession checks its two facts, a timeline event is always appended, a
scratchpad note overwrites, a quarantine absorption checks its sequence number, a
curator output is upserted.

`wal` is every frame of every shard in append order. What `WalStream` shows of one
stream is here a step: a frame is appended and durable, or a failed append leaves it
out, leaves it in or leaves a fragment, and a crash may leave a fragment of the frame
that is being written (`TearFrame`). `tail[s]` says whether shard `s` is whole, has a
fragment in its last epoch ("torn") or in one that was closed ("lost"; `Rolled` lets
any batch or sync fill the epoch). A boot reopens a torn stream as it is
(`wal.rs:233`), so a frame that is written next is `hidden`: no replay reaches it. A
lost stream refuses every boot (`wal.rs:407-413`). `chain` is what a boot can expect of
the audit chain: "doubtful" after an append that failed or was cut, when the scan or
the next record may find it broken. `Custody` says exactly when; here either may
happen. In the same way any boot may fail the ledger's check once a curator output
is committed, and `Curation` says exactly when one does.

Simplified are three things. A frame that is written twice after a failed write is
once in `wal` (`WalStream` shows the duplicate; a boot refuses a second commit of a
transaction, and `RecoveryAccepted` holds until an append fails only). Frames that
were appended in an error without a sync count as written, though a power loss could
still take them. The self-test a boot runs writes through the same path and is a
client like any other.

### TrinityWrite

Each agent is a connection thread, of an agent or of an operator. A request takes
the barrier (`Enter`), passes or fails the chain (`ChainAccepts`, `ChainRejects`,
`AbsorbFails`), may be judged by the curators (`GovernAccepts` to `Unwind`, one
action per kind of return of `handle_gate_dispute`), and is stored, refused or
fails (`Unsupported`, `BadSupersedes`, `Store`, `StoreFails`). `ReserveEdge` and
`SettleEdge` are `handle_supersede`, `Read` is `charge_read`, `Curate` and
`CurateEnds` the curation cycle as far as it spends. An operator's `Reinject`
commits the transition under the barrier and drives the payload through the same
path afterwards, as task `admin.reinject`; `Reject` only commits.

A budget has the three counters of the code; `Available` and `Settled` saturate as
the code does. A durable transaction is one step that succeeds or fails, the atomic
effect `DurableNode` is about. Quarantine items survive a crash, budgets come back
as the last snapshot has them (`Snapshot`, `Crash`). What the contract, anchor,
decision and congruence cells and the curators' models say of a payload is a
choice (`Governance` and `Curation` have the rules). All curators share one task, the worst case for their budget. `work` and
`drives` record what was done and are no state of the program.

### StableLog

A frame is asked for, settles, and is returned. `WalStream` implements it with
`asked` as the frames whose append has begun, `stable` as those in the synced part
of an epoch file, `returned` as those acknowledged. Faults, crashes and reopenings
are stuttering steps or settle frames nobody waits for.

### Governance

A verb takes its time in `BeginVerb` and the barrier in `CommitVerb`,
`RefuseVerb` or `Snapshot`; its arguments matter under the barrier only and are
chosen there. `Validated` is what `admin_dispatch` checks, `Effect` what it
changes, `ReplayAdminOp` what recovery does with the frame, and `Refusal` the
first step of the chain that refuses a write. `Due` are the frames after the
snapshot's time, `ByTime` the order recovery replays them in, `Replaying` the cells
after so many of them. `HostRegister`, `HostDecide`,
`HostSupersede` and `HostTransition` are public methods of the cells that the
shipped verbs do not reach and an embedding program would; they are not logged.
`OnDispatch` counts the requests that name a gap; `counted` is what it let
through since the gap's last transition, as far as this life and the snapshot it
started from know. A behaviour has one of several sets of bounds (`Limits`), so that
each trouble gets room without the product of all of them.

### Ledger and Curation

`Ledger` has no state of its own: `ApplyRecord`, `ReplayRecord`, `Restored` and
`VerifyBatches` are functions of a ledger, its records numbered from 0 and its
signatures the records they cover. `Curation` walks `run_curation_cycle` one
transaction at a time: `EmitOutput`, `Audit`, `Publish` or `RaiseFlag`,
`SanityCheck`, `Concede` or `Adjudicate` and `Settle`, each followed by its ledger
record (`...Check`), with the probe and the degraded path. `CycleFails` is any
early return on an error, `Crash` stops anywhere, and recovery is `Restore`,
`ReplayTx`, `ReplayCheck` and `BootEnds`. What the built-in rules decide is
computed from the facts (`Decided`, `Verdicts`, `Resolutions`); an external model
may say anything (`External`). An output, its judgment and its adjudication share
the number of the write, as their handles share its time and seed.

### Coordination

A request's token check, its barrier section, and its section under the bus lock
are separate steps of a connection. `Publish` chooses the recipients from the
registry and the subscriptions as they are then, `DrainFor` empties a queue,
`SinceFor` replays what `EntitledAt` allows. A pattern is the set of names it
matches. `Recover` replays subscriptions in the order of their times (`ByTime`,
`Replaying`), and `SubscribeWithId` fails when a number does not fit. `InOrder`
says that they were committed in that order.

### ReadPath

The request that holds the barrier is one `job`. A write is committed, applied,
indexed and moves the view version; a supersession also marks cached views and
saves the index. A view is served from the cache (`ViewHit`) or built, rendered
at its tier and put (`ViewMiss`, `PutFile`, `PutEntry`, `PutIndex`). The cache has
entries, byte counts per tier, files and an index on disk, and each write to disk
may fail or be the last before a crash. A view's content is the set of handles it
shows, as many as the tier of the request has room for, and whether it is cut; a
recall is rendered the same way. `Replay` folds the frames after the snapshot's
time over its cells. `cut` remembers that a crash met a request between its commit
and its invalidation, or an index on disk that lists as live what is marked,
evicted or replaced in memory (`Behind`).

### Custody

`Rotate` changes the ring in memory and then, unless the disk fails, the file. What
is sealed carries the id of the key. `AppendOk` and `AppendErr` are the returns of
`AuditChain::append`: buffered, flushed, synced, and the head in memory moved at
the end. `Remains` is what a crash leaves of lines that were not synced: the last one
may be torn, or whole but for its newline ("open"), and then `Glue` joins to it what is
written next. `Boot` loads the keyring, scans the chain and may be refused.


## 3. Runs that pass

| Run | Instance | Shows |
|---|---|---|
| `wal` | 2 writers, 2 frames, one of every fault, 2 crashes, channel of one, rollover after each frame | the stream implements `StableLog`; the durable part is append-only; before the first failed write no frame is in the files twice; before the first failed write or sync no crash takes an acknowledged frame out of the replay; every call returns |
| `node_pair` | 2 clients, 2 requests (a fact with its curation, an absorption, snapshots, shutdown), one of every fault, a fragment | no unaudited commit, no state ahead of the log, failed transactions stay invisible, loadable manifest; each request returns, each boot ends |
| `node_solo` | 1 client, every verb, 3 requests, one of every fault, a fragment | an answered write is there after every boot unless its commit was written behind a fragment; before the first failed append, and before a frame is written behind a fragment, the recovered cells equal what the commits made and no boot is refused for its log |
| `trinity_write` | 2 agents, 3 tasks of 3 units, 3 requests, a failing transaction, a crash | no task is overdrawn; a reservation is there when it is settled; only work that was done is charged, and only a crash gives units back; a quarantined item is driven again once, if it is marked reinjected |
| `curation` | 3 writes of plain, blank or ghost texts to one slot, batches and windows of 2, a snapshot, a crash, one other fault or probe | nothing is active without a logged decision; curators, queue and ledger are at each point what a boot rebuilds; a signing node's boot is refused only after a kept commit or an unsaved signature; a fault-free cycle leaves pending only what a human is asked about |
| `coordination` | 2 connections, 2 agents, 3 events in a ring of 2, a token that expires, a snapshot, a crash, a kept commit | an event is handed out once, in order, or has left the ring; a replay shows nothing from before the agent asked; acknowledged subscriptions last and are accepted, unless committed out of time order |
| `read_path` | 1 subject, 2 tiers, cache capacities of 1 or 2 views, 4 requests, 3 logged operations, a snapshot, 2 crashes, a disk error | a view cached in this life is fresh; a superseded fact is not served, after a restart either; byte counts are right and capacities kept; a recall that is not cut by its tier is complete within k and 2k, and one that is cut says so; a restart would restore the cells |
| `custody` | 2 sealed files and a blob, 5 records, rotations, 2 disk errors, 2 crashes | what is sealed stays readable unless a rotation that was not written is lost; acknowledged records stay on disk, in order, and can be read unless they were written right behind a line whose newline a crash took; no key without its request on record; the chain verifies unless an append failed or a line was torn |
| `governance` | 2 operators, 2 versions of a schema and one without version, 2 to 4 verbs, 1 or 2 snapshots, 1 or 2 crashes, a kept commit, host calls, 4 dispatches | what an operator was told is in force; a deprecated schema has an open successor; a boot is refused for four named causes only; a gap lets no more than its bound through in one life, counted from the snapshot it started with |

Type invariants are parts of the inductive invariants of section 5 and therefore in
no run.

Bounds. Two writers and a channel of one are enough for a full channel, a batch of
two and a waiter behind a batch; a rollover after each entry makes a batch
straddle it; the second frame is the one appended after a fault. In the node two
clients are enough for every race between logical time, barrier and snapshot
(each involves one request that overtakes another); the three requests of
`node_solo` are two facts and a supersession, or two of them and one after a recovery.
Losing a write behind a fragment takes what leaves the fragment (a crash or a failed
append), a request that is answered behind it and a second end of the process, which
may be a crash, or the exit after a failed audit append or after a shutdown that could
not save. These runs have one
shard: shards differ in `tail` only, a frame is hidden by its own shard's fragment,
and the theorems are for any set of them; `node_torn_tail` has two. A snapshot
interval of two ticks makes automatic snapshots happen at every other request and
lets a request be before, at and after the boundary. In `TrinityWrite` a write
costs two of a task's three units, so one write and one supersession exhaust it
and a leaked write refuses the next; three requests are a write that is absorbed
and two operators that race for it. In `Curation` a cycle makes two to five ledger
records, so batches and windows of two fill, roll and straddle the snapshot; three
writes leave a conflict with a fact that itself was disputed. `MaxFaults` is one:
probes, errors, kept commits and unsaved signatures are each tried at every point,
with a crash and a snapshot, not in pairs. In `Coordination` three events overflow
a ring of two, and three ticks let a subscription be overtaken and a token expire.
In `ReadPath` capacities are below two views, so every second put evicts, the small
tier has room for one item, so a recall of two is cut, and `k` is 1 or 2 for up to
three facts. In
`Governance` `GapN` is 1, a boot registers both versions, the deadline is before or
after the verb, and four verbs with two snapshots let the times of the snapshots
cross too. Every bound is a named constant. Symmetry (clients, agents, connections,
operators) is used in safety runs only.

Deadlock is not reported (`CHECK_DEADLOCK FALSE`) because requests and frames are
bounded: when they are used up, the idle system has nothing left to do. That
nobody waits for ever is what `EveryCallReturns` and `EveryRequestReturns` check.

Fairness. `WalStream`: the operating system schedules the flusher and blocked
senders, and a dropped channel wakes its waiters; weak fairness on each. Nothing
forces a crash, an exit, a reopening or a new request. `DurableNode`: each
connection thread and the boot are scheduled; weak fairness per thread is enough
for a mutex because the finitely many other requests leave it free in the end.

## 4. Where the code and its documents disagree

Three runs check a sentence of the repository and find it violated; the findings in
`PROJECT.json` quote it.

| Run | What happens |
|---|---|
| `node_lost_write` | A request with an earlier logical time commits after a snapshot named by a later one. Recovery skips its frames, and an answered write is gone. |
| `node_torn_tail` | A crash tears the frame that is being written. The next life appends behind the fragment and answers with success; the boot after the next crash stops in front of the fragment, and the write is gone. |
| `ledger_refused` | Tier T1 never signs a batch, and the boot wants a signature per full batch: on the default tier the boot after the 256th ledger record is refused. |

The first has a cause that shows in other places: `handle_envelope` and
`admin_dispatch` call `tick` before the barrier, so barrier order and logical time
can disagree. With one client no write is lost this way and the cells are
what the commits made of them (`node_solo`). With two,
the quarantine (`absorb_with_qid`), subscriptions (`subscribe_with_id`) and
migrations can be replayed in an order their checks refuse, and the boot fails;
`SubscriptionsAccepted` and `GovernedBootServes` name this exception. The times of
two snapshots can cross as well: the later snapshot then has an earlier time, the
next boot replays a migration that it already contains, and a contract that the host
registered in between makes the replay refuse it (`Unsaved` in `Governance`).

The properties of the passing runs name the conditions under which they hold.
What lies outside, found while the conditions were looked for:

- WAL. A `write_all` that stops half-way hides what is written next as a torn tail
  does (`wal.rs:313`), without a crash: `AnsweredUnlessHidden` and `NothingHidden` name
  both. `CrashKeepsAckedReadable` of `WalStream` speaks of neither: it follows a frame
  that a replay had. When the epoch fills up behind a fragment and the next one is
  opened, every later boot is refused (`wal.rs:407-413`), without any failed append;
  `RecoveryAccepted` names it. A failed sync, a rollover and a crash leave an epoch torn that
  is not the last, and `replay_dir` rejects the stream.
- Transactions. A commit whose append fails after its bytes are in the file is
  reported as failed and applied by the next boot (`node.rs:511`), against
  `node.rs:469-472`. The process may end before a shutdown saved the clean manifest
  (`bootstrap/mod.rs:2330`). With two clients and snapshots, an event can be
  replayed twice and notes in another order.
- Budgets. Returns at `router/mod.rs:252`, `:259`, `:559` and `:637` keep the
  reservation for ever, against `chain.rs:19`. `ReservedCovers` and `NoOverdraft` say
  that this costs the task its units and never gives it more.
- Quarantine. A crash between the transition of a reinjected item and its drive
  leaves it marked and never driven; a curator's artifact that is reinjected fails
  the field checks and stays marked; `sweep` has no caller.
- Curation. A cycle that a crash or an error cuts leaves its output pending for
  ever (`PendingAwaitsHuman` is about cycles without a fault); the calibration is in memory only, and degraded mode entered through the
  medium band never ends; a probe inside a cycle shares its judgment's handle with
  the audit that follows and is overwritten; `sanity_check_warden` always agrees
  with the flags it is given. When the signature file cannot be written, the
  ledger keeps the signature, the hash and the window entry without the record,
  against the comment at `ledger.rs:253-255`.
- Events. The ring drops what is still pending without a word; `since` cannot
  return event 0; drained events are lost when the reply fails; nothing of the bus
  survives a restart.
- Views. The version in a view's key starts at 1 again after a restart and
  `purge_all` has no caller, so a view cached in an earlier life may be served
  although a write has changed it (only supersessions mark entries on disk). The
  key has no tier: a request at one tier may get the rendering of another.
  `gap_board` and `quarantine_log` are not invalidated by what they list. Marked
  entries are never evicted. `put` writes the file of a view before the entry with its
  handles: when the index could not be saved after an eviction and a crash follows
  the next `put` of the view, an entry comes back with the handles of one rendering
  and the file of another, and a later supersession does not find it. `Behind` names
  this case in `SupersededNotServed`; the state lies outside the bounds of the run and
  was found when the property without it could not be proved.
- Recall takes the first 2k matches before it filters the superseded ones. When the
  first item alone is past the budget it is in the answer, and `items` counts none.
- Facts and decisions can supersede each other in a cycle, which leaves none active.
- Keys. `Kms::rotate` changes the ring before it is saved: after a failed save, what
  is sealed next is unreadable for the next boot. A failed flush or sync of an audit
  line, or a torn line, makes the next boot refuse the chain. When a crash takes the
  newline of the last line only, `open` accepts the file (`obs.rs:547` reads with
  `lines()`) and the next record is joined to that line: its append returns Ok, and it
  cannot be read, against docs/ObservabilityAudit.md:165 ("Records MUST NOT be
  dropped"). `BehindCut` names this case in `AckedOnDisk`; the next boot refuses.
- Rules. "congruence accept" with a single `entity` is logged but its replay reads
  `entities` only, against `bootstrap/mod.rs:1573-1576`. Decisions and contracts of
  the embedding program are not logged: a crash loses them, while a plan that cites
  one, or a migration to one, is replayed or refuses the boot. Two schemas without a
  version can replace each other, and then none of them takes writes. The dispatches
  of a gap are counted in memory and in snapshots only (`cells.rs:1472`), so after a
  crash a gap at its bound lets through again what came after the snapshot, with no
  transition in between; docs/PersistenceLayer.md:287 has the counters strict.
  `FixationBounded` is about one life and what its snapshot knew.

## 5. Theorems

Proved by TLAPS for every set of clients, writers, agents, frames, views and
schemas, and for every bound. Each invariance proof has three parts: the initial
states satisfy the inductive invariant, each action keeps each of its conjuncts,
and it implies the property.

`WalStreamProofs`
- `TypeCorrect`: `TypeOK`, with one sync mark per epoch file, within the file.
- `DurablePartIsAppendOnly`: no step touches the synced part of a file. From
  `TypeOK` alone, by the actions that write files (`Write`, `WriteFail`, `Sync`,
  `Roll`, `Close`, `Crash`).
- `AcksAreDurable`: `AckedDurable` is not inductive, because an acknowledgement
  is sent long after its frame was buffered. `AckInv` adds `PendingTracked`: every
  frame that waits for an acknowledgement is in the buffer before the write, in
  the current file after it, and in its synced part once the result is ok.
- `StreamImplementsLog`: `Spec => ImplementsStableLog`. `RefineInv` adds to `AckInv`
  that only frames whose append has begun are anywhere in the stream (`OnlyIssued`);
  then the start of an append maps to `Ask`, a step that moves a sync mark (a sync, a
  rollover, what a crash leaves) to `Settle` or a stutter, `Ack` to `Return`, and
  everything else to a stutter.
- `FramesAreWrittenOnce`: `OnceInv` says that, until a write fails, a frame is with
  one sender, in the channel, in the buffer or in one place of one file, and in one
  of these only.
- `CrashLeavesAckedReadable`: `ReadableInv` adds `ClosedSynced`: until a write or
  sync fails every closed epoch is synced to its end, so what a crash tears is the
  last file, behind everything acknowledged.

`DurableNodeProofs`
- `TypeCorrect`.
- `BarrierIsExclusive`: the barrier is held by exactly the thread whose step is
  inside a transaction. Inductive with `TypeOK`.
- `CommittedAreAudited`: `AuditInv` adds that a thread at its commit step has its
  record in the chain.
- `ManifestIsLoadable`: `ManifestInv` adds that the manifest in memory, and the
  snapshot a thread is about to name, exist as files. The failure of a save, which
  leaves the manifest in memory changed, is why it is needed.
- `VisibleAreCommitted`: `VisibleInv` adds that what a thread has captured, and
  the transaction a thread is about to apply, are committed.
- `FailedAreInvisible`: `GivenUpInv` says that no transaction given up before its
  commit has a commit frame. It needs `KeysOK`, the keys that tell transactions
  apart: a request's number is new when it takes the barrier, and only the curation
  cycle of a request shares it. With `VisibleAreCommitted` the property follows.

and of a node with one connection thread (`Solo`, the hypothesis of the next three;
`node_lost_write` shows that the first fails without it):
- `AnsweredStaysVisible`: `AnsweredUnlessHidden`. `AnswerInv` adds the order of the times of clock, request
  and manifest (`TimesOK`), that numbers of requests are not used again (`IdsOK`), and
  `PromisesOK`: what has been answered, or is committed and about to be, is in the
  cells, in what a thread has captured for a snapshot, and either in the snapshot the
  manifest names or later than it; during a boot it is in the cells or still to be
  replayed. No crash and no failure of an append or a save is excluded: the exception
  is a commit behind a fragment, which `node_torn_tail` shows to be needed. An append
  hides its own frame at most (`AppendHides`), so a promise that rests on the log keeps
  its frame readable.
- `RecoveryIsAccepted` and `CellsMatchLog`: `LogInv` adds, until an append fails or a
  frame is written behind a fragment (`NothingHidden`, as both properties have it; a
  fragment at the end of a stream is allowed for), `Recorded`: commits rise in time (`InOrder`), and there is a history of cells, one
  for each prefix of the log, such that the cells and the captures are its end, the
  snapshot is one entry of it with only later frames behind (`Cut`; curator outputs,
  which are replayed again, apart), and a boot is at one entry with all frames behind it
  still to do (`Reached`). Each frame is accepted because the live node applied it to
  the same cells.

`TrinityWriteProofs`
- `TypeCorrect`.
- `BudgetsHold` and `ReservationsAreHeld`: `NoOverdraft` is not inductive. A
  release that found less reserved than it releases would saturate, and the units
  it spends would pass the grant. `BudgetInv` adds that every reservation is still
  there (`ReservedCovers`), that only the holder of the barrier is inside a
  request (`Exclusive`), and that the budgets of the snapshot are within their
  grants (`SavedCovered`), since a crash restores them. The leak of section 4 does
  not break the bound: leaked units are lost to the task.
- `ChargedForWork`: `SpentInv` bounds what the snapshot has spent as well, and is
  an equality until the first crash.
- `DrivenOnce`: `DrivesInv` adds that at most one thread is driving an item, that the
  item is marked and was not driven before, and that, until a crash, a marked item
  that was not driven has such a thread.

`CurationProofs`, of the ledger, for every batch size, window and tier
- `NewIsWellFormed`, `ApplyKeepsForm`: records are numbered without a gap and no
  signature is for a number not yet reached.
- `ReplayIsLive`, `ReplayOverlap`: on such a ledger `ReplayRecord` equals
  `ApplyRecord`, and a record the ledger has changes nothing.
- `RestoredOf`, `VerifiedOf`: a ledger that came about record by record is a closed
  form of its records (`LedgerOf`): the window of the last audits, the hashes behind
  the last full batch, a signature per full batch. Restoring its snapshot gives the same
  ledger, and where the tier signs the boot's check accepts it.

and of the cycle: `CurInv` (`CurInvHolds`)
- `ActiveStaysReviewed`: `ReviewInv` follows the log, not the cells. An output is
  logged as active only after what justifies it (`LogReviewed`), and what memory or
  the snapshot say is logged (`BackedIn`); so it does not matter where a replay starts
  or which commits it finds. For the step that logs it, no adjudication of the running
  output is in the log before the cycle has come to its decision (`Undecided`), and
  the audit is logged before the step to publish.
- `EscalationsStayQueued`: `QueueOK` of the cells and of the snapshot, kept by each
  transaction a replay accepts. `Without` is shown to filter a sequence without
  repetitions.
- `PendingStaysWithHuman`: `CleanInv`, step by step where the running output and its
  adjudication stand, and that all earlier ones are decided or in the queue.

and of what a boot rebuilds: `ExactInv` (`ExactInvHolds`), which says of logs that kept
no failed commit that
- the cells have a `History`, the cells after each transaction of the log, with memory
  at its end and the snapshot at or behind where its replay begins (`WalExact`). An
  automatic snapshot is followed by a replay of transactions it already has, so a replay
  is not at an entry of the history: it is `Replaying`, with the facets, adjudications,
  queue and counts of a later entry `e`, and each status and judgment either as in the
  entry `j` the replay has come to or as in `e`. `ReplayOne` shows that the next
  transaction keeps this, since an adjudication is never taken back (`Later`) and the
  others overwrite; at the end `j` and `e` are one.
- the ledger in memory, the ledger of the snapshot and the one a boot has come to are
  the closed form of the first so many records (`ChecksExact`), and the signature file
  has all signatures or a batch that is still to be replayed will write it (`Side`).

`LiveStaysReplayable` follows by induction over the suffixes a boot would replay, and
`SigningBootsServe` because each replayed record and transaction is accepted and the
signatures are those of the closed form. The latter assumes `Signs`: `ledger_refused`
shows a boot that is refused without it.

`CustodyProofs`: `CustodyInv` (`CustodyInvHolds`) and from it
- `SealedStaysReadable`: `RingsOK`, the ring on disk is a prefix of the one in memory,
  and what is sealed is sealed with a key of the one that will be used next.
- `RotationsAreVisible`: `RequestsOK`, the synced lines have a request for each key but
  the first, and one more while a rotation is between its record and its key.
- `AckedStaysOnDisk`: `HashesOK` and `AckedSynced`, hashes grow along the file and
  the buffer behind it, and each acknowledged one is in the synced part, on a line that
  is whole or was glued to the line before (`Placed`). No acknowledged line lacks just
  its newline, so none is torn by what follows it (`GlueEnds`).
- `ChainStaysVerifiable`: `UnbrokenOK`, until an append fails or a line is torn the
  buffer is empty, the file synced and linked, and the head in memory its last line.

`CoordinationProofs`: `CoordinationInv` (`CoordinationInvHolds`)
- `QueuesAreAccounted`: `RingIsRecent` and `QueuesInOrder`, the ring is the last so
  many numbers, and each queue increases behind what was handed out.
- `NothingEarlyIsReplayed`: `AskedBefore`, what was published before an agent's first
  request is older than each of its subscriptions, those in the log and the
  snapshot and those under way included.
- `AckedStaySubscribed`: `AckedKept`, the snapshot has it or the log will replay it.
- `ReplayAcceptsSubscriptions`: `LogIsCell`, the cell is the log as long as commits
  follow the times; the replay from any snapshot is then followed frame by frame.

`ReadPathProofs`: `ReadInv` (`ReadInvHolds`)
- `ReplayBringsCellsBack`: `Restores`, the cells equal the replay of the log over the
  snapshot at every step of a request, with the committed operation still to be
  applied in between. It rests on `LogInOrder`: the read path holds the barrier from
  its time on, so its log is in the order of the clock.
- `ServedViewsAreFresh`: `FreshEntries`, an entry under the present version is what
  would be rendered now, between the moves of the version.
- `SupersededStaysHidden`: `MemorySound` and `DiskSound`, the file of a live entry
  shows only what the entry depends on, and all of that is active but for the fact
  that is about to be invalidated; when the process is down the same holds of the
  index and the cells it will come up with.
- `RecallsAreComplete`: from `Good`, the index has a document for each fact; an answer
  that does not say it is cut shows all of what was kept (`RenderWhole`).
- `BytesStayAccounted`: `BytesInv`, finitely many entries with sizes, and at every step
  the counter is the sum over the tier (`SizeOf`, unfolded by induction on the
  cardinality). An eviction takes everything used before the first entry that stays,
  so what it leaves fits or is marked (`Roomy`).

`GovernanceProofs`: `GovInv` (`GovInvHolds`) and `ServeInv`
- `AckedStaysInForce`: `AckedLast`, an acknowledged effect is in the cells, and in the
  snapshot or among the frames that are due. The replay is shown to keep what holds
  and to establish what it replays, in whatever order the times give (`Later`,
  `Holds`).
- `SuccessorStaysOpen`: part of `Good`: a successor is registered and, when both have
  versions, has the higher one, so that a chain of successors in a finite set of
  contracts ends at one that is open.
- `GovernedBootsServe`: `ServeInv`, without an excuse the frames that are due have a
  trace by the clock from the snapshot's contracts to those in memory (`Leads`). A
  frame is committed in the order of the barrier and enters the trace at its time:
  later frames that name none of its schemas go on beside it (`TraceInserts`,
  `MovesBeside`). A snapshot starts a new trace that stays where it is, since every
  logged frame is in effect, was overwritten by the host, or lies before every verb
  under way (`LogInEffect`). `ServedTrace` and `TraceServes` turn the list that `Replayed`
  follows into a trace and back.
- `DispatchesAreBounded`: `GapsCount`, the counter of a gap is at least what was let
  through since its last transition in this life or before the snapshot the life
  started from, which is no more than `GapN`; the same of the snapshot and its counter.

The lemmas `ControlEffects`, `DataEffects` and `PcEffects` say once what a step
of `DurableNode` may do to each variable; its invariance proofs cite them. Where a
replay is a recursive function of the length of the log, the induction is over the
set of lengths for which the claim holds (`SetInduction`, from the well-foundedness
of `<`), since the library's induction rules take an operator.

Assumptions: constants are numbers of the right sort, the marker for a free lock
is no client or agent, the markers of the WAL model are no frames, those of
`TrinityWrite` are no payloads, the marker for no schema is no schema, and the
schemas of a boot are finitely many. TLC evaluates them in every run.

Only model-checked: the liveness properties `EveryCallReturns`, `EveryRequestReturns`
and `EveryBootEnds`, because fairness is out of the prover's reach. Every safety and
action property that a passing run checks is a theorem.

The attempt to prove `GovernedBootServes` refuted its first form, which excused only
contracts that are in no snapshot: two snapshots committed against the order of their
times make the boot replay a migration over a contract that the host registered after
it. TLC then found the same behaviour with four verbs and two snapshots, and the
`governance` run has had that bound since.

## 6. Not modelled

Encodings, ciphers and checksums beyond whole / torn; metrics, logs and their
export; the text of answers and prompts; directory entries of new files
(`open_epoch` does not sync the directory); the command line and the
configuration file; scores, embeddings and the reranker; the verbs that only list
or report; `handle_hydrate`, which reads one handle; blobs, playbooks and catalog
entries, which are inserted or overwritten like the cells that are modelled.
`ProposalCell`, `revoke`, `unsubscribe`, `QuarantineCell::sweep`, `deprecate` and
`pin_weights` have no caller in the program. The syntax of globs and schema ids is
reduced to what they match and which version they name.

## 7. Plan

What is left lies outside the present modules: `handle_hydrate`, blobs, playbooks and
catalog entries (section 6), and a budget that is refilled, should the code get one
(the hazard without a property in `PROJECT.json`).
