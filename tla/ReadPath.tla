------------------------------ MODULE ReadPath ------------------------------
(***************************************************************************)
(* What an agent reads: the fact and timeline cells (cells/memory.rs), the *)
(* BM25 and vector indexes (cells/index.rs), handle_recall, handle_view    *)
(* and render_view (router/mod.rs, router/view.rs), and the view cache     *)
(* with its index on disk (PrefixCacheStore, persist/mod.rs).              *)
(*                                                                         *)
(* Every handler here holds the mutation barrier from its first read to    *)
(* its return, so requests run one at a time; what cuts into them is a     *)
(* crash, or a cache file that cannot be written.  A durable transaction   *)
(* is one step that succeeds: how it fails is the subject of DurableNode.  *)
(* Texts are handles: a handle's content never changes.  Scores are left   *)
(* out: a search may rank what it matches in any order.  Every read ends   *)
(* with charge_read, which is in TrinityWrite; here it is affordable.      *)
(***************************************************************************)
EXTENDS Integers, Sequences, FiniteSets, FiniteSetsExt, SequencesExt, Functions

CONSTANTS
    Subjects,     \* subjects of facts
    Tiers,        \* rendering tiers
    Full,         \* the tier without a budget (L3)
    Budget,       \* Budget[t]: tier_byte_budget
    Weight,       \* Weight[t]: the bytes an item takes at tier t
    TailLen,      \* params.n of timeline_tail
    TimelineCap,  \* TIMELINE_RING_CAP
    Depths,       \* values of k in a recall
    ViewRank,     \* ViewRank[v]: the place of v's keys in the order of ViewKey
    SmallMax, MidMax,  \* CacheTier::for_size
    Capacity,     \* Capacity[d]: CacheTier::capacity
    MaxRequests,  \* bound: requests
    MaxOps,       \* bound: logged operations
    MaxSnaps,     \* bound: snapshots
    MaxCrashes,   \* bound: crashes
    MaxDiskErrors \* bound: cache files that cannot be written

\* The views with their parameters.  gap_board is read as quarantine_log is:
\* both list items of a Trinity cell.
FactView(s) == <<"fact_subject", s>>
TailView == <<"timeline_tail", "main">>
BoardView == <<"quarantine_log", "none">>
Views == {FactView(s) : s \in Subjects} \cup {TailView, BoardView}

CacheTiers == {"l1", "l2", "l3"}

ASSUME ReadPathConstants ==
    /\ Full \in Tiers
    /\ Budget \in [Tiers -> Nat]
    /\ Weight \in [Tiers -> Nat \ {0}]
    /\ {TailLen, TimelineCap} \subseteq Nat \ {0}
    /\ Depths \subseteq Nat
    /\ ViewRank \in [Views -> Nat]
    /\ \A v, w \in Views : ViewRank[v] = ViewRank[w] => v = w
    /\ SmallMax \in Nat /\ MidMax \in Nat /\ SmallMax <= MidMax
    /\ Capacity \in [CacheTiers -> Nat]
    /\ {MaxRequests, MaxOps, MaxSnaps, MaxCrashes, MaxDiskErrors} \subseteq Nat

VARIABLES
    pc,       \* the step of the request that holds the barrier, or "idle", "down"
    job,      \* what that request is about
    clock,    \* LogicalClock
    requests, \* how many requests were made
    version,  \* view_version
    cells,    \* the cells that are read
    log,      \* the committed operations
    snap,     \* the last snapshot: the cells, their time, the log's length
    cache,    \* CacheInner.entries
    bytes,    \* CacheInner.tier_bytes
    files,    \* the cached views on disk, by directory and key
    index,    \* index/view_keys.cbor
    used,     \* how much of each bound has been used
    ans,      \* the answer to the last request
    cut       \* a crash left the index on disk behind what is cached

time == <<clock, requests>>
store == <<cache, bytes, files, index>>
vars == <<pc, job, time, version, cells, log, snap, store, used, ans, cut>>

NoJob == [kind |-> "none"]
NoAnswer == [kind |-> "none"]
NoCells == [facts |-> <<>>, docs |-> <<>>, vecs |-> <<>>, timeline |-> <<>>,
            events |-> 0, pending |-> {}, absorbed |-> 0]
Nothing == [x \in {} |-> 0]
Counted == {"snaps", "crashes", "disk"}

\* f with y at x.
With(f, x, y) == [z \in DOMAIN f \cup {x} |-> IF z = x THEN y ELSE f[z]]

Limits == [snaps |-> MaxSnaps, crashes |-> MaxCrashes, disk |-> MaxDiskErrors]

Spend(k) ==
    /\ used[k] < Limits[k]
    /\ used' = [used EXCEPT ![k] = @ + 1]

Tick ==
    /\ requests < MaxRequests
    /\ requests' = requests + 1
    /\ clock' = clock + 1

-----------------------------------------------------------------------------
(* The cells.  Facts are numbered in the order of their handles; 0 stands  *)
(* for no fact.                                                            *)

Active(c, h) == c.facts[h].by = 0

\* FactCell::insert_with_supersede, validated by the caller.
InsertWithSupersede(facts, s, old) ==
    LET new == Len(facts) + 1
        edged == IF old = 0 THEN facts ELSE [facts EXCEPT ![old].by = new]
    IN  Append(edged, [subject |-> s, by |-> 0])

\* VectorCell::add and Bm25Cell::add.
Indexed(c, h) == [c EXCEPT !.docs = Append(@, h), !.vecs = Append(@, h)]

\* TimelineCell::append: the ring keeps the last entries.
TimelineAppend(c) ==
    LET entries == Append(c.timeline, c.events + 1)
        over == Len(entries) - TimelineCap
    IN  [c EXCEPT !.events = @ + 1,
                  !.timeline = IF over > 0 THEN SubSeq(entries, over + 1, Len(entries))
                                           ELSE entries]

\* QuarantineCell::absorb, and an operator's reject.
Absorbed(c) == [c EXCEPT !.absorbed = @ + 1, !.pending = @ \cup {c.absorbed + 1}]
Rejected(c, q) == [c EXCEPT !.pending = @ \ {q}]

\* apply_write, and the cell's part of handle_supersede.
Applied(c, op) ==
    CASE op.kind = "fact" ->
            Indexed([c EXCEPT !.facts = InsertWithSupersede(@, op.subject, op.old)], op.new)
      [] op.kind = "edge" -> [c EXCEPT !.facts[op.old].by = op.new]
      [] op.kind = "event" -> TimelineAppend(c)
      [] op.kind = "absorb" -> Absorbed(c)
      [] op.kind = "reject" -> Rejected(c, op.old)

\* Mutant of ReplayFrame: a replayed fact is not indexed.
ReplayFrameUnindexed(c, op) ==
    IF op.kind = "fact"
      THEN [c EXCEPT !.facts = InsertWithSupersede(@, op.subject, op.old)]
      ELSE Applied(c, op)

\* replay_frame: a fact that is there already is passed over.
ReplayFrame(c, op) ==
    CASE op.kind = "fact" ->
            IF op.new \in DOMAIN c.facts THEN c
            ELSE Indexed([c EXCEPT !.facts = InsertWithSupersede(@, op.subject, op.old)], op.new)
      [] op.kind = "edge" -> [c EXCEPT !.facts[op.old].by = op.new]
      [] op.kind = "event" -> TimelineAppend(c)
      [] op.kind = "absorb" -> Absorbed(c)
      [] op.kind = "reject" -> Rejected(c, op.old)

\* What snapshot_state keeps of each cell and restore_state brings back.  The
\* restored indexes are built by adding the texts again in their order; for the
\* quarantine, the number of the next item is kept.
FactState(c) == c.facts
VectorState(c) == c.vecs
Bm25State(c) == c.docs
TimelineState(c) == [entries |-> c.timeline, events |-> c.events]
QuarantineState(c) == [pending |-> c.pending, absorbed |-> c.absorbed]
Captured(c) ==
    [facts |-> FactState(c), docs |-> Bm25State(c), vecs |-> VectorState(c),
     timeline |-> TimelineState(c).entries, events |-> TimelineState(c).events,
     pending |-> QuarantineState(c).pending, absorbed |-> QuarantineState(c).absorbed]

\* replay_stream: the frames after the snapshot's time, in their order.
Replay(c, from, frames) ==
    LET r[i \in 0..Len(frames)] ==
            IF i = 0 THEN c
            ELSE IF frames[i].at > from THEN ReplayFrame(r[i - 1], frames[i])
            ELSE r[i - 1]
    IN  r[Len(frames)]

\* What recovery makes of the snapshot and the log.
Replayed == Replay(snap.cells, snap.at, log)

-----------------------------------------------------------------------------
(* Views.                                                                  *)

FactHandle(h) == <<"fact", h>>
EventHandle(n) == <<"timeline", n>>
ItemHandle(q) == <<"quarantine", q>>

\* FactCell::active_for_subject.
ActiveFor(c, s) == {h \in DOMAIN c.facts : c.facts[h].subject = s /\ Active(c, h)}

\* build_builtin_view: the handles of the items; their order is the one of
\* their numbers.
BuildBuiltinView(c, v) ==
    CASE v[1] = "fact_subject" -> {FactHandle(h) : h \in ActiveFor(c, v[2])}
      [] v = TailView ->
            {EventHandle(c.timeline[i]) :
                i \in {j \in DOMAIN c.timeline : j > Len(c.timeline) - TailLen}}
      [] v = BoardView -> {ItemHandle(q) : q \in c.pending}

\* The first n items of a view.
First(items, n) == {x \in items : Cardinality({y \in items : y[2] < x[2]}) < n}

\* The bytes of n items at tier t; header and footer take one.
Size(n, t) == 1 + n * Weight[t]
WithinBudget(n, t) == t = Full \/ Size(n, t) <= Budget[t]

\* render_view: items are added until one bursts the budget; the first stays.
RenderView(items, t) ==
    LET all == Cardinality(items)
        n == Max({m \in 0..all : m <= 1 \/ WithinBudget(m, t)})
    IN  [items |-> First(items, n), tier |-> t, size |-> Size(n, t),
         truncated |-> n < all \/ (n > 0 /\ ~ WithinBudget(n, t))]

-----------------------------------------------------------------------------
(* PrefixCacheStore.                                                       *)

\* ViewKey; the namespace is always "default", and the tier is not in it.
Key(v) == <<v, version>>

\* CacheTier::for_size.
ForSize(n) == IF n <= SmallMax THEN "l1" ELSE IF n <= MidMax THEN "l2" ELSE "l3"

Live(k) == k \in DOMAIN cache /\ ~ cache[k].tombstone

\* invalidate_handle, before the index is saved.
InvalidateHandle(h) ==
    [k \in DOMAIN cache |-> [cache[k] EXCEPT !.tombstone = @ \/ h \in cache[k].deps]]

\* The order in which evict_locked takes its victims from the entries e.
UsedBefore(e, j, k) ==
    \/ e[j].used < e[k].used
    \/ /\ e[j].used = e[k].used
       /\ \/ ViewRank[j[1]] < ViewRank[k[1]]
          \/ j[1] = k[1] /\ j[2] < k[2]

SizeOf(e, keys) == MapThenSumSet(LAMBDA k : e[k].size, keys)

\* evict_locked: an entry goes when the ones used before it were not enough.
Victims(e, total, d) ==
    LET evictable == {k \in DOMAIN e : e[k].dir = d /\ ~ e[k].tombstone}
        before(k) == {j \in evictable : UsedBefore(e, j, k)}
    IN  {k \in evictable : total - SizeOf(e, before(k)) > Capacity[d]}

\* Mutant of Deducted: what a replaced entry took is not given back.
DeductedNothing(b, k) == b

\* The part of put that takes a replaced entry off its tier's bytes.
Deducted(b, k) ==
    IF k \in DOMAIN cache THEN [b EXCEPT ![cache[k].dir] = @ - cache[k].size] ELSE b

\* save_index, which may fail; every caller drops the error.  What get did to
\* last_used is saved by the next put or invalidation.
SaveIndex ==
    \/ index' = cache /\ UNCHANGED used
    \/ Spend("disk") /\ UNCHANGED index

\* Mutant of Loaded: tombstones are not read back.
LoadedAlive ==
    [k \in DOMAIN index |-> [index[k] EXCEPT !.mine = FALSE, !.tombstone = FALSE]]

\* load_index.
Loaded == [k \in DOMAIN index |-> [index[k] EXCEPT !.mine = FALSE]]

-----------------------------------------------------------------------------
(* Requests that change what is read.                                      *)

Begin == pc = "idle" /\ Tick /\ Len(log) < MaxOps

Commit(op) ==
    /\ log' = Append(log, op)
    /\ job' = op
    /\ pc' = "apply"
    /\ ans' = NoAnswer
    /\ UNCHANGED <<version, cells, snap, store, used, cut>>

Op(kind, s, old, new) == [kind |-> kind, subject |-> s, old |-> old, new |-> new, at |-> clock + 1]

\* handle_write of a fact, up to its durable transaction.
WriteFact(s, old) ==
    /\ Begin
    /\ old # 0 => Active(cells, old)
    /\ Commit(Op("fact", s, old, Len(cells.facts) + 1))

\* handle_write of a timeline entry.
WriteEvent == Begin /\ Commit(Op("event", "main", 0, cells.events + 1))

\* handle_supersede of a fact, up to its durable transaction.
Supersede(old, new) ==
    /\ Begin
    /\ old # new
    /\ Active(cells, old)
    /\ Commit(Op("edge", "none", old, new))

\* apply_write; a fact that is superseded by the write is invalidated there.
Apply ==
    /\ pc = "apply"
    /\ cells' = Applied(cells, job)
    /\ IF job.kind = "fact" /\ job.old # 0
         THEN cache' = InvalidateHandle(FactHandle(job.old)) /\ pc' = "save_old"
         ELSE UNCHANGED cache /\ pc' = "bump"
    /\ UNCHANGED <<job, time, version, log, snap, bytes, files, index, used, ans, cut>>

SaveOld ==
    /\ pc = "save_old"
    /\ SaveIndex
    /\ pc' = "bump"
    /\ UNCHANGED <<job, time, version, cells, log, snap, cache, bytes, files, ans, cut>>

\* The handle that handle_write and handle_supersede invalidate at their end.
Touched(op) ==
    CASE op.kind = "fact" -> FactHandle(op.new)
      [] op.kind = "edge" -> FactHandle(op.old)
      [] op.kind = "event" -> EventHandle(op.new)

\* Mutant of Bump: a write that supersedes nothing leaves the version.
BumpSuperseding ==
    /\ pc = "bump"
    /\ version' = IF job.kind = "edge" \/ job.old # 0 THEN version + 1 ELSE version
    /\ cache' = InvalidateHandle(Touched(job))
    /\ pc' = "save"
    /\ UNCHANGED <<job, time, cells, log, snap, bytes, files, index, used, ans, cut>>

\* bump_view_version and the memory part of invalidate_handle.
Bump ==
    /\ pc = "bump"
    /\ version' = version + 1
    /\ cache' = InvalidateHandle(Touched(job))
    /\ pc' = "save"
    /\ UNCHANGED <<job, time, cells, log, snap, bytes, files, index, used, ans, cut>>

Save ==
    /\ pc = "save"
    /\ SaveIndex
    /\ pc' = "idle"
    /\ job' = NoJob
    /\ UNCHANGED <<time, version, cells, log, snap, cache, bytes, files, ans, cut>>

\* The quarantine takes in what the chain refused, or an operator rejects an
\* item.  Neither touches the version or the cache.
OnBoard(op) ==
    /\ Begin
    /\ log' = Append(log, op)
    /\ cells' = Applied(cells, op)
    /\ ans' = NoAnswer
    /\ UNCHANGED <<pc, job, version, snap, store, used, cut>>

Absorb == OnBoard(Op("absorb", "none", 0, cells.absorbed + 1))
Reject(q) == OnBoard(Op("reject", "none", q, 0))

-----------------------------------------------------------------------------
(* Reads.                                                                  *)

ViewAnswer(v, content, cached, mine) ==
    [kind |-> "view", view |-> v, content |-> content, cached |-> cached, mine |-> mine]

OnDisk(k) == <<cache[k].dir, k>> \in DOMAIN files

\* get marks a live entry as used even when its file cannot be read.
Marked(k) == IF Live(k) THEN [cache EXCEPT ![k].used = clock + 1] ELSE cache

\* handle_view, served from the cache.  A request that pins another version
\* and does not allow migration returns before this and changes nothing.
ViewHit(v) ==
    /\ pc = "idle"
    /\ Tick
    /\ Live(Key(v)) /\ OnDisk(Key(v))
    /\ cache' = Marked(Key(v))
    /\ ans' = ViewAnswer(v, files[<<cache[Key(v)].dir, Key(v)>>], TRUE, cache[Key(v)].mine)
    /\ UNCHANGED <<pc, job, version, cells, log, snap, bytes, files, index, used, cut>>

\* handle_view, not in the cache: the view is built and rendered.
ViewMiss(v, t) ==
    /\ pc = "idle"
    /\ Tick
    /\ ~ (Live(Key(v)) /\ OnDisk(Key(v)))
    /\ cache' = Marked(Key(v))
    /\ job' = [kind |-> "view", view |-> v, content |-> RenderView(BuildBuiltinView(cells, v), t)]
    /\ pc' = "put_file"
    /\ ans' = NoAnswer
    /\ UNCHANGED <<version, cells, log, snap, bytes, files, index, used, cut>>

Served ==
    /\ ans' = ViewAnswer(job.view, job.content, FALSE, TRUE)
    /\ pc' = "idle"
    /\ job' = NoJob

\* put writes the file first; when it cannot, the view is served all the same.
PutFile ==
    /\ pc = "put_file"
    /\ \/ /\ files' = With(files, <<ForSize(job.content.size), Key(job.view)>>, job.content)
          /\ pc' = "put_entry"
          /\ UNCHANGED <<job, used, ans>>
       \/ Spend("disk") /\ Served /\ UNCHANGED files
    /\ UNCHANGED <<time, version, cells, log, snap, cache, bytes, index, cut>>

\* Then the entry, and room for it in its tier.
PutEntry ==
    LET k == Key(job.view)
        d == ForSize(job.content.size)
        entry == [dir |-> d, size |-> job.content.size, used |-> clock,
                  deps |-> BuildBuiltinView(cells, job.view),
                  tombstone |-> FALSE, mine |-> TRUE]
        held == With(cache, k, entry)
        taken == [Deducted(bytes, k) EXCEPT ![d] = @ + entry.size]
        out == Victims(held, taken[d], d)
    IN  /\ pc = "put_entry"
        /\ cache' = Restrict(held, DOMAIN held \ out)
        /\ bytes' = [taken EXCEPT ![d] = @ - SizeOf(held, out)]
        /\ files' = Restrict(files, DOMAIN files \ {<<d, o>> : o \in out})
        /\ pc' = "put_index"
        /\ UNCHANGED <<job, time, version, cells, log, snap, index, used, ans, cut>>

PutIndex ==
    /\ pc = "put_index"
    /\ SaveIndex
    /\ Served
    /\ UNCHANGED <<time, version, cells, log, snap, cache, bytes, files, cut>>

\* Hits of a search that returns n of the entries found: any n of them.
Hits(found, n) ==
    LET m == IF Cardinality(found) < n THEN Cardinality(found) ELSE n
    IN  kSubset(m, found)

\* Mutant of Candidates: superseded facts stay among them.
CandidatesAll(hits) == hits

\* The candidates of handle_recall: the facts among the hits that are active.
Candidates(hits) == {h \in hits : Active(cells, h)}

\* handle_recall: the first 2k of either index, of which the reranker's first
\* k are kept and rendered in the order of their handles, as far as the tier of
\* the request has room.  The lexical index finds the documents that share a
\* word with the query, here the subject; the vector index ranks them all.
Recall(s, k, t) ==
    /\ pc = "idle"
    /\ Tick
    /\ \E lexical \in Hits({i \in DOMAIN cells.docs : cells.facts[cells.docs[i]].subject = s}, 2 * k),
          semantic \in Hits(DOMAIN cells.vecs, 2 * k) :
         \E top \in Hits(Candidates({cells.docs[i] : i \in lexical}
                                        \cup {cells.vecs[i] : i \in semantic}), k) :
            ans' = [kind |-> "recall", subject |-> s, k |-> k,
                    content |-> RenderView({FactHandle(h) : h \in top}, t)]
    /\ UNCHANGED <<pc, job, version, cells, log, snap, store, used, cut>>

-----------------------------------------------------------------------------
(* Snapshots, crashes and recovery.                                        *)

Snapshot ==
    /\ pc = "idle"
    /\ Spend("snaps")
    /\ snap' = [cells |-> Captured(cells), at |-> clock]
    /\ ans' = NoAnswer
    /\ UNCHANGED <<pc, job, time, version, cells, log, store, cut>>

\* The index on disk lists as live an entry that is marked, evicted or
\* replaced: the index could not be written, or not yet.
Behind ==
    \E k \in DOMAIN index :
        /\ ~ index[k].tombstone
        /\ ~ (Live(k) /\ cache[k].dir = index[k].dir /\ cache[k].deps = index[k].deps)

\* A request that is cut may not have invalidated what it made stale.
Crash ==
    /\ pc # "down"
    /\ Spend("crashes")
    /\ pc' = "down"
    /\ cut' = (cut \/ pc \in {"apply", "bump"} \/ Behind)
    /\ job' = NoJob
    /\ ans' = NoAnswer
    /\ cells' = NoCells
    /\ cache' = Nothing
    /\ bytes' = [d \in CacheTiers |-> 0]
    /\ UNCHANGED <<time, version, log, snap, files, index>>

\* Node::open and recover.  The view version starts over, the same in every
\* life: the boot's self-test makes the same writes.  The clock comes back as
\* the log and the manifest of the last snapshot have it.
Recover ==
    /\ pc = "down"
    /\ pc' = "idle"
    /\ version' = 1
    /\ cells' = Replayed
    /\ clock' = LET logged == IF log = <<>> THEN 0 ELSE Last(log).at
                IN  IF logged > snap.at THEN logged ELSE snap.at
    /\ cache' = Loaded
    /\ bytes' = [d \in CacheTiers |-> SizeOf(index, {k \in DOMAIN index : index[k].dir = d})]
    /\ UNCHANGED <<job, requests, log, snap, files, index, used, ans, cut>>

-----------------------------------------------------------------------------

Init ==
    /\ pc = "idle"
    /\ job = NoJob
    /\ clock = 0
    /\ requests = 0
    /\ version = 1
    /\ cells = NoCells
    /\ log = <<>>
    /\ snap = [cells |-> Captured(NoCells), at |-> 0]
    /\ cache = Nothing
    /\ bytes = [d \in CacheTiers |-> 0]
    /\ files = Nothing
    /\ index = Nothing
    /\ used = [k \in Counted |-> 0]
    /\ ans = NoAnswer
    /\ cut = FALSE

Next ==
    \/ \E s \in Subjects, old \in 0..Len(cells.facts) : WriteFact(s, old)
    \/ WriteEvent
    \/ \E old, new \in DOMAIN cells.facts : Supersede(old, new)
    \/ Apply
    \/ SaveOld
    \/ Bump
    \/ Save
    \/ Absorb
    \/ \E q \in cells.pending : Reject(q)
    \/ \E v \in Views : ViewHit(v)
    \/ \E v \in Views, t \in Tiers : ViewMiss(v, t)
    \/ PutFile
    \/ PutEntry
    \/ PutIndex
    \/ \E s \in Subjects, k \in Depths, t \in Tiers : Recall(s, k, t)
    \/ Snapshot
    \/ Crash
    \/ Recover

Spec == Init /\ [][Next]_vars

-----------------------------------------------------------------------------
(* Properties.                                                             *)

\* A view over the facts or the timeline that was cached since the boot is
\* served as it would be rendered now, at the tier it was cached for: every
\* write and supersession moves the version in the key.
FreshInLife ==
    (ans.kind = "view" /\ ans.mine /\ ans.view # BoardView)
        => ans.content = RenderView(BuildBuiltinView(cells, ans.view), ans.content.tier)

\* What is served from the cache never shows a superseded fact, not even after
\* a restart: the supersession marked every entry that depends on the fact and
\* saved the marks.  It needs that no crash cut a request between its commit
\* and its invalidation or found the index behind what is cached: put writes
\* the file of a view before the entry with its handles, so an entry that an
\* eviction failed to take off the disk may come back with the handles of one
\* rendering and the file of another.
SupersededNotServed ==
    (ans.kind = "view" /\ ~ cut) =>
        \A h \in DOMAIN cells.facts :
            FactHandle(h) \in ans.content.items => Active(cells, h)

\* tier_bytes is the size of the entries of the tier, marked ones included,
\* across replacements, evictions and restarts, and after a put the tier is
\* within its capacity or holds nothing that could be evicted (put,
\* evict_locked, load_index).
BytesAccounted ==
    pc # "down" => \A d \in CacheTiers :
        LET there == {k \in DOMAIN cache : cache[k].dir = d}
        IN  /\ bytes[d] = SizeOf(cache, there)
            /\ pc = "put_index" /\ d = ForSize(job.content.size) =>
                  \/ bytes[d] <= Capacity[d]
                  \/ \A k \in there : cache[k].tombstone

\* A recall answers with active facts.  When no more than k facts are active and
\* no more than 2k were written on the subject, all the active facts of the
\* subject are in the answer or the answer says that it is cut, which the tier
\* without a budget never does: the indexes agree with the facts, after a
\* restart too, and render_view leaves nothing out in silence.
RecallComplete ==
    ans.kind = "recall" =>
        /\ ans.content.items \subseteq {FactHandle(h) : h \in {g \in DOMAIN cells.facts : Active(cells, g)}}
        /\ ans.content.tier = Full => ~ ans.content.truncated
        /\ (/\ Cardinality({h \in DOMAIN cells.facts : Active(cells, h)}) <= ans.k
            /\ Cardinality({h \in DOMAIN cells.facts : cells.facts[h].subject = ans.subject}) <= 2 * ans.k
            /\ ~ ans.content.truncated)
              => {FactHandle(h) : h \in ActiveFor(cells, ans.subject)} \subseteq ans.content.items

\* Between requests, a restart would bring back the very cells: the facts with
\* their supersessions, the indexes in their order, the timeline's ring and its
\* count, the quarantine.
ReplayRestores == pc = "idle" => Replayed = cells

=============================================================================
