--------------------------- MODULE ReadPathProofs ---------------------------
(***************************************************************************)
(* What holds of the cells that are read, of the views served from the     *)
(* cache, of what the cache takes, and of recalls, for any subjects,       *)
(* tiers, budgets, capacities, crashes, snapshots and failing cache files. *)
(***************************************************************************)
EXTENDS ReadPath, FiniteSetTheorems, NaturalsInduction, SequenceTheorems, TLAPS

-----------------------------------------------------------------------------
(* Replaying the log.                                                      *)

\* Induction over the naturals, stated of a set.
LEMMA SetInduction ==
    ASSUME NEW S \in SUBSET Nat, 0 \in S, \A n \in S : n + 1 \in S
    PROVE  S = Nat
<1> DEFINE T == Nat \ S
<1> SUFFICES ASSUME T # {} PROVE FALSE
  OBVIOUS
<1>1. PICK x \in T : \A y \in T : ~(<<y, x>> \in OpToRel(<, Nat))
  BY WFMin, NatLessThanWellFounded
<1>2. \A y \in T : ~(y < x)
  BY <1>1 DEF OpToRel
<1>3. x # 0 /\ x - 1 \in Nat
  OBVIOUS
<1>4. x - 1 \in S
  BY <1>2, <1>3
<1> QED
  BY <1>3, <1>4

\* r[i] is what the replay has after i frames.
Replays(r, c, from, frames, n) ==
    /\ r[0] = c
    /\ \A i \in 1..n : r[i] = IF frames[i].at > from THEN ReplayFrame(r[i - 1], frames[i])
                                                     ELSE r[i - 1]

\* The recursion of Replay has a solution: induction on its length.
LEMMA ReplayUnfolds ==
    ASSUME NEW c, NEW from, NEW frames, NEW n \in Nat, n = Len(frames)
    PROVE  \E r : Replay(c, from, frames) = r[n] /\ Replays(r, c, from, frames, n)
<1> DEFINE Step(x, i) == IF frames[i].at > from THEN ReplayFrame(x, frames[i]) ELSE x
           Runs(g, k) == g = [i \in 0..k |-> IF i = 0 THEN c ELSE Step(g[i - 1], i)]
           N == {k \in Nat : \E g : Runs(g, k)}
<1>1. Replay(c, from, frames) = (CHOOSE g : Runs(g, n))[n]
  BY DEF Replay
<1> HIDE DEF Step
<1>2. 0 \in N
  <2>1. Runs([i \in 0..0 |-> c], 0)
    OBVIOUS
  <2> QED
    BY <2>1
<1>3. ASSUME NEW k \in N PROVE k + 1 \in N
  <2>1. PICK g : Runs(g, k)
    OBVIOUS
  <2> DEFINE h == [i \in 0..(k + 1) |-> IF i <= k THEN g[i] ELSE Step(g[k], k + 1)]
  <2>2. \A i \in 0..(k + 1) : h[i] = IF i = 0 THEN c ELSE Step(h[i - 1], i)
    <3> TAKE i \in 0..(k + 1)
    <3>1. CASE i = 0
      BY <2>1, <3>1
    <3>2. CASE i # 0 /\ i <= k
      <4>1. i \in 0..k /\ i - 1 \in 0..k /\ i - 1 \in 0..(k + 1) /\ i - 1 <= k
        BY <3>2
      <4>2. h[i] = g[i] /\ h[i - 1] = g[i - 1]
        BY <3>2, <4>1
      <4>3. g[i] = Step(g[i - 1], i)
        BY <2>1, <3>2, <4>1
      <4> HIDE DEF h
      <4> QED
        BY <3>2, <4>2, <4>3
    <3>3. CASE i = k + 1
      <4>1. k \in 0..(k + 1) /\ k <= k /\ (k + 1) - 1 = k /\ k + 1 \in 0..(k + 1)
            /\ ~(k + 1 <= k) /\ k + 1 # 0
        OBVIOUS
      <4>2. h[k] = g[k] /\ h[k + 1] = Step(g[k], k + 1)
        BY <4>1
      <4> HIDE DEF h
      <4> QED
        BY <3>3, <4>1, <4>2
    <3> QED
      BY <3>1, <3>2, <3>3
  <2>3. Runs(h, k + 1)
    <3>1. h = [i \in 0..(k + 1) |-> h[i]]
      OBVIOUS
    <3> HIDE DEF h
    <3> QED
      BY <2>2, <3>1
  <2>4. \E x : Runs(x, k + 1)
    <3> HIDE DEF Runs, h
    <3> QED
      BY <2>3
  <2> QED
    BY <2>4
<1>4. N = Nat
  <2>1. N \in SUBSET Nat
    OBVIOUS
  <2> HIDE DEF N
  <2> QED
    BY <1>2, <1>3, <2>1, SetInduction
<1>5. \E g : Runs(g, n)
  BY <1>4
<1>6. PICK r : r = (CHOOSE g : Runs(g, n))
  OBVIOUS
<1>7. Runs(r, n)
  <2> HIDE DEF Runs
  <2> QED
    BY <1>5, <1>6
<1>8. Replay(c, from, frames) = r[n]
  BY <1>1, <1>6
<1>9. /\ r[0] = c
      /\ \A i \in 1..n : r[i] = Step(r[i - 1], i)
  BY <1>7
<1>10. Replays(r, c, from, frames, n)
  BY <1>9 DEF Step, Replays
<1> QED
  BY <1>8, <1>10

\* One more frame after the snapshot is applied to what the others made.
LEMMA ReplayAppend ==
    ASSUME NEW S, NEW frames \in Seq(S), NEW op \in S, NEW c, NEW from, op.at > from
    PROVE  Replay(c, from, Append(frames, op)) = ReplayFrame(Replay(c, from, frames), op)
<1>1. PICK n \in Nat : n = Len(frames)
  OBVIOUS
<1>2. PICK longer : longer = Append(frames, op)
  OBVIOUS
<1>3. Len(longer) = n + 1 /\ longer[n + 1] = op /\ \A i \in 1..n : longer[i] = frames[i]
  BY <1>1, <1>2
<1>4. PICK r : Replay(c, from, frames) = r[n] /\ Replays(r, c, from, frames, n)
  BY <1>1, ReplayUnfolds
<1>5. PICK q : Replay(c, from, longer) = q[n + 1] /\ Replays(q, c, from, longer, n + 1)
  BY <1>1, <1>3, ReplayUnfolds
<1> DEFINE N == {i \in Nat : i <= n => q[i] = r[i]}
<1>6. 0 \in N
  BY <1>4, <1>5 DEF Replays
<1>7. ASSUME NEW i \in N PROVE i + 1 \in N
  <2> SUFFICES ASSUME i + 1 <= n PROVE q[i + 1] = r[i + 1]
    OBVIOUS
  <2>1. i + 1 \in 1..n /\ i + 1 \in 1..(n + 1) /\ (i + 1) - 1 = i /\ q[i] = r[i]
    BY <1>1
  <2>2. longer[i + 1] = frames[i + 1]
    BY <1>3, <2>1
  <2> QED
    BY <1>4, <1>5, <2>1, <2>2 DEF Replays
<1>8. N = Nat
  <2>1. N \in SUBSET Nat
    OBVIOUS
  <2> HIDE DEF N
  <2> QED
    BY <1>6, <1>7, <2>1, SetInduction
<1>9. q[n] = r[n]
  BY <1>1, <1>8
<1>10. n + 1 \in 1..(n + 1) /\ (n + 1) - 1 = n
  BY <1>1
<1>11. q[n + 1] = ReplayFrame(q[n], op)
  BY <1>3, <1>5, <1>10 DEF Replays
<1> QED
  BY <1>2, <1>4, <1>5, <1>9, <1>11

\* A log that the snapshot covers leaves the snapshot.
LEMMA ReplayCovered ==
    ASSUME NEW S, NEW frames \in Seq(S), NEW c, NEW from,
           \A i \in 1..Len(frames) : ~(frames[i].at > from)
    PROVE  Replay(c, from, frames) = c
<1>1. PICK n \in Nat : n = Len(frames)
  OBVIOUS
<1>2. PICK r : Replay(c, from, frames) = r[n] /\ Replays(r, c, from, frames, n)
  BY <1>1, ReplayUnfolds
<1> DEFINE N == {i \in Nat : i <= n => r[i] = c}
<1>3. 0 \in N
  BY <1>2 DEF Replays
<1>4. ASSUME NEW i \in N PROVE i + 1 \in N
  <2> SUFFICES ASSUME i + 1 <= n PROVE r[i + 1] = c
    OBVIOUS
  <2>1. i + 1 \in 1..n /\ (i + 1) - 1 = i /\ r[i] = c
    BY <1>1
  <2> QED
    BY <1>1, <1>2, <2>1 DEF Replays
<1>5. N = Nat
  <2>1. N \in SUBSET Nat
    OBVIOUS
  <2> HIDE DEF N
  <2> QED
    BY <1>3, <1>4, <2>1, SetInduction
<1> QED
  BY <1>1, <1>2, <1>5

-----------------------------------------------------------------------------
(* The inductive invariant, by parts.                                      *)

Steps == {"idle", "apply", "save_old", "bump", "save", "put_file", "put_entry", "put_index",
          "down"}
Writing == {"apply", "save_old", "bump", "save"}
Putting == {"put_file", "put_entry", "put_index"}

\* What the quarantine may list: finitely many items.
Boards == {p \in SUBSET Nat : IsFiniteSet(p)}

CellType == [facts : Seq([subject : Subjects, by : Nat]), docs : Seq(Nat), vecs : Seq(Nat),
             timeline : Seq(Nat), events : Nat, pending : Boards, absorbed : Nat]

\* Either index lists every fact once, in the order of their handles.
Aligned(c) ==
    /\ Len(c.docs) = Len(c.facts) /\ Len(c.vecs) = Len(c.facts)
    /\ \A i \in 1..Len(c.facts) : c.docs[i] = i /\ c.vecs[i] = i

Good(c) == c \in CellType /\ Aligned(c)

OpType == [kind : {"fact", "edge", "event", "absorb", "reject"},
           subject : Subjects \cup {"main", "none"}, old : Nat, new : Nat, at : Nat]

\* The operation can be applied to c.
Fits(op, c) ==
    op.kind = "fact" => op.subject \in Subjects /\ op.new = Len(c.facts) + 1

\* The log is in the order of the clock.
LogInOrder ==
    /\ clock \in Nat /\ snap.at \in Nat /\ snap.at <= clock
    /\ log \in Seq(OpType)
    /\ \A i \in 1..Len(log) : log[i].at <= clock
    /\ \A i, j \in 1..Len(log) : i < j => log[i].at < log[j].at

\* A restart would bring back the cells, with the operation that is committed
\* and not yet applied.
Restores ==
    /\ Good(Replayed)
    /\ pc \notin {"apply", "down"} => cells = Replayed
    /\ pc = "apply" => /\ Good(cells) /\ Fits(job, cells)
                       /\ Replayed = ReplayFrame(cells, job)

\* The request that holds the barrier.
JobFits ==
    /\ pc \in Steps
    /\ pc # "idle" => ans = NoAnswer
    /\ pc \in Writing => job \in OpType /\ job.kind \in {"fact", "edge", "event"}
    /\ pc = "save_old" => job.kind = "fact"
    /\ pc \in Putting =>
          /\ job.view \in Views
          /\ job.content.items \subseteq BuildBuiltinView(cells, job.view)
          /\ job.content = RenderView(BuildBuiltinView(cells, job.view), job.content.tier)
    /\ pc = "put_entry" =>
          LET f == <<ForSize(job.content.size), Key(job.view)>>
          IN  f \in DOMAIN files /\ files[f] = job.content

Fields == {"dir", "size", "used", "deps", "tombstone", "mine"}

\* The entries in memory and on disk.
Entries(e) ==
    /\ DOMAIN e \subseteq Views \X Nat
    /\ \A k \in DOMAIN e :
          DOMAIN e[k] = Fields /\ e[k].tombstone \in BOOLEAN /\ e[k].mine \in BOOLEAN

CacheTypes ==
    /\ version \in Nat
    /\ Entries(cache)
    /\ Entries(index)
    /\ \A k \in DOMAIN cache : cache[k].mine => k[2] <= version

\* What was cached in this life under the present version is what would be
\* rendered now.
FreshEntries ==
    pc \notin {"save_old", "bump", "down"} =>
        \A v \in Views \ {BoardView} :
            Key(v) \in DOMAIN cache /\ cache[Key(v)].mine /\ OnDisk(Key(v)) =>
                LET x == files[<<cache[Key(v)].dir, Key(v)>>]
                IN  x = RenderView(BuildBuiltinView(cells, v), x.tier)

\* The file of a live entry shows what the entry depends on.
Backed(e, k) ==
    <<e[k].dir, k>> \in DOMAIN files /\ files[<<e[k].dir, k>>].items \subseteq e[k].deps

\* The facts of c that e[k] depends on are active, but for the one that is
\* about to be invalidated.
NotStale(e, k, c) ==
    \A h \in DOMAIN c.facts :
        FactHandle(h) \in e[k].deps =>
            Active(c, h) \/ (pc = "bump" /\ job.kind = "edge" /\ job.old = h)

MemorySound ==
    ~cut /\ pc # "down" =>
        /\ \A k \in DOMAIN cache : ~cache[k].tombstone =>
              Backed(cache, k) /\ NotStale(cache, k, cells)
        /\ pc \in {"put_file", "put_entry"} => ~Live(Key(job.view))

DiskSound ==
    ~cut /\ pc = "down" =>
        \A k \in DOMAIN index : ~index[k].tombstone =>
            Backed(index, k) /\ NotStale(index, k, Replayed)

ReadInv ==
    /\ LogInOrder
    /\ Restores
    /\ JobFits
    /\ CacheTypes
    /\ FreshEntries
    /\ MemorySound
    /\ DiskSound
    /\ FreshInLife
    /\ SupersededNotServed
    /\ RecallComplete

-----------------------------------------------------------------------------
(* The operations on the cells.                                            *)

FactType == [subject : Subjects, by : Nat]

\* FactCell::insert_with_supersede.
LEMMA InsertFacts ==
    ASSUME NEW facts \in Seq(FactType), NEW s \in Subjects, NEW old \in Nat
    PROVE  /\ InsertWithSupersede(facts, s, old) \in Seq(FactType)
           /\ Len(InsertWithSupersede(facts, s, old)) = Len(facts) + 1
           /\ InsertWithSupersede(facts, s, old)[Len(facts) + 1] = [subject |-> s, by |-> 0]
           /\ \A h \in 1..Len(facts) :
                 h # old => InsertWithSupersede(facts, s, old)[h] = facts[h]
<1>1. PICK new \in Nat : new = Len(facts) + 1
  OBVIOUS
<1>2. PICK edged : edged = IF old = 0 THEN facts ELSE [facts EXCEPT ![old].by = new]
  OBVIOUS
<1>3. /\ edged \in Seq(FactType) /\ Len(edged) = Len(facts)
      /\ \A h \in 1..Len(facts) : h # old => edged[h] = facts[h]
  <2>1. CASE old = 0
    BY <1>2, <2>1
  <2>2. CASE old # 0
    <3>1. edged = [facts EXCEPT ![old].by = new]
      BY <1>2, <2>2
    <3>2. DOMAIN edged = 1..Len(facts)
      BY <3>1
    <3>3. \A h \in 1..Len(facts) :
             edged[h] = IF h = old THEN [facts[h] EXCEPT !.by = new] ELSE facts[h]
      BY <3>1
    <3>4. \A h \in 1..Len(facts) : facts[h] \in FactType
      OBVIOUS
    <3>5. \A h \in 1..Len(facts) : edged[h] \in FactType
      BY <1>1, <3>3, <3>4 DEF FactType
    <3>6. edged = [h \in 1..Len(facts) |-> edged[h]]
      BY <3>1, <3>2
    <3>7. edged \in [1..Len(facts) -> FactType] /\ Len(facts) \in Nat
      BY <3>5, <3>6
    <3>8. edged \in Seq(FactType) /\ Len(edged) = Len(facts)
      BY ONLY <3>7
    <3> QED
      BY <3>3, <3>8
  <2> QED
    BY <2>1, <2>2
<1>4. PICK f : f = [subject |-> s, by |-> 0]
  OBVIOUS
<1>5. f \in FactType
  BY <1>4 DEF FactType
<1>6. InsertWithSupersede(facts, s, old) = Append(edged, f)
  BY <1>1, <1>2, <1>4 DEF InsertWithSupersede
<1> HIDE DEF FactType
<1>7. /\ Append(edged, f) \in Seq(FactType)
      /\ Len(Append(edged, f)) = Len(edged) + 1
      /\ Append(edged, f)[Len(edged) + 1] = f
      /\ \A h \in 1..Len(edged) : Append(edged, f)[h] = edged[h]
  BY <1>3, <1>5
<1> QED
  BY <1>3, <1>4, <1>6, <1>7

LEMMA CellFields ==
    ASSUME NEW c \in CellType
    PROVE  /\ c.facts \in Seq(FactType) /\ c.docs \in Seq(Nat) /\ c.vecs \in Seq(Nat)
           /\ c.timeline \in Seq(Nat) /\ c.events \in Nat /\ c.pending \in Boards
           /\ c.absorbed \in Nat /\ Captured(c) = c
<1>1. /\ c.facts \in Seq(FactType) /\ c.docs \in Seq(Nat) /\ c.vecs \in Seq(Nat)
      /\ c.timeline \in Seq(Nat) /\ c.events \in Nat /\ c.pending \in Boards
      /\ c.absorbed \in Nat
  BY DEF CellType, FactType
<1>2. Captured(c) = c
  BY DEF CellType, Captured, FactState, Bm25State, VectorState, TimelineState, QuarantineState
<1> QED
  BY <1>1, <1>2

LEMMA AppliedFact ==
    ASSUME NEW c, Good(c), NEW op \in OpType, Fits(op, c), op.kind = "fact"
    PROVE  /\ Good(Applied(c, op)) /\ ReplayFrame(c, op) = Applied(c, op)
           /\ Applied(c, op).facts = InsertWithSupersede(c.facts, op.subject, op.old)
<1>1. /\ c \in CellType /\ c.facts \in Seq(FactType) /\ c.docs \in Seq(Nat)
      /\ c.vecs \in Seq(Nat) /\ Aligned(c) /\ op.subject \in Subjects /\ op.old \in Nat
      /\ op.new = Len(c.facts) + 1 /\ op.new \in Nat /\ Len(c.facts) \in Nat
  BY CellFields DEF Good, Fits, OpType
<1>2. PICK fs : fs = InsertWithSupersede(c.facts, op.subject, op.old)
  OBVIOUS
<1>3. fs \in Seq(FactType) /\ Len(fs) = Len(c.facts) + 1
  BY <1>1, <1>2, InsertFacts
<1>4. Applied(c, op) = Indexed([c EXCEPT !.facts = fs], op.new)
  BY <1>2 DEF Applied
<1>5. op.new \notin DOMAIN c.facts
  BY <1>1
<1>6. ReplayFrame(c, op) = Applied(c, op)
  BY <1>2, <1>4, <1>5 DEF ReplayFrame
<1>7. PICK a : a = [c EXCEPT !.facts = fs]
  OBVIOUS
<1>8. /\ a \in CellType /\ a.facts = fs /\ a.docs = c.docs /\ a.vecs = c.vecs
  BY <1>1, <1>3, <1>7 DEF CellType, FactType
<1>9. PICK b : b = [a EXCEPT !.docs = Append(c.docs, op.new), !.vecs = Append(c.vecs, op.new)]
  OBVIOUS
<1>10. Applied(c, op) = b
  BY <1>4, <1>7, <1>8, <1>9 DEF Indexed
<1>11. Append(c.docs, op.new) \in Seq(Nat) /\ Append(c.vecs, op.new) \in Seq(Nat)
  BY <1>1
<1>12. /\ b \in CellType /\ b.facts = fs /\ b.docs = Append(c.docs, op.new)
       /\ b.vecs = Append(c.vecs, op.new)
  BY <1>8, <1>9, <1>11 DEF CellType
<1>13. Aligned(b)
  <2>1. Len(c.docs) = Len(c.facts) /\ Len(c.vecs) = Len(c.facts)
        /\ \A i \in 1..Len(c.facts) : c.docs[i] = i /\ c.vecs[i] = i
    BY <1>1 DEF Aligned
  <2>2. Len(b.docs) = Len(c.docs) + 1 /\ Len(b.vecs) = Len(c.vecs) + 1
    BY <1>1, <1>12
  <2>3. \A i \in 1..(Len(c.facts) + 1) : i \in 1..Len(c.facts) \/ i = Len(c.facts) + 1
    BY <1>1
  <2>4. \A i \in 1..(Len(c.facts) + 1) : b.docs[i] = i /\ b.vecs[i] = i
    <3>1. PICK n \in Nat : n = Len(c.facts)
      BY <1>1
    <3>2. PICK ds \in Seq(Nat), vs \in Seq(Nat) : ds = c.docs /\ vs = c.vecs
      BY <1>1
    <3>3. \A i \in 1..n : Append(ds, n + 1)[i] = ds[i] /\ Append(vs, n + 1)[i] = vs[i]
      BY <2>1, <3>1, <3>2
    <3>4. Append(ds, n + 1)[n + 1] = n + 1 /\ Append(vs, n + 1)[n + 1] = n + 1
      BY <2>1, <3>1, <3>2
    <3>5. b.docs = Append(ds, n + 1) /\ b.vecs = Append(vs, n + 1)
      BY <1>1, <1>12, <3>1, <3>2
    <3>6. \A i \in 1..n : ds[i] = i /\ vs[i] = i
      BY <2>1, <3>1, <3>2
    <3>7. ASSUME NEW i \in 1..(n + 1) PROVE b.docs[i] = i /\ b.vecs[i] = i
      <4>1. i \in 1..n \/ i = n + 1
        BY <3>7
      <4> QED
        BY ONLY <3>3, <3>4, <3>5, <3>6, <4>1
    <3> QED
      BY ONLY <3>1, <3>7
  <2> QED
    BY <1>3, <1>12, <2>1, <2>2, <2>4 DEF Aligned
<1> QED
  BY <1>2, <1>6, <1>10, <1>12, <1>13 DEF Good

\* An edge changes one fact.
LEMMA AppliedEdge ==
    ASSUME NEW c, Good(c), NEW op \in OpType, op.kind = "edge"
    PROVE  /\ Good(Applied(c, op)) /\ ReplayFrame(c, op) = Applied(c, op)
           /\ Len(Applied(c, op).facts) = Len(c.facts)
           /\ \A h \in 1..Len(c.facts) : h # op.old => Applied(c, op).facts[h] = c.facts[h]
<1>1. /\ c \in CellType /\ c.facts \in Seq(FactType) /\ Aligned(c) /\ op.new \in Nat
      /\ Len(c.facts) \in Nat
  BY CellFields DEF Good, OpType
<1>2. PICK fs : fs = [c.facts EXCEPT ![op.old].by = op.new]
  OBVIOUS
<1>3. Applied(c, op) = [c EXCEPT !.facts = fs] /\ ReplayFrame(c, op) = Applied(c, op)
  BY <1>2 DEF Applied, ReplayFrame
<1>4. DOMAIN fs = 1..Len(c.facts)
      /\ \A h \in 1..Len(c.facts) :
            fs[h] = IF h = op.old THEN [c.facts[h] EXCEPT !.by = op.new] ELSE c.facts[h]
  BY <1>1, <1>2
<1>5. \A h \in 1..Len(c.facts) : c.facts[h] \in FactType
  BY <1>1
<1>6. \A h \in 1..Len(c.facts) : fs[h] \in FactType
  BY <1>1, <1>4, <1>5 DEF FactType
<1>7. fs = [h \in 1..Len(c.facts) |-> fs[h]]
  BY <1>2, <1>4
<1>8. fs \in [1..Len(c.facts) -> FactType]
  BY <1>6, <1>7
<1>9. fs \in Seq(FactType) /\ Len(fs) = Len(c.facts)
  BY ONLY <1>1, <1>8
<1>10. PICK b : b = [c EXCEPT !.facts = fs]
  OBVIOUS
<1>11. b \in CellType /\ b.facts = fs /\ b.docs = c.docs /\ b.vecs = c.vecs
  BY <1>1, <1>9, <1>10 DEF CellType, FactType
<1>12. Aligned(b)
  BY <1>1, <1>9, <1>11 DEF Aligned
<1>13. Good(b)
  BY <1>11, <1>12 DEF Good
<1>14. \A h \in 1..Len(c.facts) : h # op.old => fs[h] = c.facts[h]
  BY <1>4
<1>15. Applied(c, op) = b /\ ReplayFrame(c, op) = Applied(c, op)
  BY <1>3, <1>10
<1> QED
  BY ONLY <1>9, <1>11, <1>13, <1>14, <1>15

\* The timeline and the quarantine are apart from the facts.
LEMMA AppliedOther ==
    ASSUME NEW c, Good(c), NEW op \in OpType, op.kind \in {"event", "absorb", "reject"}
    PROVE  /\ Good(Applied(c, op)) /\ ReplayFrame(c, op) = Applied(c, op)
           /\ Applied(c, op).facts = c.facts
           /\ op.kind # "event" => Applied(c, op).timeline = c.timeline
<1>1. /\ c \in CellType /\ c.timeline \in Seq(Nat) /\ Aligned(c) /\ c.events \in Nat
      /\ c.pending \in Boards /\ c.absorbed \in Nat
  BY CellFields DEF Good
<1>2. PICK b : b = Applied(c, op)
  OBVIOUS
<1>3. ReplayFrame(c, op) = Applied(c, op)
  BY DEF Applied, ReplayFrame
<1>4. CASE op.kind = "event"
  <2>1. PICK es : es = Append(c.timeline, c.events + 1)
    OBVIOUS
  <2>2. PICK t : t = IF Len(es) - TimelineCap > 0
                     THEN SubSeq(es, Len(es) - TimelineCap + 1, Len(es)) ELSE es
    OBVIOUS
  <2>3. es \in Seq(Nat)
    BY <1>1, <2>1
  <2>4. t \in Seq(Nat)
    <3>1. TimelineCap \in Nat /\ Len(es) \in Nat
      BY <2>3, ReadPathConstants
    <3>2. CASE Len(es) - TimelineCap > 0
      <4>1. \A i \in (Len(es) - TimelineCap + 1)..Len(es) : i \in 1..Len(es)
        BY <3>1, <3>2
      <4>2. SubSeq(es, Len(es) - TimelineCap + 1, Len(es)) \in Seq(Nat)
        <5>1. PICK m \in Int : m = Len(es) - TimelineCap + 1
          BY <3>1
        <5>2. PICK n \in Nat : n = Len(es)
          BY <3>1
        <5>3. m > 1 /\ m <= n + 1
          BY <3>1, <3>2, <5>1, <5>2
        <5>4. SubSeq(es, m, n) \in Seq(Nat)
          BY <2>3, <5>1, <5>2, <5>3, SubSeqProperties
        <5> QED
          BY <5>1, <5>2, <5>4
      <4> QED
        BY <2>2, <3>2, <4>2
    <3>3. CASE ~(Len(es) - TimelineCap > 0)
      BY <2>2, <2>3, <3>3
    <3> QED
      BY <3>2, <3>3
  <2>5. b = [c EXCEPT !.events = c.events + 1, !.timeline = t]
    BY <1>2, <1>4, <2>1, <2>2 DEF Applied, TimelineAppend
  <2>6. PICK n \in Nat : n = c.events + 1
    BY <1>1
  <2>7. b = [c EXCEPT !.events = n, !.timeline = t]
    BY <2>5, <2>6
  <2>8. b \in CellType /\ b.facts = c.facts /\ b.docs = c.docs /\ b.vecs = c.vecs
    BY <1>1, <2>4, <2>7 DEF CellType
  <2> QED
    BY <1>1, <1>2, <1>3, <1>4, <2>8 DEF Good, Aligned
<1>5. CASE op.kind \in {"absorb", "reject"}
  <2>1. /\ b \in CellType /\ b.facts = c.facts /\ b.docs = c.docs /\ b.vecs = c.vecs
        /\ b.timeline = c.timeline
    <3>1. CASE op.kind = "absorb"
      <4>1. b = [c EXCEPT !.absorbed = c.absorbed + 1,
                          !.pending = c.pending \cup {c.absorbed + 1}]
        BY <1>2, <3>1 DEF Applied, Absorbed
      <4>2. PICK n \in Nat : n = c.absorbed + 1
        BY <1>1
      <4>3. PICK ps \in Boards : ps = c.pending \cup {n}
        BY <1>1, FS_AddElement DEF Boards
      <4>4. b = [c EXCEPT !.absorbed = n, !.pending = ps]
        BY <4>1, <4>2, <4>3
      <4> QED
        BY <1>1, <4>4 DEF CellType
    <3>2. CASE op.kind = "reject"
      <4>1. b = [c EXCEPT !.pending = c.pending \ {op.old}]
        BY <1>2, <3>2 DEF Applied, Rejected
      <4>2. PICK ps \in Boards : ps = c.pending \ {op.old}
        BY <1>1, FS_RemoveElement DEF Boards
      <4> QED
        BY <1>1, <4>1, <4>2 DEF CellType
    <3> QED
      BY <1>5, <3>1, <3>2
  <2> QED
    BY <1>1, <1>2, <1>3, <1>5, <2>1 DEF Good, Aligned
<1> QED
  BY <1>4, <1>5

-----------------------------------------------------------------------------
(* Views.                                                                  *)

\* A view over the facts or the timeline does not depend on the quarantine.
LEMMA ViewDepends ==
    ASSUME NEW c, NEW d, d.facts = c.facts, d.timeline = c.timeline,
           NEW v \in Views \ {BoardView}
    PROVE  BuildBuiltinView(d, v) = BuildBuiltinView(c, v)
<1>1. v[1] = "fact_subject" \/ v = TailView
  BY DEF Views, FactView, TailView, BoardView
<1>2. ActiveFor(d, v[2]) = ActiveFor(c, v[2])
  BY DEF ActiveFor, Active
<1> QED
  BY <1>1, <1>2 DEF BuildBuiltinView

LEMMA RenderShows ==
    ASSUME NEW items, NEW t
    PROVE  RenderView(items, t).items \subseteq items /\ RenderView(items, t).tier = t
<1>1. \A n : First(items, n) \subseteq items
  BY DEF First
<1> QED
  BY <1>1 DEF RenderView

\* A fact in a view that is built now is active.
LEMMA ViewsAreActive ==
    ASSUME NEW c, NEW v \in Views, NEW h, FactHandle(h) \in BuildBuiltinView(c, v)
    PROVE  h \in DOMAIN c.facts /\ Active(c, h)
<1>1. v[1] = "fact_subject" \/ v = TailView \/ v = BoardView
  BY DEF Views, FactView
<1>2. CASE v[1] = "fact_subject"
  <2>1. BuildBuiltinView(c, v) = {FactHandle(g) : g \in ActiveFor(c, v[2])}
    BY <1>2 DEF BuildBuiltinView, TailView, BoardView
  <2>2. PICK g \in ActiveFor(c, v[2]) : FactHandle(h) = FactHandle(g)
    BY <2>1
  <2>3. g = h
    BY <2>2 DEF FactHandle
  <2> QED
    BY <2>2, <2>3 DEF ActiveFor
<1>3. CASE v = TailView \/ v = BoardView
  BY <1>3 DEF BuildBuiltinView, FactHandle, EventHandle, ItemHandle, TailView, BoardView
<1> QED
  BY <1>1, <1>2, <1>3

-----------------------------------------------------------------------------
(* The steps.                                                              *)

\* Nothing is claimed of a request that has not answered.
LEMMA Silent ==
    ASSUME ans' = NoAnswer
    PROVE  FreshInLife' /\ SupersededNotServed' /\ RecallComplete'
<1>1. ans'.kind = "none"
  BY DEF NoAnswer
<1> QED
  BY <1>1 DEF FreshInLife, SupersededNotServed, RecallComplete

\* A commit at the next logical time.
LEMMA LogGrows ==
    ASSUME LogInOrder, NEW op \in OpType, op.at = clock + 1, clock' = clock + 1,
           log' = Append(log, op), snap' = snap
    PROVE  LogInOrder' /\ Replayed' = ReplayFrame(Replayed, op)
<1>1. /\ clock \in Nat /\ snap.at \in Nat /\ snap.at <= clock /\ log \in Seq(OpType)
      /\ \A i \in 1..Len(log) : log[i].at <= clock
      /\ \A i, j \in 1..Len(log) : i < j => log[i].at < log[j].at
  BY DEF LogInOrder
<1>2. op.at > snap.at /\ clock' \in Nat /\ snap.at <= clock' /\ op.at = clock'
  BY <1>1
<1>3. Replayed' = ReplayFrame(Replayed, op)
  <2>1. Replayed' = Replay(snap.cells, snap.at, Append(log, op))
    BY DEF Replayed
  <2>2. Replay(snap.cells, snap.at, Append(log, op))
           = ReplayFrame(Replay(snap.cells, snap.at, log), op)
    BY <1>1, <1>2, ReplayAppend
  <2> QED
    BY <2>1, <2>2 DEF Replayed
<1>4. \A i \in 1..Len(log) : log[i].at \in Nat
  <2>1. \A i \in 1..Len(log) : log[i] \in OpType
    BY <1>1
  <2> QED
    BY <2>1 DEF OpType
<1>5. /\ log' \in Seq(OpType) /\ Len(log) \in Nat /\ Len(log') = Len(log) + 1
      /\ log'[Len(log) + 1] = op
      /\ \A i \in 1..Len(log) : log'[i] = log[i]
  BY <1>1
<1>6. \A i \in 1..Len(log') : i \in 1..Len(log) \/ i = Len(log) + 1
  BY <1>5
<1>7. \A i \in 1..Len(log) : log[i].at <= clock' /\ log[i].at < op.at
  BY <1>1, <1>2, <1>4
<1>8. \A i \in 1..Len(log') : log'[i].at <= clock'
  BY <1>2, <1>5, <1>6, <1>7
<1>9. \A i, j \in 1..Len(log') : i < j => log'[i].at < log'[j].at
  <2> SUFFICES ASSUME NEW i \in 1..Len(log'), NEW j \in 1..Len(log'), i < j
               PROVE  log'[i].at < log'[j].at
    OBVIOUS
  <2>1. i \in 1..Len(log)
    BY <1>5
  <2>2. CASE j \in 1..Len(log)
    BY <1>1, <1>5, <2>1, <2>2
  <2>3. CASE j = Len(log) + 1
    BY <1>5, <1>7, <2>1, <2>3
  <2> QED
    BY <1>6, <2>2, <2>3
<1>10. LogInOrder'
  BY <1>2, <1>5, <1>8, <1>9 DEF LogInOrder
<1> QED
  BY <1>3, <1>10

\* A request that is committed and not yet applied.
LEMMA CommitStep ==
    ASSUME ReadInv, NEW op \in OpType, op.kind \in {"fact", "edge", "event"},
           Fits(op, cells), op.at = clock + 1, Begin, Commit(op)
    PROVE  ReadInv'
<1>1. /\ pc = "idle" /\ pc' = "apply" /\ job' = op /\ ans' = NoAnswer
      /\ clock' = clock + 1 /\ log' = Append(log, op)
      /\ version' = version /\ cells' = cells /\ snap' = snap /\ cut' = cut
      /\ cache' = cache /\ files' = files /\ index' = index
  BY DEF Begin, Commit, Tick, store
<1>2. LogInOrder' /\ Replayed' = ReplayFrame(Replayed, op)
  BY <1>1, LogGrows DEF ReadInv
<1>3. Good(cells) /\ cells = Replayed
  BY <1>1 DEF ReadInv, Restores
<1>4. Good(ReplayFrame(cells, op))
  BY <1>3, AppliedFact, AppliedEdge, AppliedOther
<1>5. Restores'
  <2>1. Good(Replayed')
    BY <1>2, <1>3, <1>4
  <2>2. Replayed' = ReplayFrame(cells', job')
    BY <1>1, <1>2, <1>3
  <2>3. Good(cells') /\ Fits(job', cells')
    BY <1>1, <1>3
  <2> QED
    BY <1>1, <2>1, <2>2, <2>3 DEF Restores
<1>6. JobFits'
  BY <1>1 DEF JobFits, Steps, Writing, Putting
<1>7. CacheTypes'
  BY <1>1 DEF ReadInv, CacheTypes
<1>8. FreshEntries'
  BY <1>1 DEF ReadInv, FreshEntries, Key, OnDisk
<1>9. MemorySound' /\ DiskSound'
  BY <1>1 DEF ReadInv, MemorySound, DiskSound, Backed, NotStale
<1>10. FreshInLife' /\ SupersededNotServed' /\ RecallComplete'
  BY <1>1, Silent
<1> QED
  BY <1>2, <1>5, <1>6, <1>7, <1>8, <1>9, <1>10 DEF ReadInv

\* handle_write of a fact or a timeline entry, and handle_supersede, commit.
LEMMA RequestSteps ==
    ASSUME ReadInv,
           \/ \E s \in Subjects, old \in 0..Len(cells.facts) : WriteFact(s, old)
           \/ WriteEvent
           \/ \E old, new \in DOMAIN cells.facts : Supersede(old, new)
    PROVE  ReadInv'
<1>1. clock + 1 \in Nat
  BY DEF ReadInv, LogInOrder
<1>2. ASSUME Begin PROVE cells.facts \in Seq(FactType) /\ cells.events + 1 \in Nat
  BY <1>2, CellFields DEF ReadInv, Restores, Begin, Good
<1>3. ASSUME NEW s \in Subjects, NEW old \in 0..Len(cells.facts), WriteFact(s, old)
      PROVE  ReadInv'
  <2>1. PICK op : op = Op("fact", s, old, Len(cells.facts) + 1)
    OBVIOUS
  <2>2. Begin /\ Commit(op)
    BY <1>3, <2>1 DEF WriteFact
  <2>3. Len(cells.facts) + 1 \in Nat /\ old \in Nat
    BY <1>2, <2>2
  <2>4. op \in OpType /\ op.kind = "fact" /\ op.at = clock + 1 /\ Fits(op, cells)
    BY <1>1, <2>1, <2>3 DEF Op, OpType, Fits
  <2> QED
    BY <2>2, <2>4, CommitStep
<1>4. ASSUME WriteEvent PROVE ReadInv'
  <2>1. PICK op : op = Op("event", "main", 0, cells.events + 1)
    OBVIOUS
  <2>2. Begin /\ Commit(op)
    BY <1>4, <2>1 DEF WriteEvent
  <2>3. op \in OpType /\ op.kind = "event" /\ op.at = clock + 1 /\ Fits(op, cells)
    BY <1>1, <1>2, <2>1, <2>2 DEF Op, OpType, Fits
  <2> QED
    BY <2>2, <2>3, CommitStep
<1>5. ASSUME NEW old \in DOMAIN cells.facts, NEW new \in DOMAIN cells.facts,
             Supersede(old, new)
      PROVE  ReadInv'
  <2>1. PICK op : op = Op("edge", "none", old, new)
    OBVIOUS
  <2>2. Begin /\ Commit(op)
    BY <1>5, <2>1 DEF Supersede
  <2>3. old \in Nat /\ new \in Nat
    BY <1>2, <2>2
  <2>4. op \in OpType /\ op.kind = "edge" /\ op.at = clock + 1 /\ Fits(op, cells)
    BY <1>1, <2>1, <2>3 DEF Op, OpType, Fits
  <2> QED
    BY <2>2, <2>4, CommitStep
<1> QED
  BY <1>3, <1>4, <1>5

\* invalidate_handle marks what depends on the handle, and nothing else changes.
LEMMA Invalidated ==
    ASSUME Entries(cache), NEW g, cache' = InvalidateHandle(g)
    PROVE  /\ Entries(cache') /\ DOMAIN cache' = DOMAIN cache
           /\ \A k \in DOMAIN cache :
                 /\ cache'[k].dir = cache[k].dir /\ cache'[k].deps = cache[k].deps
                 /\ cache'[k].mine = cache[k].mine
                 /\ ~cache'[k].tombstone => ~cache[k].tombstone /\ g \notin cache[k].deps
<1>1. DOMAIN cache' = DOMAIN cache
  BY DEF InvalidateHandle
<1>2. ASSUME NEW k \in DOMAIN cache
      PROVE  /\ DOMAIN cache'[k] = Fields
             /\ cache'[k].dir = cache[k].dir /\ cache'[k].deps = cache[k].deps
             /\ cache'[k].mine = cache[k].mine
             /\ cache'[k].tombstone = (cache[k].tombstone \/ g \in cache[k].deps)
  <2>1. cache'[k] = [cache[k] EXCEPT !.tombstone = @ \/ g \in cache[k].deps]
    BY DEF InvalidateHandle
  <2>2. DOMAIN cache[k] = Fields
    BY DEF Entries
  <2>3. /\ DOMAIN cache'[k] = Fields
        /\ \A x \in Fields \ {"tombstone"} : cache'[k][x] = cache[k][x]
    BY <2>1, <2>2
  <2>4. "tombstone" \in Fields
    BY DEF Fields
  <2>5. cache'[k].tombstone = (cache[k].tombstone \/ g \in cache[k].deps)
    BY <2>1, <2>2, <2>4, Zenon
  <2> QED
    BY <2>3, <2>5 DEF Fields
<1>3. Entries(cache')
  <2>1. \A k \in DOMAIN cache : cache[k].tombstone \in BOOLEAN /\ cache[k].mine \in BOOLEAN
    BY DEF Entries
  <2>2. DOMAIN cache' \subseteq Views \X Nat
    BY <1>1 DEF Entries
  <2>3. \A k \in DOMAIN cache : cache'[k].tombstone \in BOOLEAN
    BY <1>2, Zenon
  <2> QED
    BY <1>1, <1>2, <2>1, <2>2, <2>3 DEF Entries
<1>4. ASSUME NEW k \in DOMAIN cache, ~cache'[k].tombstone
      PROVE  ~cache[k].tombstone /\ g \notin cache[k].deps
  BY <1>2, <1>4, Zenon
<1> QED
  BY <1>1, <1>2, <1>3, <1>4

\* apply_write.
LEMMA ApplyStep ==
    ASSUME ReadInv, Apply
    PROVE  ReadInv'
<1>1. /\ pc = "apply" /\ cells' = Applied(cells, job)
      /\ job' = job /\ clock' = clock /\ version' = version /\ log' = log /\ snap' = snap
      /\ files' = files /\ index' = index /\ ans' = ans /\ cut' = cut
      /\ pc' \in {"save_old", "bump"} /\ (pc' = "save_old" => job.kind = "fact")
  BY DEF Apply, time
<1>2. /\ Good(cells) /\ Fits(job, cells) /\ Replayed = ReplayFrame(cells, job) /\ Good(Replayed)
      /\ ans = NoAnswer /\ job \in OpType /\ job.kind \in {"fact", "edge", "event"}
  BY <1>1 DEF ReadInv, Restores, JobFits, Writing
<1>3. Replayed' = Replayed /\ cells' = Replayed
  <2>1. Replayed' = Replayed
    BY <1>1 DEF Replayed
  <2>2. ReplayFrame(cells, job) = Applied(cells, job)
    BY <1>2, AppliedFact, AppliedEdge, AppliedOther
  <2> QED
    BY <1>1, <1>2, <2>1, <2>2
<1>4. LogInOrder'
  BY <1>1 DEF ReadInv, LogInOrder
<1>5. Restores'
  BY <1>1, <1>2, <1>3 DEF Restores
<1>6. JobFits'
  BY <1>1, <1>2 DEF JobFits, Steps, Writing, Putting
<1>7. /\ Entries(cache') /\ DOMAIN cache' = DOMAIN cache
      /\ \A k \in DOMAIN cache :
            /\ cache'[k].dir = cache[k].dir /\ cache'[k].deps = cache[k].deps
            /\ cache'[k].mine = cache[k].mine
            /\ ~cache'[k].tombstone => ~cache[k].tombstone
      /\ job.kind = "fact" /\ job.old # 0 =>
            \A k \in DOMAIN cache : ~cache'[k].tombstone => FactHandle(job.old) \notin cache[k].deps
  <2>1. Entries(cache)
    BY DEF ReadInv, CacheTypes
  <2>2. CASE job.kind = "fact" /\ job.old # 0
    <3>1. cache' = InvalidateHandle(FactHandle(job.old))
      BY <2>2 DEF Apply
    <3> QED
      BY <2>1, <3>1, Invalidated
  <2>3. CASE ~(job.kind = "fact" /\ job.old # 0)
    <3>1. cache' = cache
      BY <2>3 DEF Apply
    <3> QED
      BY <2>1, <2>3, <3>1
  <2> QED
    BY <2>2, <2>3
<1>8. CacheTypes'
  BY <1>1, <1>7 DEF ReadInv, CacheTypes
<1>9. FreshEntries'
  BY <1>1 DEF FreshEntries
<1>10. ASSUME NEW h \in DOMAIN cells'.facts,
              \/ h \notin DOMAIN cells.facts
              \/ Active(cells, h),
              ~(job.kind \in {"fact", "edge"} /\ job.old # 0 /\ h = job.old)
       PROVE  Active(cells', h)
  <2>1. cells.facts \in Seq(FactType) /\ cells'.facts \in Seq(FactType) /\ job.old \in Nat
    <3>1. Good(cells') /\ cells' \in CellType /\ cells \in CellType
      BY <1>2, <1>3 DEF Good
    <3> QED
      BY <1>2, <3>1, CellFields DEF OpType
  <2>2. CASE job.kind = "fact"
    <3>1. cells'.facts = InsertWithSupersede(cells.facts, job.subject, job.old)
      BY <1>1, <1>2, <2>2, AppliedFact
    <3>2. job.subject \in Subjects
      BY <1>2, <2>2 DEF Fits
    <3>3. /\ Len(cells'.facts) = Len(cells.facts) + 1
          /\ cells'.facts[Len(cells.facts) + 1] = [subject |-> job.subject, by |-> 0]
          /\ \A x \in 1..Len(cells.facts) : x # job.old => cells'.facts[x] = cells.facts[x]
      <4>1. PICK fs, s, o : fs = cells.facts /\ s = job.subject /\ o = job.old
        OBVIOUS
      <4>2. fs \in Seq(FactType) /\ s \in Subjects /\ o \in Nat
        BY <2>1, <3>2, <4>1
      <4>3. /\ Len(InsertWithSupersede(fs, s, o)) = Len(fs) + 1
            /\ InsertWithSupersede(fs, s, o)[Len(fs) + 1] = [subject |-> s, by |-> 0]
            /\ \A x \in 1..Len(fs) : x # o => InsertWithSupersede(fs, s, o)[x] = fs[x]
        BY ONLY <4>2, InsertFacts
      <4> QED
        BY <3>1, <4>1, <4>3
    <3>4. h \in 1..Len(cells.facts) \/ h = Len(cells.facts) + 1
      BY <2>1, <3>3
    <3>5. CASE h \in 1..Len(cells.facts)
      <4>1. h # job.old
        BY <1>10, <2>2, <3>5
      <4> QED
        BY <1>10, <2>1, <3>3, <3>5, <4>1 DEF Active
    <3>6. CASE h = Len(cells.facts) + 1
      BY <3>3, <3>6 DEF Active
    <3> QED
      BY <3>4, <3>5, <3>6
  <2>3. CASE job.kind = "edge"
    <3>1. /\ Len(cells'.facts) = Len(cells.facts)
          /\ \A x \in 1..Len(cells.facts) : x # job.old => cells'.facts[x] = cells.facts[x]
      BY <1>1, <1>2, <2>3, AppliedEdge
    <3>2. h \in 1..Len(cells.facts) /\ h # job.old
      BY <1>10, <2>1, <2>3, <3>1
    <3> QED
      BY <1>10, <2>1, <3>1, <3>2 DEF Active
  <2>4. CASE job.kind = "event"
    <3>1. cells'.facts = cells.facts
      BY <1>1, <1>2, <2>4, AppliedOther
    <3> QED
      BY <1>10, <3>1 DEF Active
  <2> QED
    BY <1>2, <2>2, <2>3, <2>4
<1>11. MemorySound'
  <2> SUFFICES ASSUME ~cut', NEW k \in DOMAIN cache', ~cache'[k].tombstone
               PROVE  Backed(cache, k)' /\ NotStale(cache, k, cells)'
    BY <1>1 DEF MemorySound
  <2>1. ~cut /\ k \in DOMAIN cache /\ ~cache[k].tombstone /\ cache'[k].deps = cache[k].deps
        /\ cache'[k].dir = cache[k].dir
    BY <1>1, <1>7
  <2>2. Backed(cache, k) /\ NotStale(cache, k, cells)
    BY <1>1, <2>1 DEF ReadInv, MemorySound
  <2>3. Backed(cache, k)'
    BY <1>1, <2>1, <2>2 DEF Backed
  <2>4. ASSUME NEW h \in DOMAIN cells'.facts, FactHandle(h) \in cache'[k].deps
        PROVE  Active(cells', h) \/ (pc' = "bump" /\ job'.kind = "edge" /\ job'.old = h)
    <3>1. h \in DOMAIN cells.facts => Active(cells, h)
      BY <1>1, <2>1, <2>2, <2>4 DEF NotStale
    <3>2. CASE job.kind = "edge" /\ job.old = h
      <4>1. pc' = "bump"
        BY <1>1, <3>2
      <4> QED
        BY <1>1, <3>2, <4>1
    <3>3. CASE ~(job.kind = "edge" /\ job.old = h)
      <4>1. ~(job.kind = "fact" /\ job.old # 0 /\ h = job.old)
        BY <1>7, <2>1, <2>4
      <4> QED
        BY <1>10, <3>1, <3>3, <4>1
    <3> QED
      BY <3>2, <3>3
  <2> QED
    BY <2>3, <2>4 DEF NotStale
<1>12. DiskSound'
  BY <1>1 DEF DiskSound
<1>13. FreshInLife' /\ SupersededNotServed' /\ RecallComplete'
  BY <1>1, <1>2, Silent
<1> QED
  BY <1>4, <1>5, <1>6, <1>8, <1>9, <1>11, <1>12, <1>13 DEF ReadInv

\* The index is saved, or not, after apply_write's invalidation.
LEMMA SaveOldStep ==
    ASSUME ReadInv, SaveOld
    PROVE  ReadInv'
<1>1. /\ pc = "save_old" /\ pc' = "bump" /\ (index' = cache \/ index' = index)
      /\ job' = job /\ clock' = clock /\ version' = version /\ cells' = cells /\ log' = log
      /\ snap' = snap /\ cache' = cache /\ files' = files /\ ans' = ans /\ cut' = cut
  BY DEF SaveOld, SaveIndex, time
<1>2. Replayed' = Replayed
  BY <1>1 DEF Replayed
<1>3. ans = NoAnswer /\ job \in OpType /\ job.kind = "fact"
  BY <1>1 DEF ReadInv, JobFits, Writing
<1>4. LogInOrder'
  BY <1>1 DEF ReadInv, LogInOrder
<1>5. Restores'
  BY <1>1, <1>2 DEF ReadInv, Restores
<1>6. JobFits'
  BY <1>1, <1>3 DEF JobFits, Steps, Writing, Putting
<1>7. CacheTypes'
  BY <1>1 DEF ReadInv, CacheTypes
<1>8. FreshEntries' /\ DiskSound'
  BY <1>1 DEF FreshEntries, DiskSound
<1>9. MemorySound'
  BY <1>1 DEF ReadInv, MemorySound, Backed, NotStale
<1>10. FreshInLife' /\ SupersededNotServed' /\ RecallComplete'
  BY <1>1, <1>3, Silent
<1> QED
  BY <1>4, <1>5, <1>6, <1>7, <1>8, <1>9, <1>10 DEF ReadInv

\* bump_view_version and the invalidation: nothing cached in this life has the
\* new version.
LEMMA BumpStep ==
    ASSUME ReadInv, Bump
    PROVE  ReadInv'
<1>1. /\ pc = "bump" /\ pc' = "save" /\ version' = version + 1
      /\ cache' = InvalidateHandle(Touched(job))
      /\ job' = job /\ clock' = clock /\ cells' = cells /\ log' = log /\ snap' = snap
      /\ files' = files /\ index' = index /\ ans' = ans /\ cut' = cut
  BY DEF Bump, time
<1>2. Replayed' = Replayed
  BY <1>1 DEF Replayed
<1>3. ans = NoAnswer /\ job \in OpType /\ job.kind \in {"fact", "edge", "event"}
  BY <1>1 DEF ReadInv, JobFits, Writing
<1>4. /\ version \in Nat /\ Entries(cache) /\ Entries(index) /\ DOMAIN cache \subseteq Views \X Nat
      /\ \A k \in DOMAIN cache : cache[k].mine => k[2] <= version
  BY DEF ReadInv, CacheTypes, Entries
<1>5. /\ Entries(cache') /\ DOMAIN cache' = DOMAIN cache
      /\ \A k \in DOMAIN cache :
            /\ cache'[k].dir = cache[k].dir /\ cache'[k].deps = cache[k].deps
            /\ cache'[k].mine = cache[k].mine
            /\ ~cache'[k].tombstone => ~cache[k].tombstone /\ Touched(job) \notin cache[k].deps
  BY <1>1, <1>4, Invalidated
<1>6. LogInOrder'
  BY <1>1 DEF ReadInv, LogInOrder
<1>7. Restores'
  BY <1>1, <1>2 DEF ReadInv, Restores
<1>8. JobFits'
  BY <1>1, <1>3 DEF JobFits, Steps, Writing, Putting
<1>9. \A k \in DOMAIN cache' : cache'[k].mine => k[2] <= version /\ k[2] < version'
  <2>1. \A k \in DOMAIN cache : k[2] \in Nat
    BY <1>4
  <2> QED
    BY <1>1, <1>4, <1>5, <2>1
<1>10. CacheTypes'
  <2>1. \A k \in DOMAIN cache' : cache'[k].mine => k[2] <= version'
    BY <1>1, <1>4, <1>5, <1>9
  <2> QED
    BY <1>1, <1>4, <1>5, <2>1 DEF CacheTypes
<1>11. FreshEntries'
  <2>1. ASSUME NEW v, Key(v)' \in DOMAIN cache', cache'[Key(v)'].mine PROVE FALSE
    <3>1. Key(v)'[2] = version'
      BY DEF Key
    <3>2. version' < version'
      BY <1>9, <2>1, <3>1
    <3> QED
      BY <1>1, <1>4, <3>2
  <2> QED
    BY <2>1 DEF FreshEntries
<1>12. MemorySound'
  <2> SUFFICES ASSUME ~cut', NEW k \in DOMAIN cache', ~cache'[k].tombstone
               PROVE  Backed(cache, k)' /\ NotStale(cache, k, cells)'
    BY <1>1 DEF MemorySound
  <2>1. ~cut /\ k \in DOMAIN cache /\ ~cache[k].tombstone /\ cache'[k].deps = cache[k].deps
        /\ cache'[k].dir = cache[k].dir /\ Touched(job) \notin cache[k].deps
    BY <1>1, <1>5
  <2>2. Backed(cache, k) /\ NotStale(cache, k, cells)
    BY <1>1, <2>1 DEF ReadInv, MemorySound
  <2>3. Backed(cache, k)'
    BY <1>1, <2>1, <2>2 DEF Backed
  <2>4. ASSUME NEW h \in DOMAIN cells.facts, FactHandle(h) \in cache[k].deps
        PROVE  Active(cells, h)
    <3>1. ~(job.kind = "edge" /\ job.old = h)
      BY <2>1, <2>4 DEF Touched
    <3> QED
      BY <2>2, <2>4, <3>1 DEF NotStale
  <2> QED
    BY <1>1, <2>1, <2>3, <2>4 DEF NotStale
<1>13. DiskSound'
  BY <1>1 DEF DiskSound
<1>14. FreshInLife' /\ SupersededNotServed' /\ RecallComplete'
  BY <1>1, <1>3, Silent
<1> QED
  BY <1>6, <1>7, <1>8, <1>10, <1>11, <1>12, <1>13, <1>14 DEF ReadInv

\* The request ends with saving the index, or not.
LEMMA SaveStep ==
    ASSUME ReadInv, Save
    PROVE  ReadInv'
<1>1. /\ pc = "save" /\ pc' = "idle" /\ (index' = cache \/ index' = index)
      /\ clock' = clock /\ version' = version /\ cells' = cells /\ log' = log
      /\ snap' = snap /\ cache' = cache /\ files' = files /\ ans' = ans /\ cut' = cut
  BY DEF Save, SaveIndex, time
<1>2. Replayed' = Replayed
  BY <1>1 DEF Replayed
<1>3. ans = NoAnswer
  BY <1>1 DEF ReadInv, JobFits
<1>4. LogInOrder'
  BY <1>1 DEF ReadInv, LogInOrder
<1>5. Restores'
  BY <1>1, <1>2 DEF ReadInv, Restores
<1>6. JobFits'
  BY <1>1 DEF JobFits, Steps, Writing, Putting
<1>7. CacheTypes'
  BY <1>1 DEF ReadInv, CacheTypes
<1>8. FreshEntries'
  BY <1>1 DEF ReadInv, FreshEntries, Key, OnDisk
<1>9. MemorySound' /\ DiskSound'
  BY <1>1 DEF ReadInv, MemorySound, DiskSound, Backed, NotStale
<1>10. FreshInLife' /\ SupersededNotServed' /\ RecallComplete'
  BY <1>1, <1>3, Silent
<1> QED
  BY <1>4, <1>5, <1>6, <1>7, <1>8, <1>9, <1>10 DEF ReadInv

\* The quarantine's operations touch no view over the facts or the timeline.
LEMMA BoardStep ==
    ASSUME ReadInv, NEW op \in OpType, op.kind \in {"absorb", "reject"},
           op.at = clock + 1, OnBoard(op)
    PROVE  ReadInv'
<1>1. /\ pc = "idle" /\ pc' = pc /\ job' = job /\ ans' = NoAnswer
      /\ clock' = clock + 1 /\ log' = Append(log, op) /\ cells' = Applied(cells, op)
      /\ version' = version /\ snap' = snap /\ cut' = cut
      /\ cache' = cache /\ files' = files /\ index' = index
  BY DEF OnBoard, Begin, Tick, store
<1>2. LogInOrder' /\ Replayed' = ReplayFrame(Replayed, op)
  BY <1>1, LogGrows DEF ReadInv
<1>3. Good(cells) /\ cells = Replayed
  BY <1>1 DEF ReadInv, Restores
<1>4. /\ Good(cells') /\ ReplayFrame(cells, op) = cells' /\ cells'.facts = cells.facts
      /\ cells'.timeline = cells.timeline
  BY <1>1, <1>3, AppliedOther
<1>5. Restores'
  BY <1>1, <1>2, <1>3, <1>4 DEF Restores
<1>6. JobFits'
  BY <1>1 DEF JobFits, Steps, Writing, Putting
<1>7. CacheTypes'
  BY <1>1 DEF ReadInv, CacheTypes
<1>8. FreshEntries'
  <2>1. \A v \in Views \ {BoardView} : BuildBuiltinView(cells', v) = BuildBuiltinView(cells, v)
    BY <1>4, ViewDepends
  <2> QED
    BY <1>1, <2>1 DEF ReadInv, FreshEntries, Key, OnDisk
<1>9. MemorySound' /\ DiskSound'
  BY <1>1, <1>4 DEF ReadInv, MemorySound, DiskSound, Backed, NotStale, Active
<1>10. FreshInLife' /\ SupersededNotServed' /\ RecallComplete'
  BY <1>1, Silent
<1> QED
  BY <1>2, <1>5, <1>6, <1>7, <1>8, <1>9, <1>10 DEF ReadInv

LEMMA QuarantineSteps ==
    ASSUME ReadInv, Absorb \/ \E q \in cells.pending : Reject(q)
    PROVE  ReadInv'
<1>1. clock + 1 \in Nat
  BY DEF ReadInv, LogInOrder
<1>2. ASSUME Begin PROVE cells.pending \in SUBSET Nat /\ cells.absorbed + 1 \in Nat
  BY <1>2, CellFields DEF Boards, ReadInv, Restores, Begin, Good
<1>3. CASE Absorb
  <2>1. PICK op : op = Op("absorb", "none", 0, cells.absorbed + 1)
    OBVIOUS
  <2>2. OnBoard(op) /\ Begin
    BY <1>3, <2>1 DEF Absorb, OnBoard
  <2>3. op \in OpType /\ op.kind = "absorb" /\ op.at = clock + 1
    BY <1>1, <1>2, <2>1, <2>2 DEF Op, OpType
  <2> QED
    BY <2>2, <2>3, BoardStep
<1>4. ASSUME NEW q \in cells.pending, Reject(q) PROVE ReadInv'
  <2>1. PICK op : op = Op("reject", "none", q, 0)
    OBVIOUS
  <2>2. OnBoard(op) /\ Begin
    BY <1>4, <2>1 DEF Reject, OnBoard
  <2>3. op \in OpType /\ op.kind = "reject" /\ op.at = clock + 1
    BY <1>1, <1>2, <2>1, <2>2 DEF Op, OpType
  <2> QED
    BY <2>2, <2>3, BoardStep
<1> QED
  BY <1>3, <1>4

\* A read takes a logical time.
LEMMA ClockTicks ==
    ASSUME LogInOrder, clock' = clock + 1, log' = log, snap' = snap
    PROVE  LogInOrder'
<1>1. /\ clock \in Nat /\ snap.at \in Nat /\ snap.at <= clock /\ log \in Seq(OpType)
      /\ \A i \in 1..Len(log) : log[i].at <= clock
  BY DEF LogInOrder
<1>2. \A i \in 1..Len(log) : log[i].at \in Nat
  <2>1. \A i \in 1..Len(log) : log[i] \in OpType
    BY <1>1
  <2> QED
    BY <2>1 DEF OpType
<1>3. \A i \in 1..Len(log) : log[i].at <= clock + 1
  BY <1>1, <1>2
<1> QED
  BY <1>1, <1>3 DEF LogInOrder

\* get only marks an entry as used.
LEMMA MarkedSame ==
    ASSUME Entries(cache), NEW x, cache' = Marked(x)
    PROVE  /\ Entries(cache') /\ DOMAIN cache' = DOMAIN cache
           /\ \A k \in DOMAIN cache :
                 /\ cache'[k].dir = cache[k].dir /\ cache'[k].deps = cache[k].deps
                 /\ cache'[k].mine = cache[k].mine
                 /\ cache'[k].tombstone = cache[k].tombstone
<1>1. CASE Live(x)
  <2>1. cache' = [cache EXCEPT ![x].used = clock + 1]
    BY <1>1 DEF Marked
  <2>2. /\ DOMAIN cache' = DOMAIN cache
        /\ \A k \in DOMAIN cache : k # x => cache'[k] = cache[k]
        /\ x \in DOMAIN cache => cache'[x] = [cache[x] EXCEPT !.used = clock + 1]
    BY <2>1
  <2>3. \A k \in DOMAIN cache : DOMAIN cache[k] = Fields
    BY DEF Entries
  <2>4. \A k \in DOMAIN cache :
           DOMAIN cache'[k] = Fields /\ \A f \in Fields \ {"used"} : cache'[k][f] = cache[k][f]
    BY <2>2, <2>3
  <2>5. \A k \in DOMAIN cache :
           /\ cache'[k].dir = cache[k].dir /\ cache'[k].deps = cache[k].deps
           /\ cache'[k].mine = cache[k].mine
           /\ cache'[k].tombstone = cache[k].tombstone
    BY <2>4 DEF Fields
  <2>6. Entries(cache')
    BY <2>2, <2>4, <2>5 DEF Entries
  <2> QED
    BY <2>2, <2>5, <2>6
<1>2. CASE ~Live(x)
  BY <1>2 DEF Marked
<1> QED
  BY <1>1, <1>2

\* handle_view, served from the cache.
LEMMA ViewHitStep ==
    ASSUME ReadInv, NEW v \in Views, ViewHit(v)
    PROVE  ReadInv'
<1>1. /\ pc = "idle" /\ pc' = pc /\ clock' = clock + 1 /\ Live(Key(v)) /\ OnDisk(Key(v))
      /\ cache' = Marked(Key(v))
      /\ ans' = ViewAnswer(v, files[<<cache[Key(v)].dir, Key(v)>>], TRUE, cache[Key(v)].mine)
      /\ job' = job /\ version' = version /\ cells' = cells /\ log' = log /\ snap' = snap
      /\ files' = files /\ index' = index /\ cut' = cut
  BY DEF ViewHit, Tick
<1>2. Replayed' = Replayed
  BY <1>1 DEF Replayed
<1>3. /\ Entries(cache') /\ DOMAIN cache' = DOMAIN cache
      /\ \A k \in DOMAIN cache :
            /\ cache'[k].dir = cache[k].dir /\ cache'[k].deps = cache[k].deps
            /\ cache'[k].mine = cache[k].mine
            /\ cache'[k].tombstone = cache[k].tombstone
  BY <1>1, MarkedSame DEF ReadInv, CacheTypes
<1>4. LogInOrder'
  BY <1>1, ClockTicks DEF ReadInv
<1>5. Restores'
  BY <1>1, <1>2 DEF ReadInv, Restores
<1>6. JobFits'
  BY <1>1 DEF JobFits, Steps, Writing, Putting
<1>7. CacheTypes'
  BY <1>1, <1>3 DEF ReadInv, CacheTypes
<1>8. FreshEntries'
  BY <1>1, <1>3 DEF ReadInv, FreshEntries, Key, OnDisk
<1>9. MemorySound' /\ DiskSound'
  BY <1>1, <1>3 DEF ReadInv, MemorySound, DiskSound, Backed, NotStale
<1>10. PICK k, x : k = Key(v) /\ x = files[<<cache[k].dir, k>>]
  OBVIOUS
<1>11. /\ ans'.kind = "view" /\ ans'.view = v /\ ans'.content = x /\ ans'.mine = cache[k].mine
       /\ k \in DOMAIN cache /\ ~cache[k].tombstone /\ OnDisk(k)
  BY <1>1, <1>10 DEF ViewAnswer, Live
<1>12. FreshInLife'
  <2>1. ASSUME ans'.mine, v # BoardView
        PROVE  x = RenderView(BuildBuiltinView(cells, v), x.tier)
    <3>1. cache[k].mine
      BY <1>11, <2>1
    <3> QED
      BY <1>1, <1>10, <1>11, <2>1, <3>1 DEF ReadInv, FreshEntries
  <2> QED
    BY <1>1, <1>11, <2>1 DEF FreshInLife
<1>13. SupersededNotServed'
  <2>1. ASSUME ~cut, NEW h \in DOMAIN cells.facts, FactHandle(h) \in x.items
        PROVE  Active(cells, h)
    <3>1. Backed(cache, k) /\ NotStale(cache, k, cells)
      BY <1>1, <1>11, <2>1 DEF ReadInv, MemorySound
    <3>2. FactHandle(h) \in cache[k].deps
      BY <1>10, <2>1, <3>1 DEF Backed
    <3> QED
      BY <1>1, <2>1, <3>1, <3>2 DEF NotStale
  <2> QED
    BY <1>1, <1>11, <2>1 DEF SupersededNotServed
<1>14. RecallComplete'
  BY <1>11 DEF RecallComplete
<1> QED
  BY <1>4, <1>5, <1>6, <1>7, <1>8, <1>9, <1>12, <1>13, <1>14 DEF ReadInv

\* handle_view, not in the cache: what is sound in memory has its file, so the
\* entry that is about to be put is not live.
LEMMA ViewMissStep ==
    ASSUME ReadInv, NEW v \in Views, NEW t, ViewMiss(v, t)
    PROVE  ReadInv'
<1>1. /\ pc = "idle" /\ pc' = "put_file" /\ clock' = clock + 1
      /\ ~(Live(Key(v)) /\ OnDisk(Key(v))) /\ cache' = Marked(Key(v)) /\ ans' = NoAnswer
      /\ job' = [kind |-> "view", view |-> v, content |-> RenderView(BuildBuiltinView(cells, v), t)]
      /\ version' = version /\ cells' = cells /\ log' = log /\ snap' = snap
      /\ files' = files /\ index' = index /\ cut' = cut
  BY DEF ViewMiss, Tick
<1>2. Replayed' = Replayed
  BY <1>1 DEF Replayed
<1>3. /\ Entries(cache') /\ DOMAIN cache' = DOMAIN cache
      /\ \A k \in DOMAIN cache :
            /\ cache'[k].dir = cache[k].dir /\ cache'[k].deps = cache[k].deps
            /\ cache'[k].mine = cache[k].mine
            /\ cache'[k].tombstone = cache[k].tombstone
  BY <1>1, MarkedSame DEF ReadInv, CacheTypes
<1>4. LogInOrder'
  BY <1>1, ClockTicks DEF ReadInv
<1>5. Restores'
  BY <1>1, <1>2 DEF ReadInv, Restores
<1>6. JobFits'
  <2>1. PICK b, x : b = BuildBuiltinView(cells, v) /\ x = RenderView(b, t)
    OBVIOUS
  <2>2. x.items \subseteq b /\ x.tier = t
    BY <2>1, RenderShows
  <2>3. job'.view = v /\ job'.content = x
    BY <1>1, <2>1
  <2>4. BuildBuiltinView(cells', job'.view) = b
    BY <1>1, <2>1, <2>3
  <2> QED
    BY <1>1, <2>1, <2>2, <2>3, <2>4 DEF JobFits, Steps, Writing, Putting
<1>7. CacheTypes'
  BY <1>1, <1>3 DEF ReadInv, CacheTypes
<1>8. FreshEntries'
  BY <1>1, <1>3 DEF ReadInv, FreshEntries, Key, OnDisk
<1>9. MemorySound' /\ DiskSound'
  <2>1. ASSUME ~cut, Live(Key(v)) PROVE FALSE
    <3>1. Key(v) \in DOMAIN cache /\ ~cache[Key(v)].tombstone
      BY <2>1 DEF Live
    <3>2. Backed(cache, Key(v))
      BY <1>1, <2>1, <3>1 DEF ReadInv, MemorySound
    <3> QED
      BY <1>1, <2>1, <3>2 DEF Backed, OnDisk
  <2>2. ~cut' => ~Live(Key(job.view))'
    <3>1. Key(job.view)' = Key(v)
      BY <1>1 DEF Key
    <3>2. Live(Key(job.view))' = Live(Key(v))
      BY <1>3, <3>1 DEF Live
    <3> QED
      BY <1>1, <2>1, <3>2
  <2>3. \A k \in DOMAIN cache' : ~cut' /\ ~cache'[k].tombstone =>
           Backed(cache, k)' /\ NotStale(cache, k, cells)'
    BY <1>1, <1>3 DEF ReadInv, MemorySound, Backed, NotStale
  <2> QED
    BY <1>1, <2>2, <2>3 DEF MemorySound, DiskSound
<1>10. FreshInLife' /\ SupersededNotServed' /\ RecallComplete'
  BY <1>1, Silent
<1> QED
  BY <1>4, <1>5, <1>6, <1>7, <1>8, <1>9, <1>10 DEF ReadInv

\* What was rendered for this request is served.
LEMMA ServedIsFresh ==
    ASSUME ReadInv, pc \in Putting, Served, cells' = cells
    PROVE  FreshInLife' /\ SupersededNotServed' /\ RecallComplete'
<1>1. /\ job.view \in Views
      /\ job.content.items \subseteq BuildBuiltinView(cells, job.view)
      /\ job.content = RenderView(BuildBuiltinView(cells, job.view), job.content.tier)
  BY DEF ReadInv, JobFits
<1>2. ans'.kind = "view" /\ ans'.view = job.view /\ ans'.content = job.content
  BY DEF Served, ViewAnswer
<1>3. FreshInLife'
  BY <1>1, <1>2 DEF FreshInLife
<1>4. \A h \in DOMAIN cells.facts : FactHandle(h) \in job.content.items => Active(cells, h)
  BY <1>1, ViewsAreActive
<1>5. SupersededNotServed'
  BY <1>2, <1>4 DEF SupersededNotServed
<1>6. RecallComplete'
  BY <1>2 DEF RecallComplete
<1> QED
  BY <1>3, <1>5, <1>6

\* put, when the file cannot be written, and its end: the index is saved or not.
LEMMA ServedStep ==
    ASSUME ReadInv, pc \in {"put_file", "put_index"}, Served,
           index' = cache \/ index' = index,
           UNCHANGED <<time, version, cells, log, snap, cache, bytes, files, cut>>
    PROVE  ReadInv'
<1>1. /\ pc' = "idle" /\ pc \in Putting /\ clock' = clock /\ version' = version
      /\ cells' = cells /\ log' = log /\ snap' = snap /\ cache' = cache /\ files' = files
      /\ cut' = cut
  BY DEF Served, time, Putting
<1>2. Replayed' = Replayed
  BY <1>1 DEF Replayed
<1>3. LogInOrder'
  BY <1>1 DEF ReadInv, LogInOrder
<1>4. Restores'
  BY <1>1, <1>2 DEF ReadInv, Restores
<1>5. JobFits'
  BY <1>1 DEF JobFits, Steps, Writing, Putting
<1>6. CacheTypes'
  BY <1>1 DEF ReadInv, CacheTypes
<1>7. FreshEntries'
  BY <1>1 DEF ReadInv, FreshEntries, Key, OnDisk
<1>8. MemorySound' /\ DiskSound'
  BY <1>1 DEF ReadInv, MemorySound, DiskSound, Backed, NotStale
<1>9. FreshInLife' /\ SupersededNotServed' /\ RecallComplete'
  BY <1>1, ServedIsFresh
<1> QED
  BY <1>3, <1>4, <1>5, <1>6, <1>7, <1>8, <1>9 DEF ReadInv

\* put writes the file.
LEMMA PutFileStep ==
    ASSUME ReadInv, PutFile
    PROVE  ReadInv'
<1>1. /\ pc = "put_file"
      /\ UNCHANGED <<time, version, cells, log, snap, cache, bytes, index, cut>>
  BY DEF PutFile
<1>2. CASE Served /\ UNCHANGED files
  BY <1>1, <1>2, ServedStep
<1>3. CASE /\ files' = With(files, <<ForSize(job.content.size), Key(job.view)>>, job.content)
           /\ pc' = "put_entry"
           /\ UNCHANGED <<job, used, ans>>
  <2>1. PICK x, y, f : x = job.view /\ y = job.content /\ f = <<ForSize(y.size), Key(x)>>
    OBVIOUS
  <2>2. /\ DOMAIN files' = DOMAIN files \cup {f} /\ files'[f] = y
        /\ \A z \in DOMAIN files : z # f => files'[z] = files[z]
    BY <1>3, <2>1 DEF With
  <2>3. /\ job' = job /\ ans' = ans /\ clock' = clock /\ version' = version /\ cells' = cells
        /\ log' = log /\ snap' = snap /\ cache' = cache /\ index' = index /\ cut' = cut
        /\ pc' = "put_entry"
    BY <1>1, <1>3 DEF time
  <2>4. /\ x \in Views /\ y.items \subseteq BuildBuiltinView(cells, x)
        /\ y = RenderView(BuildBuiltinView(cells, x), y.tier) /\ ans = NoAnswer
    BY <1>1, <2>1 DEF ReadInv, JobFits, Putting
  <2>5. Replayed' = Replayed
    BY <2>3 DEF Replayed
  <2>6. LogInOrder'
    BY <2>3 DEF ReadInv, LogInOrder
  <2>7. Restores'
    BY <1>1, <2>3, <2>5 DEF ReadInv, Restores
  <2>8. JobFits'
    <3>1. <<ForSize(job.content.size), Key(job.view)>>' = f
      BY <2>1, <2>3 DEF Key, ForSize
    <3> QED
      BY <2>1, <2>2, <2>3, <2>4, <3>1 DEF JobFits, Steps, Writing, Putting
  <2>9. CacheTypes'
    BY <2>3 DEF ReadInv, CacheTypes
  <2>10. FreshEntries'
    <3> SUFFICES ASSUME NEW v \in Views \ {BoardView}, Key(v) \in DOMAIN cache,
                        cache[Key(v)].mine, <<cache[Key(v)].dir, Key(v)>> \in DOMAIN files'
                 PROVE  files'[<<cache[Key(v)].dir, Key(v)>>]
                          = RenderView(BuildBuiltinView(cells, v),
                                       files'[<<cache[Key(v)].dir, Key(v)>>].tier)
      BY <2>3 DEF FreshEntries, Key, OnDisk
    <3>1. PICK g : g = <<cache[Key(v)].dir, Key(v)>>
      OBVIOUS
    <3>2. CASE g = f
      <4>1. v = x
        BY <2>1, <3>1, <3>2 DEF Key
      <4> QED
        BY <2>2, <2>4, <3>1, <3>2, <4>1
    <3>3. CASE g # f
      <4>1. g \in DOMAIN files /\ files'[g] = files[g]
        BY <2>2, <3>1, <3>3
      <4>2. OnDisk(Key(v))
        BY <3>1, <4>1 DEF OnDisk
      <4>3. files[g] = RenderView(BuildBuiltinView(cells, v), files[g].tier)
        BY <1>1, <3>1, <4>2 DEF ReadInv, FreshEntries
      <4> QED
        BY <3>1, <4>1, <4>3
    <3> QED
      BY <3>2, <3>3
  <2>11. MemorySound' /\ DiskSound'
    <3>1. ASSUME ~cut PROVE ~Live(Key(x))
      BY <1>1, <2>1, <3>1 DEF ReadInv, MemorySound
    <3>2. ASSUME ~cut, NEW k \in DOMAIN cache, ~cache[k].tombstone
          PROVE  Backed(cache, k)' /\ NotStale(cache, k, cells)'
      <4>1. Backed(cache, k) /\ NotStale(cache, k, cells)
        BY <1>1, <3>2 DEF ReadInv, MemorySound
      <4>2. <<cache[k].dir, k>> # f
        BY <2>1, <3>1, <3>2 DEF Live
      <4>3. Backed(cache, k)'
        BY <2>2, <2>3, <4>1, <4>2 DEF Backed
      <4> QED
        BY <1>1, <2>3, <4>1, <4>3 DEF NotStale
    <3>3. ~cut' => ~Live(Key(job.view))'
      BY <2>1, <2>3, <3>1 DEF Live, Key
    <3> QED
      BY <2>3, <3>2, <3>3 DEF MemorySound, DiskSound
  <2>12. FreshInLife' /\ SupersededNotServed' /\ RecallComplete'
    BY <2>3, <2>4, Silent
  <2> QED
    BY <2>6, <2>7, <2>8, <2>9, <2>10, <2>11, <2>12 DEF ReadInv
<1> QED
  BY <1>2, <1>3 DEF PutFile

\* put adds the entry of the file it wrote, and evicts entries with their files.
LEMMA PutEntryStep ==
    ASSUME ReadInv, PutEntry
    PROVE  ReadInv'
<1>1. PICK x, y, k, d : x = job.view /\ y = job.content /\ k = Key(x) /\ d = ForSize(y.size)
  OBVIOUS
<1>2. PICK entry : entry = [dir |-> d, size |-> y.size, used |-> clock,
                            deps |-> BuildBuiltinView(cells, x), tombstone |-> FALSE,
                            mine |-> TRUE]
  OBVIOUS
<1>3. PICK held : held = With(cache, k, entry)
  OBVIOUS
<1>4. PICK out : cache' = Restrict(held, DOMAIN held \ out)
                 /\ files' = Restrict(files, DOMAIN files \ {<<d, o>> : o \in out})
  BY <1>1, <1>2, <1>3 DEF PutEntry
<1>5. /\ pc = "put_entry" /\ pc' = "put_index" /\ job' = job /\ clock' = clock
      /\ version' = version /\ cells' = cells /\ log' = log /\ snap' = snap
      /\ index' = index /\ ans' = ans /\ cut' = cut
  BY DEF PutEntry, time
<1>6. /\ DOMAIN held = DOMAIN cache \cup {k} /\ held[k] = entry
      /\ \A j \in DOMAIN cache : j # k => held[j] = cache[j]
  BY <1>3 DEF With
<1>7. /\ \A j \in DOMAIN cache' : /\ j \notin out /\ cache'[j] = held[j]
                                  /\ j = k \/ (j \in DOMAIN cache /\ cache'[j] = cache[j])
      /\ k \in DOMAIN cache' => cache'[k] = entry
  <2>1. DOMAIN cache' = DOMAIN held \ out /\ \A j \in DOMAIN cache' : cache'[j] = held[j]
    BY <1>4 DEF Restrict
  <2> QED
    BY <1>6, <2>1
<1>8. \A z \in DOMAIN files : z[2] \notin out => z \in DOMAIN files' /\ files'[z] = files[z]
  BY <1>4 DEF Restrict
<1>9. \A z \in DOMAIN files' : z \in DOMAIN files /\ files'[z] = files[z]
  BY <1>4 DEF Restrict
<1>10. /\ x \in Views /\ y.items \subseteq BuildBuiltinView(cells, x)
       /\ y = RenderView(BuildBuiltinView(cells, x), y.tier) /\ ans = NoAnswer
       /\ <<d, k>> \in DOMAIN files /\ files[<<d, k>>] = y
  BY <1>1, <1>5 DEF ReadInv, JobFits, Putting
<1>11. /\ entry.dir = d /\ entry.deps = BuildBuiltinView(cells, x) /\ entry.tombstone = FALSE
       /\ entry.mine = TRUE /\ DOMAIN entry = Fields
  BY <1>2 DEF Fields
<1>12. Replayed' = Replayed
  BY <1>5 DEF Replayed
<1>13. LogInOrder'
  BY <1>5 DEF ReadInv, LogInOrder
<1>14. Restores'
  BY <1>5, <1>12 DEF ReadInv, Restores
<1>15. JobFits'
  <2>1. job'.view = x /\ job'.content = y /\ BuildBuiltinView(cells', x) = BuildBuiltinView(cells, x)
    BY <1>1, <1>5
  <2> QED
    BY <1>5, <1>10, <2>1 DEF JobFits, Steps, Writing, Putting
<1>16. CacheTypes'
  <2>1. /\ version \in Nat /\ Entries(cache) /\ Entries(index)
        /\ \A j \in DOMAIN cache : cache[j].mine => j[2] <= version
    BY DEF ReadInv, CacheTypes
  <2>2. k \in Views \X Nat /\ k[2] = version
    BY <1>1, <1>10, <2>1 DEF Key
  <2>3. Entries(cache')
    BY <1>7, <1>11, <2>1, <2>2 DEF Entries
  <2>4. \A j \in DOMAIN cache' : cache'[j].mine => j[2] <= version
    BY <1>7, <2>1, <2>2
  <2> QED
    BY <1>5, <2>1, <2>3, <2>4 DEF CacheTypes
<1>17. FreshEntries'
  <2> SUFFICES ASSUME NEW v \in Views \ {BoardView}, Key(v) \in DOMAIN cache',
                      cache'[Key(v)].mine, <<cache'[Key(v)].dir, Key(v)>> \in DOMAIN files'
               PROVE  files'[<<cache'[Key(v)].dir, Key(v)>>]
                        = RenderView(BuildBuiltinView(cells, v),
                                     files'[<<cache'[Key(v)].dir, Key(v)>>].tier)
    BY <1>5 DEF FreshEntries, Key, OnDisk
  <2>1. PICK j, g : j = Key(v) /\ g = <<cache'[j].dir, j>>
    OBVIOUS
  <2>2. g \in DOMAIN files /\ files'[g] = files[g]
    BY <1>9, <2>1
  <2>3. CASE j = k
    <3>1. v = x
      BY <1>1, <2>1, <2>3 DEF Key
    <3>2. g = <<d, k>>
      BY <1>7, <1>11, <2>1, <2>3
    <3> QED
      BY <1>10, <2>1, <2>2, <3>1, <3>2
  <2>4. CASE j # k
    <3>1. j \in DOMAIN cache /\ cache'[j] = cache[j]
      BY <1>7, <2>1, <2>4
    <3>2. cache[j].mine /\ OnDisk(j)
      BY <2>1, <2>2, <3>1 DEF OnDisk
    <3>3. files[g] = RenderView(BuildBuiltinView(cells, v), files[g].tier)
      BY <1>5, <2>1, <3>1, <3>2 DEF ReadInv, FreshEntries
    <3> QED
      BY <2>1, <2>2, <3>3
  <2> QED
    BY <2>3, <2>4
<1>18. MemorySound' /\ DiskSound'
  <2>1. ASSUME ~cut, NEW j \in DOMAIN cache', ~cache'[j].tombstone
        PROVE  Backed(cache, j)' /\ NotStale(cache, j, cells)'
    <3>1. CASE j = k
      <4>1. cache'[j].dir = d /\ cache'[j].deps = BuildBuiltinView(cells, x)
        BY <1>7, <1>11, <3>1
      <4>2. <<d, k>> \in DOMAIN files' /\ files'[<<d, k>>] = y
        BY <1>7, <1>8, <1>10, <2>1, <3>1
      <4>3. Backed(cache, j)'
        BY <1>10, <3>1, <4>1, <4>2 DEF Backed
      <4>4. \A h \in DOMAIN cells.facts : FactHandle(h) \in cache'[j].deps => Active(cells, h)
        BY <1>10, <4>1, ViewsAreActive
      <4> QED
        BY <1>5, <4>3, <4>4 DEF NotStale
    <3>2. CASE j # k
      <4>1. j \in DOMAIN cache /\ cache'[j] = cache[j] /\ j \notin out
        BY <1>7, <2>1, <3>2
      <4>2. Backed(cache, j) /\ NotStale(cache, j, cells)
        BY <1>5, <2>1, <4>1 DEF ReadInv, MemorySound
      <4>3. Backed(cache, j)'
        BY <1>8, <4>1, <4>2 DEF Backed
      <4> QED
        BY <1>5, <4>1, <4>2, <4>3 DEF NotStale
    <3> QED
      BY <3>1, <3>2
  <2> QED
    BY <1>5, <2>1 DEF MemorySound, DiskSound
<1>19. FreshInLife' /\ SupersededNotServed' /\ RecallComplete'
  BY <1>5, <1>10, Silent
<1> QED
  BY <1>13, <1>14, <1>15, <1>16, <1>17, <1>18, <1>19 DEF ReadInv

LEMMA PutIndexStep ==
    ASSUME ReadInv, PutIndex
    PROVE  ReadInv'
BY ServedStep DEF PutIndex, SaveIndex

\* A search that may return as many as there are returns them all.
LEMMA HitsOf ==
    ASSUME NEW found, IsFiniteSet(found), NEW n \in Nat, NEW hits \in Hits(found, n)
    PROVE  hits \subseteq found /\ (Cardinality(found) <= n => hits = found)
<1>1. PICK c \in Nat : c = Cardinality(found)
  BY FS_CardinalityType
<1>2. PICK m : m = (IF c < n THEN c ELSE n) /\ hits \in kSubset(m, found)
  BY <1>1 DEF Hits
<1>3. hits \in SUBSET found /\ Cardinality(hits) = m
  BY <1>2 DEF kSubset
<1>4. ASSUME c <= n PROVE hits = found
  <2>1. m = c
    BY <1>1, <1>2, <1>4
  <2> QED
    BY <1>1, <1>3, <2>1, FS_Subset
<1> QED
  BY <1>1, <1>3, <1>4

\* The largest number of a set that has a bound.
LEMMA MaxExists ==
    ASSUME NEW S \in SUBSET Nat, NEW b \in Nat, S # {}, \A n \in S : n <= b
    PROVE  Max(S) \in S /\ \A n \in S : n <= Max(S)
<1> DEFINE T == {m \in Nat : b - m \in S}
<1>1. PICK n : n \in S
  OBVIOUS
<1>2. b - n \in T
  BY <1>1
<1>3. PICK m \in T : \A y \in T : ~(<<y, m>> \in OpToRel(<, Nat))
  BY <1>2, WFMin, NatLessThanWellFounded
<1>4. \A y \in S : b - m >= y
  <2> TAKE y \in S
  <2>1. b - y \in T
    OBVIOUS
  <2>2. ~(b - y < m)
    BY <1>3, <2>1 DEF OpToRel
  <2> QED
    BY <2>2
<1>5. \E x \in S : \A y \in S : x >= y
  BY <1>4
<1>6. PICK x : x = Max(S)
  OBVIOUS
<1>7. x \in S /\ \A y \in S : x >= y
  BY <1>5, <1>6 DEF Max
<1>8. \A y \in S : y <= x
  <2> TAKE y \in S
  <2>1. x \in Nat /\ y \in Nat /\ x >= y
    BY <1>7
  <2> QED
    BY <2>1
<1> QED
  BY <1>6, <1>7, <1>8

\* An answer that is not cut shows everything, and at the tier without a budget
\* none is cut.
LEMMA RenderWhole ==
    ASSUME NEW items, IsFiniteSet(items), \A x \in items : x[2] \in Nat, NEW t \in Tiers
    PROVE  /\ ~ RenderView(items, t).truncated => items \subseteq RenderView(items, t).items
           /\ t = Full => ~ RenderView(items, t).truncated
<1>1. PICK all \in Nat : all = Cardinality(items)
  BY FS_CardinalityType
<1>2. PICK S : S = {m \in 0..all : m <= 1 \/ WithinBudget(m, t)}
  OBVIOUS
<1>3. 0 \in S /\ S \in SUBSET Nat /\ \A m \in S : m <= all
  BY <1>2
<1>4. Max(S) \in S /\ \A m \in S : m <= Max(S)
  BY <1>3, MaxExists
<1>5. PICK n \in Nat : n = Max(S) /\ n <= all
  BY <1>3, <1>4
<1>6. PICK view : view = RenderView(items, t)
  OBVIOUS
<1>7. /\ view.items = First(items, n)
      /\ view.truncated <=> n < all \/ (n > 0 /\ ~ WithinBudget(n, t))
  BY <1>1, <1>2, <1>5, <1>6 DEF RenderView
<1>8. ASSUME ~ view.truncated PROVE items \subseteq view.items
  <2>1. ~(n < all)
    BY <1>7, <1>8
  <2>2. ASSUME NEW x \in items PROVE x \in First(items, n)
    <3>1. PICK before : before = {y \in items : y[2] < x[2]}
      OBVIOUS
    <3>2. before \subseteq items \ {x}
      <4>1. x[2] \in Nat /\ ~(x[2] < x[2])
        OBVIOUS
      <4> QED
        BY <3>1, <4>1
    <3>3. IsFiniteSet(items \ {x}) /\ Cardinality(items \ {x}) = all - 1
      BY <1>1, FS_RemoveElement
    <3>4. IsFiniteSet(before) /\ Cardinality(before) \in Nat /\ Cardinality(before) <= all - 1
      BY <3>2, <3>3, FS_Subset, FS_CardinalityType
    <3>5. Cardinality(before) < n
      BY <1>1, <1>5, <2>1, <3>4
    <3> QED
      BY <3>1, <3>5 DEF First
  <2> QED
    BY <1>7, <2>2
<1>9. ASSUME t = Full PROVE ~ view.truncated
  <2>1. \A m : WithinBudget(m, t)
    BY <1>9 DEF WithinBudget
  <2>2. all \in S
    BY <1>1, <1>2, <2>1
  <2>3. n = all
    BY <1>4, <1>5, <2>2
  <2>4. ~(n < all)
    BY <1>1, <2>3
  <2> QED
    BY <1>7, <2>1, <2>4
<1> QED
  BY <1>6, <1>8, <1>9

\* handle_recall.
LEMMA RecallStep ==
    ASSUME ReadInv, NEW s \in Subjects, NEW k \in Depths, NEW t \in Tiers, Recall(s, k, t)
    PROVE  ReadInv'
<1>1. /\ pc = "idle" /\ pc' = pc /\ job' = job /\ clock' = clock + 1 /\ version' = version
      /\ cells' = cells /\ log' = log /\ snap' = snap /\ cache' = cache /\ files' = files
      /\ index' = index /\ cut' = cut
  BY DEF Recall, Tick, store
<1>2. Replayed' = Replayed
  BY <1>1 DEF Replayed
<1>3. LogInOrder'
  BY <1>1, ClockTicks DEF ReadInv
<1>4. Restores'
  BY <1>1, <1>2 DEF ReadInv, Restores
<1>5. JobFits'
  BY <1>1 DEF JobFits, Steps, Writing, Putting
<1>6. CacheTypes'
  BY <1>1 DEF ReadInv, CacheTypes
<1>7. FreshEntries'
  BY <1>1 DEF ReadInv, FreshEntries, Key, OnDisk
<1>8. MemorySound' /\ DiskSound'
  BY <1>1 DEF ReadInv, MemorySound, DiskSound, Backed, NotStale
<1>9. PICK N : N = DOMAIN cells.facts
  OBVIOUS
<1>10. /\ IsFiniteSet(N) /\ N \subseteq Nat /\ DOMAIN cells.docs = N /\ DOMAIN cells.vecs = N
       /\ \A i \in N : cells.docs[i] = i /\ cells.vecs[i] = i
  <2>1. /\ cells.facts \in Seq(FactType) /\ cells.docs \in Seq(Nat) /\ cells.vecs \in Seq(Nat)
        /\ Aligned(cells)
    BY <1>1, CellFields DEF ReadInv, Restores, Good
  <2>2. N = 1..Len(cells.facts) /\ Len(cells.facts) \in Nat
    BY <1>9, <2>1
  <2>3. IsFiniteSet(N)
    BY <2>2, FS_Interval
  <2> QED
    BY <2>1, <2>2, <2>3 DEF Aligned
<1>11. PICK about : about = {i \in N : cells.facts[i].subject = s}
  OBVIOUS
<1>12. {i \in DOMAIN cells.docs : cells.facts[cells.docs[i]].subject = s} = about
  BY <1>10, <1>11
<1>13. PICK lexical \in Hits(about, 2 * k), semantic \in Hits(N, 2 * k) :
          \E top \in Hits(Candidates({cells.docs[i] : i \in lexical}
                                        \cup {cells.vecs[i] : i \in semantic}), k) :
             ans' = [kind |-> "recall", subject |-> s, k |-> k,
                      content |-> RenderView({FactHandle(h) : h \in top}, t)]
  <2>1. PICK lexical \in Hits({i \in DOMAIN cells.docs :
                                  cells.facts[cells.docs[i]].subject = s}, 2 * k),
             semantic \in Hits(DOMAIN cells.vecs, 2 * k) :
          \E top \in Hits(Candidates({cells.docs[i] : i \in lexical}
                                        \cup {cells.vecs[i] : i \in semantic}), k) :
             ans' = [kind |-> "recall", subject |-> s, k |-> k,
                      content |-> RenderView({FactHandle(h) : h \in top}, t)]
    BY DEF Recall
  <2> QED
    BY <1>10, <1>12, <2>1
<1>14. k \in Nat /\ 2 * k \in Nat
  BY ReadPathConstants
<1>15. IsFiniteSet(about) /\ about \subseteq N
  BY <1>10, <1>11, FS_Subset
<1>16. /\ lexical \subseteq N /\ semantic \subseteq N
       /\ Cardinality(about) <= 2 * k => lexical = about
  BY <1>10, <1>13, <1>14, <1>15, HitsOf
<1>17. {cells.docs[i] : i \in lexical} = lexical /\ {cells.vecs[i] : i \in semantic} = semantic
  BY <1>10, <1>16
<1>18. PICK top \in Hits(Candidates(lexical \cup semantic), k) :
          ans' = [kind |-> "recall", subject |-> s, k |-> k,
                      content |-> RenderView({FactHandle(h) : h \in top}, t)]
  BY <1>13, <1>17
<1>19. PICK shown, view : /\ shown = {FactHandle(h) : h \in top}
                          /\ view = RenderView(shown, t)
                          /\ ans'.kind = "recall" /\ ans'.subject = s /\ ans'.k = k
                          /\ ans'.content = view
  BY <1>18
<1>20. PICK found : found = Candidates(lexical \cup semantic)
  OBVIOUS
<1>21. PICK live : live = {h \in N : Active(cells, h)}
  OBVIOUS
<1>22. found \subseteq live /\ IsFiniteSet(live) /\ IsFiniteSet(found)
       /\ Cardinality(found) \in Nat /\ Cardinality(live) \in Nat
       /\ Cardinality(found) <= Cardinality(live)
  <2>1. found \subseteq live /\ live \subseteq N
    BY <1>16, <1>20, <1>21 DEF Candidates
  <2>2. IsFiniteSet(live)
    BY <1>10, <2>1, FS_Subset
  <2> QED
    BY <2>1, <2>2, FS_Subset, FS_CardinalityType
<1>23. top \subseteq found /\ (Cardinality(found) <= k => top = found)
  BY <1>14, <1>18, <1>20, <1>22, HitsOf
<1>24. /\ IsFiniteSet(shown) /\ view.tier = t /\ view.items \subseteq shown
       /\ ~ view.truncated => shown \subseteq view.items
       /\ t = Full => ~ view.truncated
  <2>1. IsFiniteSet(top)
    BY <1>22, <1>23, FS_Subset
  <2>2. PICK f : f = [h \in top |-> FactHandle(h)]
    OBVIOUS
  <2>3. f \in Surjection(top, shown)
    BY <1>19, <2>2 DEF Surjection
  <2>4. IsFiniteSet(shown)
    BY <2>1, <2>3, FS_Surjection
  <2>5. \A x \in shown : x[2] \in Nat
    <3>1. \A h \in top : h \in Nat
      BY <1>10, <1>21, <1>22, <1>23
    <3> QED
      BY <1>19, <3>1 DEF FactHandle
  <2>6. view = RenderView(shown, t)
    BY <1>19
  <2>7. /\ RenderView(shown, t).items \subseteq shown /\ RenderView(shown, t).tier = t
        /\ ~ RenderView(shown, t).truncated => shown \subseteq RenderView(shown, t).items
        /\ t = Full => ~ RenderView(shown, t).truncated
    BY <2>4, <2>5, RenderShows, RenderWhole
  <2> QED
    BY ONLY <2>4, <2>6, <2>7, Zenon
<1>25. ASSUME Cardinality(live) <= k, Cardinality(about) <= 2 * k
       PROVE  ActiveFor(cells, s) \subseteq top
  <2>1. top = found
    BY <1>14, <1>22, <1>23, <1>25
  <2>2. ActiveFor(cells, s) \subseteq lexical
    BY <1>9, <1>11, <1>16, <1>25 DEF ActiveFor
  <2> QED
    BY <1>20, <2>1, <2>2 DEF Candidates, ActiveFor
<1>26. RecallComplete'
  <2>1. live = {h \in DOMAIN cells'.facts : Active(cells', h)}
        /\ about = {h \in DOMAIN cells'.facts : cells'.facts[h].subject = s}
        /\ ActiveFor(cells', s) = ActiveFor(cells, s)
    BY <1>1, <1>9, <1>11, <1>21
  <2>2. view.items \subseteq {FactHandle(h) : h \in live}
    BY <1>19, <1>22, <1>23, <1>24
  <2>3. ASSUME Cardinality(live) <= k, Cardinality(about) <= 2 * k, ~ view.truncated
        PROVE  {FactHandle(h) : h \in ActiveFor(cells, s)} \subseteq view.items
    BY <1>19, <1>24, <1>25, <2>3
  <2> QED
    BY <1>19, <1>24, <2>1, <2>2, <2>3 DEF RecallComplete
<1>27. FreshInLife' /\ SupersededNotServed'
  BY <1>19 DEF FreshInLife, SupersededNotServed
<1> QED
  BY <1>3, <1>4, <1>5, <1>6, <1>7, <1>8, <1>26, <1>27 DEF ReadInv

-----------------------------------------------------------------------------
(* Snapshots, crashes and recovery.                                        *)

\* A snapshot at the present time covers the whole log.
LEMMA SnapshotStep ==
    ASSUME ReadInv, Snapshot
    PROVE  ReadInv'
<1>1. /\ pc = "idle" /\ pc' = pc /\ job' = job /\ clock' = clock /\ version' = version
      /\ cells' = cells /\ log' = log /\ cache' = cache /\ files' = files
      /\ index' = index /\ cut' = cut /\ ans' = NoAnswer
      /\ snap' = [cells |-> Captured(cells), at |-> clock]
  BY DEF Snapshot, time, store
<1>2. Good(cells) /\ cells = Replayed
  BY <1>1 DEF ReadInv, Restores
<1>3. snap'.cells = cells /\ snap'.at = clock
  BY <1>1, <1>2, CellFields DEF Good
<1>4. /\ clock \in Nat /\ log \in Seq(OpType)
      /\ \A i \in 1..Len(log) : log[i].at <= clock
  BY DEF ReadInv, LogInOrder
<1>5. Replayed' = cells
  <2>1. \A i \in 1..Len(log) : log[i].at \in Nat
    <3>1. \A i \in 1..Len(log) : log[i] \in OpType
      BY <1>4
    <3> QED
      BY <3>1 DEF OpType
  <2>2. \A i \in 1..Len(log) : ~(log[i].at > clock)
    BY <1>4, <2>1
  <2>3. Replay(cells, clock, log) = cells
    BY <1>4, <2>2, ReplayCovered
  <2> QED
    BY <1>1, <1>3, <2>3 DEF Replayed
<1>6. LogInOrder'
  BY <1>1, <1>3, <1>4 DEF ReadInv, LogInOrder
<1>7. Restores'
  BY <1>1, <1>2, <1>5 DEF Restores
<1>8. JobFits'
  BY <1>1 DEF JobFits, Steps, Writing, Putting
<1>9. CacheTypes'
  BY <1>1 DEF ReadInv, CacheTypes
<1>10. FreshEntries'
  BY <1>1 DEF ReadInv, FreshEntries, Key, OnDisk
<1>11. MemorySound' /\ DiskSound'
  BY <1>1 DEF ReadInv, MemorySound, DiskSound, Backed, NotStale
<1>12. FreshInLife' /\ SupersededNotServed' /\ RecallComplete'
  BY <1>1, Silent
<1> QED
  BY <1>6, <1>7, <1>8, <1>9, <1>10, <1>11, <1>12 DEF ReadInv

\* A crash that does not find the index behind leaves on disk what is sound in
\* memory.
LEMMA CrashStep ==
    ASSUME ReadInv, Crash
    PROVE  ReadInv'
<1>1. /\ pc # "down" /\ pc' = "down" /\ ans' = NoAnswer /\ clock' = clock
      /\ cut' = (cut \/ pc \in {"apply", "bump"} \/ Behind)
      /\ cache' = Nothing /\ version' = version /\ log' = log /\ snap' = snap
      /\ files' = files /\ index' = index
  BY DEF Crash, time
<1>2. Replayed' = Replayed
  BY <1>1 DEF Replayed
<1>3. LogInOrder'
  BY <1>1 DEF ReadInv, LogInOrder
<1>4. Restores'
  BY <1>1, <1>2 DEF ReadInv, Restores
<1>5. JobFits'
  BY <1>1 DEF JobFits, Steps, Writing, Putting
<1>6. CacheTypes'
  <2>1. DOMAIN cache' = {}
    BY <1>1 DEF Nothing
  <2> QED
    BY <1>1, <2>1 DEF ReadInv, CacheTypes, Entries
<1>7. FreshEntries' /\ MemorySound'
  BY <1>1 DEF FreshEntries, MemorySound
<1>8. DiskSound'
  <2> SUFFICES ASSUME ~cut', NEW k \in DOMAIN index, ~index[k].tombstone
               PROVE  Backed(index, k)' /\ NotStale(index, k, Replayed)'
    BY <1>1 DEF DiskSound
  <2>1. ~cut /\ pc \notin {"apply", "bump"} /\ ~Behind
    BY <1>1
  <2>2. Live(k) /\ cache[k].dir = index[k].dir /\ cache[k].deps = index[k].deps
    BY <2>1 DEF Behind
  <2>3. Backed(cache, k) /\ NotStale(cache, k, cells)
    BY <1>1, <2>1, <2>2 DEF ReadInv, MemorySound, Live
  <2>4. Backed(index, k)'
    BY <1>1, <2>2, <2>3 DEF Backed
  <2>5. cells = Replayed
    BY <1>1, <2>1 DEF ReadInv, Restores
  <2> QED
    BY <1>1, <1>2, <2>1, <2>2, <2>3, <2>4, <2>5 DEF NotStale
<1>9. FreshInLife' /\ SupersededNotServed' /\ RecallComplete'
  BY <1>1, Silent
<1> QED
  BY <1>3, <1>4, <1>5, <1>6, <1>7, <1>8, <1>9 DEF ReadInv

\* Recovery: the clock comes back past every operation of the log.
LEMMA RecoverStep ==
    ASSUME ReadInv, Recover
    PROVE  ReadInv'
<1>1. /\ pc = "down" /\ pc' = "idle" /\ version' = 1 /\ cells' = Replayed /\ cache' = Loaded
      /\ job' = job /\ log' = log /\ snap' = snap /\ files' = files /\ index' = index
      /\ ans' = ans /\ cut' = cut
  BY DEF Recover
<1>2. Replayed' = Replayed
  BY <1>1 DEF Replayed
<1>3. ans = NoAnswer
  BY <1>1 DEF ReadInv, JobFits
<1>4. LogInOrder'
  <2>1. /\ snap.at \in Nat /\ log \in Seq(OpType)
        /\ \A i, j \in 1..Len(log) : i < j => log[i].at < log[j].at
    BY DEF ReadInv, LogInOrder
  <2>2. PICK n \in Nat : n = Len(log)
    BY <2>1
  <2>3. PICK logged : logged = IF log = <<>> THEN 0 ELSE Last(log).at
    OBVIOUS
  <2>4. clock' = IF logged > snap.at THEN logged ELSE snap.at
    BY <2>3 DEF Recover
  <2>5. \A i \in 1..n : log[i] \in OpType /\ log[i].at \in Nat
    <3>1. \A i \in 1..n : log[i] \in OpType
      BY <2>1, <2>2
    <3> QED
      BY <3>1 DEF OpType
  <2>6. CASE n = 0
    <3>1. log = <<>>
      BY <2>1, <2>2, <2>6, EmptySeq
    <3>2. clock' = snap.at
      BY <2>1, <2>3, <2>4, <3>1
    <3> QED
      BY <1>1, <2>1, <2>2, <2>6, <3>2 DEF LogInOrder
  <2>7. CASE n # 0
    <3>1. log # <<>> /\ n \in 1..n
      BY <2>1, <2>2, <2>7
    <3>2. logged = log[n].at
      BY <2>2, <2>3, <3>1 DEF Last
    <3>3. logged \in Nat
      BY <2>5, <3>1, <3>2
    <3>4. clock' \in Nat /\ snap.at <= clock' /\ logged <= clock'
      BY <2>1, <2>4, <3>3
    <3>5. \A i \in 1..n : log[i].at <= logged
      <4> TAKE i \in 1..n
      <4>1. i = n \/ (i < n)
        BY <2>2
      <4>2. CASE i = n
        BY <2>5, <3>2, <4>2
      <4>3. CASE i < n
        BY <2>1, <2>2, <2>5, <3>1, <3>2, <4>3
      <4> QED
        BY <4>1, <4>2, <4>3
    <3>6. \A i \in 1..n : log[i].at <= clock'
      BY <2>5, <3>3, <3>4, <3>5
    <3> QED
      BY <1>1, <2>1, <2>2, <3>4, <3>6 DEF LogInOrder
  <2> QED
    BY <2>6, <2>7
<1>5. Restores'
  BY <1>1, <1>2 DEF ReadInv, Restores
<1>6. JobFits'
  BY <1>1 DEF JobFits, Steps, Writing, Putting
<1>7. /\ DOMAIN cache' = DOMAIN index /\ Entries(cache') /\ Entries(index)
      /\ \A k \in DOMAIN index :
            /\ cache'[k].mine = FALSE /\ cache'[k].dir = index[k].dir
            /\ cache'[k].deps = index[k].deps /\ cache'[k].tombstone = index[k].tombstone
  <2>1. Entries(index)
    BY DEF ReadInv, CacheTypes
  <2>2. DOMAIN cache' = DOMAIN index
        /\ \A k \in DOMAIN index : cache'[k] = [index[k] EXCEPT !.mine = FALSE]
    BY <1>1 DEF Loaded
  <2>3. \A k \in DOMAIN index : DOMAIN index[k] = Fields
    BY <2>1 DEF Entries
  <2>4. "mine" \in Fields
    BY DEF Fields
  <2>5. \A k \in DOMAIN index :
           /\ DOMAIN cache'[k] = Fields /\ cache'[k].mine = FALSE
           /\ \A f \in Fields \ {"mine"} : cache'[k][f] = index[k][f]
    BY <2>2, <2>3, <2>4
  <2>6. \A k \in DOMAIN index :
           /\ cache'[k].mine = FALSE /\ cache'[k].dir = index[k].dir
           /\ cache'[k].deps = index[k].deps /\ cache'[k].tombstone = index[k].tombstone
    BY <2>5 DEF Fields
  <2>7. Entries(cache')
    BY <2>1, <2>2, <2>5, <2>6 DEF Entries
  <2> QED
    BY <2>1, <2>2, <2>6, <2>7
<1>8. CacheTypes'
  BY <1>1, <1>7 DEF CacheTypes
<1>9. FreshEntries'
  BY <1>7 DEF FreshEntries
<1>10. MemorySound' /\ DiskSound'
  <2>1. ASSUME ~cut, NEW k \in DOMAIN index, ~index[k].tombstone
        PROVE  Backed(cache, k)' /\ NotStale(cache, k, cells)'
    <3>1. Backed(index, k) /\ NotStale(index, k, Replayed)
      BY <1>1, <2>1 DEF ReadInv, DiskSound
    <3>2. Backed(cache, k)'
      BY <1>1, <1>7, <3>1 DEF Backed
    <3>3. NotStale(cache, k, cells)'
      BY <1>1, <1>7, <3>1 DEF NotStale
    <3> QED
      BY <3>2, <3>3
  <2> QED
    BY <1>1, <1>7, <2>1 DEF MemorySound, DiskSound
<1>11. FreshInLife' /\ SupersededNotServed' /\ RecallComplete'
  BY <1>1, <1>3, Silent
<1> QED
  BY <1>4, <1>5, <1>6, <1>8, <1>9, <1>10, <1>11 DEF ReadInv

LEMMA InitReads == Init => ReadInv
<1> SUFFICES ASSUME Init PROVE ReadInv
  OBVIOUS
<1>1. /\ pc = "idle" /\ clock = 0 /\ version = 1 /\ cells = NoCells /\ log = <<>>
      /\ snap = [cells |-> Captured(NoCells), at |-> 0] /\ cache = Nothing /\ index = Nothing
      /\ ans = NoAnswer
  BY DEF Init
<1>2. NoCells \in CellType
  <2>1. {} \in Boards
    BY FS_EmptySet DEF Boards
  <2> QED
    BY <2>1 DEF NoCells, CellType
<1>3. Good(NoCells)
  BY <1>2 DEF Good, Aligned, NoCells
<1>4. Replayed = NoCells
  <2>1. snap.cells = NoCells /\ snap.at = 0
    BY <1>1, <1>2, CellFields
  <2>2. log \in Seq(OpType) /\ Len(log) = 0
    BY <1>1
  <2>3. \A i \in 1..Len(log) : FALSE
    BY <2>2
  <2>4. Replay(NoCells, 0, log) = NoCells
    BY <2>2, <2>3, ReplayCovered
  <2> QED
    BY <2>1, <2>4 DEF Replayed
<1>5. LogInOrder
  BY <1>1 DEF LogInOrder
<1>6. Restores
  BY <1>1, <1>3, <1>4 DEF Restores
<1>7. JobFits
  BY <1>1 DEF JobFits, Steps, Writing, Putting
<1>8. DOMAIN cache = {} /\ DOMAIN index = {}
  BY <1>1 DEF Nothing
<1>9. CacheTypes
  BY <1>1, <1>8 DEF CacheTypes, Entries
<1>10. FreshEntries /\ MemorySound /\ DiskSound
  BY <1>1, <1>8 DEF FreshEntries, MemorySound, DiskSound
<1>11. ans.kind = "none"
  BY <1>1 DEF NoAnswer
<1>12. FreshInLife /\ SupersededNotServed /\ RecallComplete
  BY <1>11 DEF FreshInLife, SupersededNotServed, RecallComplete
<1> QED
  BY <1>5, <1>6, <1>7, <1>9, <1>10, <1>12 DEF ReadInv

LEMMA StutteringReads ==
    ASSUME ReadInv, UNCHANGED vars
    PROVE  ReadInv'
<1>1. /\ pc' = pc /\ job' = job /\ clock' = clock /\ version' = version /\ cells' = cells
      /\ log' = log /\ snap' = snap /\ cache' = cache /\ files' = files /\ index' = index
      /\ ans' = ans /\ cut' = cut
  BY DEF vars, time, store
<1>2. Replayed' = Replayed
  BY <1>1 DEF Replayed
<1>3. LogInOrder' /\ CacheTypes'
  BY <1>1 DEF ReadInv, LogInOrder, CacheTypes
<1>4. Restores'
  BY <1>1, <1>2 DEF ReadInv, Restores
<1>5. JobFits'
  BY <1>1 DEF ReadInv, JobFits, Key, ForSize
<1>6. FreshEntries'
  BY <1>1 DEF ReadInv, FreshEntries, Key, OnDisk
<1>7. MemorySound'
  BY <1>1 DEF ReadInv, MemorySound, Backed, NotStale, Live, Key
<1>8. DiskSound'
  BY <1>1, <1>2 DEF ReadInv, DiskSound, Backed, NotStale
<1>9. FreshInLife' /\ SupersededNotServed'
  BY <1>1 DEF ReadInv, FreshInLife, SupersededNotServed
<1>10. RecallComplete'
  BY <1>1 DEF ReadInv, RecallComplete
<1> QED
  BY <1>3, <1>4, <1>5, <1>6, <1>7, <1>8, <1>9, <1>10 DEF ReadInv

LEMMA NextReads == ReadInv /\ [Next]_vars => ReadInv'
<1> SUFFICES ASSUME ReadInv, [Next]_vars PROVE ReadInv'
  OBVIOUS
<1>1. CASE \/ \E s \in Subjects, old \in 0..Len(cells.facts) : WriteFact(s, old)
           \/ WriteEvent
           \/ \E old, new \in DOMAIN cells.facts : Supersede(old, new)
  BY <1>1, RequestSteps
<1>2. CASE Apply \/ SaveOld \/ Bump \/ Save
  BY <1>2, ApplyStep, SaveOldStep, BumpStep, SaveStep
<1>3. CASE Absorb \/ \E q \in cells.pending : Reject(q)
  BY <1>3, QuarantineSteps
<1>4. CASE \E v \in Views : ViewHit(v)
  BY <1>4, ViewHitStep
<1>5. CASE \E v \in Views, t \in Tiers : ViewMiss(v, t)
  BY <1>5, ViewMissStep
<1>6. CASE PutFile \/ PutEntry \/ PutIndex
  BY <1>6, PutFileStep, PutEntryStep, PutIndexStep
<1>7. CASE \E s \in Subjects, k \in Depths, t \in Tiers : Recall(s, k, t)
  BY <1>7, RecallStep
<1>8. CASE Snapshot \/ Crash \/ Recover
  BY <1>8, SnapshotStep, CrashStep, RecoverStep
<1>9. CASE UNCHANGED vars
  BY <1>9, StutteringReads
<1> QED
  BY <1>1, <1>2, <1>3, <1>4, <1>5, <1>6, <1>7, <1>8, <1>9 DEF Next

-----------------------------------------------------------------------------
(* The bytes of a set of entries.                                          *)

\* What SizeOf unfolds to: the entries are taken off one by one.
Sums(g, e, S) ==
    g = [s \in SUBSET S |->
            IF s = {} THEN 0
            ELSE e[CHOOSE x \in s : TRUE].size + g[s \ {CHOOSE x \in s : TRUE}]]

LEMMA SizeIsSum ==
    ASSUME NEW e, NEW S
    PROVE  SizeOf(e, S) = (CHOOSE g : Sums(g, e, S))[S]
BY DEF SizeOf, MapThenSumSet, MapThenFoldSet, Sums

\* The recursion has a solution: induction on the number of entries.
LEMMA SumsExist ==
    ASSUME NEW e, NEW S, IsFiniteSet(S)
    PROVE  \E g : Sums(g, e, S)
<1> DEFINE Least(s) == CHOOSE x \in s : TRUE
           Upto(n) == {s \in SUBSET S : Cardinality(s) <= n}
           Up(g, n) == /\ g = [s \in Upto(n) |-> g[s]]
                       /\ \A s \in Upto(n) :
                            g[s] = IF s = {} THEN 0 ELSE e[Least(s)].size + g[s \ {Least(s)}]
           N == {n \in Nat : \E g : Up(g, n)}
<1>1. \A s \in SUBSET S : IsFiniteSet(s) /\ Cardinality(s) \in Nat
  BY FS_Subset, FS_CardinalityType
<1>2. \A s \in SUBSET S : s # {} =>
         /\ Least(s) \in s /\ s \ {Least(s)} \in SUBSET S
         /\ Cardinality(s \ {Least(s)}) = Cardinality(s) - 1
  <2> SUFFICES ASSUME NEW s \in SUBSET S, s # {}
               PROVE  /\ Least(s) \in s /\ s \ {Least(s)} \in SUBSET S
                      /\ Cardinality(s \ {Least(s)}) = Cardinality(s) - 1
    OBVIOUS
  <2>1. Least(s) \in s
    OBVIOUS
  <2> HIDE DEF Least
  <2>2. IsFiniteSet(s)
    BY <1>1
  <2>3. Cardinality(s \ {Least(s)}) = Cardinality(s) - 1
    BY <2>1, <2>2, FS_RemoveElement
  <2> QED
    BY <2>1, <2>3
<1>3. \A s \in SUBSET S : Cardinality(s) = 0 <=> s = {}
  BY <1>1, FS_EmptySet
<1> HIDE DEF Least
<1>4. 0 \in N
  <2>1. PICK g : g = [s \in Upto(0) |-> 0]
    OBVIOUS
  <2>2. \A s \in Upto(0) : s = {}
    BY <1>1, <1>3
  <2>3. Up(g, 0)
    BY <2>1, <2>2
  <2> QED
    BY <2>3
<1>5. ASSUME NEW n \in N PROVE n + 1 \in N
  <2>1. PICK g : Up(g, n)
    OBVIOUS
  <2>2. PICK h : h = [s \in Upto(n + 1) |->
                        IF s = {} THEN 0 ELSE e[Least(s)].size + g[s \ {Least(s)}]]
    OBVIOUS
  <2>3. n \in Nat
    OBVIOUS
  <2>4. \A s \in Upto(n) : s \in Upto(n + 1) /\ h[s] = g[s]
    BY <1>1, <2>1, <2>2, <2>3
  <2>5. \A s \in Upto(n + 1) : s # {} => s \ {Least(s)} \in Upto(n)
    BY <1>1, <1>2, <2>3
  <2>6. \A s \in Upto(n + 1) :
           h[s] = IF s = {} THEN 0 ELSE e[Least(s)].size + h[s \ {Least(s)}]
    BY <2>2, <2>4, <2>5
  <2>7. h = [s \in Upto(n + 1) |-> h[s]]
    BY <2>2
  <2>8. Up(h, n + 1)
    BY <2>6, <2>7
  <2> HIDE DEF Up
  <2>9. \E x : Up(x, n + 1)
    BY <2>8
  <2> QED
    BY <2>3, <2>9
<1>6. N = Nat
  <2>1. N \in SUBSET Nat
    OBVIOUS
  <2> HIDE DEF N
  <2> QED
    BY <1>4, <1>5, <2>1, SetInduction
<1>7. PICK n \in Nat : n = Cardinality(S)
  BY <1>1
<1>8. PICK g : Up(g, n)
  BY <1>6
<1>9. Upto(n) = SUBSET S
  BY <1>7, FS_Subset
<1>10. g = [s \in SUBSET S |-> IF s = {} THEN 0 ELSE e[Least(s)].size + g[s \ {Least(s)}]]
  <2>1. /\ g = [s \in SUBSET S |-> g[s]]
        /\ \A s \in SUBSET S :
              g[s] = IF s = {} THEN 0 ELSE e[Least(s)].size + g[s \ {Least(s)}]
    BY <1>8, <1>9
  <2> QED
    BY ONLY <2>1
<1> QED
  BY <1>10 DEF Sums, Least

\* The entries are taken off one by one.
LEMMA SizeUnfolds ==
    ASSUME NEW e, NEW S, IsFiniteSet(S)
    PROVE  SizeOf(e, S) = IF S = {} THEN 0
                          ELSE e[CHOOSE x \in S : TRUE].size
                                 + SizeOf(e, S \ {CHOOSE x \in S : TRUE})
<1> DEFINE Least(s) == CHOOSE x \in s : TRUE
<1>1. PICK g : g = CHOOSE h : Sums(h, e, S)
  OBVIOUS
<1>2. Sums(g, e, S) /\ SizeOf(e, S) = g[S]
  BY <1>1, SumsExist, SizeIsSum
<1>3. \A s \in SUBSET S : g[s] = IF s = {} THEN 0 ELSE e[Least(s)].size + g[s \ {Least(s)}]
  BY <1>2 DEF Sums
<1>4. CASE S = {}
  BY <1>2, <1>3, <1>4
<1>5. CASE S # {}
  <2>1. Least(S) \in S
    BY <1>5
  <2>2. PICK T : T = S \ {Least(S)}
    OBVIOUS
  <2>3. IsFiniteSet(T) /\ T \in SUBSET S
    BY <2>2, FS_Subset
  <2>4. PICK q : q = CHOOSE h : Sums(h, e, T)
    OBVIOUS
  <2>5. Sums(q, e, T) /\ SizeOf(e, T) = q[T]
    BY <2>3, <2>4, SumsExist, SizeIsSum
  <2>6. \A s \in SUBSET T : q[s] = IF s = {} THEN 0 ELSE e[Least(s)].size + q[s \ {Least(s)}]
    BY <2>5 DEF Sums
  <2> DEFINE N == {n \in Nat : \A s \in SUBSET T : Cardinality(s) = n => q[s] = g[s]}
  <2>7. \A s \in SUBSET T : IsFiniteSet(s) /\ Cardinality(s) \in Nat
    BY <2>3, FS_Subset, FS_CardinalityType
  <2>8. 0 \in N
    <3>1. \A s \in SUBSET T : Cardinality(s) = 0 => s = {}
      BY <2>7, FS_EmptySet
    <3> QED
      BY <1>3, <2>3, <2>6, <3>1
  <2>9. ASSUME NEW n \in N PROVE n + 1 \in N
    <3> SUFFICES ASSUME NEW s \in SUBSET T, Cardinality(s) = n + 1 PROVE q[s] = g[s]
      OBVIOUS
    <3>1. n \in Nat /\ IsFiniteSet(s) /\ s # {}
      BY <2>7, FS_EmptySet
    <3>8. \A t \in SUBSET T : Cardinality(t) = n => q[t] = g[t]
      OBVIOUS
    <3>2. Least(s) \in s
      BY <3>1
    <3> HIDE DEF Least
    <3>3. PICK z : z = s \ {Least(s)}
      OBVIOUS
    <3>4. Cardinality(z) = n /\ z \in SUBSET T
      <4>1. Cardinality(s \ {Least(s)}) = Cardinality(s) - 1
        BY <3>1, <3>2, FS_RemoveElement
      <4> QED
        BY <3>1, <3>3, <4>1
    <3>5. q[z] = g[z]
      BY ONLY <3>4, <3>8
    <3>6. q[s] = e[Least(s)].size + q[z]
      BY <2>6, <3>1, <3>3
    <3>7. g[s] = e[Least(s)].size + g[z]
      BY <1>3, <2>3, <3>1, <3>3
    <3> QED
      BY <3>5, <3>6, <3>7
  <2>10. N = Nat
    <3>1. N \in SUBSET Nat
      OBVIOUS
    <3> HIDE DEF N
    <3> QED
      BY <2>8, <2>9, <3>1, SetInduction
  <2>11. q[T] = g[T]
    <3>1. Cardinality(T) \in Nat /\ T \in SUBSET T
      BY <2>7
    <3> QED
      BY <2>10, <3>1
  <2>12. g[S] = e[Least(S)].size + g[T]
    <3> HIDE DEF Least
    <3>1. S \in SUBSET S
      OBVIOUS
    <3> QED
      BY <1>3, <1>5, <2>2, <3>1
  <2> QED
    BY <1>2, <1>5, <2>2, <2>5, <2>11, <2>12
<1> QED
  BY <1>4, <1>5

Sized(e, S) == IsFiniteSet(S) /\ \A k \in S : e[k].size \in Nat

\* An entry more adds its size, whatever the order: induction on the number of
\* entries.
LEMMA SizeAdds ==
    ASSUME NEW e, NEW U, Sized(e, U)
    PROVE  \A S \in SUBSET U :
              /\ SizeOf(e, S) \in Nat
              /\ \A x \in U \ S : SizeOf(e, S \cup {x}) = e[x].size + SizeOf(e, S)
<1> DEFINE Least(s) == CHOOSE x \in s : TRUE
           Adds(S) == /\ SizeOf(e, S) \in Nat
                      /\ \A x \in U \ S : SizeOf(e, S \cup {x}) = e[x].size + SizeOf(e, S)
           N == {n \in Nat : \A S \in SUBSET U : Cardinality(S) = n => Adds(S)}
<1>1. \A S \in SUBSET U : IsFiniteSet(S) /\ Cardinality(S) \in Nat
  BY FS_Subset, FS_CardinalityType DEF Sized
<1>2. \A S \in SUBSET U :
         SizeOf(e, S) = IF S = {} THEN 0 ELSE e[Least(S)].size + SizeOf(e, S \ {Least(S)})
  BY <1>1, SizeUnfolds
<1>3. \A S : S # {} => Least(S) \in S
  OBVIOUS
<1> HIDE DEF Least
<1>4. 0 \in N
  <2> SUFFICES ASSUME NEW S \in SUBSET U, Cardinality(S) = 0 PROVE Adds(S)
    OBVIOUS
  <2>1. S = {} /\ SizeOf(e, S) = 0
    BY <1>1, <1>2, FS_EmptySet
  <2>2. ASSUME NEW x \in U PROVE SizeOf(e, {x}) = e[x].size
    <3>1. {x} \in SUBSET U /\ {x} # {} /\ Least({x}) = x /\ {x} \ {x} = {}
      BY <1>3
    <3>2. SizeOf(e, {x}) = e[x].size + SizeOf(e, {})
      BY <1>2, <3>1
    <3>3. e[x].size \in Nat
      BY DEF Sized
    <3> QED
      BY <2>1, <3>2, <3>3
  <2>3. \A x \in U \ S : SizeOf(e, S \cup {x}) = e[x].size + SizeOf(e, S)
    <3> TAKE x \in U \ S
    <3>1. S \cup {x} = {x} /\ e[x].size \in Nat
      BY <2>1 DEF Sized
    <3> QED
      BY <2>1, <2>2, <3>1
  <2> QED
    BY <2>1, <2>3
<1>5. ASSUME NEW n \in N PROVE n + 1 \in N
  <2>1. n \in Nat /\ \A S \in SUBSET U : Cardinality(S) = n => Adds(S)
    OBVIOUS
  <2> SUFFICES ASSUME NEW S \in SUBSET U, Cardinality(S) = n + 1 PROVE Adds(S)
    OBVIOUS
  <2> HIDE DEF N
  <2>2. S # {} /\ IsFiniteSet(S)
    BY <1>1, <2>1, FS_EmptySet
  \* Taking an element off S.
  <2>3. ASSUME NEW p \in S
        PROVE  /\ SizeOf(e, S \ {p}) \in Nat /\ e[p].size \in Nat
               /\ SizeOf(e, S) = e[p].size + SizeOf(e, S \ {p})
               /\ \A x \in U \ S : SizeOf(e, (S \ {p}) \cup {x})
                                       = e[x].size + SizeOf(e, S \ {p})
    <3>1. PICK T : T = S \ {p}
      OBVIOUS
    <3>2. T \in SUBSET U /\ p \in U \ T /\ T \cup {p} = S
      BY <3>1
    <3>3. Cardinality(T) = n
      <4>1. Cardinality(S \ {p}) = Cardinality(S) - 1
        BY <2>2, FS_RemoveElement
      <4> QED
        BY <2>1, <3>1, <4>1
    <3>4. Adds(T)
      BY <2>1, <3>2, <3>3
    <3>5. \A x \in U \ S : x \in U \ T
      BY <3>1
    <3>6. SizeOf(e, T \cup {p}) = e[p].size + SizeOf(e, T)
      BY <3>2, <3>4
    <3> QED
      BY <3>1, <3>2, <3>4, <3>5, <3>6 DEF Sized
  <2>4. SizeOf(e, S) \in Nat
    <3>1. PICK p : p \in S
      BY <2>2
    <3>2. /\ SizeOf(e, S \ {p}) \in Nat /\ e[p].size \in Nat
          /\ SizeOf(e, S) = e[p].size + SizeOf(e, S \ {p})
      BY <2>3, <3>1
    <3> QED
      BY <3>2
  <2>5. ASSUME NEW x \in U \ S PROVE SizeOf(e, S \cup {x}) = e[x].size + SizeOf(e, S)
    <3>1. PICK T : T = S \cup {x}
      OBVIOUS
    <3>2. PICK p : p = Least(T)
      OBVIOUS
    <3>3. T \in SUBSET U /\ T # {} /\ p \in T
      BY <1>3, <3>1, <3>2
    <3>4. SizeOf(e, T) = e[p].size + SizeOf(e, T \ {p})
      BY <1>2, <3>2, <3>3
    <3>5. CASE p = x
      <4>1. T \ {p} = S
        BY <3>1, <3>5
      <4> QED
        BY <3>1, <3>4, <3>5, <4>1
    <3>6. CASE p # x
      <4>1. p \in S /\ T \ {p} = (S \ {p}) \cup {x}
        BY <3>1, <3>3, <3>6
      <4>2. PICK m \in Nat : m = SizeOf(e, S \ {p})
        BY <2>3, <4>1
      <4>3. e[p].size \in Nat /\ e[x].size \in Nat
        BY <2>3, <4>1 DEF Sized
      <4>4. SizeOf(e, S) = e[p].size + m /\ SizeOf(e, T \ {p}) = e[x].size + m
        BY <2>3, <4>1, <4>2
      <4> QED
        BY <3>1, <3>4, <4>3, <4>4
    <3> QED
      BY <3>5, <3>6
  <2> QED
    BY <2>4, <2>5
<1>6. N = Nat
  <2>1. N \in SUBSET Nat
    OBVIOUS
  <2> HIDE DEF N
  <2> QED
    BY <1>4, <1>5, <2>1, SetInduction
<1>7. \A S \in SUBSET U : Adds(S)
  BY <1>1, <1>6
<1> QED
  BY <1>7

\* Two disjoint sets of entries.
LEMMA SizeSplits ==
    ASSUME NEW e, NEW S, NEW T, Sized(e, S \cup T), S \cap T = {}
    PROVE  SizeOf(e, S \cup T) = SizeOf(e, S) + SizeOf(e, T)
<1> DEFINE N == {n \in Nat : \A R \in SUBSET T : Cardinality(R) = n =>
                                 SizeOf(e, S \cup R) = SizeOf(e, S) + SizeOf(e, R)}
<1>1. PICK U : U = S \cup T
  OBVIOUS
<1>2. \A R \in SUBSET U :
         /\ SizeOf(e, R) \in Nat
         /\ \A x \in U \ R : SizeOf(e, R \cup {x}) = e[x].size + SizeOf(e, R)
  BY <1>1, SizeAdds
<1>3. \A R \in SUBSET T : IsFiniteSet(R) /\ Cardinality(R) \in Nat
  <2>1. \A R \in SUBSET T : R \in SUBSET (S \cup T)
    OBVIOUS
  <2> QED
    BY <2>1, FS_Subset, FS_CardinalityType DEF Sized
<1>4. 0 \in N
  <2> SUFFICES ASSUME NEW R \in SUBSET T, Cardinality(R) = 0
               PROVE  SizeOf(e, S \cup R) = SizeOf(e, S) + SizeOf(e, R)
    OBVIOUS
  <2>1. R = {} /\ S \cup R = S
    BY <1>3, FS_EmptySet
  <2>2. SizeOf(e, R) = 0
    BY <1>3, <2>1, SizeUnfolds
  <2>3. SizeOf(e, S) \in Nat
    BY <1>1, <1>2
  <2> QED
    BY <2>1, <2>2, <2>3
<1>5. ASSUME NEW n \in N PROVE n + 1 \in N
  <2>1. /\ n \in Nat
        /\ \A R \in SUBSET T : Cardinality(R) = n =>
              SizeOf(e, S \cup R) = SizeOf(e, S) + SizeOf(e, R)
    OBVIOUS
  <2> SUFFICES ASSUME NEW R \in SUBSET T, Cardinality(R) = n + 1
               PROVE  SizeOf(e, S \cup R) = SizeOf(e, S) + SizeOf(e, R)
    OBVIOUS
  <2> HIDE DEF N
  <2>2. R # {} /\ IsFiniteSet(R)
    BY <1>3, <2>1, FS_EmptySet
  <2>3. PICK p : p \in R
    BY <2>2
  <2>4. PICK Q : Q = R \ {p}
    OBVIOUS
  <2>5. Cardinality(Q) = n
    <3>1. Cardinality(R \ {p}) = Cardinality(R) - 1
      BY <2>2, <2>3, FS_RemoveElement
    <3> QED
      BY <2>1, <2>4, <3>1
  <2>6. Q \in SUBSET T /\ Q \cup {p} = R /\ (S \cup Q) \cup {p} = S \cup R
    BY <2>3, <2>4
  <2>7. Q \in SUBSET U /\ p \in U \ Q /\ S \cup Q \in SUBSET U /\ p \in U \ (S \cup Q)
        /\ S \in SUBSET U
    BY <1>1, <2>3, <2>4
  <2>8. SizeOf(e, S \cup Q) = SizeOf(e, S) + SizeOf(e, Q)
    BY <2>1, <2>5, <2>6
  <2>9. SizeOf(e, R) = e[p].size + SizeOf(e, Q)
    BY <1>2, <2>6, <2>7
  <2>10. SizeOf(e, S \cup R) = e[p].size + SizeOf(e, S \cup Q)
    BY <1>2, <2>6, <2>7
  <2>11. SizeOf(e, S) \in Nat /\ SizeOf(e, Q) \in Nat /\ e[p].size \in Nat
    BY <1>1, <1>2, <2>7 DEF Sized
  <2> QED
    BY <2>8, <2>9, <2>10, <2>11
<1>6. N = Nat
  <2>1. N \in SUBSET Nat
    OBVIOUS
  <2> HIDE DEF N
  <2> QED
    BY <1>4, <1>5, <2>1, SetInduction
<1> QED
  BY <1>3, <1>6

\* Entries of the same sizes take as much.
LEMMA SizeSame ==
    ASSUME NEW e, NEW f, NEW S, IsFiniteSet(S), \A k \in S : e[k].size = f[k].size
    PROVE  SizeOf(e, S) = SizeOf(f, S)
<1> DEFINE Least(s) == CHOOSE x \in s : TRUE
           N == {n \in Nat : \A R \in SUBSET S : Cardinality(R) = n => SizeOf(e, R) = SizeOf(f, R)}
<1>1. \A R \in SUBSET S : IsFiniteSet(R) /\ Cardinality(R) \in Nat
  BY FS_Subset, FS_CardinalityType
<1>2. \A R \in SUBSET S :
         /\ SizeOf(e, R) = IF R = {} THEN 0 ELSE e[Least(R)].size + SizeOf(e, R \ {Least(R)})
         /\ SizeOf(f, R) = IF R = {} THEN 0 ELSE f[Least(R)].size + SizeOf(f, R \ {Least(R)})
  BY <1>1, SizeUnfolds
<1>3. \A R : R # {} => Least(R) \in R
  OBVIOUS
<1> HIDE DEF Least
<1>4. 0 \in N
  <2>1. \A R \in SUBSET S : Cardinality(R) = 0 => R = {}
    BY <1>1, FS_EmptySet
  <2>2. \A R \in SUBSET S : R = {} => SizeOf(e, R) = SizeOf(f, R)
    BY <1>2
  <2> QED
    BY <2>1, <2>2
<1>5. ASSUME NEW n \in N PROVE n + 1 \in N
  <2>1. /\ n \in Nat
        /\ \A R \in SUBSET S : Cardinality(R) = n => SizeOf(e, R) = SizeOf(f, R)
    OBVIOUS
  <2> SUFFICES ASSUME NEW R \in SUBSET S, Cardinality(R) = n + 1
               PROVE  SizeOf(e, R) = SizeOf(f, R)
    OBVIOUS
  <2> HIDE DEF N
  <2>2. R # {} /\ IsFiniteSet(R)
    BY <1>1, <2>1, FS_EmptySet
  <2>3. PICK p : p = Least(R)
    OBVIOUS
  <2>4. p \in R /\ p \in S
    BY <1>3, <2>2, <2>3
  <2>5. PICK Q : Q = R \ {p}
    OBVIOUS
  <2>6. Cardinality(Q) = n
    <3>1. Cardinality(R \ {p}) = Cardinality(R) - 1
      BY <2>2, <2>4, FS_RemoveElement
    <3> QED
      BY <2>1, <2>5, <3>1
  <2>7. SizeOf(e, Q) = SizeOf(f, Q)
    BY <2>1, <2>5, <2>6
  <2>8. SizeOf(e, R) = e[p].size + SizeOf(e, Q) /\ SizeOf(f, R) = f[p].size + SizeOf(f, Q)
    BY <1>2, <2>2, <2>3, <2>5
  <2> QED
    BY <2>4, <2>7, <2>8
<1>6. N = Nat
  <2>1. N \in SUBSET Nat
    OBVIOUS
  <2> HIDE DEF N
  <2> QED
    BY <1>4, <1>5, <2>1, SetInduction
<1>7. S \in SUBSET S /\ Cardinality(S) \in Nat
  BY <1>1
<1> QED
  BY <1>6, <1>7

-----------------------------------------------------------------------------
(* The size of a view is a number.                                         *)

LEMMA RenderSize ==
    ASSUME NEW items, NEW t \in Tiers, IsFiniteSet(items)
    PROVE  RenderView(items, t).size \in Nat
<1>1. PICK all \in Nat : all = Cardinality(items)
  BY FS_CardinalityType
<1>2. PICK S : S = {m \in 0..all : m <= 1 \/ WithinBudget(m, t)}
  OBVIOUS
<1>3. 0 \in S /\ S \in SUBSET Nat /\ \A m \in S : m <= all
  BY <1>2
<1>4. Max(S) \in Nat
  BY <1>3, MaxExists
<1>5. RenderView(items, t).size = 1 + Max(S) * Weight[t]
  BY <1>1, <1>2 DEF RenderView, Size
<1>6. Weight[t] \in Nat
  BY ReadPathConstants
<1> QED
  BY <1>4, <1>5, <1>6

LEMMA ViewsAreFinite ==
    ASSUME NEW c \in CellType, NEW v \in Views
    PROVE  IsFiniteSet(BuildBuiltinView(c, v))
<1>1. /\ c.facts \in Seq(FactType) /\ c.timeline \in Seq(Nat) /\ c.pending \in Boards
  BY CellFields
<1>2. v[1] = "fact_subject" \/ v = TailView \/ v = BoardView
  BY DEF Views, FactView
\* The image of a finite set.
<1>3. ASSUME NEW S, NEW T, NEW f, IsFiniteSet(S), f = [x \in S |-> f[x]], T = {f[x] : x \in S}
      PROVE  IsFiniteSet(T)
  <2>1. f \in Surjection(S, T)
    BY <1>3 DEF Surjection
  <2> QED
    BY <1>3, <2>1, FS_Surjection
<1>4. CASE v[1] = "fact_subject"
  <2>1. PICK S : S = ActiveFor(c, v[2])
    OBVIOUS
  <2>2. PICK f : f = [x \in S |-> FactHandle(x)]
    OBVIOUS
  <2>3. S \in SUBSET (1..Len(c.facts))
    BY <1>1, <2>1 DEF ActiveFor
  <2>4. IsFiniteSet(S)
    <3>1. Len(c.facts) \in Nat
      BY <1>1
    <3>2. IsFiniteSet(1..Len(c.facts))
      BY <3>1, FS_Interval
    <3> QED
      BY ONLY <2>3, <3>2, FS_Subset
  <2>5. BuildBuiltinView(c, v) = {f[x] : x \in S}
    BY <1>4, <2>1, <2>2 DEF BuildBuiltinView, TailView, BoardView
  <2> QED
    BY <1>3, <2>2, <2>4, <2>5
<1>5. CASE v = TailView
  <2>1. PICK S : S = 1..Len(c.timeline)
    OBVIOUS
  <2>2. PICK f : f = [i \in S |-> EventHandle(c.timeline[i])]
    OBVIOUS
  <2>3. IsFiniteSet(S)
    <3>1. Len(c.timeline) \in Nat
      BY <1>1
    <3> QED
      BY <2>1, <3>1, FS_Interval
  <2>4. PICK T : T = {f[x] : x \in S}
    OBVIOUS
  <2>5. IsFiniteSet(T)
    BY <1>3, <2>2, <2>3, <2>4
  <2>6. BuildBuiltinView(c, v) \in SUBSET T
    <3>1. v[1] # "fact_subject" /\ v # BoardView
      BY <1>5 DEF TailView, BoardView
    <3>2. \A x \in BuildBuiltinView(c, v) :
             \E i \in DOMAIN c.timeline : x = EventHandle(c.timeline[i])
      <4>1. PICK I : I = {j \in DOMAIN c.timeline : j > Len(c.timeline) - TailLen}
        OBVIOUS
      <4>2. PICK B : B = {EventHandle(c.timeline[i]) : i \in I}
        OBVIOUS
      <4>3. BuildBuiltinView(c, v) = B
        BY <1>5, <3>1, <4>1, <4>2 DEF BuildBuiltinView
      <4> QED
        BY <4>1, <4>2, <4>3
    <3>3. \A i \in DOMAIN c.timeline : i \in S /\ f[i] = EventHandle(c.timeline[i])
      BY <1>1, <2>1, <2>2
    <3> QED
      BY <2>4, <3>2, <3>3
  <2> QED
    BY <2>5, <2>6, FS_Subset
<1>6. CASE v = BoardView
  <2>1. PICK f : f = [q \in c.pending |-> ItemHandle(q)]
    OBVIOUS
  <2>2. IsFiniteSet(c.pending)
    BY <1>1 DEF Boards
  <2>3. BuildBuiltinView(c, v) = {f[x] : x \in c.pending}
    <3>1. v[1] # "fact_subject" /\ v # TailView
      BY <1>6 DEF TailView, BoardView
    <3>2. BuildBuiltinView(c, v) = {ItemHandle(q) : q \in c.pending}
      BY <1>6, <3>1 DEF BuildBuiltinView
    <3> QED
      BY <2>1, <3>2
  <2> QED
    BY <1>3, <2>1, <2>2, <2>3
<1> QED
  BY <1>2, <1>4, <1>5, <1>6

-----------------------------------------------------------------------------
(* The bytes of the tiers.                                                 *)

There(e, d) == {k \in DOMAIN e : e[k].dir = d}
TierSize(e, d) == SizeOf(e, There(e, d))

\* Finitely many entries, with what is compared and added of each.
Sizes(e) ==
    /\ IsFiniteSet(DOMAIN e)
    /\ \A k \in DOMAIN e : e[k].dir \in CacheTiers /\ e[k].size \in Nat /\ e[k].used \in Nat

\* What was put last has room in its tier, or is alone with marked entries.
Roomy ==
    pc = "put_index" =>
        LET d == ForSize(job.content.size)
        IN  bytes[d] <= Capacity[d] \/ \A k \in There(cache, d) : cache[k].tombstone

BytesInv ==
    /\ Sizes(cache)
    /\ Sizes(index)
    /\ pc \in Putting => job.content.size \in Nat
    /\ bytes \in [CacheTiers -> Int]
    /\ pc # "down" => \A d \in CacheTiers : bytes[d] = TierSize(cache, d)
    /\ Roomy

LEMMA InvGivesBytes ==
    ASSUME BytesInv
    PROVE  BytesAccounted
<1>1. ASSUME NEW d \in CacheTiers, pc # "down" PROVE bytes[d] = SizeOf(cache, There(cache, d))
  BY <1>1 DEF BytesInv, TierSize
<1>2. ASSUME NEW d, pc = "put_index", d = ForSize(job.content.size)
      PROVE  bytes[d] <= Capacity[d] \/ \A k \in There(cache, d) : cache[k].tombstone
  BY <1>2 DEF BytesInv, Roomy
<1> QED
  BY <1>1, <1>2 DEF BytesAccounted, There

\* Marks and times do not change what a tier holds.
LEMMA TierSame ==
    ASSUME NEW e, NEW f, Sizes(e), DOMAIN f = DOMAIN e,
           \A k \in DOMAIN e : f[k].dir = e[k].dir /\ f[k].size = e[k].size
    PROVE  \A d : There(f, d) = There(e, d) /\ TierSize(f, d) = TierSize(e, d)
<1> TAKE d
<1>1. There(f, d) = There(e, d)
  BY DEF There
<1>2. PICK S : S = There(e, d)
  OBVIOUS
<1>3. S \in SUBSET DOMAIN e
  BY <1>2 DEF There
<1>4. IsFiniteSet(S)
  BY <1>3, FS_Subset DEF Sizes
<1>5. SizeOf(e, S) = SizeOf(f, S)
  BY <1>3, <1>4, SizeSame
<1> QED
  BY <1>1, <1>2, <1>5 DEF TierSize

\* One entry of a tier and the others.
LEMMA TierWithout ==
    ASSUME NEW e, Sizes(e), NEW k, NEW c
    PROVE  /\ SizeOf(e, There(e, c) \ {k}) \in Nat
           /\ TierSize(e, c) = SizeOf(e, There(e, c) \ {k})
                                 + IF k \in There(e, c) THEN e[k].size ELSE 0
<1>1. PICK S : S = There(e, c)
  OBVIOUS
<1>2. PICK A : A = S \ {k}
  OBVIOUS
<1>3. S \in SUBSET DOMAIN e /\ A \in SUBSET S
  BY <1>1, <1>2 DEF There
<1>4. Sized(e, S)
  BY <1>3, FS_Subset DEF Sized, Sizes
<1>5. SizeOf(e, A) \in Nat /\ \A x \in S \ A : SizeOf(e, A \cup {x}) = e[x].size + SizeOf(e, A)
  BY <1>3, <1>4, SizeAdds
<1>6. CASE k \in S
  <2>1. A \cup {k} = S /\ k \in S \ A /\ e[k].size \in Nat
    BY <1>2, <1>4, <1>6 DEF Sized
  <2>2. SizeOf(e, S) = e[k].size + SizeOf(e, A)
    BY <1>5, <2>1
  <2>3. SizeOf(e, S) = SizeOf(e, A) + e[k].size
    BY <1>5, <2>1, <2>2
  <2> QED
    BY <1>1, <1>2, <1>5, <1>6, <2>3 DEF TierSize
<1>7. CASE k \notin S
  <2>1. A = S
    BY <1>2, <1>7
  <2> QED
    BY <1>1, <1>2, <1>5, <1>7, <2>1 DEF TierSize
<1> QED
  BY <1>6, <1>7

\* Tier d with n bytes more.
Charged(b, d, n) == [b EXCEPT ![d] = @ + n]

\* An entry is put: its tier is charged for it and the tier of the one it
\* replaces is not any more.
LEMMA PutIsCharged ==
    ASSUME Sizes(cache), bytes \in [CacheTiers -> Int],
           \A c \in CacheTiers : bytes[c] = TierSize(cache, c),
           NEW k, NEW entry, NEW d \in CacheTiers, entry.dir = d, entry.size \in Nat,
           entry.used \in Nat, NEW held, held = With(cache, k, entry),
           NEW taken, taken = Charged(Deducted(bytes, k), d, entry.size)
    PROVE  /\ Sizes(held) /\ taken \in [CacheTiers -> Int]
           /\ \A c \in CacheTiers : taken[c] = TierSize(held, c)
<1>1. /\ DOMAIN held = DOMAIN cache \cup {k} /\ held[k] = entry
      /\ \A j \in DOMAIN cache : j # k => held[j] = cache[j]
  BY DEF With
<1>2. Sizes(held)
  <2>1. IsFiniteSet(DOMAIN held)
    BY <1>1, FS_AddElement DEF Sizes
  <2> QED
    BY <1>1, <2>1 DEF Sizes
<1>3. PICK gone : gone = [c \in CacheTiers |-> IF k \in There(cache, c) THEN cache[k].size ELSE 0]
  OBVIOUS
<1>4. gone \in [CacheTiers -> Nat]
  BY <1>3 DEF Sizes, There
<1>5. /\ Deducted(bytes, k) \in [CacheTiers -> Int]
      /\ \A c \in CacheTiers : Deducted(bytes, k)[c] = bytes[c] - gone[c]
  <2>1. CASE k \in DOMAIN cache
    <3>1. PICK f \in CacheTiers : f = cache[k].dir
      BY <2>1 DEF Sizes
    <3>2. PICK n \in Nat : n = cache[k].size
      BY <2>1 DEF Sizes
    <3>3. Deducted(bytes, k) = [bytes EXCEPT ![f] = bytes[f] - n]
      BY <2>1, <3>1, <3>2 DEF Deducted
    <3>4. \A c \in CacheTiers : gone[c] = IF c = f THEN n ELSE 0
      BY <1>3, <2>1, <3>1, <3>2 DEF There
    <3> QED
      BY <3>3, <3>4
  <2>2. CASE k \notin DOMAIN cache
    <3>1. Deducted(bytes, k) = bytes
      BY <2>2 DEF Deducted
    <3>2. \A c \in CacheTiers : gone[c] = 0
      BY <1>3, <2>2 DEF There
    <3> QED
      BY <3>1, <3>2
  <2> QED
    BY <2>1, <2>2
<1>6. /\ taken \in [CacheTiers -> Int]
      /\ \A c \in CacheTiers : taken[c] = (bytes[c] - gone[c]) + IF c = d THEN entry.size ELSE 0
  <2>1. PICK b \in [CacheTiers -> Int] : b = Deducted(bytes, k)
    BY <1>5
  <2>2. PICK n \in Nat : n = entry.size
    OBVIOUS
  <2>3. taken = [b EXCEPT ![d] = b[d] + n]
    BY <2>1, <2>2 DEF Charged
  <2>4. \A c \in CacheTiers : taken[c] = b[c] + IF c = d THEN n ELSE 0
    BY <2>3
  <2> QED
    BY <1>5, <2>1, <2>2, <2>3, <2>4
<1>7. ASSUME NEW c \in CacheTiers PROVE taken[c] = TierSize(held, c)
  <2>1. PICK A : A = There(cache, c) \ {k}
    OBVIOUS
  <2>2. There(held, c) \ {k} = A /\ (k \in There(held, c) <=> c = d)
    BY <1>1, <2>1 DEF There
  <2>3. SizeOf(cache, A) \in Nat /\ TierSize(cache, c) = SizeOf(cache, A) + gone[c]
    <3>1. PICK S : S = There(cache, c)
      OBVIOUS
    <3>2. Sizes(cache)
      OBVIOUS
    <3>3. /\ SizeOf(cache, S \ {k}) \in Nat
          /\ TierSize(cache, c) = SizeOf(cache, S \ {k})
                                   + IF k \in S THEN cache[k].size ELSE 0
      BY ONLY <3>1, <3>2, TierWithout
    <3>4. gone[c] = IF k \in S THEN cache[k].size ELSE 0
      BY <1>3, <3>1
    <3> QED
      BY ONLY <2>1, <3>1, <3>3, <3>4
  <2>4. TierSize(held, c) = SizeOf(held, A) + IF c = d THEN entry.size ELSE 0
    <3>1. TierSize(held, c) = SizeOf(held, There(held, c) \ {k})
                               + IF k \in There(held, c) THEN held[k].size ELSE 0
      BY ONLY <1>2, TierWithout
    <3>2. held[k].size = entry.size
      BY <1>1
    <3>3. PICK S : S = There(held, c)
      OBVIOUS
    <3>4. TierSize(held, c) = SizeOf(held, A) + IF k \in S THEN held[k].size ELSE 0
      BY <2>2, <3>1, <3>3
    <3> QED
      BY ONLY <2>2, <3>2, <3>3, <3>4
  <2>5. SizeOf(held, A) = SizeOf(cache, A)
    <3>1. A \in SUBSET DOMAIN cache
      BY <2>1 DEF There
    <3>2. IsFiniteSet(A)
      BY <3>1, FS_Subset DEF Sizes
    <3>3. \A j \in A : held[j].size = cache[j].size
      BY <1>1, <2>1, <3>1
    <3> QED
      BY <3>2, <3>3, SizeSame
  <2>6. PICK m \in Nat : m = SizeOf(cache, A)
    BY <2>3
  <2>7. PICK n \in Nat : n = IF c = d THEN entry.size ELSE 0
    OBVIOUS
  <2>8. bytes[c] = m + gone[c] /\ gone[c] \in Nat
    BY <1>4, <2>3, <2>6
  <2>9. TierSize(held, c) = m + n
    BY <2>4, <2>5, <2>6, <2>7
  <2>10. taken[c] = (bytes[c] - gone[c]) + n
    BY <1>6, <2>7
  <2> QED
    BY <2>8, <2>9, <2>10
<1> QED
  BY <1>2, <1>6, <1>7

\* The least of a set of numbers.
LEMMA LeastOf ==
    ASSUME NEW T \in SUBSET Nat, T # {}
    PROVE  \E m \in T : \A n \in T : m <= n
<1>1. PICK m \in T : \A n \in T : ~(<<n, m>> \in OpToRel(<, Nat))
  BY WFMin, NatLessThanWellFounded
<1>2. \A n \in T : ~(n < m)
  BY <1>1 DEF OpToRel
<1> QED
  BY <1>2

\* Of some entries, one that none of the others was used before.
LEMMA FirstUsed ==
    ASSUME NEW e, Sizes(e), DOMAIN e \subseteq Views \X Nat,
           NEW R \in SUBSET DOMAIN e, R # {}
    PROVE  \E k \in R : \A j \in R : ~UsedBefore(e, j, k)
<1>1. \A k \in R : e[k].used \in Nat /\ ViewRank[k[1]] \in Nat /\ k[2] \in Nat
  BY ReadPathConstants DEF Sizes
<1>2. PICK u \in {e[k].used : k \in R} : \A n \in {e[k].used : k \in R} : u <= n
  <2>1. {e[k].used : k \in R} \in SUBSET Nat /\ {e[k].used : k \in R} # {}
    BY <1>1
  <2> QED
    BY <2>1, LeastOf
<1>3. PICK Q : Q = {k \in R : e[k].used = u}
  OBVIOUS
<1>4. PICK r \in {ViewRank[k[1]] : k \in Q} : \A n \in {ViewRank[k[1]] : k \in Q} : r <= n
  <2>1. {ViewRank[k[1]] : k \in Q} \in SUBSET Nat /\ {ViewRank[k[1]] : k \in Q} # {}
    BY <1>1, <1>2, <1>3
  <2> QED
    BY <2>1, LeastOf
<1>5. PICK P : P = {k \in Q : ViewRank[k[1]] = r}
  OBVIOUS
<1>6. PICK v \in {k[2] : k \in P} : \A n \in {k[2] : k \in P} : v <= n
  <2>1. {k[2] : k \in P} \in SUBSET Nat /\ {k[2] : k \in P} # {}
    BY <1>1, <1>3, <1>4, <1>5
  <2> QED
    BY <2>1, LeastOf
<1>7. PICK k \in P : k[2] = v
  OBVIOUS
<1>8. k \in R /\ k \in Q /\ e[k].used = u /\ ViewRank[k[1]] = r /\ u \in Nat /\ r \in Nat /\ v \in Nat
  BY <1>1, <1>3, <1>5, <1>7
<1>9. ASSUME NEW j \in R PROVE ~UsedBefore(e, j, k)
  <2>1. u <= e[j].used
    BY <1>2
  <2>2. e[j].used = u => j \in Q /\ r <= ViewRank[j[1]]
    BY <1>3, <1>4
  <2>3. e[j].used = u /\ j[1] = k[1] => v <= j[2]
    BY <1>3, <1>5, <1>6, <1>8
  <2>4. e[j].used \in Nat /\ ViewRank[j[1]] \in Nat /\ j[2] \in Nat
    BY <1>1
  <2> QED
    BY <1>7, <1>8, <2>1, <2>2, <2>3, <2>4 DEF UsedBefore
<1> QED
  BY <1>8, <1>9

\* What evict_locked leaves: a tier within its capacity, or of marked entries.
LEMMA EvictionMakesRoom ==
    ASSUME NEW e, Sizes(e), DOMAIN e \subseteq Views \X Nat, NEW d \in CacheTiers,
           NEW total, total = TierSize(e, d), NEW out, out = Victims(e, total, d),
           NEW f, f = Restrict(e, DOMAIN e \ out)
    PROVE  /\ Sizes(f)
           /\ \A c \in CacheTiers : c # d => TierSize(f, c) = TierSize(e, c)
           /\ TierSize(f, d) = total - SizeOf(e, out) /\ TierSize(f, d) \in Nat
           /\ total - SizeOf(e, out) <= Capacity[d] \/ \A k \in There(f, d) : f[k].tombstone
<1>1. PICK E : E = {k \in DOMAIN e : e[k].dir = d /\ ~e[k].tombstone}
  OBVIOUS
<1>2. out = {k \in E : total - SizeOf(e, {j \in E : UsedBefore(e, j, k)}) > Capacity[d]}
  BY <1>1 DEF Victims
<1>3. /\ DOMAIN f = DOMAIN e \ out /\ \A k \in DOMAIN f : f[k] = e[k]
  BY DEF Restrict
<1>4. out \in SUBSET There(e, d) /\ out \in SUBSET E /\ There(e, d) \in SUBSET DOMAIN e
  BY <1>1, <1>2 DEF There
<1>5. Sizes(f)
  <2>1. DOMAIN f \in SUBSET DOMAIN e
    BY <1>3
  <2>2. IsFiniteSet(DOMAIN f)
    BY <2>1, FS_Subset DEF Sizes
  <2> QED
    BY <1>3, <2>1, <2>2 DEF Sizes
<1>6. \A S \in SUBSET DOMAIN e : Sized(e, S) /\ SizeOf(e, S) \in Nat
  <2>1. Sized(e, DOMAIN e)
    BY DEF Sized, Sizes
  <2>2. \A S \in SUBSET DOMAIN e : SizeOf(e, S) \in Nat
    BY <2>1, SizeAdds
  <2>3. \A S \in SUBSET DOMAIN e : Sized(e, S)
    BY <2>1, FS_Subset DEF Sized
  <2> QED
    BY <2>2, <2>3
\* What is left takes as much as it did.
<1>7. \A S \in SUBSET DOMAIN f : SizeOf(f, S) = SizeOf(e, S)
  <2> TAKE S \in SUBSET DOMAIN f
  <2>1. IsFiniteSet(S)
    BY <1>5, FS_Subset DEF Sizes
  <2>2. \A k \in S : f[k].size = e[k].size
    BY <1>3
  <2> QED
    BY ONLY <2>1, <2>2, SizeSame
<1>8. \A c : There(f, c) \in SUBSET DOMAIN f /\ There(f, c) = There(e, c) \ out
  BY <1>3 DEF There
<1>9. ASSUME NEW c \in CacheTiers, c # d PROVE TierSize(f, c) = TierSize(e, c)
  <2>1. There(f, c) = There(e, c)
    <3>1. \A k \in There(e, c) : k \notin There(e, d)
      BY <1>9 DEF There
    <3> QED
      BY <1>4, <1>8, <3>1
  <2> QED
    BY <1>7, <1>8, <2>1 DEF TierSize
<1>10. TierSize(f, d) = total - SizeOf(e, out) /\ TierSize(f, d) \in Nat
  <2>1. PICK S : S = There(f, d)
    OBVIOUS
  <2>2. S \cup out = There(e, d) /\ S \cap out = {}
    <3>1. PICK W : W = There(e, d)
      OBVIOUS
    <3>2. S = W \ out /\ out \in SUBSET W
      BY <1>4, <1>8, <2>1, <3>1
    <3> QED
      BY ONLY <3>1, <3>2
  <2>3. S \in SUBSET DOMAIN e /\ out \in SUBSET DOMAIN e /\ S \cup out \in SUBSET DOMAIN e
    BY <1>4, <2>2
  <2>4. SizeOf(e, S \cup out) = SizeOf(e, S) + SizeOf(e, out)
    BY <1>6, <2>2, <2>3, SizeSplits
  <2>5. TierSize(f, d) = SizeOf(e, S)
    BY <1>7, <1>8, <2>1 DEF TierSize
  <2>6. total = SizeOf(e, S \cup out)
    BY <2>2 DEF TierSize
  <2>7. SizeOf(e, S) \in Nat /\ SizeOf(e, out) \in Nat
    BY <1>6, <2>3
  <2> QED
    BY <2>4, <2>5, <2>6, <2>7
<1>11. CASE out = E
  <2>1. \A k \in There(f, d) : k \in DOMAIN e /\ e[k].dir = d /\ k \notin out /\ f[k] = e[k]
    BY <1>3, <1>8 DEF There
  <2>2. \A k \in There(f, d) : f[k].tombstone
    BY <1>1, <1>11, <2>1
  <2> QED
    BY <1>5, <1>9, <1>10, <2>2
<1>12. CASE out # E
  <2>1. PICK R : R = E \ out
    OBVIOUS
  <2>2. R \in SUBSET DOMAIN e /\ R # {}
    BY <1>1, <1>4, <1>12, <2>1
  <2>3. PICK k \in R : \A j \in R : ~UsedBefore(e, j, k)
    BY <2>2, FirstUsed
  <2>4. PICK B : B = {j \in E : UsedBefore(e, j, k)}
    OBVIOUS
  \* All that was used before the first that stays is evicted.
  <2>5. B \in SUBSET out
    BY <2>1, <2>3, <2>4
  <2>6. ~(total - SizeOf(e, B) > Capacity[d])
    BY <1>2, <2>1, <2>3, <2>4
  <2>7. PICK D : D = out \ B
    OBVIOUS
  <2>8. B \cup D = out /\ B \cap D = {} /\ B \in SUBSET DOMAIN e /\ D \in SUBSET DOMAIN e
        /\ B \cup D \in SUBSET DOMAIN e /\ out \in SUBSET DOMAIN e
    BY <1>4, <2>5, <2>7
  <2>9. SizeOf(e, out) = SizeOf(e, B) + SizeOf(e, D)
    BY <1>6, <2>8, SizeSplits
  <2>10. SizeOf(e, B) \in Nat /\ SizeOf(e, D) \in Nat /\ SizeOf(e, out) \in Nat
    BY <1>6, <2>8
  <2>11. total \in Int /\ Capacity[d] \in Nat
    BY <1>4, <1>6, ReadPathConstants DEF TierSize
  <2>12. total - SizeOf(e, out) <= Capacity[d]
    BY <2>6, <2>9, <2>10, <2>11
  <2> QED
    BY <1>5, <1>9, <1>10, <2>12
<1> QED
  BY <1>11, <1>12

-----------------------------------------------------------------------------
(* The bytes are kept by every step.                                       *)

\* A step that puts no entry and takes none away.
LEMMA BytesKept ==
    ASSUME BytesInv, pc # "down", pc' # "put_index", DOMAIN cache' = DOMAIN cache,
           \A k \in DOMAIN cache : /\ cache'[k].dir = cache[k].dir
                                   /\ cache'[k].size = cache[k].size
                                   /\ cache'[k].used \in Nat,
           bytes' = bytes, Sizes(index'), pc' \in Putting => job'.content.size \in Nat
    PROVE  BytesInv'
<1>1. Sizes(cache) /\ bytes \in [CacheTiers -> Int]
      /\ \A d \in CacheTiers : bytes[d] = TierSize(cache, d)
  BY DEF BytesInv
<1>2. Sizes(cache')
  BY <1>1 DEF Sizes
<1>3. \A d : TierSize(cache', d) = TierSize(cache, d)
  BY <1>1, TierSame
<1>4. \A d \in CacheTiers : bytes'[d] = TierSize(cache', d)
  BY <1>1, <1>3
<1> QED
  BY <1>1, <1>2, <1>4 DEF BytesInv, Roomy

\* The entries stay as they are.
LEMMA CacheUntouched ==
    ASSUME BytesInv, cache' = cache
    PROVE  /\ DOMAIN cache' = DOMAIN cache
           /\ \A k \in DOMAIN cache : /\ cache'[k].dir = cache[k].dir
                                      /\ cache'[k].size = cache[k].size
                                      /\ cache'[k].used \in Nat
BY DEF BytesInv, Sizes

\* Entries are marked.
LEMMA CacheMarked ==
    ASSUME BytesInv, CacheTypes, NEW h, cache' = InvalidateHandle(h)
    PROVE  /\ DOMAIN cache' = DOMAIN cache
           /\ \A k \in DOMAIN cache : /\ cache'[k].dir = cache[k].dir
                                      /\ cache'[k].size = cache[k].size
                                      /\ cache'[k].used \in Nat
<1>1. DOMAIN cache' = DOMAIN cache
  BY DEF InvalidateHandle
<1>2. ASSUME NEW k \in DOMAIN cache
      PROVE  cache'[k].dir = cache[k].dir /\ cache'[k].size = cache[k].size
             /\ cache'[k].used = cache[k].used
  <2>1. PICK x : x = cache[k]
    OBVIOUS
  <2>2. DOMAIN x = Fields
    BY <2>1 DEF CacheTypes, Entries
  <2>3. cache'[k] = [x EXCEPT !.tombstone = @ \/ h \in x.deps]
    BY <2>1 DEF InvalidateHandle
  <2> QED
    BY <2>1, <2>2, <2>3 DEF Fields
<1> QED
  BY <1>1, <1>2 DEF BytesInv, Sizes

\* The index on disk is what it was or what is cached.
LEMMA IndexSaved ==
    ASSUME BytesInv, SaveIndex \/ index' = index
    PROVE  Sizes(index')
BY DEF SaveIndex, BytesInv

\* An entry is marked as used now.
LEMMA CacheUsed ==
    ASSUME BytesInv, CacheTypes, clock + 1 \in Nat, NEW k, cache' = Marked(k)
    PROVE  /\ DOMAIN cache' = DOMAIN cache
           /\ \A j \in DOMAIN cache : /\ cache'[j].dir = cache[j].dir
                                      /\ cache'[j].size = cache[j].size
                                      /\ cache'[j].used \in Nat
<1>1. CASE ~Live(k)
  BY <1>1, CacheUntouched DEF Marked
<1>2. CASE Live(k)
  <2>1. PICK t \in Nat : t = clock + 1
    OBVIOUS
  <2>2. cache' = [cache EXCEPT ![k].used = t] /\ k \in DOMAIN cache
    BY <1>2, <2>1 DEF Marked, Live
  <2>3. PICK x : x = cache[k]
    OBVIOUS
  <2>4. DOMAIN x = Fields
    BY <2>2, <2>3 DEF CacheTypes, Entries
  <2>5. /\ DOMAIN cache' = DOMAIN cache /\ cache'[k] = [x EXCEPT !.used = t]
        /\ \A j \in DOMAIN cache : j # k => cache'[j] = cache[j]
    BY <2>2, <2>3
  <2>6. cache'[k].dir = x.dir /\ cache'[k].size = x.size /\ cache'[k].used = t
    BY <2>4, <2>5 DEF Fields
  <2> QED
    BY <2>3, <2>5, <2>6 DEF BytesInv, Sizes
<1> QED
  BY <1>1, <1>2

\* Writes, what the quarantine takes in or gives up, snapshots and recalls.
LEMMA RequestBytes ==
    ASSUME ReadInv, BytesInv,
           \/ \E s \in Subjects, old \in 0..Len(cells.facts) : WriteFact(s, old)
           \/ WriteEvent
           \/ \E old, new \in DOMAIN cells.facts : Supersede(old, new)
           \/ Absorb
           \/ \E q \in cells.pending : Reject(q)
           \/ \E s \in Subjects, k \in Depths, t \in Tiers : Recall(s, k, t)
           \/ Snapshot
           \/ SaveOld
           \/ Save
           \/ PutFile
           \/ PutIndex
    PROVE  BytesInv'
<1>1. ASSUME cache' = cache, bytes' = bytes, SaveIndex \/ index' = index, pc # "down",
             pc' # "put_index", pc' \in Putting => job'.content.size \in Nat
      PROVE  BytesInv'
  BY <1>1, BytesKept, CacheUntouched, IndexSaved
<1>2. ASSUME NEW op, Begin, Commit(op) PROVE BytesInv'
  <2>1. /\ cache' = cache /\ bytes' = bytes /\ index' = index /\ pc = "idle" /\ pc' = "apply"
    BY <1>2 DEF Begin, Commit, store
  <2> QED
    BY <1>1, <2>1 DEF Putting
<1>3. CASE \E s \in Subjects, old \in 0..Len(cells.facts) : WriteFact(s, old)
  BY <1>2, <1>3 DEF WriteFact
<1>4. CASE WriteEvent
  BY <1>2, <1>4 DEF WriteEvent
<1>5. CASE \E old, new \in DOMAIN cells.facts : Supersede(old, new)
  BY <1>2, <1>5 DEF Supersede
<1>6. ASSUME cache' = cache, bytes' = bytes, index' = index, pc = "idle", pc' = pc
      PROVE  BytesInv'
  BY <1>1, <1>6 DEF Putting
<1>7. ASSUME NEW op, OnBoard(op) PROVE BytesInv'
  BY <1>6, <1>7 DEF OnBoard, Begin, store
<1>8. CASE Absorb \/ \E q \in cells.pending : Reject(q)
  BY <1>7, <1>8 DEF Absorb, Reject
<1>9. CASE \E s \in Subjects, k \in Depths, t \in Tiers : Recall(s, k, t)
  BY <1>6, <1>9 DEF Recall, store
<1>10. CASE Snapshot
  BY <1>6, <1>10 DEF Snapshot, store
<1>11. CASE SaveOld
  BY <1>1, <1>11 DEF SaveOld, Putting
<1>12. CASE Save
  BY <1>1, <1>12 DEF Save, Putting
<1>13. CASE PutFile
  <2>1. /\ cache' = cache /\ bytes' = bytes /\ index' = index /\ pc = "put_file"
        /\ \/ pc' = "put_entry" /\ job' = job
           \/ pc' = "idle"
    BY <1>13 DEF PutFile, Served
  <2>2. job.content.size \in Nat
    BY <2>1 DEF BytesInv, Putting
  <2> QED
    BY <1>1, <2>1, <2>2 DEF Putting
<1>14. CASE PutIndex
  BY <1>1, <1>14 DEF PutIndex, Served, Putting
<1> QED
  BY <1>3, <1>4, <1>5, <1>8, <1>9, <1>10, <1>11, <1>12, <1>13, <1>14

\* Marks set by a write, and by a read.
LEMMA MarkBytes ==
    ASSUME ReadInv, BytesInv,
           \/ Apply
           \/ Bump
           \/ \E v \in Views : ViewHit(v)
           \/ \E v \in Views, t \in Tiers : ViewMiss(v, t)
    PROVE  BytesInv'
<1>1. CacheTypes /\ clock + 1 \in Nat
  BY DEF ReadInv, LogInOrder
<1>2. Sizes(index)
  BY DEF BytesInv
<1>3. CASE Apply
  <2>1. /\ pc = "apply" /\ pc' \in {"save_old", "bump"} /\ bytes' = bytes /\ index' = index
        /\ cache' = cache \/ \E h : cache' = InvalidateHandle(h)
    BY <1>3 DEF Apply
  <2>2. /\ DOMAIN cache' = DOMAIN cache
        /\ \A k \in DOMAIN cache : /\ cache'[k].dir = cache[k].dir
                                   /\ cache'[k].size = cache[k].size
                                   /\ cache'[k].used \in Nat
    BY <1>1, <2>1, CacheUntouched, CacheMarked
  <2>3. pc # "down" /\ pc' # "put_index" /\ pc' \notin Putting
    BY <2>1 DEF Putting
  <2> QED
    BY <1>2, <2>1, <2>2, <2>3, BytesKept
<1>4. CASE Bump
  <2>1. /\ pc = "bump" /\ pc' = "save" /\ bytes' = bytes /\ index' = index
        /\ cache' = InvalidateHandle(Touched(job))
    BY <1>4 DEF Bump
  <2>2. /\ DOMAIN cache' = DOMAIN cache
        /\ \A k \in DOMAIN cache : /\ cache'[k].dir = cache[k].dir
                                   /\ cache'[k].size = cache[k].size
                                   /\ cache'[k].used \in Nat
    BY <1>1, <2>1, CacheMarked
  <2>3. pc # "down" /\ pc' # "put_index" /\ pc' \notin Putting
    BY <2>1 DEF Putting
  <2> QED
    BY <1>2, <2>1, <2>2, <2>3, BytesKept
<1>5. ASSUME NEW v \in Views, ViewHit(v) PROVE BytesInv'
  <2>1. /\ pc = "idle" /\ pc' = pc /\ bytes' = bytes /\ index' = index
        /\ cache' = Marked(Key(v))
    BY <1>5 DEF ViewHit
  <2>2. /\ DOMAIN cache' = DOMAIN cache
        /\ \A k \in DOMAIN cache : /\ cache'[k].dir = cache[k].dir
                                   /\ cache'[k].size = cache[k].size
                                   /\ cache'[k].used \in Nat
    BY <1>1, <2>1, CacheUsed
  <2>3. pc # "down" /\ pc' # "put_index" /\ pc' \notin Putting
    BY <2>1 DEF Putting
  <2> QED
    BY <1>2, <2>1, <2>2, <2>3, BytesKept
<1>6. ASSUME NEW v \in Views, NEW t \in Tiers, ViewMiss(v, t) PROVE BytesInv'
  <2>1. /\ pc = "idle" /\ pc' = "put_file" /\ bytes' = bytes /\ index' = index
        /\ cache' = Marked(Key(v))
        /\ job' = [kind |-> "view", view |-> v,
                   content |-> RenderView(BuildBuiltinView(cells, v), t)]
    BY <1>6 DEF ViewMiss
  <2>2. /\ DOMAIN cache' = DOMAIN cache
        /\ \A k \in DOMAIN cache : /\ cache'[k].dir = cache[k].dir
                                   /\ cache'[k].size = cache[k].size
                                   /\ cache'[k].used \in Nat
    BY <1>1, <2>1, CacheUsed
  <2>3. cells \in CellType
    BY <2>1 DEF ReadInv, Restores, Good
  <2>4. RenderView(BuildBuiltinView(cells, v), t).size \in Nat
    BY <2>3, ViewsAreFinite, RenderSize
  <2>5. job'.content.size \in Nat
    BY <2>1, <2>4
  <2>6. pc # "down" /\ pc' # "put_index"
    BY <2>1
  <2> QED
    BY <1>2, <2>1, <2>2, <2>5, <2>6, BytesKept
<1> QED
  BY <1>3, <1>4, <1>5, <1>6

\* An entry is put and room is made for it.
LEMMA PutBytes ==
    ASSUME ReadInv, BytesInv, PutEntry
    PROVE  BytesInv'
<1>1. PICK k, d, entry, held, taken, out :
        /\ k = Key(job.view) /\ d = ForSize(job.content.size)
        /\ entry = [dir |-> d, size |-> job.content.size, used |-> clock,
                    deps |-> BuildBuiltinView(cells, job.view),
                    tombstone |-> FALSE, mine |-> TRUE]
        /\ held = With(cache, k, entry)
        /\ taken = [Deducted(bytes, k) EXCEPT ![d] = @ + entry.size]
        /\ out = Victims(held, taken[d], d)
  OBVIOUS
<1>2. /\ pc = "put_entry" /\ pc' = "put_index" /\ job' = job /\ index' = index
      /\ cache' = Restrict(held, DOMAIN held \ out)
      /\ bytes' = [taken EXCEPT ![d] = @ - SizeOf(held, out)]
  BY <1>1 DEF PutEntry
<1>3. /\ Sizes(cache) /\ Sizes(index) /\ bytes \in [CacheTiers -> Int]
      /\ job.content.size \in Nat /\ \A c \in CacheTiers : bytes[c] = TierSize(cache, c)
  BY <1>2 DEF BytesInv, Putting
<1>4. /\ d \in CacheTiers /\ clock \in Nat /\ k \in Views \X Nat
      /\ DOMAIN cache \subseteq Views \X Nat
  <2>1. d \in CacheTiers
    BY <1>1 DEF ForSize, CacheTiers
  <2>2. job.view \in Views /\ version \in Nat
    BY <1>2 DEF ReadInv, JobFits, CacheTypes, Putting
  <2> QED
    BY <1>1, <2>1, <2>2 DEF ReadInv, LogInOrder, CacheTypes, Entries, Key
<1>5. entry.dir = d /\ entry.size \in Nat /\ entry.used \in Nat
  BY <1>1, <1>3, <1>4
<1>6. /\ Sizes(held) /\ taken \in [CacheTiers -> Int]
      /\ \A c \in CacheTiers : taken[c] = TierSize(held, c)
  <2>1. /\ held = With(cache, k, entry)
        /\ taken = Charged(Deducted(bytes, k), d, entry.size)
    BY <1>1 DEF Charged
  <2>2. /\ Sizes(cache) /\ bytes \in [CacheTiers -> Int]
        /\ \A c \in CacheTiers : bytes[c] = TierSize(cache, c)
    BY <1>3
  <2> QED
    BY ONLY <1>4, <1>5, <2>1, <2>2, PutIsCharged
<1>7. DOMAIN held \subseteq Views \X Nat
  BY <1>1, <1>4 DEF With
<1>8. PICK f : f = cache'
  OBVIOUS
<1>9. /\ Sizes(f)
      /\ \A c \in CacheTiers : c # d => TierSize(f, c) = TierSize(held, c)
      /\ TierSize(f, d) = taken[d] - SizeOf(held, out) /\ TierSize(f, d) \in Nat
      /\ taken[d] - SizeOf(held, out) <= Capacity[d] \/ \A j \in There(f, d) : f[j].tombstone
  <2>1. PICK total : total = taken[d]
    OBVIOUS
  <2>2. total = TierSize(held, d) /\ out = Victims(held, total, d)
    BY <1>1, <1>4, <1>6, <2>1
  <2>3. f = Restrict(held, DOMAIN held \ out)
    BY <1>2, <1>8
  <2>4. /\ Sizes(f)
        /\ \A c \in CacheTiers : c # d => TierSize(f, c) = TierSize(held, c)
        /\ TierSize(f, d) = total - SizeOf(held, out) /\ TierSize(f, d) \in Nat
        /\ total - SizeOf(held, out) <= Capacity[d] \/ \A j \in There(f, d) : f[j].tombstone
    BY ONLY <1>4, <1>6, <1>7, <2>2, <2>3, EvictionMakesRoom
  <2> QED
    BY <2>1, <2>4
<1>10. PICK n : n = taken[d] - SizeOf(held, out)
  OBVIOUS
<1>11. bytes' = [taken EXCEPT ![d] = n] /\ n \in Int
  BY <1>2, <1>9, <1>10
<1>12. bytes' \in [CacheTiers -> Int] /\ bytes'[d] = n
       /\ \A c \in CacheTiers : c # d => bytes'[c] = taken[c]
  BY <1>4, <1>6, <1>11
<1>13. \A c \in CacheTiers : bytes'[c] = TierSize(f, c)
  BY <1>6, <1>9, <1>10, <1>12
<1>14. bytes'[d] <= Capacity[d] \/ \A j \in There(f, d) : f[j].tombstone
  BY <1>9, <1>10, <1>12
<1>15. Roomy'
  <2>1. d = ForSize(job'.content.size)
    BY <1>1, <1>2
  <2>2. bytes'[d] <= Capacity[d] \/ \A j \in There(cache', d) : cache'[j].tombstone
    BY <1>8, <1>14
  <2> QED
    BY <2>1, <2>2 DEF Roomy, ForSize
<1> QED
  BY <1>2, <1>3, <1>8, <1>9, <1>12, <1>13, <1>15 DEF BytesInv

LEMMA RestartBytes ==
    ASSUME ReadInv, BytesInv, Crash \/ Recover
    PROVE  BytesInv'
<1>1. CASE Crash
  <2>1. /\ pc' = "down" /\ cache' = Nothing /\ bytes' = [d \in CacheTiers |-> 0]
        /\ index' = index
    BY <1>1 DEF Crash
  <2>2. Sizes(cache')
    <3>1. DOMAIN cache' = {}
      BY <2>1 DEF Nothing
    <3> QED
      BY <3>1, FS_EmptySet DEF Sizes
  <2> QED
    BY <2>1, <2>2 DEF BytesInv, Roomy, Putting
<1>2. CASE Recover
  <2>1. /\ pc' = "idle" /\ cache' = Loaded /\ index' = index
        /\ bytes' = [d \in CacheTiers |-> SizeOf(index, {k \in DOMAIN index : index[k].dir = d})]
    BY <1>2 DEF Recover
  <2>2. Sizes(index)
    BY DEF BytesInv
  <2>3. DOMAIN Loaded = DOMAIN index
    BY DEF Loaded
  <2>4. ASSUME NEW k \in DOMAIN index
        PROVE  /\ Loaded[k].dir = index[k].dir /\ Loaded[k].size = index[k].size
               /\ Loaded[k].used = index[k].used
    <3>1. PICK x : x = index[k]
      OBVIOUS
    <3>2. DOMAIN x = Fields
      BY <3>1 DEF ReadInv, CacheTypes, Entries
    <3>3. Loaded[k] = [x EXCEPT !.mine = FALSE]
      BY <3>1 DEF Loaded
    <3> QED
      BY <3>1, <3>2, <3>3 DEF Fields
  <2>5. Sizes(Loaded)
    BY <2>2, <2>3, <2>4 DEF Sizes
  <2>6. \A d : TierSize(Loaded, d) = TierSize(index, d)
    BY <2>2, <2>3, <2>4, TierSame
  <2>7. \A d \in CacheTiers : bytes'[d] = TierSize(index, d)
    BY <2>1 DEF TierSize, There
  <2>8. \A d \in CacheTiers : TierSize(index, d) \in Int
    <3> TAKE d \in CacheTiers
    <3>1. PICK S : S = There(index, d)
      OBVIOUS
    <3>2. Sized(index, DOMAIN index) /\ S \in SUBSET DOMAIN index
      BY <2>2, <3>1 DEF Sized, Sizes, There
    <3>3. SizeOf(index, S) \in Nat
      BY <3>2, SizeAdds
    <3> QED
      BY <3>1, <3>3 DEF TierSize
  <2>9. bytes' \in [CacheTiers -> Int]
    BY <2>1, <2>7, <2>8
  <2>10. \A d \in CacheTiers : bytes'[d] = TierSize(cache', d)
    BY <2>1, <2>6, <2>7
  <2>11. Sizes(cache')
    BY <2>1, <2>5
  <2> QED
    BY <2>1, <2>2, <2>9, <2>10, <2>11 DEF BytesInv, Roomy, Putting
<1> QED
  BY <1>1, <1>2

LEMMA InitBytes == Init => BytesInv
<1> SUFFICES ASSUME Init PROVE BytesInv
  OBVIOUS
<1>1. /\ pc = "idle" /\ bytes = [d \in CacheTiers |-> 0] /\ DOMAIN cache = {}
      /\ DOMAIN index = {}
  BY DEF Init, Nothing
<1>2. Sizes(cache) /\ Sizes(index)
  BY <1>1, FS_EmptySet DEF Sizes
<1>3. \A d : TierSize(cache, d) = 0
  <2>1. \A d : There(cache, d) = {}
    BY <1>1 DEF There
  <2>2. SizeOf(cache, {}) = 0
    BY FS_EmptySet, SizeUnfolds
  <2> QED
    BY <2>1, <2>2 DEF TierSize
<1> QED
  BY <1>1, <1>2, <1>3 DEF BytesInv, Roomy, Putting

LEMMA NextBytes == ReadInv /\ BytesInv /\ [Next]_vars => BytesInv'
<1> SUFFICES ASSUME ReadInv, BytesInv, [Next]_vars PROVE BytesInv'
  OBVIOUS
<1>1. CASE \/ \E s \in Subjects, old \in 0..Len(cells.facts) : WriteFact(s, old)
           \/ WriteEvent
           \/ \E old, new \in DOMAIN cells.facts : Supersede(old, new)
           \/ Absorb
           \/ \E q \in cells.pending : Reject(q)
           \/ \E s \in Subjects, k \in Depths, t \in Tiers : Recall(s, k, t)
           \/ Snapshot
           \/ SaveOld
           \/ Save
           \/ PutFile
           \/ PutIndex
  BY <1>1, RequestBytes
<1>2. CASE \/ Apply
           \/ Bump
           \/ \E v \in Views : ViewHit(v)
           \/ \E v \in Views, t \in Tiers : ViewMiss(v, t)
  BY <1>2, MarkBytes
<1>3. CASE PutEntry
  BY <1>3, PutBytes
<1>4. CASE Crash \/ Recover
  BY <1>4, RestartBytes
<1>5. CASE UNCHANGED vars
  BY <1>5 DEF vars, store, BytesInv, Roomy, Sizes
<1> QED
  BY <1>1, <1>2, <1>3, <1>4, <1>5 DEF Next


-----------------------------------------------------------------------------

\* The inductive invariant of the read path: the log is in the order of the
\* clock and replays to the cells, what a request of this life cached under the
\* present version is what would be rendered now, and what is live in the cache,
\* or would be after a restart, has its file and depends on active facts only.
THEOREM ReadInvHolds == Spec => []ReadInv
BY InitReads, NextReads, PTL DEF Spec

\* A view over the facts or the timeline that was cached since the boot is
\* served as it would be rendered now (handle_view, PrefixCacheStore::get,
\* bump_view_version).
THEOREM ServedViewsAreFresh == Spec => []FreshInLife
<1>1. ReadInv => FreshInLife
  BY DEF ReadInv
<1> QED
  BY <1>1, ReadInvHolds, PTL

\* No view that is served shows a superseded fact, after restarts too, unless a
\* crash cut an invalidation or found the index behind (invalidate_handle,
\* save_index, load_index).
THEOREM SupersededStaysHidden == Spec => []SupersededNotServed
<1>1. ReadInv => SupersededNotServed
  BY DEF ReadInv
<1> QED
  BY <1>1, ReadInvHolds, PTL

\* A recall answers with active facts only, and with all those of its subject
\* when k and 2k leave room for them, unless it says that its tier has cut it
\* (handle_recall, render_view).
THEOREM RecallsAreComplete == Spec => []RecallComplete
<1>1. ReadInv => RecallComplete
  BY DEF ReadInv
<1> QED
  BY <1>1, ReadInvHolds, PTL

\* Between requests the snapshot and the log replay to the very cells
\* (snapshot_state, restore_state, replay_frame, replay_stream).
THEOREM ReplayBringsCellsBack == Spec => []ReplayRestores
<1>1. ReadInv => ReplayRestores
  BY DEF ReadInv, Restores, ReplayRestores
<1> QED
  BY <1>1, ReadInvHolds, PTL

\* tier_bytes is the size of the tier's entries through replacements, evictions
\* and restarts, and a put leaves its tier within its capacity or with marked
\* entries only (put, evict_locked, load_index).
THEOREM BytesStayAccounted == Spec => []BytesAccounted
<1>1. Init => ReadInv /\ BytesInv
  BY InitReads, InitBytes
<1>2. (ReadInv /\ BytesInv) /\ [Next]_vars => (ReadInv /\ BytesInv)'
  BY NextReads, NextBytes
<1>3. ReadInv /\ BytesInv => BytesAccounted
  BY InvGivesBytes
<1> QED
  BY <1>1, <1>2, <1>3, PTL DEF Spec

=============================================================================
