--------------------------- MODULE CurationProofs ---------------------------
(***************************************************************************)
(* What holds of the cross-check ledger, for every batch size, window and  *)
(* tier, and of the curation cycle, for any number of writes, probes,      *)
(* snapshots, crashes and failed transactions: first what the cells say    *)
(* against the log (CurInv), then that memory is what a boot would rebuild *)
(* from the snapshot and the logs (ExactInv).                              *)
(***************************************************************************)
EXTENDS Curation, FiniteSetTheorems, NaturalsInduction, SequenceTheorems, TLAPS

-----------------------------------------------------------------------------
(* The ledger: it keeps its shape, and the replay of a record gives what   *)
(* its first application gave.                                             *)

\* Records are numbered by their places, and only past records are signed.
Numbered(l) ==
    /\ l.next = Len(l.records)
    /\ \A i \in 1..Len(l.records) : l.records[i].seq = i - 1
SignedBehind(l) == \A i \in 1..Len(l.sigs) : l.sigs[i].last < l.next

WellFormed(l) == l \in Ledgers /\ Numbered(l) /\ SignedBehind(l)

-----------------------------------------------------------------------------
(* The parts of apply_record and replay_record.                            *)

\* Append, for any set of elements.
LEMMA AppendFacts ==
    ASSUME NEW S, NEW q \in Seq(S), NEW x \in S
    PROVE  /\ Append(q, x) \in Seq(S)
           /\ Len(Append(q, x)) = Len(q) + 1
           /\ Append(q, x)[Len(q) + 1] = x
           /\ \A i \in 1..Len(q) : Append(q, x)[i] = q[i]
OBVIOUS

LEMMA SubSeqIs ==
    ASSUME NEW S, NEW s \in Seq(S), NEW a \in Nat \ {0}, NEW b \in Nat, b <= Len(s)
    PROVE  /\ SubSeq(s, a, b) \in Seq(S)
           /\ Len(SubSeq(s, a, b)) = IF a <= b THEN b - a + 1 ELSE 0
           /\ \A i \in 1..Len(SubSeq(s, a, b)) : SubSeq(s, a, b)[i] = s[i + a - 1]
           /\ b < a => SubSeq(s, a, b) = <<>>
OBVIOUS

\* The signatures of a ledger end at numbers.
LEMMA SignatureLast ==
    ASSUME NEW l \in Ledgers
    PROVE  /\ l.sigs \in Seq(Signature) /\ DOMAIN l.sigs = 1..Len(l.sigs)
           /\ \A i \in 1..Len(l.sigs) : l.sigs[i].last \in Nat
<1>1. l.sigs \in Seq(Signature)
  BY DEF Ledgers
<1>2. DOMAIN l.sigs = 1..Len(l.sigs) /\ \A i \in 1..Len(l.sigs) : l.sigs[i] \in Signature
  BY <1>1
<1>3. \A x \in Signature : x.last \in Nat
  BY DEF Signature
<1>4. QED
  BY <1>1, <1>2, <1>3

\* A window stays a sequence, and takes its last element.
LEMMA PushedIsSeq ==
    ASSUME NEW S, NEW q \in Seq(S), NEW x \in S, NEW max \in Nat \ {0}
    PROVE  Pushed(q, x, max) \in Seq(S)
<1>1. CASE Len(q) = max
  <2>1. q # <<>> /\ Tail(q) \in Seq(S)
    BY <1>1
  <2>2. QED
    BY <1>1, <2>1 DEF Pushed
<1>2. CASE Len(q) # max
  BY <1>2 DEF Pushed
<1>3. QED
  BY <1>1, <1>2

\* Hashing a record and noting an audit changes nothing else.
LEMMA CountedKeeps ==
    ASSUME NEW l \in Ledgers, NEW r \in CheckRecord
    PROVE  /\ Counted(l, r) \in Ledgers
           /\ Counted(l, r).records = l.records
           /\ Counted(l, r).next = l.next
           /\ Counted(l, r).sigs = l.sigs
<1>1. Append(l.hashes, r) \in Seq(CheckRecord)
  BY DEF Ledgers
<1>2. Pushed(l.window, r.outcome = "agree", Window) \in Seq(BOOLEAN)
  <2>1. l.window \in Seq(BOOLEAN) /\ (r.outcome = "agree") \in BOOLEAN
    BY DEF Ledgers
  <2>2. QED
    BY <2>1, PushedIsSeq, LedgerConstants
<1>3. DEFINE w == IF r.kind = "audit" THEN Pushed(l.window, r.outcome = "agree", Window)
                  ELSE l.window
<1>4. w \in Seq(BOOLEAN)
  BY <1>2 DEF Ledgers
<1>5. Counted(l, r) = [l EXCEPT !.hashes = Append(l.hashes, r), !.window = w]
  BY DEF Counted, Ledgers
<1>6. HIDE DEF w
<1>7. QED
  BY <1>1, <1>4, <1>5 DEF Ledgers

\* Signing adds at most one signature, for the record about to be kept.
LEMMA SignedKeeps ==
    ASSUME NEW l \in Ledgers, SignedBehind(l)
    PROVE  /\ Signed(l) \in Ledgers
           /\ Signed(l).records = l.records
           /\ Signed(l).next = l.next
           /\ \A i \in 1..Len(Signed(l).sigs) : Signed(l).sigs[i].last <= l.next
<1>1. DEFINE sig == [last |-> l.next, over |-> l.hashes]
             s == IF Signs THEN Append(l.sigs, sig) ELSE l.sigs
<1>2. l.sigs \in Seq(Signature) /\ l.next \in Nat
  BY DEF Ledgers
<1>3. sig \in Signature /\ sig.last = l.next
  BY DEF Ledgers, Signature
<1>4. Signed(l) = [l EXCEPT !.sigs = s, !.hashes = <<>>]
  BY DEF Signed, Ledgers
<1>5. HIDE DEF sig
<1>6. s \in Seq(Signature)
  BY <1>2, <1>3, AppendFacts
<1>7. \A i \in 1..Len(s) : s[i].last <= l.next
  <2>0. \A i \in 1..Len(l.sigs) : l.sigs[i].last <= l.next
    BY <1>2, SignatureLast DEF SignedBehind
  <2>1. CASE Signs
    <3>1. s = Append(l.sigs, sig)
      BY <2>1
    <3>2. Len(s) = Len(l.sigs) + 1 /\ s[Len(l.sigs) + 1] = sig
      BY <1>2, <1>3, <3>1, AppendFacts
    <3>3. \A i \in 1..Len(l.sigs) : s[i] = l.sigs[i]
      BY <1>2, <1>3, <3>1, AppendFacts
    <3>4. Len(l.sigs) \in Nat
      BY <1>2
    <3>5. HIDE DEF s
    <3>6. ASSUME NEW i \in 1..Len(s)
          PROVE  s[i].last <= l.next
      <4>1. CASE i = Len(l.sigs) + 1
        BY <1>2, <1>3, <3>2, <4>1
      <4>2. CASE i \in 1..Len(l.sigs)
        BY <2>0, <3>3, <4>2
      <4>3. QED
        BY <3>2, <3>4, <4>1, <4>2
    <3>7. QED
      BY <3>6
  <2>2. CASE ~ Signs
    BY <2>0, <2>2
  <2>3. QED
    BY <2>1, <2>2
<1>8. <<>> \in Seq(CheckRecord)
  OBVIOUS
<1>9. HIDE DEF s
<1>10. QED
  BY <1>4, <1>6, <1>7, <1>8 DEF Ledgers

\* The record takes the next place, and what is signed is behind it.
LEMMA KeptKeeps ==
    ASSUME NEW l \in Ledgers, Numbered(l), NEW r \in CheckRecord, r.seq = l.next,
           \A i \in 1..Len(l.sigs) : l.sigs[i].last <= l.next
    PROVE  WellFormed(Kept(l, r))
<1>1. l.records \in Seq(CheckRecord) /\ l.next \in Nat /\ l.next = Len(l.records)
  BY DEF Ledgers, Numbered
<1>2. Append(l.records, r) \in Seq(CheckRecord) /\ Len(Append(l.records, r)) = l.next + 1
  BY <1>1
<1>3. Kept(l, r) = [l EXCEPT !.records = Append(l.records, r), !.next = l.next + 1]
  BY DEF Kept, Ledgers
<1>4. Kept(l, r) \in Ledgers
  <2>1. DEFINE q == Append(l.records, r)
               n == l.next + 1
  <2>2. q \in Seq(CheckRecord) /\ n \in Nat
    BY <1>1, <1>2
  <2>3. Kept(l, r) = [l EXCEPT !.records = q, !.next = n]
    BY <1>3
  <2>4. HIDE DEF q, n
  <2>5. QED
    BY <2>2, <2>3 DEF Ledgers
<1>5. Numbered(Kept(l, r))
  <2>1. \A i \in 1..(l.next + 1) : Append(l.records, r)[i].seq = i - 1
    <3>1. TAKE i \in 1..(l.next + 1)
    <3>2. CASE i = l.next + 1
      BY <1>1, <3>2
    <3>3. CASE i # l.next + 1
      <4>1. i \in 1..Len(l.records) /\ Append(l.records, r)[i] = l.records[i]
        BY <1>1, <3>3
      <4>2. QED
        BY <4>1 DEF Numbered
    <3>4. QED
      BY <3>2, <3>3
  <2>2. Kept(l, r).records = Append(l.records, r) /\ Kept(l, r).next = l.next + 1
    BY <1>3 DEF Ledgers
  <2>3. QED
    BY <1>2, <2>1, <2>2 DEF Numbered
<1>6. SignedBehind(Kept(l, r))
  <2>1. Kept(l, r).sigs = l.sigs /\ Kept(l, r).next = l.next + 1
    BY <1>3 DEF Ledgers
  <2>2. \A i \in 1..Len(l.sigs) : l.sigs[i].last \in Nat
    BY SignatureLast
  <2>3. QED
    BY <1>1, <2>1, <2>2 DEF SignedBehind
<1>7. QED
  BY <1>4, <1>5, <1>6 DEF WellFormed

-----------------------------------------------------------------------------

\* A new ledger is well formed.
THEOREM NewIsWellFormed == WellFormed(NewLedger)
BY DEF WellFormed, NewLedger, Ledgers, Numbered, SignedBehind

\* apply_record keeps the numbers of the records, and signs only behind the
\* next one, whether or not the tier signs.
THEOREM ApplyKeepsForm ==
    ASSUME NEW l, WellFormed(l), NEW r \in CheckRecord
    PROVE  WellFormed(ApplyRecord(l, r))
<1>1. l \in Ledgers /\ Numbered(l) /\ SignedBehind(l)
  BY DEF WellFormed
<1>2. CASE r.seq # l.next
  BY <1>2 DEF ApplyRecord
<1>3. CASE r.seq = l.next
  <2>1. DEFINE c == Counted(l, r)
               d == IF BatchEnds(l) THEN Signed(c) ELSE c
  <2>2. c \in Ledgers /\ c.records = l.records /\ c.next = l.next /\ c.sigs = l.sigs
    BY <1>1, CountedKeeps
  <2>3. Numbered(c) /\ SignedBehind(c)
    BY <1>1, <2>2 DEF Numbered, SignedBehind
  <2>4. \A i \in 1..Len(c.sigs) : c.sigs[i].last <= c.next
    <3>1. \A i \in 1..Len(c.sigs) : c.sigs[i].last \in Nat
      BY <2>2, SignatureLast
    <3>2. c.next \in Nat
      BY <2>2 DEF Ledgers
    <3>3. QED
      BY <2>3, <3>1, <3>2 DEF SignedBehind
  <2>5. ApplyRecord(l, r) = Kept(d, r)
    BY <1>3 DEF ApplyRecord
  <2>6. HIDE DEF c
  <2>7. /\ d \in Ledgers /\ d.records = c.records /\ d.next = c.next
        /\ \A i \in 1..Len(d.sigs) : d.sigs[i].last <= d.next
    BY <2>2, <2>3, <2>4, SignedKeeps
  <2>8. HIDE DEF d
  <2>9. Numbered(d) /\ r.seq = d.next
    BY <1>3, <2>2, <2>3, <2>7 DEF Numbered
  <2>10. QED
    BY <2>5, <2>7, <2>9, KeptKeeps
<1>4. QED
  BY <1>2, <1>3

\* The replay of a record, on a ledger that live operation can reach, gives
\* what apply_record gave: the same records, window, open batch and signatures.
THEOREM ReplayIsLive ==
    ASSUME NEW l, WellFormed(l), NEW r \in CheckRecord
    PROVE  ReplayRecord(l, r) = ApplyRecord(l, r)
<1>1. \A i \in DOMAIN l.sigs : l.sigs[i].last # l.next
  <2>1. l \in Ledgers /\ l.next \in Nat
    BY DEF WellFormed, Ledgers
  <2>2. DOMAIN l.sigs = 1..Len(l.sigs) /\ \A i \in 1..Len(l.sigs) : l.sigs[i].last \in Nat
    BY <2>1, SignatureLast
  <2>3. QED
    BY <2>1, <2>2 DEF WellFormed, SignedBehind
<1>2. QED
  BY <1>1 DEF ReplayRecord, ApplyRecord

\* A record that the ledger has, in a log that overlaps the snapshot, is passed
\* over; one that skips a number is refused.
THEOREM ReplayOverlap ==
    ASSUME NEW l, WellFormed(l), NEW r \in CheckRecord, r.seq # l.next
    PROVE  /\ ReplayRecord(l, r) = l
           /\ ReplayGap(l, r) <=> r.seq > Len(l.records)
BY DEF ReplayRecord, ReplayGap, WellFormed, Numbered

-----------------------------------------------------------------------------
(* The inductive invariant, by parts.                                      *)

Output == [slot : Slots, object : Objects, op : {"supersede", "skeleton"},
           body : {"text", "blank", "ghost"}, ground : SUBSET Nat, band : Bands]

Statuses == {"none", "pending", "active", "quarantined"}
Paths == {"policy", "pool", "human"}
Adjudication == [res : Judged \cup {"none"}, path : Paths \cup {"none"}, human : BOOLEAN]

OutputTxs == [k : {"output"}, o : Writes, v : Statuses \ {"none"}, p : {""}]
AuditTxs == [k : {"audit"}, o : Nat, v : {"pass", "fail"}, p : {"output", "probe"}]
FlagTxs == [k : {"flag"}, o : Writes, v : {"flag_drift", "audit_fail"}, p : {""}]
AdjudicationTxs == [k : {"adjudication"}, o : Writes, v : Judged, p : Paths]
ResolveTxs == [k : {"resolve"}, o : Writes, v : {"auditor", "initiator"}, p : {""}]
Txs == OutputTxs \cup AuditTxs \cup FlagTxs \cup AdjudicationTxs \cup ResolveTxs

CellsOK(c) ==
    /\ DOMAIN c = {"lib", "facets", "audits", "adj", "queue", "stats", "ledger"}
    /\ c.lib \in [Writes -> Statuses]
    /\ c.adj \in [Writes -> Adjudication]
    /\ c.queue \in Seq(Writes)
    /\ c.stats \in [Paths -> Nat]

Steps == {"idle", "output", "rejected", "emitted", "audit", "probe", "probed", "degraded",
          "publish", "published", "flag", "sanity", "conceded", "withdrawn", "dispute",
          "resolved", "settled", "blind"}

\* A cycle is under way; an operator's probe is none.
InCycle == pc # "idle" /\ (pc \in {"probe", "probed"} => probing <= MaxWrites)

\* Nothing has been decided about the output of the cycle.
Undecided == InCycle /\ pc \notin {"rejected", "published", "withdrawn", "resolved", "settled", "blind"}

CycleOK ==
    /\ status \in {"up", "down", "replaying", "refused"}
    /\ pc \in Steps
    /\ made \in Seq(Output) /\ Len(made) <= MaxWrites
    /\ probing \in Nat
    /\ faults \in [DOMAIN FaultLimits -> Nat]
    /\ InCycle => Len(made) > 0

LogsOK ==
    /\ wal \in Seq(Txs) /\ todo.wal \in Seq(Txs)
    /\ DOMAIN todo = {"wal", "checks"}
    /\ snap.wal \in Nat /\ mark.wal \in Nat
    /\ CellsOK(cells) /\ CellsOK(snap.cells)

\* The queue has each dispute that awaits a human, once, and each adjudication
\* is counted.
Awaits(c, o) == c.adj[o].res = "human" /\ ~ c.adj[o].human
QueueOK(c) ==
    /\ \A o \in Writes : Awaits(c, o) <=> \E i \in 1..Len(c.queue) : c.queue[i] = o
    /\ \A i, j \in 1..Len(c.queue) : c.queue[i] = c.queue[j] => i = j
    /\ c.stats["policy"] + c.stats["pool"] + c.stats["human"]
           = Cardinality({o \in Writes : c.adj[o].res # "none"})

\* Logged and AuditPassed of the log w.
LoggedIn(w, k, o, v) == \E i \in 1..Len(w) : w[i].k = k /\ w[i].o = o /\ w[i].v = v
PassedIn(w, o) == \E i \in 1..Len(w) : w[i] = AuditTx(o, "pass", "output")

\* What the cells say is in the log.
BackedIn(w, c) ==
    \A o \in Writes :
        /\ c.lib[o] = "active" =>
              LoggedIn(w, "output", o, "active") \/ LoggedIn(w, "resolve", o, "initiator")
        /\ c.adj[o].res = "initiator" =>
              LoggedIn(w, "adjudication", o, "initiator") \/ LoggedIn(w, "resolve", o, "initiator")

ReviewedIn(w, o) ==
    \/ LoggedIn(w, "resolve", o, "initiator")
    \/ LoggedIn(w, "adjudication", o, "initiator")
    \/ /\ PassedIn(w, o)
       /\ ~LoggedIn(w, "adjudication", o, "auditor")
       /\ ~LoggedIn(w, "adjudication", o, "human")

\* The log has an active output only after what justifies it.
LogReviewed(w) == \A o \in Writes : LoggedIn(w, "output", o, "active") => ReviewedIn(w, o)

\* Neither an active output nor an adjudication of o.
NotYet(w, o) ==
    /\ ~LoggedIn(w, "output", o, "active")
    /\ \A v \in Judged : ~LoggedIn(w, "adjudication", o, v)

\* The outputs and adjudications of w are of the first n writes.
UpTo(w, n) == \A i \in 1..Len(w) : w[i].k \in {"output", "adjudication"} => w[i].o <= n

Has(w, t) == \E j \in 1..Len(w) : w[j] = t

\* Cells and log agree on what was decided, and the log has no decision of a
\* cycle that has not come so far.
ReviewInv ==
    /\ UpTo(wal, Len(made))
    /\ \A i \in 1..Len(todo.wal) : Has(wal, todo.wal[i])
    /\ BackedIn(wal, cells)
    /\ BackedIn(wal, snap.cells)
    /\ LogReviewed(wal)
    /\ Undecided => NotYet(wal, Len(made))
    /\ pc = "publish" => PassedIn(wal, Len(made))

\* A fault-free node: outputs before the running one are decided or with a
\* human, and the running one is as its step says.
Clean == \A k \in {"crash", "error", "kept", "unsaved"} : faults[k] = 0

DoneIn(c, o) == c.lib[o] # "none" /\ (c.lib[o] = "pending" <=> Awaits(c, o))
Untouched(c, o) == c.lib[o] = "none" /\ c.adj[o].res = "none"

CleanInv ==
    Clean =>
        /\ status = "up"
        /\ \A o \in Writes : o > Len(made) => Untouched(cells, o)
        /\ \A o \in Writes : o < Len(made) => DoneIn(cells, o)
        /\ ~Undecided /\ pc # "resolved" => \A o \in Writes : o = Len(made) => DoneIn(cells, o)
        /\ Undecided => /\ cells.lib[Len(made)] = IF pc = "output" THEN "none" ELSE "pending"
                        /\ cells.adj[Len(made)].res = "none"
        /\ pc = "resolved" => /\ cells.lib[Len(made)] = "pending"
                              /\ cells.adj[Len(made)].res # "none"
                              /\ ~ cells.adj[Len(made)].human

SafeInv == CycleOK /\ LogsOK /\ QueueOK(cells) /\ QueueOK(snap.cells) /\ ReviewInv
CurInv == SafeInv /\ CleanInv

-----------------------------------------------------------------------------
(* The queue of the adjudicator.                                           *)

\* Induction over the naturals, stated of a set.
LEMMA SetInduction ==
    ASSUME NEW S \in SUBSET Nat, 0 \in S, \A n \in S : n + 1 \in S
    PROVE  S = Nat
<1> DEFINE T == Nat \ S
<1> SUFFICES ASSUME T # {} PROVE FALSE
  OBVIOUS
<1>1. PICK x \in T : \A y \in T : ~(<<y, x>> \in OpToRel(<, Nat))
  BY WFMin, NatLessThanWellFounded
<1>2. \A y \in T : ~(y < x)
  BY <1>1 DEF OpToRel
<1>3. x # 0 /\ x - 1 \in Nat
  OBVIOUS
<1>4. x - 1 \in S
  BY <1>2, <1>3
<1> QED
  BY <1>3, <1>4

LEMMA Least ==
    ASSUME NEW T \in SUBSET Nat, T # {}
    PROVE  \E x \in T : \A y \in T : x <= y
<1> DEFINE S == {n \in Nat : \A y \in T : n <= y}
<1>1. PICK z \in T : z \in Nat
  OBVIOUS
<1>2. z + 1 \in Nat \ S
  BY <1>1
<1>3. S \in SUBSET Nat /\ 0 \in S
  OBVIOUS
<1>4. ~(\A n \in S : n + 1 \in S)
  <2> HIDE DEF S
  <2> QED
    BY <1>2, <1>3, SetInduction
<1>5. PICK n \in S : n + 1 \notin S
  BY <1>4
<1>6. PICK y \in T : ~(n + 1 <= y)
  BY <1>5
<1>7. y = n
  BY <1>5, <1>6
<1> QED
  BY <1>5, <1>6, <1>7

Drops(r, q, n, m) ==
    /\ r[0] = <<>>
    /\ \A i \in 1..m : r[i] = IF q[i] = n THEN r[i - 1] ELSE Append(r[i - 1], q[i])

\* The recursion of Without has a solution: induction on the length.
LEMMA WithoutUnfolds ==
    ASSUME NEW q, NEW n, NEW m \in Nat, m = Len(q)
    PROVE  \E r : Without(q, n) = r[m] /\ Drops(r, q, n, m)
<1> DEFINE Step(x, i) == IF q[i] = n THEN x ELSE Append(x, q[i])
           Runs(g, k) == g = [i \in 0..k |-> IF i = 0 THEN <<>> ELSE Step(g[i - 1], i)]
           N == {k \in Nat : \E g : Runs(g, k)}
<1>1. Without(q, n) = (CHOOSE g : Runs(g, m))[m]
  BY DEF Without
<1> HIDE DEF Step
<1>2. 0 \in N
  <2>1. Runs([i \in 0..0 |-> <<>>], 0)
    OBVIOUS
  <2> QED
    BY <2>1
<1>3. ASSUME NEW k \in N PROVE k + 1 \in N
  <2>1. PICK g : Runs(g, k)
    OBVIOUS
  <2> DEFINE h == [i \in 0..(k + 1) |-> IF i <= k THEN g[i] ELSE Step(g[k], k + 1)]
  <2>2. \A i \in 0..(k + 1) : h[i] = IF i = 0 THEN <<>> ELSE Step(h[i - 1], i)
    <3> TAKE i \in 0..(k + 1)
    <3>1. CASE i = 0
      BY <2>1, <3>1
    <3>2. CASE i # 0 /\ i <= k
      <4>1. i \in 0..k /\ i - 1 \in 0..k /\ i - 1 \in 0..(k + 1) /\ i - 1 <= k
        BY <3>2
      <4>2. h[i] = g[i] /\ h[i - 1] = g[i - 1]
        BY <3>2, <4>1
      <4>3. g[i] = Step(g[i - 1], i)
        BY <2>1, <3>2, <4>1
      <4> HIDE DEF h
      <4> QED
        BY <3>2, <4>2, <4>3
    <3>3. CASE i = k + 1
      <4>1. k \in 0..(k + 1) /\ k <= k /\ (k + 1) - 1 = k /\ k + 1 \in 0..(k + 1)
            /\ ~(k + 1 <= k) /\ k + 1 # 0
        OBVIOUS
      <4>2. h[k] = g[k] /\ h[k + 1] = Step(g[k], k + 1)
        BY <4>1
      <4> HIDE DEF h
      <4> QED
        BY <3>3, <4>1, <4>2
    <3> QED
      BY <3>1, <3>2, <3>3
  <2>3. Runs(h, k + 1)
    <3>1. h = [i \in 0..(k + 1) |-> h[i]]
      OBVIOUS
    <3> HIDE DEF h
    <3> QED
      BY <2>2, <3>1
  <2>4. \E x : Runs(x, k + 1)
    <3> HIDE DEF Runs, h
    <3> QED
      BY <2>3
  <2> QED
    BY <2>4
<1>4. N = Nat
  <2>1. N \in SUBSET Nat
    OBVIOUS
  <2> HIDE DEF N
  <2> QED
    BY <1>2, <1>3, <2>1, SetInduction
<1>5. \E g : Runs(g, m)
  BY <1>4
<1>6. PICK r : r = (CHOOSE g : Runs(g, m))
  OBVIOUS
<1>7. Runs(r, m)
  <2> HIDE DEF Runs
  <2> QED
    BY <1>5, <1>6
<1>8. Without(q, n) = r[m]
  BY <1>1, <1>6
<1>9. r[0] = <<>> /\ \A i \in 1..m : r[i] = Step(r[i - 1], i)
  <2>1. \A i \in 0..m : r[i] = IF i = 0 THEN <<>> ELSE Step(r[i - 1], i)
    BY <1>7, Zenon
  <2>2. 0 \in 0..m /\ \A i \in 1..m : i \in 0..m /\ i # 0
    OBVIOUS
  <2> QED
    BY <2>1, <2>2, Zenon
<1>10. Drops(r, q, n, m)
  BY <1>9 DEF Step, Drops
<1> QED
  BY <1>8, <1>10

\* w has what is in the first i places of q, but for n, and each once.
Filtered(w, q, n, i) ==
    /\ \A j \in 1..Len(w) : w[j] # n /\ \E k \in 1..i : q[k] = w[j]
    /\ \A k \in 1..i : q[k] # n => \E j \in 1..Len(w) : w[j] = q[k]
    /\ \A j, k \in 1..Len(w) : w[j] = w[k] => j = k

LEMMA WithoutFilters ==
    ASSUME NEW S, NEW q \in Seq(S), NEW n,
           \A i, j \in 1..Len(q) : q[i] = q[j] => i = j
    PROVE  Without(q, n) \in Seq(S) /\ Filtered(Without(q, n), q, n, Len(q))
<1>1. PICK m \in Nat : m = Len(q)
  OBVIOUS
<1>2. PICK r : Without(q, n) = r[m] /\ Drops(r, q, n, m)
  BY <1>1, WithoutUnfolds
<1>3. (\A i \in 1..m : q[i] \in S) /\ \A i, j \in 1..m : q[i] = q[j] => i = j
  BY <1>1
<1> DEFINE P(i) == r[i] \in Seq(S) /\ Filtered(r[i], q, n, i)
           N == {i \in Nat : i <= m => P(i)}
<1>4. 0 \in N
  <2>1. r[0] = <<>>
    BY <1>2 DEF Drops
  <2>2. P(0)
    BY <2>1 DEF Filtered
  <2> QED
    BY <2>2
<1>5. ASSUME NEW i \in N PROVE i + 1 \in N
  <2> SUFFICES ASSUME i + 1 <= m PROVE P(i + 1)
    OBVIOUS
  <2>1. i \in Nat /\ i + 1 \in 1..m /\ (i + 1) - 1 = i /\ i <= m
        /\ (\A k \in 1..(i + 1) : k \in 1..i \/ k = i + 1) /\ \A k \in 1..i : k \in 1..m /\ k # i + 1
    OBVIOUS
  <2>2. PICK x, y, e : x = r[i] /\ y = r[i + 1] /\ e = q[i + 1]
    OBVIOUS
  <2>3. y = IF e = n THEN x ELSE Append(x, e)
    BY <1>2, <2>1, <2>2 DEF Drops
  <2>4. x \in Seq(S) /\ Filtered(x, q, n, i) /\ e \in S
    BY <1>3, <2>1, <2>2
  <2>5. /\ \A j \in 1..Len(x) : x[j] # n /\ \E k \in 1..i : q[k] = x[j]
        /\ \A k \in 1..i : q[k] # n => \E j \in 1..Len(x) : x[j] = q[k]
        /\ \A j, k \in 1..Len(x) : x[j] = x[k] => j = k
    BY <2>4 DEF Filtered
  <2>6. \A k \in 1..i : k \in 1..(i + 1)
    BY <2>1
  <2>7. i + 1 \in 1..(i + 1)
    BY <2>1
  <2>8. CASE e = n
    <3>1. y = x
      BY <2>3, <2>8
    <3>2. \A j \in 1..Len(x) : x[j] # n /\ \E k \in 1..(i + 1) : q[k] = x[j]
      BY <2>5, <2>6
    <3>3. \A k \in 1..(i + 1) : q[k] # n => \E j \in 1..Len(x) : x[j] = q[k]
      BY <2>1, <2>2, <2>5, <2>8
    <3> QED
      BY <2>2, <2>4, <2>5, <3>1, <3>2, <3>3 DEF Filtered
  <2>9. CASE e # n
    <3>1. PICK l \in Nat : l = Len(x)
      BY <2>4
    <3>2. y = Append(x, e)
      BY <2>3, <2>9
    <3>3. /\ y \in Seq(S) /\ Len(y) = l + 1 /\ y[l + 1] = e
          /\ \A j \in 1..l : y[j] = x[j]
      BY <2>4, <3>1, <3>2
    <3>4. /\ \A j \in 1..(l + 1) : j \in 1..l \/ j = l + 1
          /\ \A j \in 1..l : j \in 1..(l + 1)
          /\ l + 1 \in 1..(l + 1)
      BY <3>1
    <3>5. \A j \in 1..l : x[j] # e
      BY <1>3, <2>1, <2>2, <2>5, <3>1
    <3>6. \A j \in 1..(l + 1) : y[j] # n /\ \E k \in 1..(i + 1) : q[k] = y[j]
      <4> TAKE j \in 1..(l + 1)
      <4>1. CASE j \in 1..l
        BY <2>5, <2>6, <3>1, <3>3, <4>1
      <4>2. CASE j = l + 1
        BY <2>2, <2>7, <2>9, <3>3, <4>2
      <4> QED
        BY <3>4, <4>1, <4>2
    <3>7. \A k \in 1..(i + 1) : q[k] # n => \E j \in 1..(l + 1) : y[j] = q[k]
      <4> SUFFICES ASSUME NEW k \in 1..(i + 1), q[k] # n
                   PROVE  \E j \in 1..(l + 1) : y[j] = q[k]
        OBVIOUS
      <4>1. CASE k \in 1..i
        <5>1. PICK j \in 1..l : x[j] = q[k]
          BY <2>5, <3>1, <4>1
        <5> QED
          BY <3>3, <3>4, <5>1
      <4>2. CASE k = i + 1
        BY <2>2, <3>3, <3>4, <4>2
      <4> QED
        BY <2>1, <4>1, <4>2
    <3>8. \A j, k \in 1..(l + 1) : y[j] = y[k] => j = k
      BY <2>5, <3>1, <3>3, <3>4, <3>5
    <3> QED
      BY <2>2, <3>3, <3>6, <3>7, <3>8 DEF Filtered
  <2> QED
    BY <2>8, <2>9
<1>6. N = Nat
  <2>1. N \in SUBSET Nat
    OBVIOUS
  <2> HIDE DEF N
  <2> QED
    BY <1>4, <1>5, <2>1, SetInduction
<1>7. P(m)
  BY <1>1, <1>6
<1> QED
  BY <1>1, <1>2, <1>7

-----------------------------------------------------------------------------
(* What a transaction does to the cells.                                   *)

LEMMA TxKindsApart ==
    ASSUME NEW t \in Txs
    PROVE  /\ t.k \in {"output", "audit", "flag", "adjudication", "resolve"}
           /\ t.k = "output" => t \in OutputTxs
           /\ t.k = "audit" => t \in AuditTxs
           /\ t.k = "flag" => t \in FlagTxs
           /\ t.k = "adjudication" => t \in AdjudicationTxs
           /\ t.k = "resolve" => t \in ResolveTxs
BY DEF Txs, OutputTxs, AuditTxs, FlagTxs, AdjudicationTxs, ResolveTxs

LEMMA OutputApplied ==
    ASSUME NEW c, CellsOK(c), NEW t \in OutputTxs, NEW d, d = Applied(c, t)
    PROVE  /\ CellsOK(d) /\ d.lib = [c.lib EXCEPT ![t.o] = t.v]
           /\ d.adj = c.adj /\ d.queue = c.queue /\ d.stats = c.stats
<1>1. t.k = "output" /\ t.o \in Writes /\ t.v \in Statuses
  BY DEF OutputTxs
<1>2. d = [c EXCEPT !.lib[t.o] = t.v,
                    !.facets = IF t.v = "pending" THEN @ \cup {t.o} ELSE @]
  BY <1>1 DEF Applied
<1>3. /\ DOMAIN d = {"lib", "facets", "audits", "adj", "queue", "stats", "ledger"}
      /\ d.lib = [c.lib EXCEPT ![t.o] = t.v]
      /\ d.adj = c.adj /\ d.queue = c.queue /\ d.stats = c.stats
  BY <1>2 DEF CellsOK
<1>4. d.lib \in [Writes -> Statuses]
  BY <1>1, <1>3 DEF CellsOK
<1> QED
  BY <1>3, <1>4 DEF CellsOK

LEMMA OtherApplied ==
    ASSUME NEW c, CellsOK(c), NEW t \in AuditTxs \cup FlagTxs, NEW d, d = Applied(c, t)
    PROVE  /\ CellsOK(d) /\ d.lib = c.lib
           /\ d.adj = c.adj /\ d.queue = c.queue /\ d.stats = c.stats
<1>1. CASE t.k = "audit"
  <2>1. d = [c EXCEPT !.audits = {a \in @ : a.id # t.o}
                                     \cup {[id |-> t.o, of |-> t.p, pass |-> t.v]}]
    BY <1>1 DEF Applied
  <2>2. PICK e : d = [c EXCEPT !.audits = e]
    BY <2>1
  <2>3. /\ DOMAIN d = {"lib", "facets", "audits", "adj", "queue", "stats", "ledger"}
        /\ d.lib = c.lib /\ d.adj = c.adj /\ d.queue = c.queue /\ d.stats = c.stats
    BY <2>2 DEF CellsOK
  <2> QED
    BY <2>3 DEF CellsOK
<1>2. CASE t.k = "flag"
  <2>1. d = c
    BY <1>2 DEF Applied
  <2> QED
    BY <2>1
<1> QED
  BY <1>1, <1>2 DEF AuditTxs, FlagTxs

AdjudicatedIn(c, d, t) ==
    /\ d.lib = c.lib
    /\ c.adj[t.o].res # "none" =>
          d.adj = c.adj /\ d.stats = c.stats /\ d.queue = c.queue
    /\ c.adj[t.o].res = "none" =>
          /\ d.adj = [c.adj EXCEPT ![t.o] = [res |-> t.v, path |-> t.p, human |-> FALSE]]
          /\ d.stats = [c.stats EXCEPT ![t.p] = @ + 1]
          /\ d.queue = IF t.v = "human" THEN Append(c.queue, t.o) ELSE c.queue

LEMMA AdjudicationApplied ==
    ASSUME NEW c, CellsOK(c), NEW t \in AdjudicationTxs, NEW d, d = Applied(c, t)
    PROVE  CellsOK(d) /\ AdjudicatedIn(c, d, t)
<1> USE DEF AdjudicatedIn
<1>1. t.k = "adjudication" /\ t.o \in Writes /\ t.v \in Judged /\ t.p \in Paths
  BY DEF AdjudicationTxs
<1>2. d = Adjudicated(c, t)
  BY <1>1 DEF Applied
<1>3. CASE c.adj[t.o].res # "none"
  BY <1>2, <1>3 DEF Adjudicated
<1>4. CASE c.adj[t.o].res = "none"
  <2>1. PICK e : e = [res |-> t.v, path |-> t.p, human |-> FALSE]
    OBVIOUS
  <2>2. PICK q : q = IF t.v = "human" THEN Append(c.queue, t.o) ELSE c.queue
    OBVIOUS
  <2>3. d = [c EXCEPT !.adj[t.o] = e, !.stats[t.p] = @ + 1, !.queue = q]
    BY <1>2, <1>4, <2>1, <2>2 DEF Adjudicated
  <2>4. /\ DOMAIN d = {"lib", "facets", "audits", "adj", "queue", "stats", "ledger"}
        /\ d.lib = c.lib /\ d.queue = q
        /\ d.adj = [c.adj EXCEPT ![t.o] = e]
        /\ d.stats = [c.stats EXCEPT ![t.p] = @ + 1]
    BY <2>3 DEF CellsOK
  <2>5. d.adj \in [Writes -> Adjudication]
    <3>1. e \in Adjudication
      BY <1>1, <2>1 DEF Adjudication
    <3> QED
      BY <1>1, <2>4, <3>1 DEF CellsOK
  <2>6. d.stats \in [Paths -> Nat]
    BY <1>1, <2>4 DEF CellsOK
  <2>7. d.queue \in Seq(Writes)
    BY <1>1, <2>2, <2>4 DEF CellsOK
  <2>8. CellsOK(d)
    BY <2>4, <2>5, <2>6, <2>7 DEF CellsOK
  <2> QED
    BY <1>4, <2>1, <2>2, <2>4, <2>8
<1> QED
  BY <1>3, <1>4

\* What a human's verdict makes of an adjudication.
Resolved(e, v) == [e EXCEPT !.res = v, !.human = TRUE]

ResolvedIn(c, d, t) ==
    /\ d.lib = [c.lib EXCEPT ![t.o] = IF t.v = "auditor" THEN "quarantined" ELSE "active"]
    /\ d.stats = c.stats
    /\ c.adj[t.o].human => d.adj = c.adj /\ d.queue = c.queue
    /\ ~ c.adj[t.o].human =>
          /\ d.adj = [c.adj EXCEPT ![t.o] = Resolved(c.adj[t.o], t.v)]
          /\ d.queue = Without(c.queue, t.o)

LEMMA ResolveApplied ==
    ASSUME NEW c, CellsOK(c), QueueOK(c), NEW t \in ResolveTxs, NEW d, d = Applied(c, t)
    PROVE  CellsOK(d) /\ ResolvedIn(c, d, t)
<1> USE DEF ResolvedIn
<1>1. t.k = "resolve" /\ t.o \in Writes /\ t.v \in {"auditor", "initiator"}
  BY DEF ResolveTxs
<1>2. d = HumanResolved(c, t)
  BY <1>1 DEF Applied
<1>3. PICK l, x : /\ l = IF t.v = "auditor" THEN "quarantined" ELSE "active"
                  /\ x = [c EXCEPT !.lib[t.o] = l]
  OBVIOUS
<1>4. /\ DOMAIN x = {"lib", "facets", "audits", "adj", "queue", "stats", "ledger"}
      /\ x.lib = [c.lib EXCEPT ![t.o] = l] /\ x.adj = c.adj /\ x.queue = c.queue
      /\ x.stats = c.stats
  BY <1>3 DEF CellsOK
<1>5. x.lib \in [Writes -> Statuses]
  BY <1>1, <1>3, <1>4 DEF CellsOK, Statuses
<1>6. CASE c.adj[t.o].human
  <2>1. d = x
    BY <1>2, <1>3, <1>6 DEF HumanResolved
  <2> QED
    BY <1>3, <1>4, <1>5, <1>6, <2>1 DEF CellsOK
<1>7. CASE ~ c.adj[t.o].human
  <2>1. PICK e, q : /\ e = [c.adj[t.o] EXCEPT !.res = t.v, !.human = TRUE]
                    /\ q = Without(c.queue, t.o)
    OBVIOUS
  <2>2. d = [x EXCEPT !.adj[t.o] = [@ EXCEPT !.res = t.v, !.human = TRUE],
                      !.queue = Without(@, t.o)]
    BY <1>2, <1>3, <1>7 DEF HumanResolved
  <2>3. d = [x EXCEPT !.adj[t.o] = e, !.queue = q]
    BY <1>4, <2>1, <2>2
  <2>4. /\ DOMAIN d = {"lib", "facets", "audits", "adj", "queue", "stats", "ledger"}
        /\ d.lib = x.lib /\ d.queue = q /\ d.adj = [c.adj EXCEPT ![t.o] = e]
        /\ d.stats = c.stats
    <3>1. PICK a, f : a = c.adj /\ f = [c.adj EXCEPT ![t.o] = e]
      OBVIOUS
    <3>2. d = [x EXCEPT !.adj = f, !.queue = q]
      BY <1>4, <2>3, <3>1
    <3>3. /\ DOMAIN x = {"lib", "facets", "audits", "adj", "queue", "stats", "ledger"}
          /\ x.stats = c.stats
      BY <1>4
    <3> QED
      BY ONLY <3>1, <3>2, <3>3
  <2>5. e \in Adjudication
    <3>1. PICK y : y = c.adj[t.o]
      OBVIOUS
    <3>2. y \in Adjudication /\ t.v \in Judged
      BY <1>1, <3>1 DEF CellsOK, Judged
    <3>3. e = [y EXCEPT !.res = t.v, !.human = TRUE]
      BY <2>1, <3>1
    <3> QED
      BY ONLY <3>2, <3>3 DEF Adjudication
  <2>6. d.adj \in [Writes -> Adjudication]
    BY <1>1, <2>4, <2>5 DEF CellsOK
  <2>7. q \in Seq(Writes)
    <3>1. c.queue \in Seq(Writes) /\ \A i, j \in 1..Len(c.queue) : c.queue[i] = c.queue[j] => i = j
      BY DEF CellsOK, QueueOK
    <3> QED
      BY <2>1, <3>1, WithoutFilters
  <2>8. CellsOK(d)
    BY <1>5, <2>4, <2>6, <2>7 DEF CellsOK
  <2> QED
    BY <1>3, <1>4, <1>7, <2>1, <2>4, <2>8 DEF Resolved
<1> QED
  BY <1>6, <1>7

\* Every entry of the queue is a write, and there are finitely many writes.
LEMMA WritesFinite == IsFiniteSet(Writes) /\ Writes \subseteq Nat /\ MaxWrites \in Nat
<1>1. MaxWrites \in Nat
  BY CurationConstants
<1> QED
  BY <1>1, FS_Interval DEF Writes

LEMMA QueueSame ==
    ASSUME NEW c, NEW d, QueueOK(c), d.adj = c.adj, d.queue = c.queue, d.stats = c.stats
    PROVE  QueueOK(d)
BY DEF QueueOK, Awaits

LEMMA AdjudicationQueued ==
    ASSUME NEW c, CellsOK(c), QueueOK(c), NEW t \in AdjudicationTxs, NEW d, d = Applied(c, t)
    PROVE  QueueOK(d)
<1>1. CASE c.adj[t.o].res # "none"
  <2>1. t.k = "adjudication"
    BY DEF AdjudicationTxs
  <2>2. d = c
    BY <1>1, <2>1 DEF Applied, Adjudicated
  <2> QED
    BY <2>2
<1>2. CASE c.adj[t.o].res = "none"
  <2>1. t.o \in Writes /\ t.v \in Judged /\ t.p \in Paths
    BY DEF AdjudicationTxs
  <2>2. PICK o, v, p, e : o = t.o /\ v = t.v /\ p = t.p
                          /\ e = [res |-> t.v, path |-> t.p, human |-> FALSE]
    OBVIOUS
  <2>3. /\ d.adj = [c.adj EXCEPT ![o] = e] /\ d.stats = [c.stats EXCEPT ![p] = @ + 1]
        /\ d.queue = IF v = "human" THEN Append(c.queue, o) ELSE c.queue
    <3>1. AdjudicatedIn(c, d, t)
      BY AdjudicationApplied
    <3> QED
      BY <1>2, <2>2, <3>1 DEF AdjudicatedIn
  <2>4. c.adj \in [Writes -> Adjudication] /\ c.queue \in Seq(Writes) /\ c.stats \in [Paths -> Nat]
    BY DEF CellsOK
  <2>5. o \in Writes /\ v \in Judged /\ p \in Paths /\ e.res = v /\ e.human = FALSE
        /\ c.adj[o].res = "none"
    BY <1>2, <2>1, <2>2
  <2>6. d.adj[o] = e /\ \A x \in Writes : x # o => d.adj[x] = c.adj[x]
    BY <2>3, <2>4, <2>5
  <2>7. /\ \A x \in Writes : Awaits(c, x) <=> \E i \in 1..Len(c.queue) : c.queue[i] = x
        /\ \A i, j \in 1..Len(c.queue) : c.queue[i] = c.queue[j] => i = j
    BY DEF QueueOK
  <2>8. \A i \in 1..Len(c.queue) : c.queue[i] # o
    BY <2>5, <2>7 DEF Awaits
  <2>9. Awaits(d, o) <=> v = "human"
    BY <2>5, <2>6 DEF Awaits
  <2>10. \A x \in Writes : x # o => (Awaits(d, x) <=> Awaits(c, x))
    BY <2>6 DEF Awaits
  <2>11. /\ \A x \in Writes : Awaits(d, x) <=> \E i \in 1..Len(d.queue) : d.queue[i] = x
         /\ \A i, j \in 1..Len(d.queue) : d.queue[i] = d.queue[j] => i = j
    <3>1. CASE v # "human"
      <4>1. d.queue = c.queue
        BY <2>3, <3>1
      <4>2. \A x \in Writes : Awaits(d, x) <=> Awaits(c, x)
        BY <2>5, <2>9, <2>10, <3>1 DEF Awaits
      <4> QED
        BY <2>7, <4>1, <4>2
    <3>2. CASE v = "human"
      <4>1. PICK q, r, n : q = c.queue /\ r = d.queue /\ n = Len(q)
        OBVIOUS
      <4>2. r = Append(q, o) /\ q \in Seq(Writes) /\ n \in Nat
        BY <2>3, <2>4, <3>2, <4>1
      <4>3. Len(r) = n + 1 /\ r[n + 1] = o /\ \A i \in 1..n : r[i] = q[i]
        BY <2>5, <4>1, <4>2
      <4>4. /\ \A i \in 1..(n + 1) : i \in 1..n \/ i = n + 1
            /\ \A i \in 1..n : i \in 1..(n + 1)
            /\ n + 1 \in 1..(n + 1)
        BY <4>2
      <4>5. /\ \A x \in Writes : Awaits(c, x) <=> \E i \in 1..n : q[i] = x
            /\ \A i, j \in 1..n : q[i] = q[j] => i = j
            /\ \A i \in 1..n : q[i] # o
        BY <2>7, <2>8, <4>1
      <4>6. \A x \in Writes : Awaits(d, x) <=> \E i \in 1..(n + 1) : r[i] = x
        <5> TAKE x \in Writes
        <5>1. CASE x = o
          BY <2>9, <3>2, <4>3, <4>4, <5>1
        <5>2. CASE x # o
          <6>1. (\E i \in 1..(n + 1) : r[i] = x) <=> \E i \in 1..n : q[i] = x
            BY <4>3, <4>4, <5>2
          <6> QED
            BY <2>10, <4>5, <5>2, <6>1
        <5> QED
          BY <5>1, <5>2
      <4>7. \A i, j \in 1..(n + 1) : r[i] = r[j] => i = j
        BY <4>3, <4>4, <4>5
      <4> QED
        BY <4>1, <4>3, <4>6, <4>7
    <3> QED
      BY <3>1, <3>2
  <2>12. d.stats["policy"] + d.stats["pool"] + d.stats["human"]
           = Cardinality({x \in Writes : d.adj[x].res # "none"})
    <3>1. PICK A, B : /\ A = {x \in Writes : c.adj[x].res # "none"}
                      /\ B = {x \in Writes : d.adj[x].res # "none"}
      OBVIOUS
    <3>2. v # "none"
      BY <2>5 DEF Judged
    <3>3. B = A \cup {o} /\ o \notin A
      BY <2>5, <2>6, <3>1, <3>2
    <3>4. IsFiniteSet(A)
      <4>1. A \in SUBSET Writes
        BY <3>1
      <4> QED
        BY <4>1, WritesFinite, FS_Subset
    <3>5. Cardinality(B) = Cardinality(A) + 1
      BY <3>3, <3>4, FS_AddElement
    <3>6. c.stats["policy"] + c.stats["pool"] + c.stats["human"] = Cardinality(A)
      BY <3>1 DEF QueueOK
    <3>7. {"policy", "pool", "human"} = Paths
      BY DEF Paths
    <3>8. PICK a, b, h : a = c.stats["policy"] /\ b = c.stats["pool"] /\ h = c.stats["human"]
      OBVIOUS
    <3>9. a \in Nat /\ b \in Nat /\ h \in Nat
      BY <2>4, <3>7, <3>8
    <3>10. d.stats["policy"] + d.stats["pool"] + d.stats["human"] = a + b + h + 1
      <4>1. CASE p = "policy"
        <5>1. d.stats["policy"] = a + 1 /\ d.stats["pool"] = b /\ d.stats["human"] = h
          BY <2>3, <2>4, <3>7, <3>8, <4>1
        <5> QED
          BY <3>9, <5>1
      <4>2. CASE p = "pool"
        <5>1. d.stats["policy"] = a /\ d.stats["pool"] = b + 1 /\ d.stats["human"] = h
          BY <2>3, <2>4, <3>7, <3>8, <4>2
        <5> QED
          BY <3>9, <5>1
      <4>3. CASE p = "human"
        <5>1. d.stats["policy"] = a /\ d.stats["pool"] = b /\ d.stats["human"] = h + 1
          BY <2>3, <2>4, <3>7, <3>8, <4>3
        <5> QED
          BY <3>9, <5>1
      <4> QED
        BY <2>5, <3>7, <4>1, <4>2, <4>3
    <3>11. a + b + h = Cardinality(A)
      BY <3>6, <3>8
    <3> QED
      BY <3>1, <3>5, <3>10, <3>11
  <2> QED
    BY <2>11, <2>12 DEF QueueOK
<1> QED
  BY <1>1, <1>2

LEMMA ResolveQueued ==
    ASSUME NEW c, CellsOK(c), QueueOK(c), NEW t \in ResolveTxs, NEW d, d = Applied(c, t),
           Replayable(c, t)
    PROVE  QueueOK(d)
<1>1. t.o \in Writes /\ t.v \in {"auditor", "initiator"} /\ t.k = "resolve"
  BY DEF ResolveTxs
<1>2. ResolvedIn(c, d, t)
  BY ResolveApplied
<1>3. CASE c.adj[t.o].human
  <2>1. d.stats = c.stats /\ d.adj = c.adj /\ d.queue = c.queue
    BY <1>3, <1>2 DEF ResolvedIn
  <2> QED
    BY <2>1, QueueSame
<1>4. CASE ~ c.adj[t.o].human
  <2>1. PICK o, v, q, w, e : /\ o = t.o /\ v = t.v /\ q = c.queue /\ w = Without(q, o)
                             /\ e = Resolved(c.adj[t.o], t.v)
    OBVIOUS
  <2>2. d.adj = [c.adj EXCEPT ![o] = e] /\ d.queue = w /\ d.stats = c.stats
    BY <1>4, <1>2, <2>1 DEF ResolvedIn
  <2>3. c.adj \in [Writes -> Adjudication] /\ q \in Seq(Writes)
    BY <2>1 DEF CellsOK
  <2>4. c.adj[o] \in Adjudication /\ o \in Writes
    BY <1>1, <2>1, <2>3
  <2>5. e.res = v /\ e.human = TRUE
    BY <2>1, <2>4 DEF Adjudication, Resolved
  <2>6. c.adj[o].res = "human"
    BY <1>1, <1>4, <2>1 DEF Replayable
  <2>7. d.adj[o] = e /\ \A x \in Writes : x # o => d.adj[x] = c.adj[x]
    BY <2>2, <2>3, <2>4
  <2>8. /\ \A x \in Writes : Awaits(c, x) <=> \E i \in 1..Len(q) : q[i] = x
        /\ \A i, j \in 1..Len(q) : q[i] = q[j] => i = j
    BY <2>1 DEF QueueOK
  <2>9. Filtered(w, q, o, Len(q))
    BY <2>1, <2>3, <2>8, WithoutFilters
  <2>10. /\ \A j \in 1..Len(w) : w[j] # o /\ \E k \in 1..Len(q) : q[k] = w[j]
         /\ \A k \in 1..Len(q) : q[k] # o => \E j \in 1..Len(w) : w[j] = q[k]
         /\ \A j, k \in 1..Len(w) : w[j] = w[k] => j = k
    BY <2>9 DEF Filtered
  <2>11. \A x \in Writes : Awaits(d, x) <=> \E i \in 1..Len(w) : w[i] = x
    <3> TAKE x \in Writes
    <3>1. CASE x = o
      BY <2>5, <2>7, <2>10, <3>1 DEF Awaits
    <3>2. CASE x # o
      <4>1. Awaits(d, x) <=> \E i \in 1..Len(q) : q[i] = x
        BY <2>7, <2>8, <3>2 DEF Awaits
      <4>2. ASSUME NEW i \in 1..Len(q), q[i] = x PROVE \E j \in 1..Len(w) : w[j] = x
        BY ONLY <2>10, <3>2, <4>2
      <4>3. ASSUME NEW j \in 1..Len(w), w[j] = x PROVE \E i \in 1..Len(q) : q[i] = x
        BY ONLY <2>10, <4>3
      <4> QED
        BY <4>1, <4>2, <4>3
    <3> QED
      BY <3>1, <3>2
  <2>12. {x \in Writes : d.adj[x].res # "none"} = {x \in Writes : c.adj[x].res # "none"}
    <3>1. d.adj[o].res # "none" /\ c.adj[o].res # "none"
      BY <1>1, <2>1, <2>5, <2>6, <2>7
    <3> QED
      BY <2>7, <3>1
  <2>13. /\ \A x \in Writes : Awaits(d, x) <=> \E i \in 1..Len(d.queue) : d.queue[i] = x
         /\ \A i, j \in 1..Len(d.queue) : d.queue[i] = d.queue[j] => i = j
    BY ONLY <2>2, <2>10, <2>11
  <2>14. c.stats["policy"] + c.stats["pool"] + c.stats["human"]
           = Cardinality({x \in Writes : c.adj[x].res # "none"})
    BY DEF QueueOK
  <2>15. d.stats["policy"] + d.stats["pool"] + d.stats["human"]
           = Cardinality({x \in Writes : d.adj[x].res # "none"})
    BY ONLY <2>2, <2>12, <2>14
  <2> QED
    BY ONLY <2>13, <2>15 DEF QueueOK
<1> QED
  BY <1>3, <1>4

LEMMA AppliedKeeps ==
    ASSUME NEW c, CellsOK(c), QueueOK(c), NEW t \in Txs, NEW d, d = Applied(c, t),
           Replayable(c, t)
    PROVE  CellsOK(d) /\ QueueOK(d)
<1>1. CASE t.k = "output"
  <2>1. t \in OutputTxs
    BY <1>1, TxKindsApart
  <2>3. CellsOK(Applied(c, t)) /\ Applied(c, t).adj = c.adj
        /\ Applied(c, t).queue = c.queue /\ Applied(c, t).stats = c.stats
    BY <2>1, OutputApplied
  <2>2. CellsOK(d) /\ d.adj = c.adj /\ d.queue = c.queue /\ d.stats = c.stats
    BY <2>3
  <2> QED
    BY <2>2, QueueSame
<1>2. CASE t.k \in {"audit", "flag"}
  <2>1. t \in AuditTxs \cup FlagTxs
    BY <1>2, TxKindsApart
  <2> QED
    BY <2>1, OtherApplied, QueueSame
<1>3. CASE t.k = "adjudication"
  BY <1>3, TxKindsApart, AdjudicationApplied, AdjudicationQueued
<1>4. CASE t.k = "resolve"
  BY <1>4, TxKindsApart, ResolveApplied, ResolveQueued
<1> QED
  BY <1>1, <1>2, <1>3, <1>4, TxKindsApart

-----------------------------------------------------------------------------
(* What a transaction does to the log, and the log to the cells.           *)

\* A log with one more transaction.
Grown(x, w, t) ==
    /\ x \in Seq(Txs)
    /\ \A k, o, v : LoggedIn(x, k, o, v)
                      <=> LoggedIn(w, k, o, v) \/ (t.k = k /\ t.o = o /\ t.v = v)
    /\ \A o : PassedIn(x, o) <=> PassedIn(w, o) \/ t = AuditTx(o, "pass", "output")
    /\ \A u : Has(x, u) <=> Has(w, u) \/ u = t
    /\ \A n : UpTo(w, n) /\ (t.k \in {"output", "adjudication"} => t.o <= n) => UpTo(x, n)

LEMMA LogGrows ==
    ASSUME NEW w \in Seq(Txs), NEW t \in Txs, NEW x, x = Append(w, t)
    PROVE  Grown(x, w, t)
<1>1. PICK n \in Nat : n = Len(w)
  OBVIOUS
<1>2. x \in Seq(Txs) /\ Len(x) = n + 1 /\ x[n + 1] = t /\ \A i \in 1..n : x[i] = w[i]
  BY <1>1
<1>3. /\ \A i \in 1..(n + 1) : i \in 1..n \/ i = n + 1
      /\ \A i \in 1..n : i \in 1..(n + 1)
      /\ n + 1 \in 1..(n + 1)
  BY <1>1
<1>4. ASSUME NEW k, NEW o, NEW v
      PROVE  LoggedIn(x, k, o, v)
                <=> LoggedIn(w, k, o, v) \/ (t.k = k /\ t.o = o /\ t.v = v)
  BY <1>1, <1>2, <1>3 DEF LoggedIn
<1>5. ASSUME NEW o
      PROVE  PassedIn(x, o) <=> PassedIn(w, o) \/ t = AuditTx(o, "pass", "output")
  BY <1>1, <1>2, <1>3 DEF PassedIn
<1>6. ASSUME NEW u PROVE Has(x, u) <=> Has(w, u) \/ u = t
  BY <1>1, <1>2, <1>3 DEF Has
<1>7. ASSUME NEW m, UpTo(w, m), t.k \in {"output", "adjudication"} => t.o <= m
      PROVE  UpTo(x, m)
  BY <1>1, <1>2, <1>3, <1>7 DEF UpTo
<1> QED
  BY <1>2, <1>4, <1>5, <1>6, <1>7 DEF Grown

LEMMA HasLogs ==
    ASSUME NEW w, NEW t, Has(w, t)
    PROVE  LoggedIn(w, t.k, t.o, t.v)
BY DEF Has, LoggedIn

LEMMA BackedStays ==
    ASSUME NEW w, NEW x, NEW c, BackedIn(w, c),
           \A k, o, v : LoggedIn(w, k, o, v) => LoggedIn(x, k, o, v)
    PROVE  BackedIn(x, c)
BY DEF BackedIn

\* Cells that follow the log in this respect.
LEMMA BackedSame ==
    ASSUME NEW w, NEW c, NEW d, BackedIn(w, c), d.lib = c.lib, d.adj = c.adj
    PROVE  BackedIn(w, d)
BY DEF BackedIn

\* Applying what the log has.
LEMMA BackedApplied ==
    ASSUME NEW w, NEW c, CellsOK(c), QueueOK(c), BackedIn(w, c), NEW t \in Txs, Has(w, t),
           NEW d, d = Applied(c, t)
    PROVE  BackedIn(w, d)
<1>1. LoggedIn(w, t.k, t.o, t.v)
  BY HasLogs
<1>2. /\ c.lib \in [Writes -> Statuses] /\ c.adj \in [Writes -> Adjudication]
  BY DEF CellsOK
<1>3. CASE t.k = "output"
  <2>1. t \in OutputTxs
    BY <1>3, TxKindsApart
  <2>2. d.lib = [c.lib EXCEPT ![t.o] = t.v] /\ d.adj = c.adj
    BY <2>1, OutputApplied
  <2>3. d.lib[t.o] = t.v /\ \A x \in Writes : x # t.o => d.lib[x] = c.lib[x]
    BY <1>2, <2>1, <2>2 DEF OutputTxs
  <2> QED
    BY <1>1, <1>3, <2>2, <2>3 DEF BackedIn
<1>4. CASE t.k \in {"audit", "flag"}
  <2>1. t \in AuditTxs \cup FlagTxs
    BY <1>4, TxKindsApart
  <2>2. d.lib = c.lib /\ d.adj = c.adj
    BY <2>1, OtherApplied
  <2> QED
    BY <2>2, BackedSame
<1>5. CASE t.k = "adjudication"
  <2>1. t \in AdjudicationTxs
    BY <1>5, TxKindsApart
  <2>2. CASE c.adj[t.o].res # "none"
    <3>1. d = c
      BY <1>5, <2>2 DEF Applied, Adjudicated
    <3> QED
      BY <3>1
  <2>3. CASE c.adj[t.o].res = "none"
    <3>1. d.lib = c.lib
          /\ d.adj = [c.adj EXCEPT ![t.o] = [res |-> t.v, path |-> t.p, human |-> FALSE]]
      <4>1. AdjudicatedIn(c, d, t)
        BY <2>1, AdjudicationApplied
      <4> QED
        BY <2>3, <4>1 DEF AdjudicatedIn
    <3>2. d.adj[t.o].res = t.v /\ \A x \in Writes : x # t.o => d.adj[x] = c.adj[x]
      BY <1>2, <2>1, <3>1 DEF AdjudicationTxs
    <3> QED
      BY <1>1, <1>5, <3>1, <3>2 DEF BackedIn
  <2> QED
    BY <2>2, <2>3
<1>6. CASE t.k = "resolve"
  <2>1. t \in ResolveTxs
    BY <1>6, TxKindsApart
  <2>2. ResolvedIn(c, d, t) /\ t.o \in Writes /\ t.v \in {"auditor", "initiator"}
    BY <2>1, ResolveApplied DEF ResolveTxs
  <2>3. /\ d.lib[t.o] = "active" => t.v = "initiator"
        /\ \A x \in Writes : x # t.o => d.lib[x] = c.lib[x]
    BY <1>2, <2>2 DEF ResolvedIn
  <2>4. /\ d.adj[t.o].res = c.adj[t.o].res \/ d.adj[t.o].res = t.v
        /\ \A x \in Writes : x # t.o => d.adj[x] = c.adj[x]
    <3>1. CASE c.adj[t.o].human
      BY <2>2, <3>1 DEF ResolvedIn
    <3>2. CASE ~c.adj[t.o].human
      <4>1. PICK e : e = Resolved(c.adj[t.o], t.v)
        OBVIOUS
      <4>2. d.adj = [c.adj EXCEPT ![t.o] = e]
        BY <2>2, <3>2, <4>1 DEF ResolvedIn
      <4>3. e.res = t.v
        BY <1>2, <2>2, <4>1 DEF Resolved, Adjudication
      <4> QED
        BY <1>2, <2>2, <4>2, <4>3
    <3> QED
      BY <3>1, <3>2
  <2> QED
    BY <1>1, <1>6, <2>2, <2>3, <2>4 DEF BackedIn
<1> QED
  BY <1>3, <1>4, <1>5, <1>6, TxKindsApart

-----------------------------------------------------------------------------
(* The kinds of steps.                                                     *)

LEMMA FaultKinds == DOMAIN FaultLimits = {"probe", "snap", "crash", "error", "kept", "unsaved"}
BY DEF FaultLimits

LEMMA SpendKeeps ==
    ASSUME CycleOK, NEW k \in DOMAIN FaultLimits, Spend(k)
    PROVE  /\ faults' \in [DOMAIN FaultLimits -> Nat]
           /\ faults'[k] # 0
           /\ \A j \in DOMAIN FaultLimits : j # k => faults'[j] = faults[j]
BY DEF CycleOK, Spend

\* The transaction t fits the cells, the log and the step the cycle goes to.
Fitting(t, next) ==
    /\ Replayable(cells, t)
    /\ t.k \in {"output", "adjudication"} => t.o <= Len(made)
    /\ t.k = "output" /\ t.v = "active" => ReviewedIn(wal, t.o)
    /\ t.k = "adjudication" => ~LoggedIn(wal, "output", t.o, "active")
    /\ next = "publish" => t = AuditTx(Len(made), "pass", "output")

\* The cycle goes on from a step to the next one without a decision, or the
\* next one is no longer before it.
Follows(t, next) ==
    \/ next \in {"idle", "rejected", "published", "withdrawn", "resolved", "settled", "blind"}
       /\ (next # "idle" => Len(made) > 0)
    \/ next = "probed" /\ probing > MaxWrites
    \/ /\ Undecided /\ next # "idle"
       /\ t.k # "adjudication" /\ ~(t.k = "output" /\ t.v = "active")

LEMMA ReviewedStays ==
    ASSUME NEW w \in Seq(Txs), NEW t \in Txs, NEW x, x = Append(w, t), LogReviewed(w),
           t.k = "output" /\ t.v = "active" => ReviewedIn(w, t.o),
           t.k = "adjudication" => ~LoggedIn(w, "output", t.o, "active")
    PROVE  LogReviewed(x)
<1> SUFFICES ASSUME NEW o \in Writes, LoggedIn(x, "output", o, "active") PROVE ReviewedIn(x, o)
  BY DEF LogReviewed
<1>1. /\ \A k, v : LoggedIn(x, k, o, v) <=> LoggedIn(w, k, o, v) \/ (t.k = k /\ t.o = o /\ t.v = v)
      /\ PassedIn(w, o) => PassedIn(x, o)
  <2>1. Grown(x, w, t)
    BY LogGrows
  <2> QED
    BY <2>1 DEF Grown
<1>2. ReviewedIn(w, o)
  BY <1>1 DEF LogReviewed
<1>3. CASE t.k = "adjudication" /\ t.o = o
  <2>1. ~LoggedIn(x, "output", o, "active")
    BY <1>1, <1>3
  <2> QED
    BY <2>1
<1>4. CASE ~(t.k = "adjudication" /\ t.o = o)
  <2>1. \A v : LoggedIn(x, "adjudication", o, v) <=> LoggedIn(w, "adjudication", o, v)
    BY <1>1, <1>4
  <2>2. LoggedIn(w, "resolve", o, "initiator") => LoggedIn(x, "resolve", o, "initiator")
    BY <1>1
  <2> QED
    BY <1>1, <1>2, <2>1, <2>2 DEF ReviewedIn
<1> QED
  BY <1>3, <1>4

LEMMA CommitStep ==
    ASSUME SafeInv, NEW t \in Txs, NEW next \in Steps, Commit(t, next), probing' = probing,
           Fitting(t, next), Follows(t, next)
    PROVE  SafeInv'
<1>1. /\ CycleOK /\ LogsOK /\ QueueOK(cells) /\ QueueOK(snap.cells)
      /\ UpTo(wal, Len(made)) /\ LogReviewed(wal) /\ BackedIn(wal, cells) /\ BackedIn(wal, snap.cells)
      /\ \A i \in 1..Len(todo.wal) : Has(wal, todo.wal[i])
      /\ Undecided => NotYet(wal, Len(made))
  BY DEF SafeInv, ReviewInv
<1>2. /\ wal' = Append(wal, t)
      /\ status' = status /\ made' = made /\ snap' = snap /\ mark' = mark /\ todo' = todo
      /\ \/ cells' = Applied(cells, t) /\ pc' = next /\ faults' = faults
         \/ Spend("kept") /\ pc' = "idle" /\ cells' = cells
  BY DEF Commit, Goto
<1>3. wal \in Seq(Txs) /\ Len(made) \in Nat /\ MaxWrites \in Nat /\ probing \in Nat
  BY <1>1, WritesFinite DEF LogsOK, CycleOK
<1>4. /\ wal' \in Seq(Txs)
      /\ \A k, o, v : LoggedIn(wal', k, o, v)
                         <=> LoggedIn(wal, k, o, v) \/ (t.k = k /\ t.o = o /\ t.v = v)
      /\ \A o : PassedIn(wal', o) <=> PassedIn(wal, o) \/ t = AuditTx(o, "pass", "output")
      /\ \A u : Has(wal', u) <=> Has(wal, u) \/ u = t
      /\ \A n : UpTo(wal, n) /\ (t.k \in {"output", "adjudication"} => t.o <= n) => UpTo(wal', n)
  <2>1. Grown(wal', wal, t)
    BY <1>2, <1>3, LogGrows
  <2> QED
    BY ONLY <2>1 DEF Grown
<1>5. CellsOK(cells') /\ QueueOK(cells')
  <2>1. CellsOK(cells) /\ QueueOK(cells) /\ Replayable(cells, t)
    BY <1>1 DEF LogsOK, Fitting
  <2>2. CASE cells' = Applied(cells, t)
    BY <2>1, <2>2, AppliedKeeps
  <2>3. CASE cells' = cells
    BY <2>1, <2>3
  <2> QED
    BY <1>2, <2>2, <2>3
<1>6. BackedIn(wal', cells')
  <2>1. CellsOK(cells) /\ QueueOK(cells)
    BY <1>1 DEF LogsOK
  <2>2. BackedIn(wal', cells) /\ Has(wal', t)
    BY <1>1, <1>4, BackedStays
  <2>3. CASE cells' = Applied(cells, t)
    BY <2>1, <2>2, <2>3, BackedApplied
  <2>4. CASE cells' = cells
    BY <2>2, <2>4
  <2> QED
    BY <1>2, <2>3, <2>4
<1>7. BackedIn(wal', snap.cells)
  BY <1>1, <1>4, BackedStays
<1>8. LogReviewed(wal')
  BY <1>1, <1>2, <1>3, ReviewedStays DEF Fitting
<1>9. Undecided' => Undecided /\ t.k # "adjudication" /\ ~(t.k = "output" /\ t.v = "active")
  <2>1. Undecided' => pc' = next /\ pc' \notin {"idle", "rejected", "published", "withdrawn",
                                                "resolved", "settled", "blind"}
                      /\ (pc' = "probed" => probing <= MaxWrites)
    BY <1>2 DEF Undecided, InCycle
  <2> QED
    BY <1>3, <2>1 DEF Follows
<1>10. Undecided' => NotYet(wal', Len(made))
  BY <1>1, <1>4, <1>9 DEF NotYet
<1>11. CycleOK'
  <2>1. faults' \in [DOMAIN FaultLimits -> Nat]
    BY <1>1, <1>2, SpendKeeps, FaultKinds DEF CycleOK
  <2>2. InCycle' => Len(made) > 0
    <3>1. InCycle' => pc' = next /\ next # "idle" /\ (next = "probed" => probing <= MaxWrites)
      BY <1>2 DEF InCycle
    <3> QED
      BY <1>1, <1>3, <3>1 DEF Follows, Undecided, CycleOK
  <2>3. pc' \in Steps
    BY <1>2 DEF Steps
  <2> QED
    BY <1>1, <1>2, <2>1, <2>2, <2>3 DEF CycleOK
<1>12. LogsOK'
  BY <1>1, <1>2, <1>4, <1>5 DEF LogsOK
<1>13. pc' = "publish" => PassedIn(wal', Len(made))
  BY <1>2, <1>4 DEF Fitting
<1>14. UpTo(wal', Len(made)) /\ \A i \in 1..Len(todo.wal) : Has(wal', todo.wal[i])
  BY <1>1, <1>4 DEF Fitting
<1>15. ReviewInv'
  BY <1>2, <1>6, <1>7, <1>8, <1>10, <1>13, <1>14 DEF ReviewInv
<1> QED
  BY <1>1, <1>2, <1>5, <1>11, <1>12, <1>15 DEF SafeInv

\* A step that leaves logs and cells alone, the ledger apart.
LEMMA CheckStep ==
    ASSUME SafeInv, UNCHANGED <<status, made, wal, snap, mark, todo>>,
           cells'.lib = cells.lib, cells'.adj = cells.adj, cells'.queue = cells.queue,
           cells'.stats = cells.stats, DOMAIN cells' = DOMAIN cells,
           probing' \in Nat, pc' \in Steps, faults' \in [DOMAIN FaultLimits -> Nat],
           InCycle' => Len(made) > 0, Undecided' => Undecided, pc' = "publish" => pc = "publish"
    PROVE  SafeInv'
<1>1. CellsOK(cells') /\ QueueOK(cells')
  BY QueueSame DEF SafeInv, LogsOK, CellsOK
<1>2. BackedIn(wal, cells')
  BY BackedSame DEF SafeInv, ReviewInv
<1>3. CycleOK'
  BY DEF SafeInv, CycleOK
<1>4. LogsOK'
  BY <1>1 DEF SafeInv, LogsOK
<1>5. ReviewInv'
  BY <1>2 DEF SafeInv, ReviewInv
<1> QED
  BY <1>1, <1>3, <1>4, <1>5 DEF SafeInv

\* A ledger record.
LEMMA RecordStep ==
    ASSUME SafeInv, NEW kind, NEW out, NEW outcome, NEW next \in Steps \ {"publish"},
           Check(kind, out, outcome, next), probing' = probing,
           \/ next \in {"idle", "blind"}
           \/ Undecided
           \/ next \in {"published", "withdrawn", "settled"},
           next # "idle" => InCycle
    PROVE  SafeInv'
<1>1. /\ UNCHANGED <<status, made, wal, snap, mark, todo>>
      /\ cells' = cells \/ \E l : cells' = [cells EXCEPT !.ledger = l]
      /\ pc' = next \/ pc' = "idle"
      /\ faults' = faults \/ Spend("unsaved") \/ Spend("kept")
  BY DEF Check, Goto
<1>2. DOMAIN cells = {"lib", "facets", "audits", "adj", "queue", "stats", "ledger"}
  BY DEF SafeInv, LogsOK, CellsOK
<1>3. /\ cells'.lib = cells.lib /\ cells'.adj = cells.adj /\ cells'.queue = cells.queue
      /\ cells'.stats = cells.stats /\ DOMAIN cells' = DOMAIN cells
  BY <1>1, <1>2
<1>4. CycleOK
  BY DEF SafeInv
<1>5. faults' \in [DOMAIN FaultLimits -> Nat]
  <2>1. CASE faults' = faults
    BY <1>4, <2>1 DEF CycleOK
  <2>2. CASE Spend("unsaved")
    BY <1>4, <2>2, SpendKeeps, FaultKinds
  <2>3. CASE Spend("kept")
    BY <1>4, <2>3, SpendKeeps, FaultKinds
  <2> QED
    BY <1>1, <2>1, <2>2, <2>3
<1>6. pc' \in Steps /\ pc' # "publish"
  BY <1>1 DEF Steps
<1>7. (InCycle' => Len(made) > 0) /\ (Undecided' => Undecided)
  BY <1>1, <1>4 DEF InCycle, Undecided, CycleOK
<1> QED
  BY <1>1, <1>3, <1>4, <1>5, <1>6, <1>7, CheckStep DEF CycleOK

-----------------------------------------------------------------------------
(* The steps of a cycle.                                                   *)

LEMMA TxTypes ==
    /\ \A o \in Writes, st \in Statuses \ {"none"} :
          /\ OutputTx(o, st) \in Txs /\ StatusTx(o, st) = OutputTx(o, st)
          /\ OutputTx(o, st).k = "output" /\ OutputTx(o, st).o = o /\ OutputTx(o, st).v = st
    /\ \A o \in Nat, v \in {"pass", "fail"}, of \in {"output", "probe"} :
          AuditTx(o, v, of) \in Txs /\ AuditTx(o, v, of).k = "audit"
    /\ \A o \in Writes, op \in {"flag_drift", "audit_fail"} :
          FlagTx(o, op) \in Txs /\ FlagTx(o, op).k = "flag"
    /\ \A o \in Writes, r \in [path : Paths, res : Judged] :
          /\ AdjudicationTx(o, r) \in Txs /\ AdjudicationTx(o, r).k = "adjudication"
          /\ AdjudicationTx(o, r).o = o /\ AdjudicationTx(o, r).v = r.res
    /\ \A o \in Writes, v \in {"auditor", "initiator"} :
          /\ ResolveTx(o, v) \in Txs /\ ResolveTx(o, v).k = "resolve" /\ ResolveTx(o, v).o = o
          /\ ResolveTx(o, v).v = v
<1> USE DEF Tx
<1>1. \A o \in Writes, st \in Statuses \ {"none"} :
          /\ OutputTx(o, st) \in Txs /\ StatusTx(o, st) = OutputTx(o, st)
          /\ OutputTx(o, st).k = "output" /\ OutputTx(o, st).o = o /\ OutputTx(o, st).v = st
  BY DEF OutputTx, StatusTx, Txs, OutputTxs
<1>2. \A o \in Nat, v \in {"pass", "fail"}, of \in {"output", "probe"} :
          AuditTx(o, v, of) \in Txs /\ AuditTx(o, v, of).k = "audit"
  BY DEF AuditTx, Txs, AuditTxs
<1>3. \A o \in Writes, op \in {"flag_drift", "audit_fail"} :
          FlagTx(o, op) \in Txs /\ FlagTx(o, op).k = "flag"
  BY DEF FlagTx, Txs, FlagTxs
<1>4. \A o \in Writes, r \in [path : Paths, res : Judged] :
          /\ AdjudicationTx(o, r) \in Txs /\ AdjudicationTx(o, r).k = "adjudication"
          /\ AdjudicationTx(o, r).o = o /\ AdjudicationTx(o, r).v = r.res
  BY DEF AdjudicationTx, Txs, AdjudicationTxs
<1>5. \A o \in Writes, v \in {"auditor", "initiator"} :
          /\ ResolveTx(o, v) \in Txs /\ ResolveTx(o, v).k = "resolve" /\ ResolveTx(o, v).o = o
          /\ ResolveTx(o, v).v = v
  BY DEF ResolveTx, Txs, ResolveTxs
<1> QED
  BY <1>1, <1>2, <1>3, <1>4, <1>5

LEMMA ResolutionTypes ==
    ASSUME NEW op, NEW ground, NEW r \in Resolutions(op, ground)
    PROVE  r \in [path : Paths, res : Judged]
<1>1. PolicyTable(op, ground) \subseteq {"auditor", "initiator"}
  BY DEF PolicyTable
<1>2. CASE PolicyTable(op, ground) # {}
  BY <1>1, <1>2 DEF Resolutions, Paths, Judged
<1>3. CASE PolicyTable(op, ground) = {}
  BY <1>3 DEF Resolutions, Paths, Judged
<1> QED
  BY <1>2, <1>3

\* A cycle has an output.
LEMMA CycleHasOutput ==
    ASSUME CycleOK, InCycle
    PROVE  Len(made) \in Writes /\ Len(made) \in Nat /\ Len(made) > 0
<1>1. Len(made) \in Nat /\ Len(made) > 0 /\ Len(made) <= MaxWrites /\ MaxWrites \in Nat
  BY WritesFinite DEF CycleOK
<1> QED
  BY <1>1 DEF Writes

\* The cycle's outputs and their judgments.
LEMMA OutputSteps ==
    ASSUME SafeInv, ChainRejects \/ EmitOutput \/ Publish \/ Concede \/ Settle
    PROVE  SafeInv'
<1>1. CycleOK /\ ReviewInv /\ probing' = probing
      /\ pc \in {"output", "publish", "conceded", "resolved"}
  BY DEF SafeInv, ChainRejects, EmitOutput, Publish, Concede, Settle, At
<1>2. InCycle
  BY <1>1 DEF InCycle
<1>3. PICK n : n = Len(made)
  OBVIOUS
<1>4. n \in Writes /\ n \in Nat /\ n > 0 /\ n <= n /\ cur = n
  BY <1>1, <1>2, <1>3, CycleHasOutput DEF cur
<1>5. ASSUME NEW st \in Statuses \ {"none"}, NEW next \in Steps, Commit(OutputTx(n, st), next),
             st = "active" => ReviewedIn(wal, n), next # "publish", next # "idle",
             Follows(OutputTx(n, st), next)
      PROVE  SafeInv'
  <2>1. PICK t : t = OutputTx(n, st)
    OBVIOUS
  <2>2. t \in Txs /\ t.k = "output" /\ t.o = n /\ t.v = st
    BY <1>4, <2>1, TxTypes
  <2>3. Fitting(t, next)
    BY <1>3, <1>4, <1>5, <2>2 DEF Fitting, Replayable
  <2> QED
    BY <1>1, <1>5, <2>1, <2>2, <2>3, CommitStep
<1>6. CASE ChainRejects
  <2>1. Commit(OutputTx(n, "quarantined"), "rejected")
    BY <1>4, <1>6 DEF ChainRejects
  <2>2. Follows(OutputTx(n, "quarantined"), "rejected")
    BY <1>3, <1>4 DEF Follows
  <2> QED
    BY <1>5, <2>1, <2>2 DEF Statuses, Steps
<1>7. CASE EmitOutput
  <2>1. Commit(OutputTx(n, "pending"), "emitted") /\ pc = "output"
    BY <1>4, <1>7 DEF EmitOutput, At
  <2>2. Follows(OutputTx(n, "pending"), "emitted")
    <3>1. OutputTx(n, "pending").k = "output" /\ OutputTx(n, "pending").v = "pending"
      BY <1>4, TxTypes DEF Statuses
    <3>2. Undecided
      BY <1>2, <2>1 DEF Undecided
    <3> QED
      BY <3>1, <3>2 DEF Follows
  <2> QED
    BY <1>5, <2>1, <2>2 DEF Statuses, Steps
<1>8. CASE Publish
  <2>1. Commit(OutputTx(n, "active"), "published") /\ pc = "publish"
    BY <1>4, <1>8, TxTypes DEF Publish, At, Statuses
  <2>2. Undecided
    BY <1>2, <2>1 DEF Undecided
  <2>3. NotYet(wal, n) /\ PassedIn(wal, n)
    BY <1>1, <1>3, <2>1, <2>2 DEF ReviewInv
  <2>4. ReviewedIn(wal, n)
    BY <2>3 DEF NotYet, ReviewedIn, Judged
  <2>5. Follows(OutputTx(n, "active"), "published")
    BY <1>3, <1>4 DEF Follows
  <2> QED
    BY <1>5, <2>1, <2>4, <2>5 DEF Statuses, Steps
<1>9. CASE Concede
  <2>1. Commit(OutputTx(n, "quarantined"), "withdrawn")
    BY <1>4, <1>9, TxTypes DEF Concede, Statuses
  <2>2. Follows(OutputTx(n, "quarantined"), "withdrawn")
    BY <1>3, <1>4 DEF Follows
  <2> QED
    BY <1>5, <2>1, <2>2 DEF Statuses, Steps
<1>10. CASE Settle
  <2>1. PICK st : st = IF cells.adj[n].res = "initiator" THEN "active" ELSE "quarantined"
    OBVIOUS
  <2>2. st \in Statuses \ {"none"} /\ Commit(StatusTx(n, st), "settled")
    BY <1>4, <1>10, <2>1 DEF Settle, Statuses
  <2>3. Commit(OutputTx(n, st), "settled")
    BY <1>4, <2>2, TxTypes
  <2>4. st = "active" => ReviewedIn(wal, n)
    BY <1>1, <1>4, <2>1 DEF ReviewInv, BackedIn, ReviewedIn
  <2>5. Follows(OutputTx(n, st), "settled")
    BY <1>3, <1>4 DEF Follows
  <2> QED
    BY <1>5, <2>2, <2>3, <2>4, <2>5 DEF Steps
<1> QED
  BY <1>6, <1>7, <1>8, <1>9, <1>10

LEMMA JudgmentSteps ==
    ASSUME SafeInv, ProbeAudit \/ Audit \/ RaiseFlag \/ Adjudicate
    PROVE  SafeInv'
<1>1. CycleOK /\ ReviewInv /\ probing' = probing /\ probing \in Nat
      /\ pc \in {"probe", "audit", "flag", "dispute"}
  BY DEF SafeInv, CycleOK, ProbeAudit, Audit, RaiseFlag, Adjudicate, At
<1>2. PICK n : n = Len(made)
  OBVIOUS
<1>3. CASE ProbeAudit
  <2>1. PICK v : v \in {"pass", "fail"} /\ Commit(AuditTx(probing, v, "probe"), "probed")
    BY <1>3 DEF ProbeAudit, VerdictName
  <2>2. pc = "probe"
    BY <1>3 DEF ProbeAudit, At
  <2>3. PICK t : t = AuditTx(probing, v, "probe")
    OBVIOUS
  <2>4. t \in Txs /\ t.k = "audit"
    BY <1>1, <2>1, <2>3, TxTypes
  <2>5. Fitting(t, "probed")
    BY <2>4 DEF Fitting, Replayable
  <2>6. Follows(t, "probed")
    <3>1. CASE probing > MaxWrites
      BY <3>1 DEF Follows
    <3>2. CASE ~(probing > MaxWrites)
      <4>1. probing <= MaxWrites
        BY <1>1, <3>2, WritesFinite
      <4>2. Undecided
        BY <2>2, <4>1 DEF Undecided, InCycle
      <4> QED
        BY <2>4, <4>2 DEF Follows
    <3> QED
      BY <3>1, <3>2
  <2> QED
    BY <1>1, <2>1, <2>3, <2>4, <2>5, <2>6, CommitStep DEF Steps
<1>4. CASE ~ProbeAudit
  <2>1. pc \in {"audit", "flag", "dispute"}
    BY <1>4 DEF Audit, RaiseFlag, Adjudicate, At
  <2>2. InCycle /\ Undecided
    BY <2>1 DEF InCycle, Undecided
  <2>3. n \in Writes /\ n \in Nat /\ n > 0 /\ n <= n /\ cur = n
    BY <1>1, <1>2, <2>2, CycleHasOutput DEF cur
  <2>4. NotYet(wal, n)
    BY <1>1, <1>2, <2>2 DEF ReviewInv
  <2>5. CASE Audit
    <3>1. PICK v, next : /\ v \in {"pass", "fail"} /\ next \in {"flag", "degraded", "publish"}
                         /\ next = "publish" => v = "pass"
                         /\ Commit(AuditTx(n, v, "output"), next)
      <4>1. PICK b \in Verdicts(made[cur]) :
                 Commit(AuditTx(cur, VerdictName(b), "output"),
                        IF ~b THEN "flag" ELSE IF Degraded THEN "degraded" ELSE "publish")
        BY <2>5 DEF Audit
      <4> QED
        BY <2>3, <4>1 DEF VerdictName
    <3>2. PICK t : t = AuditTx(n, v, "output")
      OBVIOUS
    <3>3. t \in Txs /\ t.k = "audit"
      BY <2>3, <3>1, <3>2, TxTypes
    <3>4. Fitting(t, next)
      BY <1>2, <3>1, <3>2, <3>3 DEF Fitting, Replayable
    <3>5. Follows(t, next)
      BY <2>2, <3>1, <3>3 DEF Follows
    <3> QED
      BY <1>1, <3>1, <3>2, <3>3, <3>4, <3>5, CommitStep DEF Steps
  <2>6. CASE RaiseFlag
    <3>1. PICK op, next : /\ op \in {"flag_drift", "audit_fail"} /\ next \in {"dispute", "sanity"}
                          /\ Commit(FlagTx(n, op), next)
      BY <2>3, <2>6 DEF RaiseFlag, FlagOp
    <3>2. PICK t : t = FlagTx(n, op)
      OBVIOUS
    <3>3. t \in Txs /\ t.k = "flag"
      BY <2>3, <3>1, <3>2, TxTypes
    <3>4. Fitting(t, next)
      BY <3>1, <3>3 DEF Fitting, Replayable
    <3>5. Follows(t, next)
      BY <2>2, <3>1, <3>3 DEF Follows
    <3> QED
      BY <1>1, <3>1, <3>2, <3>3, <3>4, <3>5, CommitStep DEF Steps
  <2>7. CASE Adjudicate
    <3>1. PICK r \in Resolutions(FlagOp, made[cur].ground) : Commit(AdjudicationTx(n, r), "resolved")
      BY <2>3, <2>7 DEF Adjudicate
    <3>2. r \in [path : Paths, res : Judged]
      BY ResolutionTypes
    <3>3. PICK t : t = AdjudicationTx(n, r)
      OBVIOUS
    <3>4. t \in Txs /\ t.k = "adjudication" /\ t.o = n
      BY <2>3, <3>2, <3>3, TxTypes
    <3>5. Fitting(t, "resolved")
      BY <1>2, <2>3, <2>4, <3>4 DEF Fitting, Replayable, NotYet
    <3>6. Follows(t, "resolved")
      BY <1>2, <2>3 DEF Follows
    <3> QED
      BY <1>1, <3>1, <3>3, <3>4, <3>5, <3>6, CommitStep DEF Steps
  <2> QED
    BY <1>4, <2>5, <2>6, <2>7
<1> QED
  BY <1>3, <1>4

LEMMA ResolveStep ==
    ASSUME SafeInv, NEW o \in Writes, NEW v \in {"auditor", "initiator"}, Resolve(o, v)
    PROVE  SafeInv'
<1>1. PICK t : t = ResolveTx(o, v)
  OBVIOUS
<1>2. t \in Txs /\ t.k = "resolve" /\ t.o = o
  BY <1>1, TxTypes
<1>3. Commit(t, "idle") /\ probing' = probing /\ cells.adj[o].res = "human"
  BY <1>1 DEF Resolve
<1>4. Fitting(t, "idle")
  BY <1>2, <1>3 DEF Fitting, Replayable
<1>5. Follows(t, "idle")
  BY DEF Follows
<1> QED
  BY <1>2, <1>3, <1>4, <1>5, CommitStep DEF Steps

LEMMA RecordSteps ==
    ASSUME SafeInv,
           \/ RejectedCheck \/ OutputCheck \/ ProbeCheck \/ DegradedAudit \/ PublishCheck
           \/ SanityCheck \/ ConcedeCheck \/ SettleCheck \/ BlindReaudit
    PROVE  SafeInv'
<1> DEFINE Good(kind, out, outcome, next) ==
        /\ Check(kind, out, outcome, next)
        /\ next \in Steps \ {"publish"}
        /\ \/ next \in {"idle", "blind"}
           \/ Undecided
           \/ next \in {"published", "withdrawn", "settled"}
        /\ next # "idle" => InCycle
<1>1. probing' = probing
  BY DEF RejectedCheck, OutputCheck, ProbeCheck, DegradedAudit, PublishCheck, SanityCheck,
         ConcedeCheck, SettleCheck, BlindReaudit
<1>2. ASSUME NEW kind, NEW out, NEW outcome, NEW next, Good(kind, out, outcome, next)
      PROVE  SafeInv'
  BY <1>1, <1>2, RecordStep
<1>3. CASE RejectedCheck
  <2>1. Good("output", cur, "disagree", "idle")
    BY <1>3 DEF RejectedCheck, Steps
  <2> QED
    BY <1>2, <2>1
<1>4. CASE OutputCheck
  <2>1. Good("output", cur, "agree", "audit")
    BY <1>4 DEF OutputCheck, Steps, At, InCycle, Undecided
  <2> QED
    BY <1>2, <2>1
<1>5. CASE ProbeCheck
  <2>1. PICK outcome, next : /\ Check("probe", probing, outcome, next)
                             /\ next = IF probing <= MaxWrites THEN "audit" ELSE "idle"
    BY <1>5 DEF ProbeCheck
  <2>2. Good("probe", probing, outcome, next)
    BY <1>5, <2>1 DEF ProbeCheck, Steps, At, InCycle, Undecided
  <2> QED
    BY <1>2, <2>2
<1>6. CASE DegradedAudit
  <2>1. Good("audit", cur, "agree", "flag")
    BY <1>6 DEF DegradedAudit, Steps, At, InCycle, Undecided
  <2> QED
    BY <1>2, <2>1
<1>7. CASE PublishCheck
  <2>1. Good("audit", cur, "agree", "blind")
    BY <1>7 DEF PublishCheck, Steps, At, InCycle
  <2> QED
    BY <1>2, <2>1
<1>8. CASE SanityCheck
  <2>1. PICK outcome, next : Check("sanity", cur, outcome, next) /\ next \in {"conceded", "dispute"}
    BY <1>8 DEF SanityCheck
  <2>2. Good("sanity", cur, outcome, next)
    BY <1>8, <2>1 DEF SanityCheck, Steps, At, InCycle, Undecided
  <2> QED
    BY <1>2, <2>2
<1>9. CASE ConcedeCheck
  <2>1. Good("audit", cur, "disagree", "idle")
    BY <1>9 DEF ConcedeCheck, Steps
  <2> QED
    BY <1>2, <2>1
<1>10. CASE SettleCheck
  <2>1. PICK kind, outcome, next : Check(kind, cur, outcome, next) /\ next \in {"idle", "blind"}
    BY <1>10 DEF SettleCheck
  <2>2. Good(kind, cur, outcome, next)
    BY <1>10, <2>1 DEF SettleCheck, Steps, At, InCycle
  <2> QED
    BY <1>2, <2>2
<1>11. CASE BlindReaudit
  <2>1. PICK outcome : Check("blind", cur, outcome, "idle")
    BY <1>11 DEF BlindReaudit
  <2>2. Good("blind", cur, outcome, "idle")
    BY <2>1 DEF Steps
  <2> QED
    BY <1>2, <2>2
<1> QED
  BY <1>3, <1>4, <1>5, <1>6, <1>7, <1>8, <1>9, <1>10, <1>11

LEMMA ProbeSteps ==
    ASSUME SafeInv, InjectProbe \/ ProbeNow \/ NoReaudit \/ CycleFails
    PROVE  SafeInv'
<1>1. CycleOK /\ MaxWrites \in Nat
  BY WritesFinite DEF SafeInv
<1>2. UNCHANGED <<status, made, wal, snap, mark, todo, cells>>
  BY DEF InjectProbe, ProbeNow, NoReaudit, CycleFails, disk
<1>3. faults' \in [DOMAIN FaultLimits -> Nat]
  <2>1. faults' = faults \/ Spend("probe") \/ Spend("error")
    BY DEF InjectProbe, ProbeNow, NoReaudit, CycleFails
  <2> QED
    BY <1>1, <2>1, SpendKeeps, FaultKinds DEF CycleOK
<1>4. /\ probing' \in Nat /\ pc' \in Steps /\ pc' # "publish"
      /\ InCycle' => Len(made) > 0 
      /\ Undecided' => Undecided
  <2>1. CASE InjectProbe
    <3>1. pc = "audit" /\ pc' = "probe" /\ probing' = Len(made)
      BY <2>1 DEF InjectProbe, At, Goto, cur
    <3>2. InCycle /\ Undecided
      BY <3>1 DEF InCycle, Undecided
    <3> QED
      BY <1>1, <3>1, <3>2, CycleHasOutput DEF Steps
  <2>2. CASE ProbeNow
    <3>1. PICK k : k = faults["probe"]
      OBVIOUS
    <3>2. pc' = "probe" /\ probing' = MaxWrites + k + 1
      BY <2>2, <3>1 DEF ProbeNow, Goto
    <3>3. k \in Nat
      BY <1>1, <3>1, FaultKinds DEF CycleOK
    <3>4. probing' \in Nat /\ ~(probing' <= MaxWrites)
      BY <1>1, <3>2, <3>3
    <3> QED
      BY <3>2, <3>4 DEF InCycle, Undecided, Steps
  <2>3. CASE NoReaudit \/ CycleFails
    <3>1. pc' = "idle" /\ probing' = probing
      BY <2>3 DEF NoReaudit, CycleFails, Goto
    <3> QED
      BY <1>1, <3>1 DEF InCycle, Undecided, Steps, CycleOK
  <2> QED
    BY <2>1, <2>2, <2>3
<1> QED
  BY <1>2, <1>3, <1>4, CheckStep

\* What the Librarian makes of a fact.
LEMMA DecidedTypes ==
    ASSUME CycleOK, NEW slot \in Slots, NEW object \in Objects, NEW lost
    PROVE  Decided(slot, object, lost) \in Output
<1>1. Len(made) \in Nat /\ Rivals(slot) \in SUBSET Nat
  BY DEF CycleOK, Rivals
<1>2. PICK first : first = CHOOSE i \in Rivals(slot) : \A j \in Rivals(slot) : i <= j
  OBVIOUS
<1>3. Rivals(slot) # {} => first \in Nat
  <2> SUFFICES ASSUME Rivals(slot) # {} PROVE first \in Nat
    OBVIOUS
  <2>1. \E i \in Rivals(slot) : \A j \in Rivals(slot) : i <= j
    BY <1>1, Least
  <2>3. first \in Rivals(slot)
    BY <1>2, <2>1
  <2> QED
    BY <1>1, <2>3
<1>4. PICK op, body : /\ op = IF Rivals(slot) # {} /\ made[first].object # object
                              THEN "supersede" ELSE "skeleton"
                      /\ body = CASE op = "supersede" ->
                                       IF Ghost \in {made[first].object, object}
                                       THEN "ghost" ELSE "text"
                                  [] lost \/ object = Blank -> "blank"
                                  [] object = Ghost -> "ghost"
                                  [] OTHER -> "text"
  OBVIOUS
<1>5. PICK g : g = IF op = "supersede" THEN {first, Len(made) + 1} ELSE {Len(made) + 1}
  OBVIOUS
<1>6. op \in {"supersede", "skeleton"} /\ body \in {"text", "blank", "ghost"}
  BY <1>4
<1>7. g \in SUBSET Nat
  BY <1>1, <1>3, <1>4, <1>5
<1>8. Band(op, body) \in Bands
  BY DEF Band, Bands
<1>9. Decided(slot, object, lost) = [slot |-> slot, object |-> object, op |-> op, body |-> body,
                                     ground |-> g, band |-> Band(op, body)]
  BY <1>2, <1>4, <1>5 DEF Decided
<1> QED
  BY <1>6, <1>7, <1>8, <1>9 DEF Output

LEMMA WriteStep ==
    ASSUME SafeInv, NEW slot \in Slots, NEW object \in Objects, Write(slot, object)
    PROVE  SafeInv'
<1>1. CycleOK /\ LogsOK /\ ReviewInv /\ MaxWrites \in Nat
  BY WritesFinite DEF SafeInv
<1>2. PICK n : n = Len(made)
  OBVIOUS
<1>3. /\ n < MaxWrites /\ mark' = [wal |-> Len(wal), checks |-> Len(checks)]
      /\ pc' = "output" /\ probing' = 0
      /\ UNCHANGED <<status, cells, wal, snap, todo, faults>>
  BY <1>2 DEF Write, Goto, cur
<1>4. PICK x \in Output : made' = Append(made, x)
  <2>1. PICK lost \in {FALSE, External} : made' = Append(made, Decided(slot, object, lost))
    BY DEF Write
  <2> QED
    BY <1>1, <2>1, DecidedTypes
<1>5. n \in Nat /\ made' \in Seq(Output) /\ Len(made') = n + 1
  BY <1>1, <1>2, <1>4 DEF CycleOK
<1>6. n + 1 <= MaxWrites /\ n + 1 > 0
  BY <1>1, <1>3, <1>5
<1>7. CycleOK'
  BY <1>1, <1>3, <1>5, <1>6 DEF CycleOK, Steps
<1>8. mark'.wal \in Nat
  BY <1>1, <1>3 DEF LogsOK
<1>9. LogsOK'
  BY <1>1, <1>3, <1>8 DEF LogsOK
<1>10. \A i \in 1..Len(wal) : wal[i].k \in {"output", "adjudication"} => wal[i].o <= n
  BY <1>1, <1>2 DEF ReviewInv, UpTo
<1>11. \A i \in 1..Len(wal) : wal[i].k \in {"output", "adjudication"} =>
           wal[i].o \in Nat /\ wal[i].o <= n + 1 /\ wal[i].o # n + 1
  <2> SUFFICES ASSUME NEW i \in 1..Len(wal), wal[i].k \in {"output", "adjudication"}
               PROVE  wal[i].o \in Nat /\ wal[i].o <= n + 1 /\ wal[i].o # n + 1
    OBVIOUS
  <2>1. wal[i] \in Txs
    BY <1>1 DEF LogsOK
  <2>2. wal[i].o \in Writes
    BY <2>1, TxKindsApart DEF OutputTxs, AdjudicationTxs
  <2>3. wal[i].o \in Nat /\ wal[i].o <= n
    BY <1>10, <2>2, WritesFinite
  <2> QED
    BY <1>5, <2>3
<1>12. UpTo(wal, n + 1)
  BY <1>11 DEF UpTo
<1>13. NotYet(wal, n + 1)
  BY <1>11 DEF NotYet, LoggedIn
<1>14. ReviewInv'
  BY <1>1, <1>3, <1>5, <1>12, <1>13 DEF ReviewInv
<1> QED
  BY <1>3, <1>7, <1>9, <1>14 DEF SafeInv

-----------------------------------------------------------------------------
(* Snapshots, crashes and recovery.                                        *)

LEMMA NewCellsOK == CellsOK(NewCells) /\ QueueOK(NewCells) /\ \A w : BackedIn(w, NewCells)
<1>1. /\ NewCells.lib = [n \in Writes |-> "none"] /\ NewCells.adj = [n \in Writes |-> NoAdj]
      /\ NewCells.queue = <<>> /\ NewCells.stats = [policy |-> 0, pool |-> 0, human |-> 0]
      /\ DOMAIN NewCells = {"lib", "facets", "audits", "adj", "queue", "stats", "ledger"}
  BY DEF NewCells
<1>2. NoAdj \in Adjudication /\ NoAdj.res = "none"
  BY DEF NoAdj, Adjudication
<1>3. CellsOK(NewCells)
  <2>1. [policy |-> 0, pool |-> 0, human |-> 0] \in [Paths -> Nat]
    BY DEF Paths
  <2> QED
    BY <1>1, <1>2, <2>1 DEF CellsOK, Statuses
<1>4. QueueOK(NewCells)
  <2>1. \A o \in Writes : NewCells.adj[o].res = "none"
    BY <1>1, <1>2
  <2>2. {o \in Writes : NewCells.adj[o].res # "none"} = {}
    BY <2>1
  <2>3. Len(NewCells.queue) = 0
    BY <1>1
  <2>4. NewCells.stats["policy"] + NewCells.stats["pool"] + NewCells.stats["human"] = 0
    <3>1. /\ NewCells.stats.policy = 0 /\ NewCells.stats.pool = 0
          /\ NewCells.stats.human = 0
      BY <1>1
    <3>2. /\ NewCells.stats["policy"] = 0 /\ NewCells.stats["pool"] = 0
          /\ NewCells.stats["human"] = 0
      BY <3>1
    <3> QED
      BY <3>2
  <2>5. Cardinality({o \in Writes : NewCells.adj[o].res # "none"}) = 0
    BY <2>2, FS_EmptySet
  <2>6. \A o \in Writes : ~Awaits(NewCells, o)
    BY <2>1 DEF Awaits
  <2>7. 1..Len(NewCells.queue) = {}
    BY <2>3
  <2> QED
    BY <2>4, <2>5, <2>6, <2>7 DEF QueueOK
<1>5. \A o \in Writes : NewCells.lib[o] = "none" /\ NewCells.adj[o].res = "none"
  BY <1>1, <1>2
<1> QED
  BY <1>3, <1>4, <1>5 DEF BackedIn

LEMMA SnapshotStep ==
    ASSUME SafeInv, Snapshot
    PROVE  SafeInv'
<1>1. CycleOK /\ LogsOK /\ ReviewInv /\ QueueOK(cells) /\ CellsOK(cells)
  BY DEF SafeInv, LogsOK
<1>2. PICK from \in {mark, [wal |-> Len(wal), checks |-> Len(checks)]} :
          snap' = [cells |-> Captured(cells), wal |-> from.wal, checks |-> from.checks]
  BY DEF Snapshot
<1>3. UNCHANGED <<status, pc, made, probing, cells, wal, mark, todo>> /\ Spend("snap")
  BY DEF Snapshot
<1>4. PICK d : d = Captured(cells)
  OBVIOUS
<1>5. /\ d.lib = cells.lib /\ d.adj = cells.adj /\ d.queue = cells.queue /\ d.stats = cells.stats
      /\ DOMAIN d = {"lib", "facets", "audits", "adj", "queue", "stats", "ledger"}
  BY <1>4 DEF Captured, LibrarianState, WardenState, AdjudicatorState
<1>6. CellsOK(d) /\ QueueOK(d) /\ BackedIn(wal, d)
  BY <1>1, <1>5, QueueSame, BackedSame DEF CellsOK, ReviewInv
<1>7. snap'.cells = d /\ snap'.wal \in Nat
  BY <1>1, <1>2, <1>4 DEF LogsOK
<1>8. CycleOK'
  BY <1>1, <1>3, SpendKeeps, FaultKinds DEF CycleOK, InCycle
<1>9. LogsOK'
  BY <1>1, <1>3, <1>6, <1>7 DEF LogsOK
<1>10. ReviewInv'
  BY <1>1, <1>3, <1>6, <1>7 DEF ReviewInv, Undecided, InCycle
<1> QED
  BY <1>1, <1>3, <1>6, <1>7, <1>8, <1>9, <1>10 DEF SafeInv

\* A step of the boot, or the crash before it.
LEMMA BootStep ==
    ASSUME SafeInv, UNCHANGED <<made, probing, wal, snap, mark>>,
           pc' \in {pc, "idle"}, faults' \in [DOMAIN FaultLimits -> Nat],
           status' \in {"up", "down", "replaying", "refused"},
           CellsOK(cells'), QueueOK(cells'), BackedIn(wal, cells'),
           DOMAIN todo' = {"wal", "checks"}, todo'.wal \in Seq(Txs),
           \A i \in 1..Len(todo'.wal) : Has(wal, todo'.wal[i])
    PROVE  SafeInv'
<1>1. pc' \in Steps /\ (InCycle' => InCycle) /\ (Undecided' => Undecided)
      /\ (pc' = "publish" => pc = "publish")
  BY DEF SafeInv, CycleOK, Steps, InCycle, Undecided
<1>2. CycleOK'
  BY <1>1 DEF SafeInv, CycleOK
<1>3. LogsOK'
  BY DEF SafeInv, LogsOK
<1>4. ReviewInv'
  BY <1>1 DEF SafeInv, ReviewInv
<1> QED
  BY <1>2, <1>3, <1>4 DEF SafeInv

LEMMA LedgerOnly ==
    ASSUME NEW w, NEW c, CellsOK(c), QueueOK(c), BackedIn(w, c), NEW l, NEW d,
           d = [c EXCEPT !.ledger = l]
    PROVE  CellsOK(d) /\ QueueOK(d) /\ BackedIn(w, d)
<1>1. /\ d.lib = c.lib /\ d.adj = c.adj /\ d.queue = c.queue /\ d.stats = c.stats
      /\ DOMAIN d = {"lib", "facets", "audits", "adj", "queue", "stats", "ledger"}
  BY DEF CellsOK
<1> QED
  BY <1>1, QueueSame, BackedSame DEF CellsOK

LEMMA CrashStep ==
    ASSUME SafeInv, Crash
    PROVE  SafeInv'
<1>1. /\ UNCHANGED <<made, probing, wal, snap, mark>> /\ pc' = "idle" /\ status' = "down"
      /\ cells' = NewCells /\ todo' = [wal |-> <<>>, checks |-> <<>>] /\ Spend("crash")
  BY DEF Crash, Goto, disk
<1>2. faults' \in [DOMAIN FaultLimits -> Nat]
  BY <1>1, SpendKeeps, FaultKinds DEF SafeInv
<1>3. DOMAIN todo' = {"wal", "checks"} /\ todo'.wal \in Seq(Txs) /\ Len(todo'.wal) = 0
  BY <1>1
<1> QED
  BY <1>1, <1>2, <1>3, NewCellsOK, BootStep

LEMMA RestoreStep ==
    ASSUME SafeInv, Restore
    PROVE  SafeInv'
<1>1. /\ UNCHANGED <<pc, made, probing, wal, snap, mark, faults>> /\ status' = "replaying"
      /\ cells' = [snap.cells EXCEPT !.ledger = Restored(@)]
      /\ todo' = [wal |-> Rest(wal, snap.wal), checks |-> Rest(checks, snap.checks)]
  BY DEF Restore, disk, RestoredCells
<1>2. CellsOK(snap.cells) /\ QueueOK(snap.cells) /\ BackedIn(wal, snap.cells)
  BY DEF SafeInv, LogsOK, ReviewInv
<1>3. CellsOK(cells') /\ QueueOK(cells') /\ BackedIn(wal, cells')
  <2>1. PICK l : cells' = [snap.cells EXCEPT !.ledger = l]
    BY <1>1
  <2> QED
    BY <1>2, <2>1, LedgerOnly
<1>4. PICK m, n, r : m = snap.wal /\ n = Len(wal) /\ r = Rest(wal, m)
  OBVIOUS
<1>5. m \in Nat /\ n \in Nat /\ wal \in Seq(Txs)
  BY <1>4 DEF SafeInv, LogsOK
<1>6. r \in Seq(Txs) /\ \A i \in 1..Len(r) : Has(wal, r[i])
  <2>1. r = SubSeq(wal, m + 1, n)
    BY <1>4 DEF Rest
  <2>2. /\ Len(r) = (IF m + 1 <= n THEN n - (m + 1) + 1 ELSE 0)
        /\ \A i \in 1..Len(r) : r[i] = wal[i + m]
    <3>1. PICK w, a : w = wal /\ a = m + 1
      OBVIOUS
    <3>2. w \in Seq(Txs) /\ a \in Nat \ {0} /\ n \in Nat /\ n <= Len(w) /\ r = SubSeq(w, a, n)
      BY <1>4, <1>5, <2>1, <3>1
    <3>3. /\ Len(r) = (IF a <= n THEN n - a + 1 ELSE 0)
          /\ \A i \in 1..Len(r) : r[i] = w[i + a - 1]
      BY ONLY <3>2, SubSeqIs
    <3>4. \A i \in 1..Len(r) : i + a - 1 = i + m
      BY <1>5, <3>1
    <3> QED
      BY <3>1, <3>3, <3>4
  <2>3. \A i \in 1..Len(r) : i + m \in 1..n
    BY <1>5, <2>2
  <2>4. \A i \in 1..Len(r) : Has(wal, r[i])
    BY <1>4, <2>2, <2>3 DEF Has
  <2>5. r \in Seq(Txs)
    BY <1>4, <1>5, <2>1
  <2> QED
    BY <2>4, <2>5
<1>7. DOMAIN todo' = {"wal", "checks"} /\ todo'.wal = r
  BY <1>1, <1>4
<1> QED
  BY <1>1, <1>3, <1>6, <1>7, BootStep DEF SafeInv, CycleOK

LEMMA ReplayStep ==
    ASSUME SafeInv, ReplayTx \/ ReplayCheck \/ BootEnds
    PROVE  SafeInv'
<1>1. /\ CellsOK(cells) /\ QueueOK(cells) /\ BackedIn(wal, cells)
      /\ todo.wal \in Seq(Txs) /\ DOMAIN todo = {"wal", "checks"}
      /\ \A i \in 1..Len(todo.wal) : Has(wal, todo.wal[i])
      /\ faults \in [DOMAIN FaultLimits -> Nat] /\ status \in {"up", "down", "replaying", "refused"}
  BY DEF SafeInv, LogsOK, ReviewInv, CycleOK
<1>2. UNCHANGED <<pc, made, probing, wal, snap, mark, faults>>
  BY DEF ReplayTx, ReplayCheck, BootEnds, disk
<1>3. CASE ReplayTx
  <2>1. PICK q, t, r : q = todo.wal /\ t = Head(q) /\ r = Tail(q)
    OBVIOUS
  <2>2. /\ q # <<>> /\ Replayable(cells, t) /\ cells' = Applied(cells, t)
        /\ todo' = [todo EXCEPT !.wal = Tail(@)] /\ status' = status
    BY <1>3, <2>1 DEF ReplayTx
  <2>3. todo'.wal = r /\ DOMAIN todo' = {"wal", "checks"}
    BY <1>1, <2>1, <2>2
  <2>4. q \in Seq(Txs) /\ \A i \in 1..Len(q) : Has(wal, q[i])
    BY <1>1, <2>1
  <2>5. /\ t \in Txs /\ t = q[1] /\ 1 \in 1..Len(q) /\ r \in Seq(Txs)
        /\ \A i \in 1..Len(r) : i + 1 \in 1..Len(q) /\ r[i] = q[i + 1]
    BY <2>1, <2>2, <2>4
  <2>6. Has(wal, t) /\ \A i \in 1..Len(r) : Has(wal, r[i])
    BY <2>4, <2>5
  <2>7. CellsOK(cells') /\ QueueOK(cells')
    BY <1>1, <2>2, <2>5, AppliedKeeps
  <2>8. BackedIn(wal, cells')
    BY <1>1, <2>2, <2>5, <2>6, BackedApplied
  <2> QED
    BY <1>1, <1>2, <2>2, <2>3, <2>5, <2>6, <2>7, <2>8, BootStep
<1>4. CASE ReplayCheck
  <2>1. PICK l : cells' = [cells EXCEPT !.ledger = l]
    BY <1>4 DEF ReplayCheck
  <2>2. todo' = [todo EXCEPT !.checks = Tail(@)] /\ status' = status
    BY <1>4 DEF ReplayCheck
  <2>3. todo'.wal = todo.wal /\ DOMAIN todo' = {"wal", "checks"}
    BY <1>1, <2>2
  <2>4. CellsOK(cells') /\ QueueOK(cells') /\ BackedIn(wal, cells')
    BY <1>1, <2>1, LedgerOnly
  <2> QED
    BY <1>1, <1>2, <2>2, <2>3, <2>4, BootStep
<1>5. CASE BootEnds
  <2>1. cells' = cells \/ \E l : cells' = [cells EXCEPT !.ledger = l]
    BY <1>5 DEF BootEnds
  <2>2. todo' = todo /\ status' \in {"up", "refused"}
    BY <1>5 DEF BootEnds
  <2>3. CellsOK(cells') /\ QueueOK(cells') /\ BackedIn(wal, cells')
    <3>1. CASE cells' = cells
      BY <1>1, <3>1
    <3>2. CASE \E l : cells' = [cells EXCEPT !.ledger = l]
      BY <1>1, <3>2, LedgerOnly
    <3> QED
      BY <2>1, <3>1, <3>2
  <2> QED
    BY <1>1, <1>2, <2>2, <2>3, BootStep
<1> QED
  BY <1>3, <1>4, <1>5

LEMMA SafeInit ==
    ASSUME Init
    PROVE  SafeInv
<1>1. /\ status = "up" /\ pc = "idle" /\ made = <<>> /\ probing = 0 /\ cells = NewCells
      /\ wal = <<>> /\ snap.cells = NewCells /\ snap.wal = 0 /\ mark.wal = 0
      /\ todo = [wal |-> <<>>, checks |-> <<>>] /\ faults = [k \in DOMAIN FaultLimits |-> 0]
  BY DEF Init
<1>2. Len(made) = 0 /\ made \in Seq(Output) /\ MaxWrites \in Nat
  BY <1>1, WritesFinite
<1>3. CycleOK
  BY <1>1, <1>2 DEF CycleOK, Steps, InCycle
<1>4. wal \in Seq(Txs) /\ todo.wal \in Seq(Txs) /\ DOMAIN todo = {"wal", "checks"}
      /\ Len(wal) = 0 /\ Len(todo.wal) = 0
  BY <1>1
<1>5. LogsOK
  BY <1>1, <1>4, NewCellsOK DEF LogsOK
<1>6. \A k, o, v : ~LoggedIn(wal, k, o, v)
  BY <1>4 DEF LoggedIn
<1>7. ReviewInv
  <2>1. UpTo(wal, Len(made)) /\ \A i \in 1..Len(todo.wal) : Has(wal, todo.wal[i])
    BY <1>4 DEF UpTo
  <2>2. LogReviewed(wal)
    BY <1>6 DEF LogReviewed
  <2> QED
    BY <1>1, <2>1, <2>2, NewCellsOK DEF ReviewInv, Undecided, InCycle
<1> QED
  BY <1>1, <1>3, <1>5, <1>7, NewCellsOK DEF SafeInv

LEMMA SafeStep ==
    ASSUME SafeInv, [Next]_vars
    PROVE  SafeInv'
<1>1. CASE UNCHANGED vars
  BY <1>1 DEF vars, disk, SafeInv, CycleOK, LogsOK, ReviewInv, InCycle, Undecided
<1>2. CASE \E slot \in Slots, object \in Objects : Write(slot, object)
  BY <1>2, WriteStep
<1>3. CASE ChainRejects \/ EmitOutput \/ Publish \/ Concede \/ Settle
  BY <1>3, OutputSteps
<1>4. CASE ProbeAudit \/ Audit \/ RaiseFlag \/ Adjudicate
  BY <1>4, JudgmentSteps
<1>5. CASE \/ RejectedCheck \/ OutputCheck \/ ProbeCheck \/ DegradedAudit \/ PublishCheck
           \/ SanityCheck \/ ConcedeCheck \/ SettleCheck \/ BlindReaudit
  BY <1>5, RecordSteps
<1>6. CASE InjectProbe \/ ProbeNow \/ NoReaudit \/ CycleFails
  BY <1>6, ProbeSteps
<1>7. CASE \E o \in Writes, v \in {"auditor", "initiator"} : Resolve(o, v)
  BY <1>7, ResolveStep
<1>8. CASE Snapshot
  BY <1>8, SnapshotStep
<1>9. CASE Crash
  BY <1>9, CrashStep
<1>10. CASE Restore
  BY <1>10, RestoreStep
<1>11. CASE ReplayTx \/ ReplayCheck \/ BootEnds
  BY <1>11, ReplayStep
<1> QED
  BY <1>1, <1>2, <1>3, <1>4, <1>5, <1>6, <1>7, <1>8, <1>9, <1>10, <1>11 DEF Next

-----------------------------------------------------------------------------
(* Without faults, a cycle decides its output.                             *)

\* Only what is spent on faults ends a fault-free life.
LEMMA CleanBefore ==
    ASSUME CycleOK, Clean', faults' = faults \/ Spend("probe") \/ Spend("snap")
    PROVE  Clean
<1>1. CASE faults' = faults
  BY <1>1 DEF Clean
<1>2. CASE Spend("probe")
  BY <1>2, SpendKeeps, FaultKinds DEF Clean
<1>3. CASE Spend("snap")
  BY <1>3, SpendKeeps, FaultKinds DEF Clean
<1> QED
  BY <1>1, <1>2, <1>3

LEMMA CleanSpends ==
    ASSUME CycleOK, Clean', NEW k \in {"crash", "error", "kept", "unsaved"}
    PROVE  ~Spend(k)
BY SpendKeeps, FaultKinds DEF Clean

LEMMA CleanSame ==
    ASSUME Clean, CleanInv, status' = status, made' = made,
           cells'.lib = cells.lib, cells'.adj = cells.adj, pc' # "resolved",
           Undecided' => Undecided /\ pc # "output" /\ pc' # "output",
           ~Undecided' => \/ ~Undecided /\ pc # "resolved"
                          \/ \A o \in Writes : o = Len(made) => DoneIn(cells, o)
    PROVE  CleanInv'
<1>1. \A o : /\ DoneIn(cells', o) <=> DoneIn(cells, o)
             /\ Untouched(cells', o) <=> Untouched(cells, o)
  BY DEF DoneIn, Untouched, Awaits
<1> QED
  BY <1>1 DEF CleanInv

LEMMA CleanOutput ==
    ASSUME CleanInv, Clean, CellsOK(cells), status' = status, made' = made,
           NEW n \in Writes, n = Len(made), NEW v,
           cells'.lib = [cells.lib EXCEPT ![n] = v], cells'.adj = cells.adj, pc' # "resolved",
           \/ Undecided' /\ v = "pending" /\ pc' # "output" /\ cells.adj[n].res = "none"
           \/ ~Undecided' /\ v \in {"active", "quarantined"} /\ ~Awaits(cells, n)
    PROVE  CleanInv'
<1>1. cells'.lib[n] = v /\ \A o \in Writes : o # n => cells'.lib[o] = cells.lib[o]
  BY DEF CellsOK
<1>2. \A o \in Writes : /\ Awaits(cells', o) <=> Awaits(cells, o)
                        /\ o # n => (DoneIn(cells', o) <=> DoneIn(cells, o))
                        /\ o # n => (Untouched(cells', o) <=> Untouched(cells, o))
  BY <1>1 DEF DoneIn, Untouched, Awaits
<1>3. v \in {"active", "quarantined"} /\ ~Awaits(cells, n) => DoneIn(cells', n)
  BY <1>1, <1>2 DEF DoneIn
<1>4. n \in Nat
  BY WritesFinite
<1>5. /\ \A o \in Writes : o > n => Untouched(cells', o)
      /\ \A o \in Writes : o < n => DoneIn(cells', o)
  BY <1>2, <1>4 DEF CleanInv
<1>6. status' = "up"
  BY DEF CleanInv
<1> QED
  BY <1>1, <1>3, <1>5, <1>6 DEF CleanInv

\* Where no fault is spent a commit is applied.
LEMMA CleanCommit ==
    ASSUME CycleOK, Clean', NEW t, NEW next, Commit(t, next)
    PROVE  /\ Clean /\ cells' = Applied(cells, t) /\ pc' = next
           /\ status' = status /\ made' = made
<1>1. ~Spend("kept")
  BY CleanSpends
<1>2. faults' = faults /\ cells' = Applied(cells, t) /\ pc' = next
  BY <1>1 DEF Commit, Goto
<1>3. Clean
  BY <1>2, CleanBefore
<1> QED
  BY <1>2, <1>3 DEF Commit

LEMMA CleanOutputs ==
    ASSUME SafeInv, CleanInv, Clean', ChainRejects \/ EmitOutput \/ Publish \/ Concede \/ Settle
    PROVE  CleanInv'
<1>1. CycleOK /\ CellsOK(cells) /\ probing' = probing
      /\ pc \in {"output", "publish", "conceded", "resolved"}
  BY DEF SafeInv, LogsOK, ChainRejects, EmitOutput, Publish, Concede, Settle, At
<1>2. InCycle
  BY <1>1 DEF InCycle
<1>3. PICK n : n = Len(made)
  OBVIOUS
<1>4. n \in Writes /\ cur = n
  BY <1>1, <1>2, <1>3, CycleHasOutput DEF cur
<1>5. ASSUME NEW st \in Statuses \ {"none"}, NEW next, Commit(OutputTx(n, st), next),
             next # "resolved",
             \/ Clean /\ pc' = next =>
                      Undecided' /\ st = "pending" /\ pc' # "output" /\ cells.adj[n].res = "none"
             \/ Clean /\ pc' = next =>
                      ~Undecided' /\ st \in {"active", "quarantined"} /\ ~Awaits(cells, n)
      PROVE  CleanInv'
  <2>1. PICK t : t = OutputTx(n, st)
    OBVIOUS
  <2>2. t \in OutputTxs /\ t.o = n /\ t.v = st
    BY <1>4, <2>1, TxTypes, TxKindsApart
  <2>3. /\ Clean /\ cells' = Applied(cells, t) /\ pc' = next
        /\ status' = status /\ made' = made
    BY <1>1, <1>5, <2>1, CleanCommit
  <2>4. cells'.lib = [cells.lib EXCEPT ![n] = st] /\ cells'.adj = cells.adj
    BY <1>1, <2>2, <2>3, OutputApplied
  <2> QED
    BY <1>1, <1>3, <1>4, <1>5, <2>3, <2>4, CleanOutput
<1>6. CASE ChainRejects
  <2>1. Commit(OutputTx(n, "quarantined"), "rejected") /\ pc = "output"
    BY <1>4, <1>6 DEF ChainRejects, At
  <2>2. Clean => cells.adj[n].res = "none"
    BY <1>2, <1>3, <2>1 DEF Undecided, CleanInv
  <2>3. pc' = "rejected" => ~Undecided'
    BY DEF Undecided
  <2> QED
    BY <1>5, <2>1, <2>2, <2>3 DEF Statuses, Awaits
<1>7. CASE EmitOutput
  <2>1. Commit(OutputTx(n, "pending"), "emitted") /\ pc = "output"
    BY <1>4, <1>7 DEF EmitOutput, At
  <2>2. Clean => cells.adj[n].res = "none"
    BY <1>2, <1>3, <2>1 DEF Undecided, CleanInv
  <2>3. pc' = "emitted" => Undecided' /\ pc' # "output"
    BY DEF Undecided, InCycle
  <2> QED
    BY <1>5, <2>1, <2>2, <2>3 DEF Statuses
<1>8. CASE Publish
  <2>1. Commit(OutputTx(n, "active"), "published") /\ pc = "publish"
    BY <1>4, <1>8, TxTypes DEF Publish, At, Statuses
  <2>2. Clean => cells.adj[n].res = "none"
    BY <1>2, <1>3, <2>1 DEF Undecided, CleanInv
  <2>3. pc' = "published" => ~Undecided'
    BY DEF Undecided
  <2> QED
    BY <1>5, <2>1, <2>2, <2>3 DEF Statuses, Awaits
<1>9. CASE Concede
  <2>1. Commit(OutputTx(n, "quarantined"), "withdrawn") /\ pc = "conceded"
    BY <1>4, <1>9, TxTypes DEF Concede, At, Statuses
  <2>2. Clean => cells.adj[n].res = "none"
    BY <1>2, <1>3, <2>1 DEF Undecided, CleanInv
  <2>3. pc' = "withdrawn" => ~Undecided'
    BY DEF Undecided
  <2> QED
    BY <1>5, <2>1, <2>2, <2>3 DEF Statuses, Awaits
<1>10. CASE Settle
  <2>1. PICK st : st = IF cells.adj[n].res = "initiator" THEN "active" ELSE "quarantined"
    OBVIOUS
  <2>2. st \in Statuses \ {"none"} /\ Commit(StatusTx(n, st), "settled") /\ cells.adj[n].res # "human"
    BY <1>4, <1>10, <2>1 DEF Settle, Statuses
  <2>3. Commit(OutputTx(n, st), "settled")
    BY <1>4, <2>2, TxTypes
  <2>4. pc' = "settled" => ~Undecided'
    BY DEF Undecided
  <2> QED
    BY <1>5, <2>1, <2>2, <2>3, <2>4 DEF Awaits
<1> QED
  BY <1>6, <1>7, <1>8, <1>9, <1>10

LEMMA CleanJudgments ==
    ASSUME SafeInv, CleanInv, Clean', ProbeAudit \/ Audit \/ RaiseFlag
    PROVE  CleanInv'
<1>1. CycleOK /\ CellsOK(cells) /\ probing' = probing /\ probing \in Nat
      /\ pc \in {"probe", "audit", "flag"}
  BY DEF SafeInv, LogsOK, CycleOK, ProbeAudit, Audit, RaiseFlag, At
<1>2. ASSUME NEW t \in Txs, t.k \in {"audit", "flag"}, NEW next, Commit(t, next),
             pc' = next => pc' # "resolved" /\ pc' # "output" /\ (Undecided' <=> Undecided)
      PROVE  CleanInv'
  <2>1. t \in AuditTxs \cup FlagTxs
    BY <1>2, TxKindsApart
  <2>2. /\ Clean /\ cells' = Applied(cells, t) /\ pc' = next
        /\ status' = status /\ made' = made
    BY <1>1, <1>2, CleanCommit
  <2>3. cells'.lib = cells.lib /\ cells'.adj = cells.adj
    BY <1>1, <2>1, <2>2, OtherApplied
  <2> QED
    BY <1>1, <1>2, <2>2, <2>3, CleanSame
<1>3. CASE ProbeAudit
  <2>1. PICK v : v \in {"pass", "fail"} /\ Commit(AuditTx(probing, v, "probe"), "probed")
    BY <1>3 DEF ProbeAudit, VerdictName
  <2>2. pc = "probe"
    BY <1>3 DEF ProbeAudit, At
  <2>3. AuditTx(probing, v, "probe") \in Txs /\ AuditTx(probing, v, "probe").k = "audit"
    BY <1>1, <2>1, TxTypes
  <2>4. pc' = "probed" => (Undecided' <=> Undecided)
    BY <1>1, <2>2 DEF Undecided, InCycle
  <2> QED
    BY <1>2, <2>1, <2>3, <2>4
<1>4. CASE ~ProbeAudit
  <2>1. InCycle /\ Undecided
    BY <1>4 DEF Audit, RaiseFlag, At, InCycle, Undecided
  <2>2. PICK n : n = Len(made)
    OBVIOUS
  <2>3. n \in Writes /\ n \in Nat /\ cur = n
    BY <1>1, <2>1, <2>2, CycleHasOutput DEF cur
  <2>4. CASE Audit
    <3>1. PICK v, next : /\ v \in {"pass", "fail"} /\ next \in {"flag", "degraded", "publish"}
                         /\ Commit(AuditTx(n, v, "output"), next)
      <4>1. PICK b \in Verdicts(made[cur]) :
                 Commit(AuditTx(cur, VerdictName(b), "output"),
                        IF ~b THEN "flag" ELSE IF Degraded THEN "degraded" ELSE "publish")
        BY <2>4 DEF Audit
      <4> QED
        BY <2>3, <4>1 DEF VerdictName
    <3>2. AuditTx(n, v, "output") \in Txs /\ AuditTx(n, v, "output").k = "audit"
      BY <2>3, <3>1, TxTypes
    <3>3. pc' = next => Undecided' /\ pc' # "resolved" /\ pc' # "output"
      BY <3>1 DEF Undecided, InCycle
    <3> QED
      BY <1>2, <2>1, <3>1, <3>2, <3>3
  <2>5. CASE RaiseFlag
    <3>1. PICK op, next : /\ op \in {"flag_drift", "audit_fail"} /\ next \in {"dispute", "sanity"}
                          /\ Commit(FlagTx(n, op), next)
      BY <2>3, <2>5 DEF RaiseFlag, FlagOp
    <3>2. FlagTx(n, op) \in Txs /\ FlagTx(n, op).k = "flag"
      BY <2>3, <3>1, TxTypes
    <3>3. pc' = next => Undecided' /\ pc' # "resolved" /\ pc' # "output"
      BY <3>1 DEF Undecided, InCycle
    <3> QED
      BY <1>2, <2>1, <3>1, <3>2, <3>3
  <2> QED
    BY <1>4, <2>4, <2>5
<1> QED
  BY <1>3, <1>4

LEMMA CleanAdjudicate ==
    ASSUME SafeInv, CleanInv, Clean', Adjudicate
    PROVE  CleanInv'
<1>1. CycleOK /\ CellsOK(cells) /\ probing' = probing /\ pc = "dispute"
  BY DEF SafeInv, LogsOK, Adjudicate, At
<1>2. InCycle /\ Undecided
  BY <1>1 DEF InCycle, Undecided
<1>3. PICK n : n = Len(made)
  OBVIOUS
<1>4. n \in Writes /\ n \in Nat /\ cur = n
  BY <1>1, <1>2, <1>3, CycleHasOutput DEF cur
<1>5. PICK r \in Resolutions(FlagOp, made[cur].ground) : Commit(AdjudicationTx(n, r), "resolved")
  BY <1>4 DEF Adjudicate
<1>6. r \in [path : Paths, res : Judged]
  BY ResolutionTypes
<1>7. PICK t : t = AdjudicationTx(n, r)
  OBVIOUS
<1>8. t \in AdjudicationTxs /\ t.o = n /\ t.v \in Judged
  BY <1>4, <1>6, <1>7, TxTypes, TxKindsApart
<1>9. /\ Clean /\ cells' = Applied(cells, t) /\ pc' = "resolved"
      /\ status' = status /\ made' = made
  BY <1>1, <1>5, <1>7, CleanCommit
<1>10. cells.lib[n] = "pending" /\ cells.adj[n].res = "none"
  BY <1>1, <1>2, <1>3, <1>9 DEF CleanInv
<1>11. PICK e : e = [res |-> t.v, path |-> t.p, human |-> FALSE]
  OBVIOUS
<1>12. cells'.lib = cells.lib /\ cells'.adj = [cells.adj EXCEPT ![n] = e]
  <2>1. AdjudicatedIn(cells, cells', t)
    BY <1>1, <1>8, <1>9, AdjudicationApplied
  <2> QED
    BY <1>8, <1>10, <1>11, <2>1 DEF AdjudicatedIn
<1>13. /\ cells'.adj[n].res # "none" /\ ~cells'.adj[n].human
       /\ \A o \in Writes : o # n => cells'.adj[o] = cells.adj[o]
  BY <1>1, <1>4, <1>8, <1>11, <1>12 DEF CellsOK, Judged
<1>14. \A o \in Writes : o # n => /\ DoneIn(cells', o) <=> DoneIn(cells, o)
                                  /\ Untouched(cells', o) <=> Untouched(cells, o)
  BY <1>12, <1>13 DEF DoneIn, Untouched, Awaits
<1>15. /\ \A o \in Writes : o > n => Untouched(cells', o)
       /\ \A o \in Writes : o < n => DoneIn(cells', o)
  <2>1. /\ \A o \in Writes : o > n => Untouched(cells, o)
        /\ \A o \in Writes : o < n => DoneIn(cells, o)
    BY <1>3, <1>9 DEF CleanInv
  <2>2. \A o \in Writes : (o > n => o # n) /\ (o < n => o # n)
    BY <1>4, WritesFinite
  <2> QED
    BY <1>14, <2>1, <2>2
<1>16. status' = "up" /\ ~Undecided'
  BY <1>9 DEF CleanInv, Undecided
<1> QED
  BY <1>3, <1>9, <1>10, <1>12, <1>13, <1>15, <1>16 DEF CleanInv

LEMMA CleanResolve ==
    ASSUME SafeInv, CleanInv, Clean', NEW o \in Writes, NEW v \in {"auditor", "initiator"},
           Resolve(o, v)
    PROVE  CleanInv'
<1>1. /\ CycleOK /\ CellsOK(cells) /\ QueueOK(cells) /\ pc = "idle" /\ Commit(ResolveTx(o, v), "idle")
      /\ cells.adj[o].res = "human" /\ ~cells.adj[o].human
  BY DEF SafeInv, LogsOK, Resolve, Idle
<1>2. PICK t : t = ResolveTx(o, v)
  OBVIOUS
<1>3. t \in ResolveTxs /\ t.o = o /\ t.v = v
  BY <1>2, TxTypes, TxKindsApart
<1>4. /\ Clean /\ cells' = Applied(cells, t) /\ pc' = "idle"
      /\ status' = status /\ made' = made
  BY <1>1, <1>2, CleanCommit
<1>5. PICK e, l : /\ e = Resolved(cells.adj[o], v)
                  /\ l = IF v = "auditor" THEN "quarantined" ELSE "active"
  OBVIOUS
<1>6. cells'.lib = [cells.lib EXCEPT ![o] = l] /\ cells'.adj = [cells.adj EXCEPT ![o] = e]
  <2>1. ResolvedIn(cells, cells', t)
    BY <1>1, <1>3, <1>4, ResolveApplied
  <2> QED
    BY <1>1, <1>3, <1>5, <2>1 DEF ResolvedIn
<1>7. e.human = TRUE /\ l \in {"quarantined", "active"}
  BY <1>1, <1>5 DEF Resolved, CellsOK, Adjudication
<1>8. /\ cells'.lib[o] = l /\ cells'.adj[o] = e
      /\ \A x \in Writes : x # o => cells'.lib[x] = cells.lib[x] /\ cells'.adj[x] = cells.adj[x]
  BY <1>1, <1>6 DEF CellsOK
<1>9. DoneIn(cells', o)
  BY <1>7, <1>8 DEF DoneIn, Awaits
<1>10. \A x \in Writes : x # o => /\ DoneIn(cells', x) <=> DoneIn(cells, x)
                                  /\ Untouched(cells', x) <=> Untouched(cells, x)
  BY <1>8 DEF DoneIn, Untouched, Awaits
<1>11. ~Undecided /\ pc # "resolved" /\ ~Undecided' /\ pc' # "resolved"
  BY <1>1, <1>4 DEF Undecided, InCycle
<1>12. \A x \in Writes : x > Len(made) => x # o
  BY <1>1, <1>4 DEF CleanInv, Untouched
<1> QED
  BY <1>4, <1>9, <1>10, <1>11, <1>12 DEF CleanInv

LEMMA CleanRecords ==
    ASSUME SafeInv, CleanInv, Clean',
           \/ RejectedCheck \/ OutputCheck \/ ProbeCheck \/ DegradedAudit \/ PublishCheck
           \/ SanityCheck \/ ConcedeCheck \/ SettleCheck \/ BlindReaudit
    PROVE  CleanInv'
<1>1. CycleOK /\ probing' = probing /\ probing \in Nat
      /\ DOMAIN cells = {"lib", "facets", "audits", "adj", "queue", "stats", "ledger"}
  BY DEF SafeInv, CycleOK, LogsOK, CellsOK, RejectedCheck, OutputCheck, ProbeCheck, DegradedAudit,
         PublishCheck, SanityCheck, ConcedeCheck, SettleCheck, BlindReaudit
<1>2. ~Spend("unsaved") /\ ~Spend("kept")
  BY <1>1, CleanSpends
<1>3. ASSUME NEW kind, NEW out, NEW outcome, NEW next, Check(kind, out, outcome, next),
             next # "resolved", next # "output", pc # "output",
             pc' = next => (Undecided' => Undecided),
             Clean /\ pc' = next /\ ~Undecided' =>
                \/ ~Undecided /\ pc # "resolved"
                \/ \A o \in Writes : o = Len(made) => DoneIn(cells, o)
      PROVE  CleanInv'
  <2>1. /\ pc' = next /\ faults' = faults /\ status' = status /\ made' = made
        /\ \E l : cells' = [cells EXCEPT !.ledger = l]
    BY <1>2, <1>3 DEF Check, Goto
  <2>2. cells'.lib = cells.lib /\ cells'.adj = cells.adj
    BY <1>1, <2>1
  <2>3. Clean
    BY <1>1, <2>1, CleanBefore
  <2> QED
    BY <1>3, <2>1, <2>2, <2>3, CleanSame
<1>4. CASE RejectedCheck
  <2>1. Check("output", cur, "disagree", "idle") /\ pc = "rejected"
    BY <1>4 DEF RejectedCheck, At
  <2>2. ~Undecided /\ (pc' = "idle" => ~Undecided')
    BY <2>1 DEF Undecided, InCycle
  <2> QED
    BY <1>3, <2>1, <2>2
<1>5. CASE OutputCheck
  <2>1. Check("output", cur, "agree", "audit") /\ pc = "emitted"
    BY <1>5 DEF OutputCheck, At
  <2>2. Undecided /\ (pc' = "audit" => Undecided')
    BY <2>1 DEF Undecided, InCycle
  <2> QED
    BY <1>3, <2>1, <2>2
<1>6. CASE ProbeCheck
  <2>1. PICK outcome, next : /\ Check("probe", probing, outcome, next)
                             /\ next = IF probing <= MaxWrites THEN "audit" ELSE "idle"
    BY <1>6 DEF ProbeCheck
  <2>2. pc = "probed"
    BY <1>6 DEF ProbeCheck, At
  <2>3. pc' = next => (Undecided' <=> Undecided)
    BY <1>1, <2>1, <2>2 DEF Undecided, InCycle
  <2> QED
    BY <1>3, <2>1, <2>2, <2>3
<1>7. CASE DegradedAudit
  <2>1. Check("audit", cur, "agree", "flag") /\ pc = "degraded"
    BY <1>7 DEF DegradedAudit, At
  <2>2. Undecided /\ (pc' = "flag" => Undecided')
    BY <2>1 DEF Undecided, InCycle
  <2> QED
    BY <1>3, <2>1, <2>2
<1>8. CASE PublishCheck
  <2>1. Check("audit", cur, "agree", "blind") /\ pc = "published"
    BY <1>8 DEF PublishCheck, At
  <2>2. ~Undecided /\ (pc' = "blind" => ~Undecided')
    BY <2>1 DEF Undecided, InCycle
  <2> QED
    BY <1>3, <2>1, <2>2
<1>9. CASE SanityCheck
  <2>1. PICK outcome, next : Check("sanity", cur, outcome, next) /\ next \in {"conceded", "dispute"}
    BY <1>9 DEF SanityCheck
  <2>2. pc = "sanity"
    BY <1>9 DEF SanityCheck, At
  <2>3. Undecided /\ (pc' = next => Undecided')
    BY <2>1, <2>2 DEF Undecided, InCycle
  <2> QED
    BY <1>3, <2>1, <2>2, <2>3
<1>10. CASE ConcedeCheck
  <2>1. Check("audit", cur, "disagree", "idle") /\ pc = "withdrawn"
    BY <1>10 DEF ConcedeCheck, At
  <2>2. ~Undecided /\ (pc' = "idle" => ~Undecided')
    BY <2>1 DEF Undecided, InCycle
  <2> QED
    BY <1>3, <2>1, <2>2
<1>11. CASE SettleCheck
  <2>1. PICK kind, outcome, next : Check(kind, cur, outcome, next) /\ next \in {"idle", "blind"}
    BY <1>11 DEF SettleCheck
  <2>2. pc = "settled" \/ (pc = "resolved" /\ cells.adj[Len(made)].res = "human")
    BY <1>11 DEF SettleCheck, At, cur
  <2>3. ~Undecided /\ (pc' = next => ~Undecided')
    BY <2>1, <2>2 DEF Undecided, InCycle
  <2>4. Clean /\ pc = "resolved" => DoneIn(cells, Len(made))
    BY <2>2 DEF CleanInv, DoneIn, Awaits
  <2> QED
    BY <1>3, <2>1, <2>2, <2>3, <2>4
<1>12. CASE BlindReaudit
  <2>1. PICK outcome : Check("blind", cur, outcome, "idle")
    BY <1>12 DEF BlindReaudit
  <2>2. pc = "blind"
    BY <1>12 DEF BlindReaudit, At
  <2>3. ~Undecided /\ (pc' = "idle" => ~Undecided')
    BY <2>2 DEF Undecided, InCycle
  <2> QED
    BY <1>3, <2>1, <2>2, <2>3
<1> QED
  BY <1>4, <1>5, <1>6, <1>7, <1>8, <1>9, <1>10, <1>11, <1>12

LEMMA CleanProbes ==
    ASSUME SafeInv, CleanInv, Clean',
           InjectProbe \/ ProbeNow \/ NoReaudit \/ CycleFails \/ Snapshot
    PROVE  CleanInv'
<1>1. CycleOK /\ ~Spend("error") /\ MaxWrites \in Nat
  BY CleanSpends, WritesFinite DEF SafeInv
<1>2. UNCHANGED <<status, made, cells>>
  BY DEF InjectProbe, ProbeNow, NoReaudit, CycleFails, Snapshot
<1>3. Clean
  <2>1. faults' = faults \/ Spend("probe") \/ Spend("snap")
    BY <1>1 DEF InjectProbe, ProbeNow, NoReaudit, CycleFails, Snapshot
  <2> QED
    BY <1>1, <2>1, CleanBefore
<1>4. pc' \notin {"resolved", "output"} /\ pc \notin {"resolved", "output"}
      /\ (Undecided' <=> Undecided)
  <2>1. CASE InjectProbe
    <3>1. pc = "audit" /\ pc' = "probe" /\ probing' = Len(made)
      BY <2>1 DEF InjectProbe, At, Goto, cur
    <3>2. Len(made) <= MaxWrites
      BY <1>1 DEF CycleOK
    <3> QED
      BY <3>1, <3>2 DEF InCycle, Undecided
  <2>2. CASE ProbeNow
    <3>1. PICK k : k = faults["probe"]
      OBVIOUS
    <3>2. pc = "idle" /\ pc' = "probe" /\ probing' = MaxWrites + k + 1
      BY <2>2, <3>1 DEF ProbeNow, Goto, Idle
    <3>3. k \in Nat
      BY <1>1, <3>1, FaultKinds DEF CycleOK
    <3>4. ~(probing' <= MaxWrites)
      BY <1>1, <3>2, <3>3
    <3> QED
      BY <3>2, <3>4 DEF InCycle, Undecided
  <2>3. CASE NoReaudit
    BY <2>3 DEF NoReaudit, At, Goto, InCycle, Undecided
  <2>4. CASE CycleFails
    BY <1>1, <2>4 DEF CycleFails
  <2>5. CASE Snapshot
    BY <2>5 DEF Snapshot, Idle, InCycle, Undecided
  <2> QED
    BY <2>1, <2>2, <2>3, <2>4, <2>5
<1> QED
  BY <1>2, <1>3, <1>4, CleanSame

LEMMA CleanWrite ==
    ASSUME SafeInv, CleanInv, Clean', NEW slot, NEW object, Write(slot, object)
    PROVE  CleanInv'
<1>1. PICK n : n = Len(made)
  OBVIOUS
<1>2. /\ n < MaxWrites /\ pc = "idle" /\ pc' = "output" /\ probing' = 0 /\ faults' = faults
      /\ status' = status /\ cells' = cells
      /\ \E x : made' = Append(made, x)
  BY <1>1 DEF Write, Idle, Goto, cur
<1>3. n \in Nat /\ Len(made') = n + 1
  BY <1>1, <1>2 DEF SafeInv, CycleOK
<1>4. Clean /\ ~Undecided /\ pc # "resolved" /\ Undecided'
  BY <1>2 DEF Clean, Undecided, InCycle
<1>5. /\ status = "up"
      /\ \A o \in Writes : o > n => Untouched(cells, o)
      /\ \A o \in Writes : o < n => DoneIn(cells, o)
      /\ \A o \in Writes : o = n => DoneIn(cells, o)
  BY <1>1, <1>4 DEF CleanInv
<1>6. MaxWrites \in Nat /\ n + 1 \in Writes
  BY <1>2, <1>3, WritesFinite DEF Writes
<1>7. /\ \A o \in Writes : o > n + 1 => Untouched(cells, o)
      /\ \A o \in Writes : o < n + 1 => DoneIn(cells, o)
      /\ Untouched(cells, n + 1)
  BY <1>3, <1>5, <1>6, WritesFinite
<1> QED
  BY <1>2, <1>3, <1>4, <1>5, <1>7 DEF CleanInv, Untouched

LEMMA CleanStep ==
    ASSUME SafeInv, CleanInv, [Next]_vars
    PROVE  CleanInv'
<1> SUFFICES ASSUME Clean' PROVE CleanInv'
  BY DEF CleanInv
<1>1. CASE UNCHANGED vars
  BY <1>1 DEF vars, disk, CleanInv, Clean, InCycle, Undecided
<1>2. CASE \E slot \in Slots, object \in Objects : Write(slot, object)
  BY <1>2, CleanWrite
<1>3. CASE ChainRejects \/ EmitOutput \/ Publish \/ Concede \/ Settle
  BY <1>3, CleanOutputs
<1>4. CASE ProbeAudit \/ Audit \/ RaiseFlag
  BY <1>4, CleanJudgments
<1>5. CASE Adjudicate
  BY <1>5, CleanAdjudicate
<1>6. CASE \/ RejectedCheck \/ OutputCheck \/ ProbeCheck \/ DegradedAudit \/ PublishCheck
           \/ SanityCheck \/ ConcedeCheck \/ SettleCheck \/ BlindReaudit
  BY <1>6, CleanRecords
<1>7. CASE InjectProbe \/ ProbeNow \/ NoReaudit \/ CycleFails \/ Snapshot
  BY <1>7, CleanProbes
<1>8. CASE \E o \in Writes, v \in {"auditor", "initiator"} : Resolve(o, v)
  BY <1>8, CleanResolve
<1>9. CASE Crash \/ Restore \/ ReplayTx \/ ReplayCheck \/ BootEnds
  <2>1. CASE Crash
    BY <2>1, CleanSpends DEF Crash, SafeInv
  <2>2. CASE ~Crash
    <3>1. status # "up" /\ faults' = faults
      BY <1>9, <2>2 DEF Restore, ReplayTx, ReplayCheck, BootEnds
    <3> QED
      BY <3>1 DEF CleanInv, Clean
  <2> QED
    BY <2>1, <2>2
<1> QED
  BY <1>1, <1>2, <1>3, <1>4, <1>5, <1>6, <1>7, <1>8, <1>9 DEF Next

-----------------------------------------------------------------------------
(* The theorems.                                                           *)

LEMMA CurInit ==
    ASSUME Init
    PROVE  CurInv
<1>1. status = "up" /\ pc = "idle" /\ made = <<>> /\ cells = NewCells
  BY DEF Init
<1>2. \A o \in Writes : Untouched(cells, o) /\ o > 0
  BY <1>1, WritesFinite DEF Untouched, NewCells, NoAdj, Writes
<1>3. Len(made) = 0 /\ ~Undecided
  BY <1>1 DEF Undecided, InCycle
<1>4. CleanInv
  BY <1>1, <1>2, <1>3, WritesFinite DEF CleanInv
<1> QED
  BY <1>4, SafeInit DEF CurInv

\* The inductive invariant: the types, the adjudicator's queue in memory and in
\* the snapshot, what the log has for what the cells say, and, in a life
\* without faults, where each output stands.
THEOREM CurInvHolds == Spec => []CurInv
<1>1. Init => CurInv
  BY CurInit
<1>2. CurInv /\ [Next]_vars => CurInv'
  BY SafeStep, CleanStep DEF CurInv
<1> QED
  BY <1>1, <1>2, PTL DEF Spec

\* Wherever errors, kept commits, crashes and replays cut the cycles of any
\* number of writes, an output is active only on a logged decision for it.
THEOREM ActiveStaysReviewed == Spec => []ActiveIsReviewed
<1>1. CurInv => ActiveIsReviewed
  <2> SUFFICES ASSUME CurInv, NEW o \in Writes, cells.lib[o] = "active"
               PROVE  \/ Logged("resolve", o, "initiator")
                      \/ Logged("adjudication", o, "initiator")
                      \/ /\ AuditPassed(o)
                         /\ ~Logged("adjudication", o, "auditor")
                         /\ ~Logged("adjudication", o, "human")
    BY DEF ActiveIsReviewed
  <2>1. BackedIn(wal, cells) /\ LogReviewed(wal) /\ wal \in Seq(Txs)
    BY DEF CurInv, SafeInv, ReviewInv, LogsOK
  <2>2. LoggedIn(wal, "resolve", o, "initiator") \/ ReviewedIn(wal, o)
    BY <2>1 DEF BackedIn, LogReviewed
  <2>3. DOMAIN wal = 1..Len(wal)
    BY <2>1
  <2>4. /\ \A k, v : Logged(k, o, v) <=> LoggedIn(wal, k, o, v)
        /\ AuditPassed(o) <=> PassedIn(wal, o)
    BY <2>3 DEF Logged, LoggedIn, AuditPassed, PassedIn
  <2> QED
    BY <2>2, <2>4 DEF ReviewedIn
<1> QED
  BY <1>1, CurInvHolds, PTL

\* A sequence without repetitions is as long as it has elements.
LEMMA DistinctLength ==
    ASSUME NEW S, NEW q \in Seq(S), \A i, j \in 1..Len(q) : q[i] = q[j] => i = j
    PROVE  Len(q) = Cardinality({q[i] : i \in DOMAIN q})
<1>1. PICK n \in Nat : n = Len(q) /\ DOMAIN q = 1..n
  OBVIOUS
<1>2. PICK T : T = {q[i] : i \in DOMAIN q}
  OBVIOUS
<1> DEFINE f == [i \in 1..n |-> q[i]]
<1>3. f \in Bijection(1..n, T)
  <2>1. f \in [1..n -> T] /\ \A i \in 1..n : f[i] = q[i]
    BY <1>1, <1>2
  <2>2. \A i, j \in 1..n : f[i] = f[j] => i = j
    BY <1>1, <2>1
  <2>3. \A y \in T : \E i \in 1..n : f[i] = y
    BY <1>1, <1>2, <2>1
  <2> QED
    BY <2>1, <2>2, <2>3 DEF Bijection, Injection, Surjection, IsInjective
<1>4. ExistsBijection(1..n, T)
  BY <1>3 DEF ExistsBijection
<1>5. IsFiniteSet(1..n) /\ Cardinality(1..n) = n
  <2>1. IsFiniteSet(1..n) /\ Cardinality(1..n) = IF 1 > n THEN 0 ELSE n - 1 + 1
    BY FS_Interval
  <2> QED
    BY <2>1
<1>6. Cardinality(T) = Cardinality(1..n)
  BY <1>4, <1>5, FS_Bijection
<1> QED
  BY <1>1, <1>2, <1>5, <1>6

\* Replays that meet an escalation or a human's verdict again neither queue
\* nor count it twice, and none is lost from the queue.
THEOREM EscalationsStayQueued == Spec => []EscalationsQueued
<1>1. CurInv => EscalationsQueued
  <2> SUFFICES ASSUME CurInv PROVE EscalationsQueued
    OBVIOUS
  <2>1. CellsOK(cells) /\ QueueOK(cells)
    BY DEF CurInv, SafeInv, LogsOK
  <2>2. PICK q : q = cells.queue
    OBVIOUS
  <2>3. q \in Seq(Writes) /\ DOMAIN q = 1..Len(q)
    BY <2>1, <2>2 DEF CellsOK
  <2>4. \A i, j \in 1..Len(q) : q[i] = q[j] => i = j
    BY <2>1, <2>2 DEF QueueOK
  <2>5. Len(q) = Cardinality({q[i] : i \in DOMAIN q})
    BY <2>3, <2>4, DistinctLength
  <2>6. {q[i] : i \in DOMAIN q} =
            {o \in Writes : cells.adj[o].res = "human" /\ ~cells.adj[o].human}
    <3>1. \A o \in Writes : (cells.adj[o].res = "human" /\ ~cells.adj[o].human)
                               <=> \E i \in 1..Len(q) : q[i] = o
      BY <2>1, <2>2 DEF QueueOK, Awaits
    <3>2. \A i \in DOMAIN q : q[i] \in Writes
      BY <2>3
    <3> QED
      BY <2>3, <3>1, <3>2
  <2>7. cells.stats.policy + cells.stats.pool + cells.stats.human
           = Cardinality({o \in Writes : cells.adj[o].res # "none"})
    BY <2>1 DEF QueueOK
  <2> QED
    BY <2>2, <2>5, <2>6, <2>7 DEF EscalationsQueued
<1> QED
  BY <1>1, CurInvHolds, PTL

\* A cycle that no fault cuts leaves its output decided or with a human, after
\* any number of writes, probes, snapshots and verdicts.
THEOREM PendingStaysWithHuman == Spec => []PendingAwaitsHuman
<1>1. CurInv => PendingAwaitsHuman
  <2> SUFFICES ASSUME CurInv, Idle, \A k \in {"crash", "error", "kept", "unsaved"} : faults[k] = 0,
                      NEW o \in 1..cur
               PROVE  /\ cells.lib[o] # "none"
                      /\ cells.lib[o] = "pending" <=> \E i \in DOMAIN cells.queue : cells.queue[i] = o
    BY DEF PendingAwaitsHuman
  <2>1. Clean /\ CleanInv /\ CycleOK /\ CellsOK(cells) /\ QueueOK(cells)
    BY DEF Clean, CurInv, SafeInv, LogsOK
  <2>2. ~Undecided /\ pc # "resolved"
    BY DEF Idle, Undecided, InCycle
  <2>3. Len(made) \in Nat /\ Len(made) <= MaxWrites /\ MaxWrites \in Nat
    BY <2>1, WritesFinite DEF CycleOK
  <2>4. o \in Writes /\ (o < Len(made) \/ o = Len(made))
    BY <2>3 DEF cur, Writes
  <2>5. DoneIn(cells, o)
    BY <2>1, <2>2, <2>4 DEF CleanInv
  <2>6. DOMAIN cells.queue = 1..Len(cells.queue)
    BY <2>1 DEF CellsOK
  <2>7. Awaits(cells, o) <=> \E i \in DOMAIN cells.queue : cells.queue[i] = o
    BY <2>1, <2>4, <2>6 DEF QueueOK
  <2> QED
    BY <2>5, <2>7 DEF DoneIn
<1> QED
  BY <1>1, CurInvHolds, PTL

-----------------------------------------------------------------------------
(* The loops: what a recursive function over a log computes.               *)

\* One turn of the loop of WindowOf, OpenBatch, and of the replay of cells and
\* ledger in Rebuilt.
Turn(loop, p, x, e) ==
    CASE loop = "window" -> IF e.kind = "audit" THEN Pushed(x, e.outcome = "agree", Window) ELSE x
      [] loop = "open" -> IF e.seq >= p THEN Append(x, e) ELSE x
      [] loop = "cells" -> Applied(x, e)
      [] loop = "ledger" -> ReplayRecord(x, e)

Turns(g, loop, p, a, s, k) ==
    g = [i \in 0..k |-> IF i = 0 THEN a ELSE Turn(loop, p, g[i - 1], s[i])]

\* Every loop has a run, of any length.
LEMMA LoopRuns ==
    ASSUME NEW loop, NEW p, NEW a, NEW s, NEW m \in Nat
    PROVE  \E g : Turns(g, loop, p, a, s, m)
<1> DEFINE Step(x, i) == Turn(loop, p, x, s[i])
           Runs(g, k) == g = [i \in 0..k |-> IF i = 0 THEN a ELSE Step(g[i - 1], i)]
           N == {k \in Nat : \E g : Runs(g, k)}
<1> HIDE DEF Step
<1>2. 0 \in N
  <2>1. Runs([i \in 0..0 |-> a], 0)
    OBVIOUS
  <2> QED
    BY <2>1
<1>3. ASSUME NEW k \in N PROVE k + 1 \in N
  <2>1. PICK g : Runs(g, k)
    OBVIOUS
  <2> DEFINE h == [i \in 0..(k + 1) |-> IF i <= k THEN g[i] ELSE Step(g[k], k + 1)]
  <2>2. \A i \in 0..(k + 1) : h[i] = IF i = 0 THEN a ELSE Step(h[i - 1], i)
    <3> TAKE i \in 0..(k + 1)
    <3>1. CASE i = 0
      BY <2>1, <3>1
    <3>2. CASE i # 0 /\ i <= k
      <4>1. i \in 0..k /\ i - 1 \in 0..k /\ i - 1 \in 0..(k + 1) /\ i - 1 <= k
        BY <3>2
      <4>2. h[i] = g[i] /\ h[i - 1] = g[i - 1]
        BY <3>2, <4>1
      <4>3. g[i] = Step(g[i - 1], i)
        BY <2>1, <3>2, <4>1
      <4> HIDE DEF h
      <4> QED
        BY <3>2, <4>2, <4>3
    <3>3. CASE i = k + 1
      <4>1. k \in 0..(k + 1) /\ k <= k /\ (k + 1) - 1 = k /\ k + 1 \in 0..(k + 1)
            /\ ~(k + 1 <= k) /\ k + 1 # 0
        OBVIOUS
      <4>2. h[k] = g[k] /\ h[k + 1] = Step(g[k], k + 1)
        BY <4>1
      <4> HIDE DEF h
      <4> QED
        BY <3>3, <4>1, <4>2
    <3> QED
      BY <3>1, <3>2, <3>3
  <2>3. Runs(h, k + 1)
    <3>1. h = [i \in 0..(k + 1) |-> h[i]]
      OBVIOUS
    <3> HIDE DEF h
    <3> QED
      BY <2>2, <3>1
  <2>4. \E x : Runs(x, k + 1)
    <3> HIDE DEF Runs, h
    <3> QED
      BY <2>3
  <2> QED
    BY <2>4
<1>4. N = Nat
  <2>1. N \in SUBSET Nat
    OBVIOUS
  <2> HIDE DEF N
  <2> QED
    BY <1>2, <1>3, <2>1, SetInduction
<1>5. \E g : Runs(g, m)
  BY <1>4
<1> QED
  BY <1>5 DEF Step, Turns

\* What the run is, turn by turn.
LEMMA LoopTurns ==
    ASSUME NEW loop, NEW p, NEW a, NEW s, NEW m \in Nat, NEW g, Turns(g, loop, p, a, s, m)
    PROVE  g[0] = a /\ \A i \in 1..m : g[i] = Turn(loop, p, g[i - 1], s[i])
<1>1. \A i \in 0..m : g[i] = IF i = 0 THEN a ELSE Turn(loop, p, g[i - 1], s[i])
  BY Zenon DEF Turns
<1>2. 0 \in 0..m /\ \A i \in 1..m : i \in 0..m /\ i # 0
  OBVIOUS
<1> QED
  BY <1>1, <1>2, Zenon

AgreeTo(s, t, k) == \A i \in 1..k : s[i] = t[i]

\* Two runs of one loop agree as long as what they read does.
LEMMA LoopAgrees ==
    ASSUME NEW loop, NEW p, NEW a, NEW s, NEW t, NEW m \in Nat, NEW n \in Nat, NEW g, NEW h,
           Turns(g, loop, p, a, s, m), Turns(h, loop, p, a, t, n),
           NEW k \in Nat, k <= m, k <= n, AgreeTo(s, t, k)
    PROVE  g[k] = h[k]
<1> DEFINE N == {i \in Nat : i <= k => g[i] = h[i]}
<1>1. /\ g[0] = a /\ \A i \in 1..m : g[i] = Turn(loop, p, g[i - 1], s[i])
      /\ h[0] = a /\ \A i \in 1..n : h[i] = Turn(loop, p, h[i - 1], t[i])
  BY LoopTurns
<1>2. 0 \in N
  BY <1>1
<1>3. ASSUME NEW i \in N PROVE i + 1 \in N
  <2> SUFFICES ASSUME i + 1 <= k PROVE g[i + 1] = h[i + 1]
    OBVIOUS
  <2>1. i \in Nat /\ i + 1 \in 1..m /\ i + 1 \in 1..n /\ i + 1 \in 1..k /\ (i + 1) - 1 = i /\ i <= k
    OBVIOUS
  <2>2. g[i] = h[i] /\ s[i + 1] = t[i + 1]
    BY <2>1 DEF AgreeTo
  <2>3. g[i + 1] = Turn(loop, p, g[i], s[i + 1]) /\ h[i + 1] = Turn(loop, p, h[i], t[i + 1])
    BY <1>1, <2>1
  <2> QED
    BY <2>2, <2>3
<1>4. N = Nat
  <2>1. N \in SUBSET Nat
    OBVIOUS
  <2> HIDE DEF N
  <2> QED
    BY <1>2, <1>3, <2>1, SetInduction
<1> QED
  BY <1>4

\* WindowOf and OpenBatch are runs of their loops.
LEMMA WindowRuns ==
    ASSUME NEW s, NEW m \in Nat, m = Len(s)
    PROVE  \E g : Turns(g, "window", 0, <<>>, s, m) /\ WindowOf(s) = g[m]
<1> DEFINE Runs(g) == g = [i \in 0..Len(s) |->
                IF i = 0 THEN <<>>
                ELSE IF s[i].kind = "audit" THEN Pushed(g[i - 1], s[i].outcome = "agree", Window)
                ELSE g[i - 1]]
<1>1. WindowOf(s) = (CHOOSE g : Runs(g))[Len(s)]
  BY DEF WindowOf
<1>2. \A g : Runs(g) <=> Turns(g, "window", 0, <<>>, s, m)
  BY DEF Turns, Turn
<1>3. \E g : Runs(g)
  BY <1>2, LoopRuns
<1>4. PICK r : r = (CHOOSE g : Runs(g))
  OBVIOUS
<1> HIDE DEF Runs
<1>5. Runs(r)
  BY <1>3, <1>4
<1> QED
  BY <1>1, <1>2, <1>4, <1>5

\* The window takes one record after the other.
LEMMA WindowGrows ==
    ASSUME NEW S, NEW s \in Seq(S), NEW r \in S
    PROVE  WindowOf(Append(s, r)) =
               IF r.kind = "audit" THEN Pushed(WindowOf(s), r.outcome = "agree", Window)
               ELSE WindowOf(s)
<1>1. PICK t, m : t = Append(s, r) /\ m = Len(s)
  OBVIOUS
<1>2. m \in Nat /\ Len(t) = m + 1 /\ t[m + 1] = r /\ \A i \in 1..m : s[i] = t[i]
  BY <1>1, AppendFacts
<1>3. PICK g : Turns(g, "window", 0, <<>>, s, m) /\ WindowOf(s) = g[m]
  BY <1>1, <1>2, WindowRuns
<1>4. PICK n : n = m + 1
  OBVIOUS
<1>5. n \in Nat /\ n = Len(t) /\ n \in 1..n /\ n - 1 = m /\ m <= n /\ m <= m
  BY <1>2, <1>4
<1>6. PICK h : Turns(h, "window", 0, <<>>, t, n) /\ WindowOf(t) = h[n]
  BY <1>5, WindowRuns
<1>7. h[n] = Turn("window", 0, h[m], t[n])
  BY <1>5, <1>6, LoopTurns
<1>8. g[m] = h[m]
  <2>1. AgreeTo(s, t, m)
    BY <1>2 DEF AgreeTo
  <2> QED
    BY ONLY <1>2, <1>3, <1>5, <1>6, <2>1, LoopAgrees
<1> QED
  BY <1>1, <1>2, <1>3, <1>4, <1>6, <1>7, <1>8 DEF Turn

LEMMA NoWindow == WindowOf(<<>>) = <<>>
<1>1. PICK g : Turns(g, "window", 0, <<>>, <<>>, 0) /\ WindowOf(<<>>) = g[0]
  BY WindowRuns
<1>2. 0 \in 0..0
  OBVIOUS
<1> QED
  BY <1>1, <1>2, Zenon DEF Turns

LEMMA OpenRuns ==
    ASSUME NEW s, NEW start, NEW m \in Nat, m = Len(s)
    PROVE  \E g : Turns(g, "open", start, <<>>, s, m) /\ OpenBatch(s, start) = g[m]
<1> DEFINE Runs(g) == g = [i \in 0..Len(s) |->
                IF i = 0 THEN <<>>
                ELSE IF s[i].seq >= start THEN Append(g[i - 1], s[i]) ELSE g[i - 1]]
<1>1. OpenBatch(s, start) = (CHOOSE g : Runs(g))[Len(s)]
  BY DEF OpenBatch
<1>2. \A g : Runs(g) <=> Turns(g, "open", start, <<>>, s, m)
  BY DEF Turns, Turn
<1>3. \E g : Runs(g)
  BY <1>2, LoopRuns
<1>4. PICK r : r = (CHOOSE g : Runs(g))
  OBVIOUS
<1> HIDE DEF Runs
<1>5. Runs(r)
  BY <1>3, <1>4
<1> QED
  BY <1>1, <1>2, <1>4, <1>5

LEMMA SeqSame ==
    ASSUME NEW S, NEW s \in Seq(S), NEW t \in Seq(S), Len(s) = Len(t),
           \A i \in 1..Len(s) : s[i] = t[i]
    PROVE  s = t
OBVIOUS

\* A part of a sequence with the element after it.
LEMMA SubSeqGrows ==
    ASSUME NEW S, NEW s \in Seq(S), NEW a \in Nat \ {0}, NEW n \in Nat, a <= n + 1, n + 1 <= Len(s)
    PROVE  SubSeq(s, a, n + 1) = Append(SubSeq(s, a, n), s[n + 1])
<1>1. PICK u, v, x : u = SubSeq(s, a, n + 1) /\ v = SubSeq(s, a, n) /\ x = s[n + 1]
  OBVIOUS
<1>2. n + 1 \in Nat /\ n <= Len(s) /\ x \in S
  BY <1>1
<1>3. /\ u \in Seq(S) /\ Len(u) = n - a + 2
      /\ \A i \in 1..Len(u) : u[i] = s[i + a - 1]
  BY <1>1, <1>2, SubSeqIs
<1>4. /\ v \in Seq(S) /\ Len(v) = n - a + 1
      /\ \A i \in 1..Len(v) : v[i] = s[i + a - 1]
  BY <1>1, <1>2, SubSeqIs
<1>5. PICK w : w = Append(v, x)
  OBVIOUS
<1>6. /\ w \in Seq(S) /\ Len(w) = n - a + 2 /\ w[n - a + 2] = x
      /\ \A i \in 1..(n - a + 1) : w[i] = v[i]
  BY <1>2, <1>4, <1>5, AppendFacts
<1>7. \A i \in 1..Len(u) : u[i] = w[i]
  <2> TAKE i \in 1..Len(u)
  <2>1. CASE i = n - a + 2
    <3>1. i + a - 1 = n + 1
      BY <2>1
    <3> QED
      BY <1>1, <1>3, <1>6, <2>1, <3>1
  <2>2. CASE i \in 1..(n - a + 1)
    BY <1>3, <1>4, <1>6, <2>2
  <2> QED
    BY <1>3, <2>1, <2>2
<1> QED
  BY <1>1, <1>3, <1>5, <1>6, <1>7, SeqSame

\* Numbered, of a sequence of records.
Numbers(s) == \A i \in 1..Len(s) : s[i].seq = i - 1

\* Records numbered by place: those from a number on are the rest.
LEMMA OpenIsRest ==
    ASSUME NEW s \in Seq(CheckRecord), Numbers(s), NEW start \in Nat, start <= Len(s)
    PROVE  OpenBatch(s, start) = SubSeq(s, start + 1, Len(s))
<1>1. PICK m : m = Len(s) /\ m \in Nat
  OBVIOUS
<1>2. PICK g : Turns(g, "open", start, <<>>, s, m) /\ OpenBatch(s, start) = g[m]
  BY <1>1, OpenRuns
<1>3. g[0] = <<>> /\ \A i \in 1..m : g[i] = Turn("open", start, g[i - 1], s[i])
  BY <1>1, <1>2, LoopTurns
<1> DEFINE Part(i) == SubSeq(s, start + 1, i)
           N == {i \in Nat : i <= m => g[i] = Part(i)}
<1>4. Part(0) = <<>>
  <2>1. start + 1 \in Nat \ {0} /\ 0 \in Nat /\ 0 <= Len(s) /\ 0 < start + 1
    BY <1>1
  <2> QED
    BY <2>1, SubSeqIs
<1>5. ASSUME NEW i \in Nat, i + 1 <= m
      PROVE  Part(i + 1) = IF i >= start THEN Append(Part(i), s[i + 1]) ELSE Part(i)
  <2>1. start + 1 \in Nat \ {0} /\ i + 1 \in Nat /\ i + 1 <= Len(s) /\ i <= Len(s)
    BY <1>1, <1>5
  <2>2. CASE i >= start
    BY <2>1, <2>2, SubSeqGrows
  <2>3. CASE i < start
    BY <2>1, <2>3, SubSeqIs
  <2> QED
    BY <2>2, <2>3
<1> HIDE DEF Part
<1>6. 0 \in N
  BY <1>3, <1>4
<1>7. ASSUME NEW i \in N PROVE i + 1 \in N
  <2> SUFFICES ASSUME i + 1 <= m PROVE g[i + 1] = Part(i + 1)
    OBVIOUS
  <2>1. i \in Nat /\ i + 1 \in 1..m /\ (i + 1) - 1 = i /\ g[i] = Part(i)
    BY <1>1
  <2>2. s[i + 1].seq = i
    BY <1>1, <2>1 DEF Numbers
  <2>3. g[i + 1] = IF i >= start THEN Append(g[i], s[i + 1]) ELSE g[i]
    BY <1>3, <2>1, <2>2 DEF Turn
  <2> QED
    BY <1>5, <2>1, <2>3
<1>8. N = Nat
  <2>1. N \in SUBSET Nat
    OBVIOUS
  <2> HIDE DEF N
  <2> QED
    BY <1>6, <1>7, <2>1, SetInduction
<1>9. g[m] = Part(m)
  BY <1>1, <1>8
<1> QED
  BY <1>1, <1>2, <1>9 DEF Part

-----------------------------------------------------------------------------
(* The ledger that a sequence of records makes, in closed form.            *)

Batches(n) == n \div BatchEvery

\* The full batches among the first n records.
LEMMA BatchFacts ==
    ASSUME NEW n \in Nat
    PROVE  /\ BatchEvery \in Nat \ {0} /\ Batches(n) \in Nat
           /\ Batches(n) * BatchEvery \in Nat /\ Batches(n) * BatchEvery <= n
           /\ n % BatchEvery = BatchEvery - 1 =>
                 Batches(n + 1) = Batches(n) + 1 /\ Batches(n + 1) * BatchEvery = n + 1
           /\ n % BatchEvery # BatchEvery - 1 => Batches(n + 1) = Batches(n)
BY LedgerConstants DEF Batches

LEMMA BatchOrder ==
    ASSUME NEW n \in Nat, NEW m \in Nat, m <= n
    PROVE  Batches(m) <= Batches(n)
BY LedgerConstants DEF Batches

LEMMA BatchPlace ==
    ASSUME NEW n \in Nat, NEW i \in 1..Batches(n)
    PROVE  /\ (i - 1) * BatchEvery + 1 \in Nat \ {0} /\ i * BatchEvery \in Nat
           /\ i * BatchEvery <= n /\ i * BatchEvery - 1 \in Nat
           /\ (i - 1) * BatchEvery + 1 <= i * BatchEvery
BY LedgerConstants DEF Batches

BatchSig(s, i) == [last |-> i * BatchEvery - 1,
                   over |-> SubSeq(s, (i - 1) * BatchEvery + 1, i * BatchEvery)]

SigsOf(s) == IF Signs THEN [i \in 1..Batches(Len(s)) |-> BatchSig(s, i)] ELSE <<>>

LedgerOf(s) ==
    [records |-> s, next |-> Len(s), window |-> WindowOf(s),
     hashes |-> SubSeq(s, Batches(Len(s)) * BatchEvery + 1, Len(s)), sigs |-> SigsOf(s)]

\* Signatures depend on the full batches only.
LEMMA SigsSame ==
    ASSUME NEW s \in Seq(CheckRecord), NEW t \in Seq(CheckRecord),
           Batches(Len(s)) = Batches(Len(t)),
           Len(s) <= Len(t), AgreeTo(s, t, Len(s))
    PROVE  SigsOf(s) = SigsOf(t)
<1>1. PICK n : n = Len(s) /\ n \in Nat
  OBVIOUS
<1>2. ASSUME NEW i \in 1..Batches(n) PROVE BatchSig(s, i) = BatchSig(t, i)
  <2>1. PICK a, b : a = (i - 1) * BatchEvery + 1 /\ b = i * BatchEvery
    OBVIOUS
  <2>2. a \in Nat \ {0} /\ b \in Nat /\ b <= Len(s) /\ b <= Len(t) /\ a <= b
    BY <1>1, <2>1, BatchPlace
  <2>3. PICK u, v : u = SubSeq(s, a, b) /\ v = SubSeq(t, a, b)
    OBVIOUS
  <2>4. /\ u \in Seq(CheckRecord) /\ Len(u) = b - a + 1
        /\ \A j \in 1..Len(u) : u[j] = s[j + a - 1]
    BY <2>2, <2>3, SubSeqIs
  <2>5. /\ v \in Seq(CheckRecord) /\ Len(v) = b - a + 1
        /\ \A j \in 1..Len(v) : v[j] = t[j + a - 1]
    BY <2>2, <2>3, SubSeqIs
  <2>6. \A j \in 1..Len(u) : u[j] = v[j]
    <3> TAKE j \in 1..Len(u)
    <3>1. j + a - 1 \in 1..Len(s)
      BY <1>1, <2>2, <2>4
    <3> QED
      BY <2>4, <2>5, <3>1 DEF AgreeTo
  <2>7. u = v
    BY <2>4, <2>5, <2>6, SeqSame
  <2> QED
    BY <2>1, <2>3, <2>7 DEF BatchSig
<1> QED
  BY <1>1, <1>2 DEF SigsOf

\* One signature for each full batch, if the tier signs.
LEMMA SigsAre ==
    ASSUME NEW s \in Seq(CheckRecord)
    PROVE  /\ SigsOf(s) \in Seq(Signature)
           /\ Signs => /\ Len(SigsOf(s)) = Batches(Len(s))
                       /\ \A i \in 1..Batches(Len(s)) : SigsOf(s)[i] = BatchSig(s, i)
           /\ ~Signs => SigsOf(s) = <<>>
<1>1. PICK n, b : n = Len(s) /\ b = Batches(n)
  OBVIOUS
<1>2. n \in Nat /\ b \in Nat
  BY <1>1, BatchFacts
<1>3. ASSUME NEW i \in 1..b PROVE BatchSig(s, i) \in Signature
  <2>1. PICK c, d : c = (i - 1) * BatchEvery + 1 /\ d = i * BatchEvery
    OBVIOUS
  <2>2. c \in Nat \ {0} /\ d \in Nat /\ d <= Len(s) /\ d - 1 \in Nat
    BY <1>1, <1>2, <2>1, BatchPlace
  <2>3. SubSeq(s, c, d) \in Seq(CheckRecord)
    BY <2>2, SubSeqIs
  <2> QED
    BY <2>1, <2>2, <2>3 DEF BatchSig, Signature
<1>4. CASE Signs
  <2>1. SigsOf(s) = [i \in 1..b |-> BatchSig(s, i)]
    BY <1>1, <1>4 DEF SigsOf
  <2> QED
    BY <1>1, <1>2, <1>3, <1>4, <2>1
<1>5. CASE ~Signs
  BY <1>5 DEF SigsOf
<1> QED
  BY <1>4, <1>5

\* The ledger of numbered records is well formed.
\* A ledger with these parts, and what the steps of apply_record make of it.
Parts(l, rs, n, w, h, sg) ==
    /\ DOMAIN l = {"records", "next", "window", "hashes", "sigs"}
    /\ l = [y \in DOMAIN l |-> l[y]]
    /\ l.records = rs /\ l.next = n /\ l.window = w /\ l.hashes = h /\ l.sigs = sg

\* A ledger is its fields.
LEMMA PartsSame ==
    ASSUME NEW rs, NEW n, NEW w, NEW h, NEW sg, NEW l, NEW m,
           Parts(l, rs, n, w, h, sg), Parts(m, rs, n, w, h, sg)
    PROVE  l = m
BY DEF Parts

LEMMA LedgerOfParts ==
    ASSUME NEW s, NEW h, h = SubSeq(s, Batches(Len(s)) * BatchEvery + 1, Len(s))
    PROVE  Parts(LedgerOf(s), s, Len(s), WindowOf(s), h, SigsOf(s))
BY DEF Parts, LedgerOf

LEMMA PartsCounted ==
    ASSUME NEW rs, NEW n, NEW w, NEW h, NEW sg, NEW l, Parts(l, rs, n, w, h, sg), NEW r, NEW v, NEW x,
           v = IF r.kind = "audit" THEN Pushed(w, r.outcome = "agree", Window) ELSE w,
           x = Append(h, r)
    PROVE  Parts(Counted(l, r), rs, n, v, x, sg)
<1>1. Counted(l, r) = [l EXCEPT !.hashes = x, !.window = v]
  BY DEF Counted, Parts
<1> QED
  BY <1>1 DEF Parts

LEMMA PartsSigned ==
    ASSUME NEW rs, NEW n, NEW w, NEW h, NEW sg, NEW l, Parts(l, rs, n, w, h, sg), NEW d,
           d = IF Signs THEN Append(sg, [last |-> n, over |-> h]) ELSE sg
    PROVE  Parts(Signed(l), rs, n, w, <<>>, d)
<1>1. Signed(l) = [l EXCEPT !.sigs = d, !.hashes = <<>>]
  BY DEF Signed, Parts
<1> QED
  BY <1>1 DEF Parts

LEMMA PartsKept ==
    ASSUME NEW rs, NEW n, NEW w, NEW h, NEW sg, NEW l, Parts(l, rs, n, w, h, sg), NEW r, NEW t,
           t = Append(rs, r)
    PROVE  Parts(Kept(l, r), t, n + 1, w, h, sg)
<1>1. Kept(l, r) = [l EXCEPT !.records = t, !.next = n + 1]
  BY DEF Kept, Parts
<1> QED
  BY <1>1 DEF Parts

\* The part of s after m, with one record more.
LEMMA RestGrows ==
    ASSUME NEW s \in Seq(CheckRecord), NEW r \in CheckRecord, NEW m \in Nat, m <= Len(s)
    PROVE  Append(SubSeq(s, m + 1, Len(s)), r) = SubSeq(Append(s, r), m + 1, Len(s) + 1)
<1>1. PICK t, n : t = Append(s, r) /\ n = Len(s)
  OBVIOUS
<1>2. n \in Nat /\ t \in Seq(CheckRecord) /\ Len(t) = n + 1 /\ t[n + 1] = r
      /\ (\A i \in 1..n : t[i] = s[i]) /\ m + 1 \in Nat \ {0} /\ m <= n
  BY <1>1, AppendFacts
<1>3. SubSeq(t, m + 1, n + 1) = Append(SubSeq(t, m + 1, n), r)
  <2>1. m + 1 <= n + 1 /\ n + 1 <= Len(t)
    BY <1>2
  <2> QED
    BY <1>2, <2>1, SubSeqGrows
<1>4. SubSeq(t, m + 1, n) = SubSeq(s, m + 1, n)
  <2>1. PICK u, v : u = SubSeq(s, m + 1, n) /\ v = SubSeq(t, m + 1, n)
    OBVIOUS
  <2>2. /\ u \in Seq(CheckRecord) /\ Len(u) = n - m
        /\ \A j \in 1..Len(u) : u[j] = s[j + m]
    BY <1>1, <1>2, <2>1, SubSeqIs
  <2>3. /\ v \in Seq(CheckRecord) /\ Len(v) = n - m
        /\ \A j \in 1..Len(v) : v[j] = t[j + m]
    BY <1>1, <1>2, <2>1, SubSeqIs
  <2>4. \A j \in 1..Len(u) : j + m \in 1..n
    BY <1>2, <2>2
  <2>5. \A j \in 1..Len(u) : u[j] = v[j]
    BY <1>2, <2>2, <2>3, <2>4
  <2> QED
    BY <2>1, <2>2, <2>3, <2>5, SeqSame
<1> QED
  BY <1>1, <1>3, <1>4

\* A full batch adds its signature.
LEMMA SigsGrow ==
    ASSUME NEW s \in Seq(CheckRecord), NEW r \in CheckRecord, NEW n \in Nat, n = Len(s),
           n % BatchEvery = BatchEvery - 1, NEW h,
           h = SubSeq(Append(s, r), Batches(n) * BatchEvery + 1, n + 1)
    PROVE  SigsOf(Append(s, r)) =
               IF Signs THEN Append(SigsOf(s), [last |-> n, over |-> h]) ELSE SigsOf(s)
<1>1. PICK t, b, x : t = Append(s, r) /\ b = Batches(n) /\ x = [last |-> n, over |-> h]
  OBVIOUS
<1>2. t \in Seq(CheckRecord) /\ Len(t) = n + 1 /\ AgreeTo(s, t, n)
  BY <1>1, AppendFacts DEF AgreeTo
<1>3. b \in Nat /\ Batches(n + 1) = b + 1 /\ (b + 1) * BatchEvery = n + 1 /\ b * BatchEvery <= n
      /\ BatchEvery \in Nat \ {0}
  BY <1>1, BatchFacts
<1>4. CASE ~Signs
  BY <1>1, <1>4 DEF SigsOf
<1>5. CASE Signs
  <2>1. /\ SigsOf(s) \in Seq(Signature) /\ Len(SigsOf(s)) = b
        /\ \A i \in 1..b : SigsOf(s)[i] = BatchSig(s, i)
    BY <1>1, <1>5, SigsAre
  <2>2. /\ SigsOf(t) \in Seq(Signature) /\ Len(SigsOf(t)) = b + 1
        /\ \A i \in 1..(b + 1) : SigsOf(t)[i] = BatchSig(t, i)
    BY <1>2, <1>3, <1>5, SigsAre
  <2>3. x = BatchSig(t, b + 1)
    <3>1. (b + 1) * BatchEvery - 1 = n /\ (b + 1) - 1 = b
      BY <1>3
    <3> QED
      BY <1>1, <1>3, <3>1 DEF BatchSig
  <2>4. x \in Signature
    <3>1. b + 1 \in 1..(b + 1)
      BY <1>3
    <3> QED
      BY <2>2, <2>3, <3>1
  <2>5. PICK u, v, w : u = SigsOf(s) /\ v = SigsOf(t) /\ w = Append(u, x)
    OBVIOUS
  <2>6. /\ w \in Seq(Signature) /\ Len(w) = b + 1 /\ w[b + 1] = x
        /\ \A i \in 1..b : w[i] = u[i]
    BY <2>1, <2>4, <2>5, AppendFacts
  <2>7. ASSUME NEW i \in 1..b PROVE BatchSig(s, i) = BatchSig(t, i)
    <3>1. PICK p, q : p = (i - 1) * BatchEvery + 1 /\ q = i * BatchEvery
      OBVIOUS
    <3>2. p \in Nat \ {0} /\ q \in Nat /\ q <= n
      BY <1>1, <3>1, BatchPlace
    <3>3. PICK y, z : y = SubSeq(s, p, q) /\ z = SubSeq(t, p, q)
      OBVIOUS
    <3>4. /\ y \in Seq(CheckRecord) /\ Len(y) = (IF p <= q THEN q - p + 1 ELSE 0)
          /\ \A j \in 1..Len(y) : y[j] = s[j + p - 1]
      <4>1. s \in Seq(CheckRecord) /\ q <= Len(s)
        BY <3>2
      <4>2. /\ SubSeq(s, p, q) \in Seq(CheckRecord)
            /\ Len(SubSeq(s, p, q)) = IF p <= q THEN q - p + 1 ELSE 0
            /\ \A j \in 1..Len(SubSeq(s, p, q)) : SubSeq(s, p, q)[j] = s[j + p - 1]
        BY ONLY <3>2, <4>1, SubSeqIs
      <4> QED
        BY ONLY <3>3, <4>2
    <3>5. /\ z \in Seq(CheckRecord) /\ Len(z) = (IF p <= q THEN q - p + 1 ELSE 0)
          /\ \A j \in 1..Len(z) : z[j] = t[j + p - 1]
      <4>1. t \in Seq(CheckRecord) /\ q <= Len(t)
        BY <1>2, <3>2
      <4>2. /\ SubSeq(t, p, q) \in Seq(CheckRecord)
            /\ Len(SubSeq(t, p, q)) = IF p <= q THEN q - p + 1 ELSE 0
            /\ \A j \in 1..Len(SubSeq(t, p, q)) : SubSeq(t, p, q)[j] = t[j + p - 1]
        BY ONLY <3>2, <4>1, SubSeqIs
      <4> QED
        BY ONLY <3>3, <4>2
    <3>6. \A j \in 1..Len(y) : j + p - 1 \in 1..n
      BY <3>2, <3>4
    <3>7. \A j \in 1..Len(y) : y[j] = z[j]
      BY <1>2, <3>4, <3>5, <3>6 DEF AgreeTo
    <3>8. y = z
      BY <3>4, <3>5, <3>7, SeqSame
    <3> QED
      BY <3>1, <3>3, <3>8 DEF BatchSig
  <2>8. \A i \in 1..(b + 1) : w[i] = v[i]
    <3> TAKE i \in 1..(b + 1)
    <3>1. CASE i = b + 1
      BY <2>2, <2>3, <2>5, <2>6, <3>1
    <3>2. CASE i \in 1..b
      BY <2>1, <2>2, <2>5, <2>6, <2>7, <3>2
    <3> QED
      BY <1>3, <3>1, <3>2
  <2>9. w = v
    BY <2>2, <2>5, <2>6, <2>8, SeqSame
  <2> QED
    BY <1>1, <1>5, <2>5, <2>9
<1> QED
  BY <1>4, <1>5

\* What apply_record makes of a ledger is the ledger of one record more.
LEMMA ApplyOf ==
    ASSUME NEW s \in Seq(CheckRecord), NEW r \in CheckRecord, r.seq = Len(s)
    PROVE  ApplyRecord(LedgerOf(s), r) = LedgerOf(Append(s, r))
<1>1. PICK t, n, b : t = Append(s, r) /\ n = Len(s) /\ b = Batches(n)
  OBVIOUS
<1>2. n \in Nat /\ t \in Seq(CheckRecord) /\ Len(t) = n + 1 /\ AgreeTo(s, t, n)
  BY <1>1, AppendFacts DEF AgreeTo
<1>3. b \in Nat /\ b * BatchEvery \in Nat /\ b * BatchEvery <= n
  BY <1>1, <1>2, BatchFacts
<1>4. PICK w, h, sg, v, x : /\ w = WindowOf(s) /\ v = WindowOf(t) /\ sg = SigsOf(s)
                            /\ h = SubSeq(s, b * BatchEvery + 1, n)
                            /\ x = SubSeq(t, b * BatchEvery + 1, n + 1)
  OBVIOUS
<1>5. v = IF r.kind = "audit" THEN Pushed(w, r.outcome = "agree", Window) ELSE w
  BY <1>1, <1>4, WindowGrows
<1>6. Append(h, r) = x
  BY <1>1, <1>3, <1>4, RestGrows
<1>7. PICK l, c : l = LedgerOf(s) /\ c = Counted(l, r)
  OBVIOUS
<1>8. Parts(l, s, n, w, h, sg)
  BY <1>1, <1>4, <1>7, LedgerOfParts
<1>9. Parts(c, s, n, v, x, sg) /\ l.next = n
  BY <1>5, <1>6, <1>7, <1>8, PartsCounted DEF Parts
<1>10. CASE n % BatchEvery = BatchEvery - 1
  <2>1. PICK d, e : /\ d = (IF Signs THEN Append(sg, [last |-> n, over |-> x]) ELSE sg)
                    /\ e = Signed(c)
    OBVIOUS
  <2>2. BatchEnds(l)
    BY <1>9, <1>10 DEF BatchEnds
  <2>3. ApplyRecord(l, r) = Kept(e, r)
    BY <1>1, <1>7, <1>9, <2>1, <2>2 DEF ApplyRecord
  <2>4. Parts(e, s, n, v, <<>>, d)
    BY <1>9, <2>1, PartsSigned
  <2>5. Parts(Kept(e, r), t, n + 1, v, <<>>, d)
    BY <1>1, <2>4, PartsKept
  <2>6. d = SigsOf(t)
    BY <1>1, <1>2, <1>4, <1>10, <2>1, SigsGrow
  <2>7. SubSeq(t, Batches(n + 1) * BatchEvery + 1, n + 1) = <<>>
    <3>1. Batches(n + 1) * BatchEvery = n + 1
      BY <1>2, <1>10, BatchFacts
    <3>2. (n + 1) + 1 \in Nat \ {0} /\ n + 1 \in Nat /\ n + 1 <= Len(t) /\ n + 1 < (n + 1) + 1
      BY <1>2
    <3> QED
      BY <1>2, <3>1, <3>2, SubSeqIs
  <2>8. Parts(LedgerOf(t), t, n + 1, v, <<>>, d)
    BY <1>2, <1>4, <2>6, <2>7, LedgerOfParts
  <2>9. Kept(e, r) = LedgerOf(t)
    BY <2>5, <2>8, PartsSame
  <2> QED
    BY <1>1, <1>7, <2>3, <2>9
<1>11. CASE n % BatchEvery # BatchEvery - 1
  <2>1. ~BatchEnds(l)
    BY <1>9, <1>11 DEF BatchEnds
  <2>2. ApplyRecord(l, r) = Kept(c, r)
    BY <1>1, <1>7, <1>9, <2>1 DEF ApplyRecord
  <2>3. Parts(Kept(c, r), t, n + 1, v, x, sg)
    BY <1>1, <1>9, PartsKept
  <2>4. Batches(n + 1) = b
    BY <1>1, <1>2, <1>11, BatchFacts
  <2>5. sg = SigsOf(t)
    <3>1. Batches(Len(s)) = Batches(Len(t)) /\ Len(s) <= Len(t) /\ AgreeTo(s, t, Len(s))
      BY <1>1, <1>2, <2>4
    <3> QED
      BY <1>2, <1>4, <3>1, SigsSame
  <2>6. Parts(LedgerOf(t), t, n + 1, v, x, sg)
    BY <1>2, <1>4, <2>4, <2>5, LedgerOfParts
  <2>7. Kept(c, r) = LedgerOf(t)
    BY <2>3, <2>6, PartsSame
  <2> QED
    BY <1>1, <1>7, <2>2, <2>7
<1> QED
  BY <1>10, <1>11

\* The replay of the next record gives the same, and one before it nothing.
LEMMA ReplayOf ==
    ASSUME NEW s \in Seq(CheckRecord), NEW r \in CheckRecord
    PROVE  /\ r.seq = Len(s) => ReplayRecord(LedgerOf(s), r) = LedgerOf(Append(s, r))
           /\ r.seq < Len(s) => ReplayRecord(LedgerOf(s), r) = LedgerOf(s)
           /\ r.seq <= Len(s) => ~ReplayGap(LedgerOf(s), r)
<1>1. PICK l, n : l = LedgerOf(s) /\ n = Len(s)
  OBVIOUS
<1>2. n \in Nat /\ l.next = n /\ l.sigs = SigsOf(s) /\ r.seq \in Nat
  BY <1>1 DEF LedgerOf, CheckRecord
<1>3. \A i \in DOMAIN l.sigs : l.sigs[i].last # l.next
  <2>1. CASE ~Signs
    BY <1>2, <2>1, SigsAre
  <2>2. CASE Signs
    <3>1. PICK b : b = Batches(n)
      OBVIOUS
    <3>2. DOMAIN l.sigs = 1..b /\ \A i \in 1..b : l.sigs[i] = BatchSig(s, i)
      BY <1>1, <1>2, <2>2, <3>1, SigsAre
    <3>3. \A i \in 1..b : BatchSig(s, i).last # n
      <4> TAKE i \in 1..b
      <4>1. PICK q : q = i * BatchEvery
        OBVIOUS
      <4>2. q \in Nat /\ q <= n
        BY <1>2, <3>1, <4>1, BatchPlace
      <4>3. BatchSig(s, i).last = q - 1
        BY <4>1 DEF BatchSig
      <4> QED
        BY <1>2, <4>2, <4>3
    <3> QED
      BY <1>2, <3>2, <3>3
  <2> QED
    BY <2>1, <2>2
<1>4. r.seq = n => ReplayRecord(l, r) = ApplyRecord(l, r)
  BY <1>3 DEF ReplayRecord, ApplyRecord
<1>5. r.seq < n => ReplayRecord(l, r) = l
  BY <1>2 DEF ReplayRecord
<1>6. r.seq <= n => ~ReplayGap(l, r)
  BY <1>2 DEF ReplayGap
<1> QED
  BY <1>1, <1>4, <1>5, <1>6, ApplyOf

\* restore_state, which makes the agreement window and the open batch again from
\* the records, gives back the ledger that snapshot_state was taken of, for any
\* number of records, any window and any batch size.
THEOREM RestoredOf ==
    ASSUME NEW s \in Seq(CheckRecord), Numbers(s)
    PROVE  Restored(LedgerOf(s)) = LedgerOf(s)
<1>1. PICK n, m : n = Len(s) /\ m = Batches(n) * BatchEvery
  OBVIOUS
<1>2. n \in Nat /\ m \in Nat /\ m <= n
  BY <1>1, BatchFacts
<1>3. OpenBatch(s, m) = SubSeq(s, m + 1, n)
  BY <1>1, <1>2, OpenIsRest
<1>4. PICK l, w, h : l = LedgerOf(s) /\ w = WindowOf(s) /\ h = SubSeq(s, m + 1, n)
  OBVIOUS
<1>5. Parts(l, s, n, w, h, SigsOf(s))
  BY <1>1, <1>4, LedgerOfParts
<1>6. Restored(l) = [l EXCEPT !.window = w, !.hashes = h]
  <2>1. (l.next \div BatchEvery) * BatchEvery = m /\ l.records = s
    BY <1>1, <1>5 DEF Parts, Batches
  <2> QED
    BY <1>3, <1>4, <2>1 DEF Restored
<1>7. Parts(Restored(l), s, n, w, h, SigsOf(s))
  BY <1>5, <1>6 DEF Parts
<1> QED
  BY <1>4, <1>5, <1>7, PartsSame

\* Where the tier signs, verify_batch_signatures accepts the ledger of any
\* records: one signature for each full batch, over it.
THEOREM VerifiedOf ==
    ASSUME NEW s \in Seq(CheckRecord), Signs
    PROVE  VerifyBatches(LedgerOf(s))
<1>1. PICK b : b = Batches(Len(s))
  OBVIOUS
<1>2. Len(SigsOf(s)) = b /\ \A i \in 1..b : SigsOf(s)[i] = BatchSig(s, i)
  BY <1>1, SigsAre
<1>3. LedgerOf(s).sigs = SigsOf(s) /\ LedgerOf(s).records = s
  BY DEF LedgerOf
<1>4. PICK l : l = LedgerOf(s)
  OBVIOUS
<1>5. Len(l.records) \div BatchEvery = b /\ Len(l.sigs) = b
      /\ \A i \in 1..b : l.sigs[i] = BatchSig(l.records, i)
  BY <1>1, <1>2, <1>3, <1>4 DEF Batches
<1>6. \A i : BatchSig(l.records, i).last = i * BatchEvery - 1
             /\ BatchSig(l.records, i).over =
                    SubSeq(l.records, (i - 1) * BatchEvery + 1, i * BatchEvery)
  BY DEF BatchSig
<1>7. VerifyBatches(l)
  BY <1>5, <1>6 DEF VerifyBatches
<1> QED
  BY <1>4, <1>7

-----------------------------------------------------------------------------
(* The cells of the curators: replaying what they have seen.               *)

Fields == {"lib", "facets", "audits", "adj", "queue", "stats", "ledger"}
Formed(c) == DOMAIN c = Fields /\ c = [y \in Fields |-> c[y]]

\* The same cells, the ledger apart.
Same(c, d) ==
    /\ c.lib = d.lib /\ c.facets = d.facets /\ c.audits = d.audits
    /\ c.adj = d.adj /\ c.queue = d.queue /\ c.stats = d.stats

\* Cells are their fields.
LEMMA FormedSame ==
    ASSUME NEW c, NEW d, Formed(c), Formed(d), Same(c, d), c.ledger = d.ledger
    PROVE  c = d
BY DEF Formed, Same, Fields

Judgment(t) == [id |-> t.o, of |-> t.p, pass |-> t.v]
OthersThan(s, n) == {a \in s : a.id # n}

\* What a transaction does to each field.
Effect(c, d, t) ==
    /\ d.ledger = c.ledger
    /\ Formed(c) => Formed(d)
    /\ t.k = "output" =>
          /\ d.lib = [c.lib EXCEPT ![t.o] = t.v]
          /\ d.facets = (IF t.v = "pending" THEN c.facets \cup {t.o} ELSE c.facets)
          /\ d.audits = c.audits /\ d.adj = c.adj /\ d.queue = c.queue /\ d.stats = c.stats
    /\ t.k = "audit" =>
          /\ d.audits = OthersThan(c.audits, t.o) \cup {Judgment(t)}
          /\ d.lib = c.lib /\ d.facets = c.facets
          /\ d.adj = c.adj /\ d.queue = c.queue /\ d.stats = c.stats
    /\ t.k = "flag" => d = c
    /\ t.k = "adjudication" =>
          d.facets = c.facets /\ d.audits = c.audits /\ AdjudicatedIn(c, d, t)
    /\ t.k = "resolve" =>
          d.facets = c.facets /\ d.audits = c.audits /\ ResolvedIn(c, d, t)

LEMMA Effects ==
    ASSUME NEW c, CellsOK(c), QueueOK(c), NEW t \in Txs, NEW d, d = Applied(c, t)
    PROVE  Effect(c, d, t)
<1>0. DOMAIN c = Fields
  BY DEF CellsOK, Fields
<1>1. CASE t.k = "output"
  <2>1. PICK x, f : /\ x = [c.lib EXCEPT ![t.o] = t.v]
                    /\ f = (IF t.v = "pending" THEN c.facets \cup {t.o} ELSE c.facets)
    OBVIOUS
  <2>2. d = [c EXCEPT !.lib[t.o] = t.v,
                      !.facets = IF t.v = "pending" THEN @ \cup {t.o} ELSE @]
    BY <1>1 DEF Applied
  <2>3. d = [c EXCEPT !.lib = x, !.facets = f]
    BY <1>0, <2>1, <2>2 DEF Fields
  <2>4. /\ DOMAIN d = Fields /\ d.lib = x /\ d.facets = f /\ d.audits = c.audits
        /\ d.adj = c.adj /\ d.queue = c.queue /\ d.stats = c.stats /\ d.ledger = c.ledger
    BY <1>0, <2>3 DEF Fields
  <2>5. d = [y \in Fields |-> d[y]]
    BY <1>0, <2>3
  <2> QED
    BY <1>1, <2>1, <2>4, <2>5 DEF Effect, Formed
<1>2. CASE t.k = "audit"
  <2>1. PICK x : x = OthersThan(c.audits, t.o) \cup {Judgment(t)}
    OBVIOUS
  <2>2. d = [c EXCEPT !.audits = x]
    BY <1>2, <2>1 DEF Applied, OthersThan, Judgment
  <2>3. /\ DOMAIN d = Fields /\ d.lib = c.lib /\ d.facets = c.facets /\ d.audits = x
        /\ d.adj = c.adj /\ d.queue = c.queue /\ d.stats = c.stats /\ d.ledger = c.ledger
    BY <1>0, <2>2 DEF Fields
  <2>4. d = [y \in Fields |-> d[y]]
    BY <1>0, <2>2
  <2> QED
    BY <1>2, <2>1, <2>3, <2>4 DEF Effect, Formed
<1>3. CASE t.k = "flag"
  <2>1. d = c
    BY <1>3 DEF Applied
  <2> QED
    BY <1>3, <2>1 DEF Effect
<1>4. CASE t.k = "adjudication"
  <2>1. t \in AdjudicationTxs
    BY <1>4, TxKindsApart
  <2>2. AdjudicatedIn(c, d, t)
    BY <2>1, AdjudicationApplied
  <2>3. d = Adjudicated(c, t)
    BY <1>4 DEF Applied
  <2>4. CASE d = c
    BY <1>4, <2>2, <2>4 DEF Effect
  <2>5. CASE \E x, y, z : d = [c EXCEPT !.adj = x, !.stats = y, !.queue = z]
    <3>1. PICK x, y, z : d = [c EXCEPT !.adj = x, !.stats = y, !.queue = z]
      BY <2>5
    <3>2. DOMAIN d = Fields /\ d.facets = c.facets /\ d.audits = c.audits /\ d.ledger = c.ledger
      BY <1>0, <3>1 DEF Fields
    <3>3. d = [u \in Fields |-> d[u]]
      BY <1>0, <3>1
    <3> QED
      BY <1>4, <2>2, <3>2, <3>3 DEF Effect, Formed
  <2>6. d = c \/ \E x, y, z : d = [c EXCEPT !.adj = x, !.stats = y, !.queue = z]
    <3>1. CASE c.adj[t.o].res # "none"
      BY <2>3, <3>1 DEF Adjudicated
    <3>2. CASE c.adj[t.o].res = "none"
      <4>1. PICK x, y, z : /\ x = [c.adj EXCEPT ![t.o] = [res |-> t.v, path |-> t.p, human |-> FALSE]]
                           /\ y = [c.stats EXCEPT ![t.p] = @ + 1]
                           /\ z = (IF t.v = "human" THEN Append(c.queue, t.o) ELSE c.queue)
        OBVIOUS
      <4>2. d = [c EXCEPT !.adj[t.o] = [res |-> t.v, path |-> t.p, human |-> FALSE],
                          !.stats[t.p] = @ + 1,
                          !.queue = IF t.v = "human" THEN Append(@, t.o) ELSE @]
        BY <2>3, <3>2 DEF Adjudicated
      <4>3. d = [c EXCEPT !.adj = x, !.stats = y, !.queue = z]
        BY <1>0, <4>1, <4>2 DEF Fields
      <4> QED
        BY <4>3
    <3> QED
      BY <3>1, <3>2
  <2> QED
    BY <2>4, <2>5, <2>6
<1>5. CASE t.k = "resolve"
  <2>1. t \in ResolveTxs
    BY <1>5, TxKindsApart
  <2>2. ResolvedIn(c, d, t)
    BY <2>1, ResolveApplied
  <2>3. d = HumanResolved(c, t)
    BY <1>5 DEF Applied
  <2>4. PICK l, b : /\ l = (IF t.v = "auditor" THEN "quarantined" ELSE "active")
                    /\ b = [c EXCEPT !.lib[t.o] = l]
    OBVIOUS
  <2>5. /\ DOMAIN b = Fields /\ b.facets = c.facets /\ b.audits = c.audits
        /\ b.ledger = c.ledger /\ b = [u \in Fields |-> b[u]]
    BY <1>0, <2>4 DEF Fields
  <2>6. d = b \/ \E x, z : d = [b EXCEPT !.adj = x, !.queue = z]
    <3>1. CASE c.adj[t.o].human
      BY <2>3, <2>4, <3>1 DEF HumanResolved
    <3>2. CASE ~ c.adj[t.o].human
      <4>1. d = [b EXCEPT !.adj[t.o] = [@ EXCEPT !.res = t.v, !.human = TRUE],
                          !.queue = Without(@, t.o)]
        BY <2>3, <2>4, <3>2 DEF HumanResolved
      <4>2. PICK x, z : /\ x = [b.adj EXCEPT ![t.o] = [b.adj[t.o] EXCEPT !.res = t.v, !.human = TRUE]]
                        /\ z = Without(b.queue, t.o)
        OBVIOUS
      <4>3. d = [b EXCEPT !.adj = x, !.queue = z]
        BY <2>5, <4>1, <4>2 DEF Fields
      <4> QED
        BY <4>3
    <3> QED
      BY <3>1, <3>2
  <2>7. /\ DOMAIN d = Fields /\ d.facets = c.facets /\ d.audits = c.audits
        /\ d.ledger = c.ledger /\ d = [u \in Fields |-> d[u]]
    <3>1. CASE d = b
      BY <2>5, <3>1
    <3>2. CASE \E x, z : d = [b EXCEPT !.adj = x, !.queue = z]
      BY <2>5, <3>2 DEF Fields
    <3> QED
      BY <2>6, <3>1, <3>2
  <2> QED
    BY <1>5, <2>2, <2>7 DEF Effect, Formed
<1> QED
  BY <1>1, <1>2, <1>3, <1>4, <1>5, TxKindsApart

\* Transactions do the same to the same cells.
LEMMA SameApplied ==
    ASSUME NEW c, NEW d, CellsOK(c), CellsOK(d), QueueOK(c), QueueOK(d), Same(c, d), NEW t \in Txs
    PROVE  /\ Same(Applied(c, t), Applied(d, t))
           /\ Replayable(c, t) <=> Replayable(d, t)
<1>1. PICK x, y : x = Applied(c, t) /\ y = Applied(d, t)
  OBVIOUS
<1>2. Effect(c, x, t) /\ Effect(d, y, t)
  BY <1>1, Effects
<1>3. Replayable(c, t) <=> Replayable(d, t)
  BY DEF Same, Replayable
<1>4. Same(x, y)
  <2>1. CASE t.k = "output"
    BY <1>2, <2>1 DEF Effect, Same
  <2>2. CASE t.k = "audit"
    BY <1>2, <2>2 DEF Effect, Same
  <2>3. CASE t.k = "flag"
    BY <1>2, <2>3 DEF Effect, Same
  <2>4. CASE t.k = "adjudication"
    BY <1>2, <2>4 DEF Effect, Same, AdjudicatedIn
  <2>5. CASE t.k = "resolve"
    BY <1>2, <2>5 DEF Effect, Same, ResolvedIn
  <2> QED
    BY <2>1, <2>2, <2>3, <2>4, <2>5, TxKindsApart
<1> QED
  BY <1>1, <1>3, <1>4

\* What later cells keep of earlier ones.
Later(c, d) ==
    /\ c.facets \subseteq d.facets
    /\ \A o \in Writes : /\ c.adj[o].res # "none" => d.adj[o].res # "none"
                         /\ c.adj[o].human => d.adj[o].human

\* A human speaks on disputes only.
HumanOK(c) == \A o \in Writes : c.adj[o].human => c.adj[o].res # "none"

\* No transaction takes an adjudication or a facet back.
LEMMA LaterApplied ==
    ASSUME NEW c, CellsOK(c), QueueOK(c), HumanOK(c), NEW t \in Txs
    PROVE  Later(c, Applied(c, t)) /\ HumanOK(Applied(c, t))
<1>1. PICK d : d = Applied(c, t)
  OBVIOUS
<1>2. Effect(c, d, t) /\ c.adj \in [Writes -> Adjudication]
  BY <1>1, Effects DEF CellsOK
<1>3. Later(c, d) /\ HumanOK(d)
  <2>1. CASE t.k \in {"output", "audit", "flag"}
    BY <1>2, <2>1 DEF Effect, Later, HumanOK
  <2>2. CASE t.k = "adjudication"
    <3>1. t.o \in Writes /\ t.v # "none"
      BY <2>2, TxKindsApart DEF AdjudicationTxs, Judged
    <3>2. d.facets = c.facets /\ AdjudicatedIn(c, d, t)
      BY <1>2, <2>2 DEF Effect
    <3>3. CASE c.adj[t.o].res # "none"
      BY <3>2, <3>3 DEF AdjudicatedIn, Later, HumanOK
    <3>4. CASE c.adj[t.o].res = "none"
      <4>1. d.adj = [c.adj EXCEPT ![t.o] = [res |-> t.v, path |-> t.p, human |-> FALSE]]
        BY <3>2, <3>4 DEF AdjudicatedIn
      <4>2. \A o \in Writes : o # t.o => d.adj[o] = c.adj[o]
        BY <1>2, <3>1, <4>1
      <4>3. d.adj[t.o].res # "none" /\ ~ c.adj[t.o].human
        BY <1>2, <3>1, <3>4, <4>1 DEF HumanOK
      <4> QED
        BY <3>2, <3>4, <4>2, <4>3 DEF Later, HumanOK
    <3> QED
      BY <3>3, <3>4
  <2>3. CASE t.k = "resolve"
    <3>1. t.o \in Writes /\ t.v # "none"
      BY <2>3, TxKindsApart DEF ResolveTxs
    <3>2. d.facets = c.facets /\ ResolvedIn(c, d, t)
      BY <1>2, <2>3 DEF Effect
    <3>3. CASE c.adj[t.o].human
      BY <3>2, <3>3 DEF ResolvedIn, Later, HumanOK
    <3>4. CASE ~ c.adj[t.o].human
      <4>1. PICK e : e = Resolved(c.adj[t.o], t.v)
        OBVIOUS
      <4>2. e.res = t.v /\ e.human = TRUE
        BY <1>2, <3>1, <4>1 DEF Resolved, Adjudication
      <4>3. d.adj = [c.adj EXCEPT ![t.o] = e]
        BY <3>2, <3>4, <4>1 DEF ResolvedIn
      <4>4. (\A o \in Writes : o # t.o => d.adj[o] = c.adj[o]) /\ d.adj[t.o] = e
        BY <1>2, <3>1, <4>3
      <4> QED
        BY <3>1, <3>2, <4>2, <4>4 DEF Later, HumanOK
    <3> QED
      BY <3>3, <3>4
  <2> QED
    BY <2>1, <2>2, <2>3, TxKindsApart
<1> QED
  BY <1>1, <1>3

LEMMA LaterAll ==
    ASSUME NEW c, NEW d, NEW e
    PROVE  Later(c, c) /\ (Later(c, d) /\ Later(d, e) => Later(c, e))
BY DEF Later

CellsGood(c) == CellsOK(c) /\ QueueOK(c) /\ HumanOK(c)

\* h has the cells after each transaction of the log.
History(h, w) ==
    /\ h[0] = NewCells
    /\ \A n \in 0..Len(w) : CellsGood(h[n])
    /\ \A n \in 0..Len(w) : n < Len(w) =>
          h[n + 1] = Applied(h[n], w[n + 1]) /\ Replayable(h[n], w[n + 1])
    /\ \A m, n \in 0..Len(w) : m <= n => Later(h[m], h[n])

Extends(g, h, n) == \A i \in 0..n : g[i] = h[i]

\* A committed transaction adds one step to the history.
LEMMA HistoryGrows ==
    ASSUME NEW w \in Seq(Txs), NEW h, History(h, w), NEW t \in Txs, Replayable(h[Len(w)], t)
    PROVE  \E g : /\ History(g, Append(w, t)) /\ Extends(g, h, Len(w))
                  /\ g[Len(w) + 1] = Applied(h[Len(w)], t)
<1>1. PICK n, v : n = Len(w) /\ v = Append(w, t)
  OBVIOUS
<1>2. n \in Nat /\ Len(v) = n + 1 /\ v[n + 1] = t /\ \A i \in 1..n : v[i] = w[i]
  BY <1>1, AppendFacts
<1>3. PICK x, d : x = h[n] /\ d = Applied(x, t)
  OBVIOUS
<1>4. CellsGood(x) /\ Replayable(x, t)
  BY <1>1, <1>2, <1>3 DEF History
<1>5. CellsGood(d) /\ Later(x, d)
  BY <1>3, <1>4, AppliedKeeps, LaterApplied DEF CellsGood
<1>6. PICK g : g = [i \in 0..(n + 1) |-> IF i <= n THEN h[i] ELSE d]
  OBVIOUS
<1>7. (\A i \in 0..n : g[i] = h[i]) /\ g[n + 1] = d
  BY <1>2, <1>6
<1>8. g[0] = NewCells
  BY <1>1, <1>2, <1>7 DEF History
<1>9. \A i \in 0..(n + 1) : CellsGood(g[i])
  <2> TAKE i \in 0..(n + 1)
  <2>1. CASE i \in 0..n
    BY <1>1, <1>7, <2>1 DEF History
  <2>2. CASE i = n + 1
    BY <1>5, <1>7, <2>2
  <2> QED
    BY <1>2, <2>1, <2>2
<1>10. ASSUME NEW i \in 0..(n + 1), i < n + 1
       PROVE  g[i + 1] = Applied(g[i], v[i + 1]) /\ Replayable(g[i], v[i + 1])
  <2>1. CASE i = n
    <3>1. g[i] = x /\ v[i + 1] = t /\ g[i + 1] = d
      BY <1>2, <1>3, <1>7, <2>1
    <3> QED
      BY <1>3, <1>4, <3>1
  <2>2. CASE i < n
    <3>1. i \in 0..n /\ i + 1 \in 0..n /\ i + 1 \in 1..n
      BY <1>2, <2>2
    <3>2. g[i] = h[i] /\ g[i + 1] = h[i + 1] /\ v[i + 1] = w[i + 1]
      BY <1>2, <1>7, <3>1
    <3>3. h[i + 1] = Applied(h[i], w[i + 1]) /\ Replayable(h[i], w[i + 1])
      BY <1>1, <2>2, <3>1 DEF History
    <3> QED
      BY <3>2, <3>3
  <2> QED
    BY <1>2, <1>10, <2>1, <2>2
<1>11. ASSUME NEW i \in 0..(n + 1), NEW j \in 0..(n + 1), i <= j
       PROVE  Later(g[i], g[j])
  <2>1. CASE j \in 0..n
    <3>1. i \in 0..n
      BY <1>2, <1>11, <2>1
    <3>2. Later(h[i], h[j])
      BY <1>1, <1>11, <2>1, <3>1 DEF History
    <3> QED
      BY <1>7, <2>1, <3>1, <3>2
  <2>2. CASE i = n + 1 /\ j = n + 1
    BY <2>2, LaterAll
  <2>3. CASE i \in 0..n /\ j = n + 1
    <3>1. Later(h[i], x)
      BY <1>1, <1>2, <1>3, <2>3 DEF History
    <3>2. g[i] = h[i] /\ g[j] = d
      BY <1>7, <2>3
    <3> QED
      BY <1>5, <3>1, <3>2, LaterAll
  <2> QED
    BY <1>2, <1>11, <2>1, <2>2, <2>3
<1>12. History(g, v)
  BY <1>2, <1>8, <1>9, <1>10, <1>11 DEF History
<1> QED
  BY <1>1, <1>3, <1>7, <1>12 DEF Extends

JudgedIn(c, x) == {a \in c.audits : a.id = x}

\* The cells c have seen the first e transactions, and the statuses and audits
\* of some outputs are those of the first j again.
Between(c, h, j, e) ==
    /\ c.facets = h[e].facets /\ c.adj = h[e].adj
    /\ c.queue = h[e].queue /\ c.stats = h[e].stats
    /\ \A o \in Writes : c.lib[o] = h[j].lib[o] \/ c.lib[o] = h[e].lib[o]
    /\ \A x : JudgedIn(c, x) = JudgedIn(h[j], x) \/ JudgedIn(c, x) = JudgedIn(h[e], x)

Replaying(c, h, j, n) == \E e \in j..n : Between(c, h, j, e)

\* Nothing is between when both ends are the same.
LEMMA BetweenSame ==
    ASSUME NEW c, NEW h, NEW j, CellsOK(c), CellsOK(h[j])
    PROVE  Between(c, h, j, j) <=> Same(c, h[j])
<1>1. c.lib \in [Writes -> Statuses] /\ h[j].lib \in [Writes -> Statuses]
  BY DEF CellsOK
<1>2. ASSUME Between(c, h, j, j) PROVE Same(c, h[j])
  <2>1. c.lib = h[j].lib
    BY <1>1, <1>2 DEF Between
  <2>2. c.audits = h[j].audits
    <3>1. \A x : JudgedIn(c, x) = JudgedIn(h[j], x)
      BY <1>2 DEF Between
    <3>2. PICK d : d = h[j]
      OBVIOUS
    <3>3. \A a : a \in c.audits <=> a \in JudgedIn(c, a.id)
      BY DEF JudgedIn
    <3>4. \A a : a \in d.audits <=> a \in JudgedIn(d, a.id)
      BY DEF JudgedIn
    <3>5. \A a : a \in c.audits <=> a \in d.audits
      BY <3>1, <3>2, <3>3, <3>4
    <3> QED
      BY <3>2, <3>5
  <2> QED
    BY <1>2, <2>1, <2>2 DEF Between, Same
<1>3. ASSUME Same(c, h[j]) PROVE Between(c, h, j, j)
  BY <1>3 DEF Between, Same, JudgedIn
<1> QED
  BY <1>2, <1>3

\* What the transaction j + 1 has done is known to the later cells h[e]; only
\* statuses and audits are set again.
LEMMA ReplayKnown ==
    ASSUME NEW c, CellsOK(c), QueueOK(c), NEW x, CellsGood(x), NEW t \in Txs, Replayable(x, t),
           NEW y, y = Applied(x, t), NEW z, CellsGood(z), Later(y, z), NEW d, d = Applied(c, t),
           c.facets = z.facets, c.adj = z.adj, c.queue = z.queue, c.stats = z.stats,
           \A o \in Writes : c.lib[o] = x.lib[o] \/ c.lib[o] = z.lib[o],
           \A i : JudgedIn(c, i) = JudgedIn(x, i) \/ JudgedIn(c, i) = JudgedIn(z, i)
    PROVE  /\ Replayable(c, t)
           /\ d.facets = z.facets /\ d.adj = z.adj /\ d.queue = z.queue /\ d.stats = z.stats
           /\ \A o \in Writes : d.lib[o] = y.lib[o] \/ d.lib[o] = z.lib[o]
           /\ \A i : JudgedIn(d, i) = JudgedIn(y, i) \/ JudgedIn(d, i) = JudgedIn(z, i)
<1>1. Effect(c, d, t) /\ Effect(x, y, t)
  BY Effects DEF CellsGood
<1>2. /\ c.lib \in [Writes -> Statuses] /\ x.lib \in [Writes -> Statuses]
      /\ x.adj \in [Writes -> Adjudication]
  BY DEF CellsGood, CellsOK
<1>3. CASE t.k = "output"
  <2>1. t.o \in Writes
    BY <1>3, TxKindsApart DEF OutputTxs
  <2>2. /\ d.lib = [c.lib EXCEPT ![t.o] = t.v] /\ y.lib = [x.lib EXCEPT ![t.o] = t.v]
        /\ d.facets = (IF t.v = "pending" THEN c.facets \cup {t.o} ELSE c.facets)
        /\ y.facets = (IF t.v = "pending" THEN x.facets \cup {t.o} ELSE x.facets)
        /\ d.audits = c.audits /\ y.audits = x.audits
        /\ d.adj = c.adj /\ d.queue = c.queue /\ d.stats = c.stats
    BY <1>1, <1>3 DEF Effect
  <2>3. d.facets = z.facets
    BY <2>2 DEF Later
  <2>4. \A o \in Writes : d.lib[o] = y.lib[o] \/ d.lib[o] = z.lib[o]
    BY <1>2, <2>1, <2>2
  <2>5. \A i : JudgedIn(d, i) = JudgedIn(c, i) /\ JudgedIn(y, i) = JudgedIn(x, i)
    BY <2>2 DEF JudgedIn
  <2> QED
    BY <1>3, <2>2, <2>3, <2>4, <2>5 DEF Replayable
<1>4. CASE t.k = "audit"
  <2>1. /\ d.audits = OthersThan(c.audits, t.o) \cup {Judgment(t)}
        /\ y.audits = OthersThan(x.audits, t.o) \cup {Judgment(t)}
        /\ d.lib = c.lib /\ d.facets = c.facets /\ y.lib = x.lib
        /\ d.adj = c.adj /\ d.queue = c.queue /\ d.stats = c.stats
    BY <1>1, <1>4 DEF Effect
  <2>2. Judgment(t).id = t.o
    BY DEF Judgment
  <2>3. \A i : JudgedIn(d, i) = JudgedIn(y, i) \/ JudgedIn(d, i) = JudgedIn(z, i)
    <3> TAKE i
    <3>1. CASE i = t.o
      <4>1. JudgedIn(d, i) = {Judgment(t)} /\ JudgedIn(y, i) = {Judgment(t)}
        BY <2>1, <2>2, <3>1 DEF JudgedIn, OthersThan
      <4> QED
        BY <4>1
    <3>2. CASE i # t.o
      <4>1. JudgedIn(d, i) = JudgedIn(c, i) /\ JudgedIn(y, i) = JudgedIn(x, i)
        BY <2>1, <2>2, <3>2 DEF JudgedIn, OthersThan
      <4> QED
        BY <4>1
    <3> QED
      BY <3>1, <3>2
  <2> QED
    BY <1>4, <2>1, <2>3 DEF Replayable
<1>5. CASE t.k = "flag"
  <2>1. d = c /\ y = x
    BY <1>1, <1>5 DEF Effect
  <2> QED
    BY <1>5, <2>1 DEF Replayable
<1>6. CASE t.k = "adjudication"
  <2>1. t.o \in Writes /\ t.v # "none"
    BY <1>6, TxKindsApart DEF AdjudicationTxs, Judged
  <2>2. /\ d.facets = c.facets /\ d.audits = c.audits /\ AdjudicatedIn(c, d, t)
        /\ y.facets = x.facets /\ y.audits = x.audits /\ AdjudicatedIn(x, y, t)
    BY <1>1, <1>6 DEF Effect
  <2>3. y.adj[t.o].res # "none"
    BY <1>2, <2>1, <2>2 DEF AdjudicatedIn
  <2>4. c.adj[t.o].res # "none"
    BY <2>1, <2>3 DEF Later
  <2>5. d.lib = c.lib /\ y.lib = x.lib /\ d.adj = c.adj /\ d.stats = c.stats /\ d.queue = c.queue
    BY <2>2, <2>4 DEF AdjudicatedIn
  <2>6. \A i : JudgedIn(d, i) = JudgedIn(c, i) /\ JudgedIn(y, i) = JudgedIn(x, i)
    BY <2>2 DEF JudgedIn
  <2> QED
    BY <1>6, <2>2, <2>5, <2>6 DEF Replayable
<1>7. CASE t.k = "resolve"
  <2>1. t.o \in Writes
    BY <1>7, TxKindsApart DEF ResolveTxs
  <2>2. /\ d.facets = c.facets /\ d.audits = c.audits /\ ResolvedIn(c, d, t)
        /\ y.facets = x.facets /\ y.audits = x.audits /\ ResolvedIn(x, y, t)
    BY <1>1, <1>7 DEF Effect
  <2>3. y.adj[t.o].human
    <3>1. CASE x.adj[t.o].human
      BY <2>2, <3>1 DEF ResolvedIn
    <3>2. CASE ~ x.adj[t.o].human
      <4>1. PICK e : e = Resolved(x.adj[t.o], t.v)
        OBVIOUS
      <4>2. e.human = TRUE
        BY <1>2, <2>1, <4>1 DEF Resolved, Adjudication
      <4>3. y.adj = [x.adj EXCEPT ![t.o] = e]
        BY <2>2, <3>2, <4>1 DEF ResolvedIn
      <4> QED
        BY <1>2, <2>1, <4>2, <4>3
    <3> QED
      BY <3>1, <3>2
  <2>4. c.adj[t.o].human
    BY <2>1, <2>3 DEF Later
  <2>5. d.adj = c.adj /\ d.stats = c.stats /\ d.queue = c.queue
    BY <2>2, <2>4 DEF ResolvedIn
  <2>6. \A i : JudgedIn(d, i) = JudgedIn(c, i) /\ JudgedIn(y, i) = JudgedIn(x, i)
    BY <2>2 DEF JudgedIn
  <2>7. PICK l : /\ d.lib = [c.lib EXCEPT ![t.o] = l]
                 /\ y.lib = [x.lib EXCEPT ![t.o] = l]
    BY <2>2 DEF ResolvedIn
  <2>8. \A o \in Writes : d.lib[o] = y.lib[o] \/ d.lib[o] = z.lib[o]
    BY <1>2, <2>1, <2>7
  <2> QED
    BY <1>7, <2>2, <2>4, <2>5, <2>6, <2>8 DEF Replayable
<1> QED
  BY <1>3, <1>4, <1>5, <1>6, <1>7, TxKindsApart

\* One transaction of the replay.
LEMMA ReplayOne ==
    ASSUME NEW w \in Seq(Txs), NEW h, History(h, w), NEW j \in 0..Len(w), j < Len(w),
           NEW c, CellsOK(c), QueueOK(c), Replaying(c, h, j, Len(w))
    PROVE  /\ Replayable(c, w[j + 1])
           /\ Replaying(Applied(c, w[j + 1]), h, j + 1, Len(w))
<1>1. PICK n, t, x, y, d : /\ n = Len(w) /\ t = w[j + 1] /\ x = h[j] /\ y = h[j + 1]
                           /\ d = Applied(c, t)
  OBVIOUS
<1>2. PICK e \in j..n : Between(c, h, j, e)
  BY <1>1 DEF Replaying
<1>3. n \in Nat /\ j \in Nat /\ j + 1 \in 0..n /\ j + 1 \in 1..n /\ e \in 0..n /\ t \in Txs
  BY <1>1, <1>2
<1>4. CellsGood(x) /\ CellsGood(y) /\ y = Applied(x, t) /\ Replayable(x, t)
  BY <1>1, <1>3 DEF History
<1>5. CASE e = j
  <2>1. Same(c, x)
    BY <1>1, <1>2, <1>4, <1>5, BetweenSame DEF CellsGood
  <2>2. Replayable(c, t) /\ Same(d, y)
    BY <1>1, <1>3, <1>4, <2>1, SameApplied DEF CellsGood
  <2>3. CellsOK(d)
    BY <1>1, <1>3, <2>2, AppliedKeeps
  <2>4. Between(d, h, j + 1, j + 1)
    BY <1>1, <1>4, <2>2, <2>3, BetweenSame DEF CellsGood
  <2> QED
    BY <1>1, <1>3, <2>2, <2>4 DEF Replaying
<1>6. CASE e # j
  <2>1. j + 1 <= e
    BY <1>2, <1>3, <1>6
  <2>2. PICK z : z = h[e]
    OBVIOUS
  <2>3. CellsGood(z) /\ Later(y, z)
    BY <1>1, <1>3, <2>1, <2>2 DEF History
  <2>4. /\ c.facets = z.facets /\ c.adj = z.adj /\ c.queue = z.queue /\ c.stats = z.stats
        /\ \A o \in Writes : c.lib[o] = x.lib[o] \/ c.lib[o] = z.lib[o]
        /\ \A i : JudgedIn(c, i) = JudgedIn(x, i) \/ JudgedIn(c, i) = JudgedIn(z, i)
    BY <1>1, <1>2, <2>2 DEF Between
  <2>5. /\ Replayable(c, t)
        /\ d.facets = z.facets /\ d.adj = z.adj /\ d.queue = z.queue /\ d.stats = z.stats
        /\ \A o \in Writes : d.lib[o] = y.lib[o] \/ d.lib[o] = z.lib[o]
        /\ \A i : JudgedIn(d, i) = JudgedIn(y, i) \/ JudgedIn(d, i) = JudgedIn(z, i)
    BY <1>1, <1>3, <1>4, <2>3, <2>4, ReplayKnown
  <2>6. Between(d, h, j + 1, e)
    BY <1>1, <2>2, <2>5 DEF Between
  <2>7. e \in (j + 1)..n
    BY <1>3, <2>1
  <2> QED
    BY <1>1, <2>5, <2>6, <2>7 DEF Replaying
<1> QED
  BY <1>5, <1>6

\* A replay that has come to the end has the cells of the whole log.
LEMMA ReplayDone ==
    ASSUME NEW n \in Nat, NEW h, NEW c, CellsOK(c), CellsOK(h[n]), Replaying(c, h, n, n)
    PROVE  Same(c, h[n])
<1>1. Between(c, h, n, n)
  BY DEF Replaying
<1> QED
  BY <1>1, BetweenSame

\* A replay begins at or before what the snapshot has.
LEMMA ReplayBegins ==
    ASSUME NEW n \in Nat, NEW h, NEW c, NEW k \in 0..n, NEW j \in 0..k, CellsOK(c), CellsOK(h[k]),
           Same(c, h[k])
    PROVE  Replaying(c, h, j, n)
<1>1. Between(c, h, j, k)
  BY DEF Same, Between, JudgedIn
<1> QED
  BY <1>1 DEF Replaying

-----------------------------------------------------------------------------
(* What the logs say of memory and disk, where they are exact.             *)

First(s, m) == SubSeq(s, 1, m)

\* The first m records of a log.
LEMMA FirstIs ==
    ASSUME NEW s \in Seq(CheckRecord), NEW m \in 0..Len(s)
    PROVE  /\ First(s, m) \in Seq(CheckRecord) /\ Len(First(s, m)) = m
           /\ AgreeTo(First(s, m), s, m)
           /\ Numbers(s) => Numbers(First(s, m))
           /\ m = Len(s) => First(s, m) = s
           /\ m < Len(s) => First(s, m + 1) = Append(First(s, m), s[m + 1])
<1>1. PICK f, n : f = First(s, m) /\ n = Len(s)
  OBVIOUS
<1>2. n \in Nat /\ m \in Nat /\ m <= n /\ 1 \in Nat \ {0}
  BY <1>1
<1>3. /\ f \in Seq(CheckRecord) /\ Len(f) = m
      /\ \A i \in 1..m : f[i] = s[i]
  BY <1>1, <1>2, SubSeqIs DEF First
<1>4. AgreeTo(f, s, m)
  BY <1>3 DEF AgreeTo
<1>5. Numbers(s) => Numbers(f)
  BY <1>1, <1>2, <1>3 DEF Numbers
<1>6. m = n => f = s
  BY <1>1, <1>3, SeqSame
<1>7. m < n => First(s, m + 1) = Append(f, s[m + 1])
  <2> SUFFICES ASSUME m < n PROVE First(s, m + 1) = Append(f, s[m + 1])
    OBVIOUS
  <2>1. 1 <= m + 1 /\ m + 1 <= Len(s)
    BY <1>1, <1>2
  <2> QED
    BY <1>1, <1>2, <2>1, SubSeqGrows DEF First
<1> QED
  BY <1>1, <1>3, <1>4, <1>5, <1>6, <1>7

LEMMA FirstStays ==
    ASSUME NEW s \in Seq(CheckRecord), NEW r \in CheckRecord, NEW m \in 0..Len(s)
    PROVE  First(Append(s, r), m) = First(s, m)
<1>1. PICK t, u, v : t = Append(s, r) /\ u = First(s, m) /\ v = First(t, m)
  OBVIOUS
<1>2. t \in Seq(CheckRecord) /\ Len(t) = Len(s) + 1 /\ \A i \in 1..Len(s) : t[i] = s[i]
  BY <1>1, AppendFacts
<1>3. m \in 0..Len(t) /\ m \in Nat /\ m <= Len(s)
  BY <1>2
<1>4. u \in Seq(CheckRecord) /\ Len(u) = m /\ \A i \in 1..m : u[i] = s[i]
  BY <1>1, FirstIs DEF AgreeTo
<1>5. v \in Seq(CheckRecord) /\ Len(v) = m /\ \A i \in 1..m : v[i] = t[i]
  BY <1>1, <1>2, <1>3, FirstIs DEF AgreeTo
<1>6. \A i \in 1..m : i \in 1..Len(s)
  BY <1>3
<1>7. \A i \in 1..m : u[i] = v[i]
  BY <1>2, <1>4, <1>5, <1>6
<1> QED
  BY <1>1, <1>4, <1>5, <1>7, SeqSame

\* One record of the replay, on a ledger that has the first m.
LEMMA LedgerReplays ==
    ASSUME NEW s \in Seq(CheckRecord), Numbers(s), NEW m \in 0..Len(s), NEW j \in 0..m, j < Len(s),
           NEW l, l = LedgerOf(First(s, m))
    PROVE  /\ ~ReplayGap(l, s[j + 1])
           /\ j < m => ReplayRecord(l, s[j + 1]) = l
           /\ j = m => ReplayRecord(l, s[j + 1]) = LedgerOf(First(s, m + 1))
<1>1. PICK f, r, n : f = First(s, m) /\ r = s[j + 1] /\ n = Len(s)
  OBVIOUS
<1>2. n \in Nat /\ m \in Nat /\ j \in Nat /\ j + 1 \in 1..n /\ j <= m /\ m <= n /\ j < n
  BY <1>1
<1>3. f \in Seq(CheckRecord) /\ Len(f) = m /\ (m < n => First(s, m + 1) = Append(f, s[m + 1]))
  BY <1>1, FirstIs
<1>4. r \in CheckRecord /\ r.seq = j
  BY <1>1, <1>2 DEF Numbers
<1>5. ~ReplayGap(l, r) /\ (j < m => ReplayRecord(l, r) = l)
  BY <1>1, <1>2, <1>3, <1>4, ReplayOf
<1>6. j = m => ReplayRecord(l, r) = LedgerOf(Append(f, r))
  BY <1>1, <1>3, <1>4, ReplayOf
<1> QED
  BY <1>1, <1>2, <1>3, <1>5, <1>6

\* The signature file has what the log's records call for, or the replay of
\* the records after m has a batch to sign and writes it again.
Side(m) == sidecar = SigsOf(checks) \/ (Signs /\ Batches(m) < Batches(Len(checks)))

ReplaysChecks(k, m, j) ==
    /\ j <= m /\ k <= m
    /\ todo.checks = Rest(checks, j)
    /\ cells.ledger = LedgerOf(First(checks, m))
    /\ Side(m)

\* The snapshot has the first k records, from which the replay goes on.
SnapChecks(k) ==
    /\ snap.checks <= k
    /\ snap.cells.ledger = LedgerOf(First(checks, k))
    /\ status = "down" => Side(k)
    /\ status = "replaying" =>
          \E m \in 0..Len(checks), j \in 0..Len(checks) : ReplaysChecks(k, m, j)

ChecksExact ==
    /\ checks \in Seq(CheckRecord) /\ Numbers(checks)
    /\ snap.checks \in Nat /\ mark.checks \in Nat /\ mark.checks <= Len(checks)
    /\ status = "up" => cells.ledger = LedgerOf(checks) /\ sidecar = SigsOf(checks)
    /\ \E k \in 0..Len(checks) : SnapChecks(k)

WalExact(h) ==
    /\ History(h, wal)
    /\ mark.wal <= Len(wal)
    /\ status = "up" => Same(cells, h[Len(wal)])
    /\ \E k \in 0..Len(wal) : snap.wal <= k /\ Same(snap.cells, h[k])
    /\ status = "replaying" =>
          \E j \in 0..Len(wal) : todo.wal = Rest(wal, j) /\ Replaying(cells, h, j, Len(wal))

Exact ==
    /\ Formed(cells) /\ Formed(snap.cells)
    /\ Signs => status # "refused"
    /\ \E h : WalExact(h)
    /\ ChecksExact

\* A cycle that has come to a ruling has one.
Ruled ==
    /\ status # "up" => pc = "idle"
    /\ pc \in {"resolved", "settled"} => cells.adj[Len(made)].res # "none"

ExactInv == SafeInv /\ Ruled /\ (LogsExact => Exact)

-----------------------------------------------------------------------------
(* The steps, by what they write.                                          *)

\* The cycle commits a transaction.
CommitMove ==
    \E t \in Txs, next \in Steps :
        /\ Commit(t, next) /\ Replayable(cells, t) /\ status = "up"
        /\ next = "resolved" => t \in AdjudicationTxs /\ t.o = Len(made)
        /\ next = "settled" => pc = "resolved" /\ t \in OutputTxs

\* The cycle commits a record.
CheckMove ==
    \E kind \in CheckKinds, out \in Nat, outcome \in Outcomes, next \in Steps :
        Check(kind, out, outcome, next) /\ next \notin {"resolved", "settled"} /\ status = "up"

\* The cycle goes on, or ends, and writes nothing.
QuietMove ==
    /\ UNCHANGED <<status, cells, wal, checks, sidecar, snap, todo>>
    /\ status = "up" /\ pc' \notin {"resolved", "settled"}
    /\ mark' = mark \/ mark' = [wal |-> Len(wal), checks |-> Len(checks)]
    /\ faults' = faults \/ Spend("probe") \/ Spend("error")

\* Every step of a cycle or of the operator that commits a transaction.
LEMMA CommitMoves ==
    ASSUME SafeInv,
           \/ ChainRejects \/ EmitOutput \/ Publish \/ Concede \/ Settle
           \/ ProbeAudit \/ Audit \/ RaiseFlag \/ Adjudicate
           \/ \E o \in Writes, v \in {"auditor", "initiator"} : Resolve(o, v)
    PROVE  CommitMove
<1>1. CycleOK /\ probing \in Nat
  BY DEF SafeInv, CycleOK
<1>2. PICK n : n = Len(made)
  OBVIOUS
<1>3. InCycle => n \in Writes /\ n \in Nat
  BY <1>1, <1>2, CycleHasOutput
<1>4. cur = n
  BY <1>2 DEF cur
<1>5. ASSUME NEW st \in Statuses \ {"none"}, NEW next \in Steps, Commit(OutputTx(n, st), next),
             InCycle, status = "up", next # "resolved", next = "settled" => pc = "resolved"
      PROVE  CommitMove
  <2>1. PICK t : t = OutputTx(n, st)
    OBVIOUS
  <2>2. t \in Txs /\ t.k = "output"
    BY <1>3, <1>5, <2>1, TxTypes
  <2>3. Replayable(cells, t) /\ t \in OutputTxs
    BY <2>2, TxKindsApart DEF Replayable
  <2> QED
    BY <1>5, <2>1, <2>2, <2>3 DEF CommitMove
<1>6. ASSUME NEW t \in Txs, NEW next \in Steps, Commit(t, next), t.k \in {"audit", "flag"},
             next \notin {"resolved", "settled"}, status = "up"
      PROVE  CommitMove
  <2>1. Replayable(cells, t)
    BY <1>6 DEF Replayable
  <2> QED
    BY <1>6, <2>1 DEF CommitMove
<1>7. CASE ChainRejects
  <2>1. Commit(OutputTx(n, "quarantined"), "rejected") /\ InCycle /\ status = "up"
    BY <1>4, <1>7 DEF ChainRejects, At, InCycle
  <2> QED
    BY <1>5, <2>1 DEF Statuses, Steps
<1>8. CASE EmitOutput
  <2>1. Commit(OutputTx(n, "pending"), "emitted") /\ InCycle /\ status = "up"
    BY <1>4, <1>8 DEF EmitOutput, At, InCycle
  <2> QED
    BY <1>5, <2>1 DEF Statuses, Steps
<1>9. CASE Publish
  <2>1. Commit(StatusTx(n, "active"), "published") /\ InCycle /\ status = "up"
    BY <1>4, <1>9 DEF Publish, At, InCycle
  <2>2. StatusTx(n, "active") = OutputTx(n, "active")
    BY DEF StatusTx, OutputTx
  <2> QED
    BY <1>5, <2>1, <2>2 DEF Statuses, Steps
<1>10. CASE Concede
  <2>1. Commit(StatusTx(n, "quarantined"), "withdrawn") /\ InCycle /\ status = "up"
    BY <1>4, <1>10 DEF Concede, At, InCycle
  <2>2. StatusTx(n, "quarantined") = OutputTx(n, "quarantined")
    BY DEF StatusTx, OutputTx
  <2> QED
    BY <1>5, <2>1, <2>2 DEF Statuses, Steps
<1>11. CASE Settle
  <2>1. PICK st \in {"active", "quarantined"} : Commit(StatusTx(n, st), "settled")
    BY <1>4, <1>11 DEF Settle
  <2>2. StatusTx(n, st) = OutputTx(n, st) /\ InCycle /\ status = "up" /\ pc = "resolved"
    BY <1>11 DEF StatusTx, OutputTx, Settle, At, InCycle
  <2> QED
    BY <1>5, <2>1, <2>2 DEF Statuses, Steps
<1>12. CASE ProbeAudit
  <2>1. PICK v \in {"pass", "fail"} : Commit(AuditTx(probing, v, "probe"), "probed")
    BY <1>12 DEF ProbeAudit, VerdictName
  <2>2. PICK t : t = AuditTx(probing, v, "probe")
    OBVIOUS
  <2>3. t \in Txs /\ t.k = "audit" /\ status = "up"
    BY <1>1, <1>12, <2>2, TxTypes DEF ProbeAudit, At
  <2> QED
    BY <1>6, <2>1, <2>2, <2>3 DEF Steps
<1>13. CASE Audit
  <2>1. PICK v \in {"pass", "fail"}, next \in {"flag", "degraded", "publish"} :
            Commit(AuditTx(n, v, "output"), next)
    BY <1>4, <1>13 DEF Audit, VerdictName
  <2>2. PICK t : t = AuditTx(n, v, "output")
    OBVIOUS
  <2>3. InCycle /\ status = "up"
    BY <1>13 DEF Audit, At, InCycle
  <2>4. t \in Txs /\ t.k = "audit"
    BY <1>3, <2>2, <2>3, TxTypes
  <2> QED
    BY <1>6, <2>1, <2>2, <2>3, <2>4 DEF Steps
<1>14. CASE RaiseFlag
  <2>1. PICK op \in {"flag_drift", "audit_fail"}, next \in {"dispute", "sanity"} :
            Commit(FlagTx(n, op), next)
    BY <1>4, <1>14 DEF RaiseFlag, FlagOp
  <2>2. PICK t : t = FlagTx(n, op)
    OBVIOUS
  <2>3. InCycle /\ status = "up"
    BY <1>14 DEF RaiseFlag, At, InCycle
  <2>4. t \in Txs /\ t.k = "flag"
    BY <1>3, <2>2, <2>3, TxTypes
  <2> QED
    BY <1>6, <2>1, <2>2, <2>3, <2>4 DEF Steps
<1>15. CASE Adjudicate
  <2>1. PICK r \in Resolutions(FlagOp, made[cur].ground) : Commit(AdjudicationTx(n, r), "resolved")
    BY <1>4, <1>15 DEF Adjudicate
  <2>2. PICK t : t = AdjudicationTx(n, r)
    OBVIOUS
  <2>3. InCycle /\ status = "up"
    BY <1>15 DEF Adjudicate, At, InCycle
  <2>4. r \in [path : Paths, res : Judged]
    BY <2>1, ResolutionTypes
  <2>5. t \in Txs /\ t.k = "adjudication" /\ t.o = n
    BY <1>3, <2>2, <2>3, <2>4, TxTypes
  <2>6. Replayable(cells, t) /\ t \in AdjudicationTxs
    BY <2>5, TxKindsApart DEF Replayable
  <2> QED
    BY <1>2, <2>1, <2>2, <2>3, <2>5, <2>6 DEF CommitMove, Steps
<1>16. CASE \E o \in Writes, v \in {"auditor", "initiator"} : Resolve(o, v)
  <2>1. PICK o \in Writes, v \in {"auditor", "initiator"} : Resolve(o, v)
    BY <1>16
  <2>2. PICK t : t = ResolveTx(o, v)
    OBVIOUS
  <2>3. t \in Txs /\ t.k = "resolve" /\ t.o = o
    BY <2>2, TxTypes
  <2>4. Commit(t, "idle") /\ Replayable(cells, t) /\ status = "up"
    BY <2>1, <2>2, <2>3 DEF Resolve, Replayable, Idle
  <2> QED
    BY <2>3, <2>4 DEF CommitMove, Steps
<1> QED
  BY <1>7, <1>8, <1>9, <1>10, <1>11, <1>12, <1>13, <1>14, <1>15, <1>16

\* Every step of a cycle that commits a ledger record.
LEMMA CheckMoves ==
    ASSUME SafeInv, Ruled,
           \/ RejectedCheck \/ OutputCheck \/ ProbeCheck \/ DegradedAudit \/ PublishCheck
           \/ SanityCheck \/ ConcedeCheck \/ SettleCheck \/ BlindReaudit
    PROVE  CheckMove
<1> USE DEF CheckKinds, Outcomes, Steps
<1>1. CycleOK /\ probing \in Nat
  BY DEF SafeInv, CycleOK
<1>2. cur \in Nat
  BY <1>1 DEF CycleOK, cur
<1>3. CASE RejectedCheck
  BY <1>2, <1>3 DEF RejectedCheck, At, CheckMove
<1>4. CASE OutputCheck
  BY <1>2, <1>4 DEF OutputCheck, At, CheckMove
<1>5. CASE ProbeCheck
  <2>1. PICK outcome \in {"agree", "disagree"}, next \in {"audit", "idle"} :
            Check("probe", probing, outcome, next)
    BY <1>5 DEF ProbeCheck
  <2> QED
    BY <1>1, <1>5, <2>1 DEF ProbeCheck, At, CheckMove
<1>6. CASE DegradedAudit
  BY <1>2, <1>6 DEF DegradedAudit, At, CheckMove
<1>7. CASE PublishCheck
  BY <1>2, <1>7 DEF PublishCheck, At, CheckMove
<1>8. CASE SanityCheck
  <2>1. PICK outcome \in {"agree", "disagree"}, next \in {"conceded", "dispute"} :
            Check("sanity", cur, outcome, next)
    BY <1>8 DEF SanityCheck
  <2> QED
    BY <1>2, <1>8, <2>1 DEF SanityCheck, At, CheckMove
<1>9. CASE ConcedeCheck
  BY <1>2, <1>9 DEF ConcedeCheck, At, CheckMove
<1>10. CASE SettleCheck
  <2>1. PICK e : e = cells.adj[cur].res
    OBVIOUS
  <2>2. PICK kind \in {"adjudication", "audit"}, next \in {"blind", "idle"} :
            Check(kind, cur, SettledAs(e), next)
    BY <1>10, <2>1 DEF SettleCheck
  <2>3. pc \in {"resolved", "settled"} /\ status = "up"
    BY <1>10 DEF SettleCheck, At
  <2>4. cur \in Writes
    BY <1>1, <2>3, CycleHasOutput DEF InCycle, cur
  <2>5. e # "none" /\ e \in Judged \cup {"none"}
    BY <2>1, <2>3, <2>4 DEF Ruled, cur, SafeInv, LogsOK, CellsOK, Adjudication
  <2>6. SettledAs(e) \in Outcomes
    BY <2>5 DEF SettledAs, Judged
  <2> QED
    BY <1>2, <2>2, <2>3, <2>6 DEF CheckMove
<1>11. CASE BlindReaudit
  <2>1. PICK outcome \in {"agree", "disagree"} : Check("blind", cur, outcome, "idle")
    BY <1>11 DEF BlindReaudit
  <2> QED
    BY <1>2, <1>11, <2>1 DEF BlindReaudit, At, CheckMove
<1> QED
  BY <1>3, <1>4, <1>5, <1>6, <1>7, <1>8, <1>9, <1>10, <1>11

\* Every step of a cycle that writes nothing.
LEMMA QuietMoves ==
    ASSUME \/ \E slot \in Slots, object \in Objects : Write(slot, object)
           \/ InjectProbe \/ ProbeNow \/ NoReaudit \/ CycleFails
    PROVE  QuietMove
<1>1. CASE \E slot \in Slots, object \in Objects : Write(slot, object)
  BY <1>1 DEF Write, QuietMove, Idle, Goto
<1>2. CASE InjectProbe
  BY <1>2 DEF InjectProbe, QuietMove, At, Goto, disk
<1>3. CASE ProbeNow
  BY <1>3 DEF ProbeNow, QuietMove, Idle, Goto, disk
<1>4. CASE NoReaudit
  BY <1>4 DEF NoReaudit, QuietMove, At, Goto, disk
<1>5. CASE CycleFails
  BY <1>5 DEF CycleFails, QuietMove, Goto, disk
<1> QED
  BY <1>1, <1>2, <1>3, <1>4, <1>5

-----------------------------------------------------------------------------
(* The steps keep the logs exact.                                          *)

\* Logs that are exact after a step were exact before it.
LEMMA ExactBefore ==
    ASSUME CycleOK, LogsExact'
    PROVE  /\ faults' = faults => LogsExact
           /\ \A k \in DOMAIN FaultLimits : Spend(k) => LogsExact /\ k \notin {"kept", "unsaved"}
<1>1. faults' = faults => LogsExact
  BY DEF LogsExact
<1>2. ASSUME NEW k \in DOMAIN FaultLimits, Spend(k)
      PROVE  LogsExact /\ k \notin {"kept", "unsaved"}
  <2>1. faults'[k] # 0 /\ \A j \in DOMAIN FaultLimits : j # k => faults'[j] = faults[j]
    BY <1>2, SpendKeeps
  <2>2. faults'["kept"] = 0 /\ faults'["unsaved"] = 0
    BY DEF LogsExact
  <2>3. k \notin {"kept", "unsaved"}
    BY <2>1, <2>2
  <2>4. faults["kept"] = 0 /\ faults["unsaved"] = 0
    BY <2>1, <2>2, <2>3, FaultKinds
  <2> QED
    BY <2>3, <2>4 DEF LogsExact
<1> QED
  BY <1>1, <1>2

\* A cycle that is resolved or settled has a ruling.
LEMMA RuledCommit ==
    ASSUME SafeInv, Ruled, CommitMove
    PROVE  Ruled'
<1>1. PICK t \in Txs, next \in Steps :
        /\ Commit(t, next) /\ Replayable(cells, t) /\ status = "up"
        /\ next = "resolved" => t \in AdjudicationTxs /\ t.o = Len(made)
        /\ next = "settled" => pc = "resolved" /\ t \in OutputTxs
  BY DEF CommitMove
<1>2. /\ status' = "up" /\ made' = made
      /\ \/ cells' = Applied(cells, t) /\ pc' = next
         \/ pc' = "idle"
  BY <1>1 DEF Commit, Goto
<1>3. CellsOK(cells) /\ QueueOK(cells) /\ cells.adj \in [Writes -> Adjudication]
  BY DEF SafeInv, LogsOK, CellsOK
<1>4. CASE pc' = "resolved"
  <2>1. t \in AdjudicationTxs /\ t.o = Len(made) /\ cells' = Applied(cells, t)
    BY <1>1, <1>2, <1>4
  <2>2. AdjudicatedIn(cells, cells', t)
    BY <1>3, <2>1, AdjudicationApplied
  <2>3. t.o \in Writes /\ t.v # "none"
    BY <2>1 DEF AdjudicationTxs, Judged
  <2>4. cells'.adj[t.o].res # "none"
    BY <1>3, <2>2, <2>3 DEF AdjudicatedIn
  <2> QED
    BY <1>2, <2>1, <2>4 DEF Ruled
<1>5. CASE pc' = "settled"
  <2>1. t \in OutputTxs /\ cells' = Applied(cells, t) /\ pc = "resolved"
    BY <1>1, <1>2, <1>5
  <2>2. cells'.adj = cells.adj
    BY <1>3, <2>1, OutputApplied
  <2> QED
    BY <1>2, <2>1, <2>2 DEF Ruled
<1>6. CASE pc' \notin {"resolved", "settled"}
  BY <1>2, <1>6 DEF Ruled
<1> QED
  BY <1>4, <1>5, <1>6

LEMMA RuledOther ==
    ASSUME SafeInv, Ruled,
           \/ CheckMove \/ QuietMove \/ Snapshot \/ Crash \/ Restore
           \/ ReplayTx \/ ReplayCheck \/ BootEnds \/ UNCHANGED vars
    PROVE  Ruled'
<1>1. CASE CheckMove
  <2>1. status' = "up" /\ pc' \notin {"resolved", "settled"}
    BY <1>1 DEF CheckMove, Check, Goto
  <2> QED
    BY <2>1 DEF Ruled
<1>2. CASE QuietMove
  BY <1>2 DEF QuietMove, Ruled
<1>3. CASE Snapshot
  BY <1>3 DEF Snapshot, Ruled
<1>4. CASE Crash
  BY <1>4 DEF Crash, Goto, Ruled
<1>5. CASE Restore
  BY <1>5 DEF Restore, Ruled
<1>6. CASE ReplayTx
  BY <1>6 DEF ReplayTx, Ruled
<1>7. CASE ReplayCheck
  BY <1>7 DEF ReplayCheck, Ruled
<1>8. CASE BootEnds
  BY <1>8 DEF BootEnds, Ruled
<1>9. CASE UNCHANGED vars
  BY <1>9 DEF vars, Ruled
<1> QED
  BY <1>1, <1>2, <1>3, <1>4, <1>5, <1>6, <1>7, <1>8, <1>9

\* A transaction: the history has it, and memory with it.
LEMMA ExactCommit ==
    ASSUME SafeInv, LogsExact => Exact, CommitMove, LogsExact'
    PROVE  Exact'
<1>1. PICK t \in Txs, next \in Steps : Commit(t, next) /\ Replayable(cells, t) /\ status = "up"
  BY DEF CommitMove
<1>2. /\ cells' = Applied(cells, t) /\ faults' = faults /\ wal' = Append(wal, t)
      /\ UNCHANGED <<status, checks, sidecar, snap, mark, todo>>
  BY <1>1, ExactBefore, FaultKinds DEF Commit, SafeInv
<1>3. Exact
  BY <1>2, ExactBefore DEF SafeInv
<1>4. CellsOK(cells) /\ QueueOK(cells) /\ wal \in Seq(Txs) /\ Formed(cells)
      /\ CellsOK(snap.cells) /\ mark.wal \in Nat
  BY <1>3 DEF SafeInv, LogsOK, Exact
<1>5. Formed(cells') /\ cells'.ledger = cells.ledger
  <2>1. PICK d : d = Applied(cells, t)
    OBVIOUS
  <2>2. Effect(cells, d, t)
    BY <1>4, <2>1, Effects
  <2>3. Formed(d) /\ d.ledger = cells.ledger
    BY <1>4, <2>2 DEF Effect
  <2> QED
    BY <1>2, <2>1, <2>3
<1>6. PICK h : WalExact(h)
  BY <1>3 DEF Exact
<1>7. PICK n : n = Len(wal)
  OBVIOUS
<1>8. n \in Nat /\ Len(wal') = n + 1 /\ History(h, wal) /\ Same(cells, h[n]) /\ mark.wal <= n
  BY <1>1, <1>2, <1>4, <1>6, <1>7, AppendFacts DEF WalExact
<1>9. CellsOK(h[n]) /\ QueueOK(h[n])
  BY <1>7, <1>8 DEF History, CellsGood
<1>10. Replayable(h[n], t) /\ Same(cells', Applied(h[n], t))
  BY <1>1, <1>2, <1>4, <1>8, <1>9, SameApplied
<1>11. PICK g : History(g, wal') /\ Extends(g, h, n) /\ g[n + 1] = Applied(h[n], t)
  BY <1>2, <1>4, <1>7, <1>8, <1>10, HistoryGrows
<1>12. \E k \in 0..(n + 1) : snap'.wal <= k /\ Same(snap'.cells, g[k])
  <2>1. PICK k \in 0..n : snap.wal <= k /\ Same(snap.cells, h[k])
    BY <1>6, <1>7 DEF WalExact
  <2>2. g[k] = h[k] /\ k \in 0..(n + 1)
    BY <1>8, <1>11, <2>1 DEF Extends
  <2> QED
    BY <1>2, <2>1, <2>2
<1>13. WalExact(g)'
  BY <1>1, <1>2, <1>4, <1>8, <1>10, <1>11, <1>12 DEF WalExact
<1>14. ChecksExact'
  <2>1. ChecksExact /\ status' # "replaying"
    BY <1>1, <1>2, <1>3 DEF Exact
  <2> QED
    BY <1>1, <1>2, <1>5, <2>1 DEF ChecksExact, SnapChecks, Side
<1> QED
  BY <1>1, <1>2, <1>3, <1>5, <1>13, <1>14 DEF Exact

LEMMA ExactQuiet ==
    ASSUME SafeInv, LogsExact => Exact, QuietMove, LogsExact'
    PROVE  Exact'
<1>1. /\ UNCHANGED <<status, cells, wal, checks, sidecar, snap, todo>>
      /\ mark' = mark \/ mark' = [wal |-> Len(wal), checks |-> Len(checks)]
      /\ faults' = faults \/ Spend("probe") \/ Spend("error")
  BY DEF QuietMove
<1>2. Exact
  BY <1>1, ExactBefore, FaultKinds DEF SafeInv
<1>3. /\ checks \in Seq(CheckRecord) /\ wal \in Seq(Txs) /\ mark.wal <= Len(wal)
      /\ mark.checks \in Nat /\ mark.checks <= Len(checks)
  BY <1>2 DEF Exact, ChecksExact, WalExact, SafeInv, LogsOK
<1>4. mark'.wal <= Len(wal) /\ mark'.checks \in Nat /\ mark'.checks <= Len(checks)
  BY <1>1, <1>3
<1>5. ChecksExact'
  BY <1>1, <1>2, <1>4 DEF Exact, ChecksExact, SnapChecks, Side, ReplaysChecks
<1>6. PICK h : WalExact(h)
  BY <1>2 DEF Exact
<1>7. WalExact(h)'
  BY <1>1, <1>4, <1>6 DEF WalExact
<1> QED
  BY <1>1, <1>2, <1>5, <1>7 DEF Exact

LEMMA ExactStutter ==
    ASSUME SafeInv, LogsExact => Exact, UNCHANGED vars, LogsExact'
    PROVE  Exact'
<1>1. UNCHANGED <<status, cells, wal, checks, sidecar, snap, mark, todo, faults>>
  BY DEF vars, disk
<1>2. Exact
  BY <1>1, ExactBefore DEF SafeInv
<1>3. PICK h : WalExact(h)
  BY <1>2 DEF Exact
<1>4. WalExact(h)'
  BY <1>1, <1>3 DEF WalExact
<1>5. ChecksExact'
  BY <1>1, <1>2 DEF Exact, ChecksExact, SnapChecks, Side, ReplaysChecks
<1> QED
  BY <1>1, <1>2, <1>4, <1>5 DEF Exact

\* A snapshot has all of the history; where its replay begins may be earlier.
LEMMA ExactSnapshot ==
    ASSUME SafeInv, LogsExact => Exact, Snapshot, LogsExact'
    PROVE  Exact'
<1>1. PICK from \in {mark, [wal |-> Len(wal), checks |-> Len(checks)]} :
          snap' = [cells |-> Captured(cells), wal |-> from.wal, checks |-> from.checks]
  BY DEF Snapshot
<1>2. UNCHANGED <<status, cells, wal, checks, sidecar, mark, todo>> /\ Spend("snap") /\ status = "up"
  BY DEF Snapshot, Idle
<1>3. Exact
  BY <1>2, ExactBefore, FaultKinds DEF SafeInv
<1>4. PICK h : WalExact(h)
  BY <1>3 DEF Exact
<1>5. PICK n, m, d : n = Len(wal) /\ m = Len(checks) /\ d = Captured(cells)
  OBVIOUS
<1>6. /\ n \in Nat /\ mark.wal \in Nat /\ mark.wal <= n
      /\ m \in Nat /\ mark.checks \in Nat /\ mark.checks <= m
      /\ checks \in Seq(CheckRecord) /\ cells.ledger = LedgerOf(checks)
  BY <1>2, <1>3, <1>4, <1>5 DEF SafeInv, LogsOK, WalExact, Exact, ChecksExact
<1>7. /\ snap'.cells = d /\ snap'.wal \in Nat /\ snap'.wal <= n
      /\ snap'.checks \in Nat /\ snap'.checks <= m
  BY <1>1, <1>5, <1>6
<1>8. /\ DOMAIN d = Fields /\ d = [y \in Fields |-> d[y]]
      /\ Same(d, cells) /\ d.ledger = cells.ledger
  BY <1>5 DEF Captured, LibrarianState, WardenState, AdjudicatorState, Same, Fields
<1>9. Formed(snap'.cells)
  BY <1>7, <1>8 DEF Formed
<1>10. WalExact(h)'
  <2>1. Same(cells, h[n])
    BY <1>2, <1>4, <1>5 DEF WalExact
  <2>2. Same(snap'.cells, h[n]) /\ n \in 0..n
    BY <1>6, <1>7, <1>8, <2>1 DEF Same
  <2> QED
    BY <1>2, <1>4, <1>5, <1>7, <2>2 DEF WalExact
<1>11. ChecksExact'
  <2>1. First(checks, m) = checks /\ m \in 0..m
    BY <1>5, <1>6, FirstIs
  <2>2. SnapChecks(m)'
    BY <1>2, <1>6, <1>7, <1>8, <2>1 DEF SnapChecks
  <2> QED
    BY <1>2, <1>3, <1>5, <1>7, <2>1, <2>2 DEF Exact, ChecksExact
<1> QED
  BY <1>2, <1>3, <1>9, <1>10, <1>11 DEF Exact

\* A crash leaves what is on disk.
LEMMA ExactCrash ==
    ASSUME SafeInv, LogsExact => Exact, Crash, LogsExact'
    PROVE  Exact'
<1>1. /\ UNCHANGED <<wal, checks, sidecar, snap, mark>> /\ status' = "down" /\ Spend("crash")
      /\ status \in {"up", "replaying"} /\ cells' = NewCells
  BY DEF Crash, disk
<1>2. Exact
  BY <1>1, ExactBefore, FaultKinds DEF SafeInv
<1>3. PICK h : WalExact(h)
  BY <1>2 DEF Exact
<1>4. WalExact(h)'
  BY <1>1, <1>3 DEF WalExact
<1>5. Formed(cells')
  BY <1>1 DEF NewCells, Formed, Fields
<1>6. ChecksExact
  BY <1>2 DEF Exact
<1>7. PICK k \in 0..Len(checks) : SnapChecks(k)
  BY <1>6 DEF ChecksExact
<1>8. Side(k)
  <2>1. CASE status = "up"
    BY <1>6, <2>1 DEF ChecksExact, Side
  <2>2. CASE status = "replaying"
    <3>1. PICK m \in 0..Len(checks) : k <= m /\ Side(m)
      BY <1>7, <2>2 DEF SnapChecks, ReplaysChecks
    <3>2. k \in Nat /\ m \in Nat /\ Len(checks) \in Nat
      BY <1>6, <1>7, <3>1 DEF ChecksExact
    <3>3. /\ Batches(k) <= Batches(m) /\ Batches(k) \in Nat /\ Batches(m) \in Nat
          /\ Batches(Len(checks)) \in Nat
      BY <3>1, <3>2, BatchOrder, BatchFacts
    <3> QED
      BY <3>1, <3>3 DEF Side
  <2> QED
    BY <1>1, <2>1, <2>2
<1>9. SnapChecks(k)'
  BY <1>1, <1>7, <1>8 DEF SnapChecks, Side
<1>10. ChecksExact'
  BY <1>1, <1>6, <1>7, <1>9 DEF ChecksExact
<1> QED
  BY <1>1, <1>2, <1>4, <1>5, <1>10 DEF Exact

\* A record that fills no batch adds no signature.
LEMMA SigsStay ==
    ASSUME NEW s \in Seq(CheckRecord), NEW r \in CheckRecord,
           ~(Signs /\ Len(s) % BatchEvery = BatchEvery - 1)
    PROVE  SigsOf(Append(s, r)) = SigsOf(s)
<1>1. CASE ~Signs
  BY <1>1 DEF SigsOf
<1>2. CASE Len(s) % BatchEvery # BatchEvery - 1
  <2>1. PICK t : t = Append(s, r)
    OBVIOUS
  <2>2. t \in Seq(CheckRecord) /\ Len(t) = Len(s) + 1 /\ AgreeTo(s, t, Len(s)) /\ Len(s) \in Nat
    BY <2>1, AppendFacts DEF AgreeTo
  <2>3. Batches(Len(t)) = Batches(Len(s)) /\ Len(s) <= Len(t)
    BY <1>2, <2>2, BatchFacts
  <2> QED
    BY <2>1, <2>2, <2>3, SigsSame
<1> QED
  BY <1>1, <1>2

\* The cells with another ledger.
LEMMA LedgerSet ==
    ASSUME NEW c, Formed(c), NEW l, NEW d, d = [c EXCEPT !.ledger = l]
    PROVE  Formed(d) /\ Same(d, c) /\ d.ledger = l
BY DEF Formed, Fields, Same

LEMMA SameAll ==
    ASSUME NEW c, NEW d, NEW e, Same(c, d), Same(d, e)
    PROVE  Same(c, e)
BY DEF Same

\* A ledger record: applied live, and its batch signed into the file.
LEMMA ExactCheck ==
    ASSUME SafeInv, LogsExact => Exact, CheckMove, LogsExact'
    PROVE  Exact'
<1>1. PICK kind \in CheckKinds, out \in Nat, outcome \in Outcomes, next \in Steps :
          Check(kind, out, outcome, next) /\ status = "up"
  BY DEF CheckMove
<1>2. PICK r, l, s : /\ r = NextRecord(cells.ledger, kind, out, outcome) /\ s = checks
                     /\ l = ApplyRecord(cells.ledger, r)
  OBVIOUS
<1>3. /\ checks' = Append(s, r) /\ cells' = [cells EXCEPT !.ledger = l]
      /\ sidecar' = IF SignsNow(cells.ledger, r) THEN l.sigs ELSE sidecar
      /\ faults' = faults /\ UNCHANGED <<status, wal, snap, mark, todo>>
  BY <1>1, <1>2, ExactBefore, FaultKinds DEF Check, SafeInv
<1>4. Exact
  BY <1>3, ExactBefore DEF SafeInv
<1>5. ChecksExact /\ Formed(cells)
  BY <1>4 DEF Exact
<1>6. PICK n : n = Len(s)
  OBVIOUS
<1>7. /\ s \in Seq(CheckRecord) /\ Numbers(s) /\ n \in Nat
      /\ cells.ledger = LedgerOf(s) /\ sidecar = SigsOf(s)
      /\ snap.checks \in Nat /\ mark.checks \in Nat /\ mark.checks <= n
  BY <1>1, <1>2, <1>5, <1>6 DEF ChecksExact
<1>8. cells.ledger.next = n
  BY <1>6, <1>7 DEF LedgerOf
<1>9. r \in CheckRecord /\ r.seq = n
  BY <1>1, <1>2, <1>7, <1>8 DEF NextRecord, CheckRecord
<1>10. PICK t : t = Append(s, r)
  OBVIOUS
<1>11. t \in Seq(CheckRecord) /\ Len(t) = n + 1 /\ t[n + 1] = r /\ \A i \in 1..n : t[i] = s[i]
  BY <1>6, <1>7, <1>9, <1>10, AppendFacts
<1>12. l = LedgerOf(t)
  BY <1>2, <1>6, <1>7, <1>9, <1>10, ApplyOf
<1>13. sidecar' = SigsOf(t)
  <2>1. CASE SignsNow(cells.ledger, r)
    BY <1>3, <1>12, <2>1 DEF LedgerOf
  <2>2. CASE ~SignsNow(cells.ledger, r)
    <3>1. ~(Signs /\ n % BatchEvery = BatchEvery - 1)
      BY <1>8, <1>9, <2>2 DEF SignsNow, BatchEnds
    <3>2. SigsOf(t) = SigsOf(s)
      BY <1>6, <1>7, <1>9, <1>10, <3>1, SigsStay
    <3> QED
      BY <1>3, <1>7, <2>2, <3>2
  <2> QED
    BY <2>1, <2>2
<1>14. Numbers(t)
  <2> SUFFICES ASSUME NEW i \in 1..(n + 1) PROVE t[i].seq = i - 1
    BY <1>11 DEF Numbers
  <2>1. CASE i = n + 1
    BY <1>7, <1>9, <1>11, <2>1
  <2>2. CASE i \in 1..n
    BY <1>6, <1>7, <1>11, <2>2 DEF Numbers
  <2> QED
    BY <1>7, <2>1, <2>2
<1>15. Formed(cells') /\ Same(cells', cells) /\ cells'.ledger = l
  BY <1>3, <1>5, LedgerSet
<1>16. \E k \in 0..(n + 1) : SnapChecks(k)'
  <2>1. PICK k \in 0..n : SnapChecks(k)
    BY <1>2, <1>5, <1>6 DEF ChecksExact
  <2>2. First(t, k) = First(s, k) /\ k \in 0..(n + 1)
    BY <1>6, <1>7, <1>9, <1>10, <2>1, FirstStays
  <2>3. SnapChecks(k)'
    BY <1>1, <1>2, <1>3, <1>10, <2>1, <2>2 DEF SnapChecks
  <2> QED
    BY <2>2, <2>3
<1>17. mark.checks <= n + 1
  BY <1>7
<1>18. ChecksExact'
  BY <1>3, <1>7, <1>10, <1>11, <1>12, <1>13, <1>14, <1>15, <1>16, <1>17 DEF ChecksExact
<1>19. PICK h : WalExact(h)
  BY <1>4 DEF Exact
<1>20. WalExact(h)'
  <2>1. Same(cells', h[Len(wal)])
    BY <1>1, <1>15, <1>19, SameAll DEF WalExact
  <2> QED
    BY <1>1, <1>3, <1>19, <2>1 DEF WalExact
<1> QED
  BY <1>1, <1>3, <1>4, <1>15, <1>18, <1>20 DEF Exact

\* The restored snapshot is what it was, and the replay begins behind it.
LEMMA ExactRestore ==
    ASSUME SafeInv, LogsExact => Exact, Restore, LogsExact'
    PROVE  Exact'
<1>1. /\ UNCHANGED <<wal, checks, sidecar, snap, mark, faults>> /\ status = "down"
      /\ status' = "replaying" /\ cells' = [snap.cells EXCEPT !.ledger = Restored(@)]
      /\ todo' = [wal |-> Rest(wal, snap.wal), checks |-> Rest(checks, snap.checks)]
  BY DEF Restore, disk, RestoredCells
<1>2. Exact
  BY <1>1, ExactBefore DEF SafeInv
<1>3. ChecksExact /\ Formed(snap.cells) /\ CellsOK(snap.cells) /\ wal \in Seq(Txs)
  BY <1>2 DEF Exact, SafeInv, LogsOK
<1>4. PICK k \in 0..Len(checks) : SnapChecks(k)
  BY <1>3 DEF ChecksExact
<1>5. PICK f : f = First(checks, k)
  OBVIOUS
<1>6. f \in Seq(CheckRecord) /\ Numbers(f) /\ snap.cells.ledger = LedgerOf(f)
  BY <1>3, <1>4, <1>5, FirstIs DEF ChecksExact, SnapChecks
<1>7. Restored(snap.cells.ledger) = snap.cells.ledger
  BY <1>6, RestoredOf
<1>8. PICK c, l : c = snap.cells /\ l = snap.cells.ledger
  OBVIOUS
<1>9. Formed(cells') /\ Same(cells', snap.cells) /\ cells'.ledger = snap.cells.ledger
  <2>1. "ledger" \in DOMAIN c /\ cells' = [c EXCEPT !.ledger = Restored(@)] /\ Restored(c.ledger) = l
    BY <1>1, <1>3, <1>7, <1>8 DEF Formed, Fields
  <2>2. cells' = [c EXCEPT !.ledger = l]
    BY <2>1
  <2>3. Formed(c)
    BY <1>3, <1>8
  <2>4. Formed(cells') /\ Same(cells', c) /\ cells'.ledger = l
    BY ONLY <2>2, <2>3, LedgerSet
  <2> QED
    BY <1>8, <2>4
<1>10. ChecksExact'
  <2>1. k <= k /\ snap.checks <= k /\ snap.checks \in 0..Len(checks)
    BY <1>3, <1>4 DEF ChecksExact, SnapChecks
  <2>2. ReplaysChecks(k, k, snap.checks)'
    BY <1>1, <1>4, <1>5, <1>6, <1>9, <2>1 DEF ReplaysChecks, SnapChecks, Side
  <2>3. SnapChecks(k)'
    BY <1>1, <1>4, <2>1, <2>2 DEF SnapChecks
  <2> QED
    BY <1>1, <1>3, <1>4, <2>3 DEF ChecksExact
<1>11. PICK h : WalExact(h)
  BY <1>2 DEF Exact
<1>12. WalExact(h)'
  <2>1. PICK n, j : n = Len(wal) /\ j = snap.wal
    OBVIOUS
  <2>2. PICK i \in 0..n : j <= i /\ Same(snap.cells, h[i])
    BY <1>11, <2>1 DEF WalExact
  <2>3. n \in Nat /\ j \in 0..i /\ j \in 0..n
    BY <1>3, <2>1, <2>2 DEF SafeInv, LogsOK
  <2>4. CellsOK(h[i])
    BY <1>11, <2>1, <2>2 DEF WalExact, History, CellsGood
  <2>5. Same(cells', h[i]) /\ CellsOK(cells')
    <3>1. CellsOK(cells)'
      BY RestoreStep DEF SafeInv, LogsOK
    <3> QED
      BY <1>9, <2>2, <3>1, SameAll
  <2>6. Replaying(cells', h, j, n)
    BY <2>2, <2>3, <2>4, <2>5, ReplayBegins
  <2>7. todo'.wal = Rest(wal, j)
    BY <1>1, <2>1
  <2> QED
    BY <1>1, <1>11, <2>1, <2>3, <2>6, <2>7 DEF WalExact
<1> QED
  BY <1>1, <1>3, <1>9, <1>10, <1>12 DEF Exact

\* What is left of a log after its first transactions.
LEMMA RestIs ==
    ASSUME NEW S, NEW s \in Seq(S), NEW j \in 0..Len(s)
    PROVE  /\ Rest(s, j) \in Seq(S) /\ Len(Rest(s, j)) = Len(s) - j
           /\ \A i \in 1..Len(Rest(s, j)) : Rest(s, j)[i] = s[i + j]
<1>1. PICK r, n : r = Rest(s, j) /\ n = Len(s)
  OBVIOUS
<1>2. n \in Nat /\ j \in Nat /\ j <= n /\ j + 1 \in Nat \ {0}
  BY <1>1
<1>3. /\ r \in Seq(S) /\ Len(r) = n - j
      /\ \A i \in 1..Len(r) : r[i] = s[i + j]
  BY <1>1, <1>2, SubSeqIs DEF Rest
<1> QED
  BY <1>1, <1>3

\* Taking the first of what is left.
LEMMA RestSteps ==
    ASSUME NEW S, NEW s \in Seq(S), NEW j \in 0..Len(s)
    PROVE  /\ Rest(s, j) = <<>> <=> j = Len(s)
           /\ j < Len(s) => /\ Head(Rest(s, j)) = s[j + 1] /\ j + 1 \in 0..Len(s)
                            /\ Tail(Rest(s, j)) = Rest(s, j + 1)
<1>1. PICK r, n : r = Rest(s, j) /\ n = Len(s)
  OBVIOUS
<1>2. n \in Nat /\ j \in Nat /\ j <= n /\ j + 1 \in Nat \ {0}
  BY <1>1
<1>3. /\ r \in Seq(S) /\ Len(r) = n - j
      /\ \A i \in 1..Len(r) : r[i] = s[i + j]
  BY <1>1, RestIs
<1>4. r = <<>> <=> j = n
  BY <1>2, <1>3
<1>5. ASSUME j < n PROVE Head(r) = s[j + 1] /\ j + 1 \in 0..n /\ Tail(r) = Rest(s, j + 1)
  <2>1. j + 1 \in 0..n /\ (j + 1) + 1 \in Nat \ {0} /\ 1 \in 1..Len(r) /\ r # <<>>
    BY <1>2, <1>3, <1>5
  <2>2. Head(r) = s[1 + j]
    BY <1>3, <2>1
  <2>3. PICK u, v : u = Tail(r) /\ v = Rest(s, j + 1)
    OBVIOUS
  <2>4. u \in Seq(S) /\ Len(u) = n - j - 1 /\ \A i \in 1..(n - j - 1) : u[i] = r[i + 1]
    BY <1>2, <1>3, <1>5, <2>1, <2>3
  <2>5. v \in Seq(S) /\ Len(v) = n - j - 1 /\ \A i \in 1..(n - j - 1) : v[i] = s[i + (j + 1)]
    <3>1. PICK k : k = j + 1
      OBVIOUS
    <3>2. /\ v \in Seq(S) /\ Len(v) = n - k
          /\ \A i \in 1..Len(v) : v[i] = s[i + k]
      BY <1>1, <2>1, <2>3, <3>1, RestIs
    <3>3. n - k = n - j - 1
      BY <1>2, <3>1
    <3> QED
      BY <3>1, <3>2, <3>3
  <2>6. \A i \in 1..(n - j - 1) : u[i] = v[i]
    <3> TAKE i \in 1..(n - j - 1)
    <3>1. i + 1 \in 1..Len(r) /\ (i + 1) + j = i + (j + 1)
      BY <1>2, <1>3
    <3> QED
      BY <1>3, <2>4, <2>5, <3>1
  <2>7. u = v
    BY <2>4, <2>5, <2>6, SeqSame
  <2> QED
    BY <1>2, <2>1, <2>2, <2>3, <2>7
<1> QED
  BY <1>1, <1>4, <1>5

\* A replayed transaction, met before or not.
LEMMA ExactReplayTx ==
    ASSUME SafeInv, LogsExact => Exact, ReplayTx, LogsExact'
    PROVE  Exact'
<1>1. /\ UNCHANGED <<status, wal, checks, sidecar, snap, mark, faults>> /\ status = "replaying"
      /\ todo.wal # <<>> /\ cells' = Applied(cells, Head(todo.wal))
      /\ todo' = [todo EXCEPT !.wal = Tail(@)]
  BY DEF ReplayTx, disk
<1>2. Exact
  BY <1>1, ExactBefore DEF SafeInv
<1>3. /\ CellsOK(cells) /\ QueueOK(cells) /\ wal \in Seq(Txs) /\ Formed(cells)
      /\ DOMAIN todo = {"wal", "checks"}
  BY <1>2 DEF SafeInv, LogsOK, Exact
<1>4. PICK h : WalExact(h)
  BY <1>2 DEF Exact
<1>5. PICK n : n = Len(wal)
  OBVIOUS
<1>6. PICK j \in 0..n : todo.wal = Rest(wal, j) /\ Replaying(cells, h, j, n)
  BY <1>1, <1>4, <1>5 DEF WalExact
<1>7. PICK t : t = wal[j + 1]
  OBVIOUS
<1>8. /\ n \in Nat /\ j < n /\ Head(todo.wal) = t /\ j + 1 \in 0..n
      /\ Tail(todo.wal) = Rest(wal, j + 1) /\ t \in Txs
  <2>1. n \in Nat /\ j \in Nat /\ j <= n /\ j \in 0..Len(wal)
    BY <1>3, <1>5, <1>6
  <2>2. j # n
    BY <1>1, <1>3, <1>5, <1>6, <2>1, RestSteps
  <2>3. j < n /\ j + 1 \in 1..n /\ j + 1 \in 0..n
    BY <2>1, <2>2
  <2>4. Head(todo.wal) = wal[j + 1] /\ Tail(todo.wal) = Rest(wal, j + 1)
    BY <1>3, <1>5, <1>6, <2>1, <2>3, RestSteps
  <2>5. wal[j + 1] \in Txs
    BY <1>3, <1>5, <2>3
  <2> QED
    BY <1>7, <2>1, <2>3, <2>4, <2>5
<1>9. Replaying(cells', h, j + 1, n)
  <2>1. History(h, wal) /\ j < Len(wal) /\ Replaying(cells, h, j, Len(wal)) /\ j \in 0..Len(wal)
    BY <1>4, <1>5, <1>6, <1>8 DEF WalExact
  <2>2. Replaying(Applied(cells, wal[j + 1]), h, j + 1, Len(wal))
    BY <1>3, <2>1, ReplayOne
  <2> QED
    BY <1>1, <1>5, <1>7, <1>8, <2>2
<1>10. todo'.wal = Rest(wal, j + 1) /\ todo'.checks = todo.checks
  BY <1>1, <1>3, <1>8
<1>11. Formed(cells') /\ cells'.ledger = cells.ledger
  <2>1. PICK d : d = Applied(cells, t)
    OBVIOUS
  <2>2. Effect(cells, d, t)
    BY <1>3, <1>8, <2>1, Effects
  <2>3. cells' = d
    BY <1>1, <1>8, <2>1
  <2> QED
    BY <1>3, <2>2, <2>3 DEF Effect
<1>12. WalExact(h)'
  BY <1>1, <1>4, <1>5, <1>8, <1>9, <1>10 DEF WalExact
<1>13. ChecksExact'
  <2>1. PICK k \in 0..Len(checks) : SnapChecks(k)
    BY <1>2 DEF Exact, ChecksExact
  <2>2. PICK m \in 0..Len(checks), i \in 0..Len(checks) : ReplaysChecks(k, m, i)
    BY <1>1, <2>1 DEF SnapChecks
  <2>3. ReplaysChecks(k, m, i)'
    BY <1>1, <1>10, <1>11, <2>2 DEF ReplaysChecks, Side
  <2>4. SnapChecks(k)'
    BY <1>1, <2>1, <2>2, <2>3 DEF SnapChecks
  <2> QED
    BY <1>1, <1>2, <2>1, <2>4 DEF Exact, ChecksExact
<1> QED
  BY <1>1, <1>2, <1>11, <1>12, <1>13 DEF Exact

\* The signature file after a record of the replay.
LEMMA SideStep ==
    ASSUME NEW s \in Seq(CheckRecord), NEW m \in 0..Len(s), m < Len(s), NEW old, NEW new,
           old = SigsOf(s) \/ (Signs /\ Batches(m) < Batches(Len(s))),
           new = IF SigsOf(First(s, m + 1)) # SigsOf(First(s, m)) THEN SigsOf(First(s, m + 1)) ELSE old
    PROVE  new = SigsOf(s) \/ (Signs /\ Batches(m + 1) < Batches(Len(s)))
<1>1. PICK n, f, g : n = Len(s) /\ f = First(s, m) /\ g = First(s, m + 1)
  OBVIOUS
<1>2. n \in Nat /\ m \in Nat /\ m + 1 \in Nat /\ m + 1 <= n /\ m + 1 \in 0..Len(s)
  BY <1>1
<1>3. /\ f \in Seq(CheckRecord) /\ Len(f) = m
      /\ g \in Seq(CheckRecord) /\ Len(g) = m + 1 /\ AgreeTo(g, s, m + 1)
  BY <1>1, <1>2, FirstIs
<1>4. Batches(m + 1) <= Batches(n) /\ Batches(m) \in Nat /\ Batches(m + 1) \in Nat /\ Batches(n) \in Nat
  BY <1>2, BatchOrder, BatchFacts
<1>5. CASE ~Signs
  BY <1>5 DEF SigsOf
<1>6. CASE Signs
  <2>1. Len(SigsOf(f)) = Batches(m) /\ Len(SigsOf(g)) = Batches(m + 1)
    BY <1>3, <1>6, SigsAre
  <2>2. CASE SigsOf(g) = SigsOf(f)
    <3>1. new = old
      BY <1>1, <2>2
    <3>2. Batches(m) = Batches(m + 1)
      BY <2>1, <2>2
    <3> QED
      BY <3>1, <3>2
  <2>3. CASE SigsOf(g) # SigsOf(f)
    <3>1. new = SigsOf(g)
      BY <1>1, <2>3
    <3>2. CASE Batches(m + 1) = Batches(n)
      <4>1. SigsOf(g) = SigsOf(s)
        BY <1>1, <1>2, <1>3, <3>2, SigsSame
      <4> QED
        BY <3>1, <4>1
    <3>3. CASE Batches(m + 1) # Batches(n)
      BY <1>1, <1>4, <1>6, <3>3
    <3> QED
      BY <3>2, <3>3
  <2> QED
    BY <2>2, <2>3
<1> QED
  BY <1>5, <1>6

\* A replayed record, met before or not.
LEMMA ExactReplayCheck ==
    ASSUME SafeInv, LogsExact => Exact, ReplayCheck, LogsExact'
    PROVE  Exact'
<1>1. PICK r, l : r = Head(todo.checks) /\ l = ReplayRecord(cells.ledger, r)
  OBVIOUS
<1>2. /\ UNCHANGED <<status, wal, checks, snap, mark, faults>> /\ status = "replaying"
      /\ todo.checks # <<>> /\ cells' = [cells EXCEPT !.ledger = l]
      /\ sidecar' = (IF l.sigs # cells.ledger.sigs THEN l.sigs ELSE sidecar)
      /\ todo' = [todo EXCEPT !.checks = Tail(@)]
  BY <1>1 DEF ReplayCheck
<1>3. Exact
  BY <1>2, ExactBefore DEF SafeInv
<1>4. ChecksExact /\ Formed(cells) /\ DOMAIN todo = {"wal", "checks"}
  BY <1>3 DEF Exact, SafeInv, LogsOK
<1>5. PICK s, n : s = checks /\ n = Len(s)
  OBVIOUS
<1>6. s \in Seq(CheckRecord) /\ Numbers(s) /\ n \in Nat
  BY <1>4, <1>5 DEF ChecksExact
<1>7. PICK k \in 0..n : SnapChecks(k)
  BY <1>4, <1>5 DEF ChecksExact
<1>8. PICK m \in 0..n, j \in 0..n : ReplaysChecks(k, m, j)
  BY <1>2, <1>5, <1>7 DEF SnapChecks
<1>9. /\ j <= m /\ k <= m /\ todo.checks = Rest(s, j) /\ cells.ledger = LedgerOf(First(s, m))
      /\ sidecar = SigsOf(s) \/ (Signs /\ Batches(m) < Batches(n))
  BY <1>5, <1>8 DEF ReplaysChecks, Side
<1>10. j < n /\ r = s[j + 1] /\ j + 1 \in 0..n /\ Tail(todo.checks) = Rest(s, j + 1)
  <2>1. j # n
    BY <1>2, <1>5, <1>6, <1>9, RestSteps
  <2>2. j < n
    BY <1>6, <2>1
  <2> QED
    BY <1>1, <1>5, <1>6, <1>9, <2>2, RestSteps
<1>11. todo'.checks = Rest(s, j + 1) /\ todo'.wal = todo.wal
  BY <1>2, <1>4, <1>10
<1>12. Formed(cells') /\ Same(cells', cells) /\ cells'.ledger = l
  BY <1>2, <1>4, LedgerSet
<1>13. j \in 0..m /\ m \in Nat /\ j \in Nat /\ k \in Nat
  BY <1>6, <1>9
<1>14. (j < m => l = cells.ledger) /\ (j = m => l = LedgerOf(First(s, m + 1)))
  BY <1>1, <1>5, <1>6, <1>9, <1>10, <1>13, LedgerReplays
<1>15. \E p \in 0..n : ReplaysChecks(k, p, j + 1)'
  <2>1. CASE j < m
    <3>1. l = cells.ledger /\ sidecar' = sidecar /\ j + 1 <= m
      BY <1>2, <1>13, <1>14, <2>1
    <3>2. ReplaysChecks(k, m, j + 1)'
      BY <1>2, <1>5, <1>9, <1>11, <1>12, <3>1 DEF ReplaysChecks, Side
    <3> QED
      BY <3>2
  <2>2. CASE j = m
    <3>1. PICK f, g : f = First(s, m) /\ g = First(s, m + 1)
      OBVIOUS
    <3>2. l = LedgerOf(g) /\ l.sigs = SigsOf(g) /\ cells.ledger.sigs = SigsOf(f)
      BY <1>9, <1>14, <2>2, <3>1 DEF LedgerOf
    <3>3. sidecar' = IF SigsOf(g) # SigsOf(f) THEN SigsOf(g) ELSE sidecar
      BY <1>2, <3>2
    <3>4. sidecar' = SigsOf(s) \/ (Signs /\ Batches(m + 1) < Batches(n))
      BY <1>5, <1>6, <1>9, <1>10, <2>2, <3>1, <3>3, SideStep
    <3>5. j + 1 <= m + 1 /\ k <= m + 1 /\ m + 1 \in 0..n
      BY <1>9, <1>10, <1>13, <2>2
    <3>6. ReplaysChecks(k, m + 1, j + 1)'
      BY <1>2, <1>5, <1>11, <1>12, <3>1, <3>2, <3>4, <3>5 DEF ReplaysChecks, Side
    <3> QED
      BY <3>5, <3>6
  <2> QED
    BY <1>9, <1>13, <2>1, <2>2
<1>16. SnapChecks(k)'
  BY <1>2, <1>5, <1>7, <1>10, <1>15 DEF SnapChecks
<1>17. ChecksExact'
  BY <1>2, <1>4, <1>5, <1>7, <1>16 DEF ChecksExact
<1>18. PICK h : WalExact(h)
  BY <1>3 DEF Exact
<1>19. WalExact(h)'
  <2>1. PICK i \in 0..Len(wal) : todo.wal = Rest(wal, i) /\ Replaying(cells, h, i, Len(wal))
    BY <1>2, <1>18 DEF WalExact
  <2>2. Replaying(cells', h, i, Len(wal))
    BY <1>12, <2>1 DEF Replaying, Between, Same, JudgedIn
  <2> QED
    BY <1>2, <1>11, <1>18, <2>1, <2>2 DEF WalExact
<1> QED
  BY <1>2, <1>3, <1>12, <1>17, <1>19 DEF Exact

\* Where all is replayed, the file has every signature and the boot serves.
LEMMA ExactBoot ==
    ASSUME SafeInv, LogsExact => Exact, BootEnds, LogsExact'
    PROVE  Exact'
<1>1. PICK l : l = [cells.ledger EXCEPT !.sigs = IF sidecar = <<>> THEN @ ELSE sidecar]
  OBVIOUS
<1>2. /\ UNCHANGED <<wal, checks, sidecar, snap, mark, todo, faults>> /\ status = "replaying"
      /\ ~(todo.wal = <<>> /\ todo.checks = <<>>) =>
            IF todo.wal # <<>> THEN ~Replayable(cells, Head(todo.wal))
            ELSE ReplayGap(cells.ledger, Head(todo.checks))
  BY DEF BootEnds, disk
<1>3. todo.wal = <<>> /\ todo.checks = <<>> =>
         /\ cells' = [cells EXCEPT !.ledger = l]
         /\ status' = IF VerifyBatches(l) THEN "up" ELSE "refused"
  BY <1>1 DEF BootEnds
<1>4. Exact
  BY <1>2, ExactBefore DEF SafeInv
<1>5. PICK h : WalExact(h)
  BY <1>4 DEF Exact
<1>6. /\ CellsOK(cells) /\ QueueOK(cells) /\ wal \in Seq(Txs) /\ Formed(cells) /\ Formed(snap.cells)
      /\ ChecksExact
  BY <1>4 DEF SafeInv, LogsOK, Exact
<1>7. PICK n : n = Len(wal)
  OBVIOUS
<1>8. PICK j \in 0..n : todo.wal = Rest(wal, j) /\ Replaying(cells, h, j, n)
  BY <1>2, <1>5, <1>7 DEF WalExact
<1>9. todo.wal = <<>> /\ j = n /\ n \in Nat
  <2>1. n \in Nat
    BY <1>6, <1>7
  <2>2. CASE j < n
    <3>1. Head(todo.wal) = wal[j + 1] /\ todo.wal # <<>>
      BY <1>6, <1>7, <1>8, <2>1, <2>2, RestSteps
    <3>2. Replayable(cells, wal[j + 1])
      BY <1>5, <1>6, <1>7, <1>8, <2>2, ReplayOne DEF WalExact
    <3> QED
      BY <1>2, <3>1, <3>2
  <2>3. CASE j = n
    BY <1>6, <1>7, <1>8, <2>1, <2>3, RestSteps
  <2> QED
    BY <2>1, <2>2, <2>3
<1>10. Same(cells, h[n])
  <2>1. CellsOK(h[n])
    BY <1>5, <1>7, <1>9 DEF WalExact, History, CellsGood
  <2> QED
    BY <1>6, <1>8, <1>9, <2>1, ReplayDone
<1>11. PICK s, p : s = checks /\ p = Len(s)
  OBVIOUS
<1>12. s \in Seq(CheckRecord) /\ Numbers(s) /\ p \in Nat
  BY <1>6, <1>11 DEF ChecksExact
<1>13. PICK k \in 0..p : SnapChecks(k)
  BY <1>6, <1>11 DEF ChecksExact
<1>14. PICK m \in 0..p, i \in 0..p : ReplaysChecks(k, m, i)
  BY <1>2, <1>11, <1>13 DEF SnapChecks
<1>15. /\ i <= m /\ todo.checks = Rest(s, i) /\ cells.ledger = LedgerOf(First(s, m))
       /\ sidecar = SigsOf(s) \/ (Signs /\ Batches(m) < Batches(p))
  BY <1>11, <1>14 DEF ReplaysChecks, Side
<1>16. todo.checks = <<>> /\ i = p
  <2>1. CASE i < p
    <3>1. Head(todo.checks) = s[i + 1] /\ todo.checks # <<>>
      BY <1>11, <1>12, <1>15, <2>1, RestSteps
    <3>2. i \in 0..m
      BY <1>12, <1>15
    <3>3. ~ReplayGap(cells.ledger, s[i + 1])
      BY <1>11, <1>12, <1>15, <2>1, <3>2, LedgerReplays
    <3> QED
      BY <1>2, <1>9, <3>1, <3>3
  <2>2. CASE i = p
    BY <1>11, <1>12, <1>15, <2>2, RestSteps
  <2> QED
    BY <1>12, <2>1, <2>2
<1>17. m = p
  BY <1>12, <1>15, <1>16
<1>18. cells.ledger = LedgerOf(s) /\ sidecar = SigsOf(s)
  <2>1. First(s, p) = s
    BY <1>11, <1>12, FirstIs
  <2>2. Batches(p) \in Nat
    BY <1>12, BatchFacts
  <2> QED
    BY <1>15, <1>17, <2>1, <2>2
<1>19. l = LedgerOf(s)
  <2>1. PICK a, w, b, c : /\ a = SigsOf(s) /\ w = WindowOf(s) /\ c = LedgerOf(s)
                          /\ b = SubSeq(s, Batches(p) * BatchEvery + 1, p)
    OBVIOUS
  <2>2. Parts(c, s, p, w, b, a)
    BY <1>11, <2>1, LedgerOfParts
  <2>3. l = [c EXCEPT !.sigs = a]
    BY <1>1, <1>18, <2>1, <2>2 DEF Parts
  <2>4. Parts(l, s, p, w, b, a)
    BY <2>2, <2>3 DEF Parts
  <2> QED
    BY <2>1, <2>2, <2>4, PartsSame
<1>20. Formed(cells') /\ Same(cells', cells) /\ cells'.ledger = LedgerOf(s)
  BY <1>3, <1>6, <1>9, <1>16, <1>19, LedgerSet
<1>21. status' \in {"up", "refused"} /\ (Signs => status' = "up")
  BY <1>3, <1>9, <1>12, <1>16, <1>19, VerifiedOf
<1>22. WalExact(h)'
  <2>1. Same(cells', h[n])
    BY <1>10, <1>20, SameAll
  <2> QED
    BY <1>2, <1>5, <1>7, <1>21, <2>1 DEF WalExact
<1>23. ChecksExact'
  <2>1. SnapChecks(k)'
    BY <1>2, <1>13, <1>21 DEF SnapChecks
  <2> QED
    BY <1>2, <1>6, <1>11, <1>13, <1>18, <1>20, <1>21, <2>1 DEF ChecksExact
<1> QED
  BY <1>2, <1>6, <1>20, <1>21, <1>22, <1>23 DEF Exact

-----------------------------------------------------------------------------
(* The invariant holds.                                                    *)

\* The empty ledger.
LEMMA NewLedgerIs == LedgerOf(<<>>) = NewLedger /\ SigsOf(<<>>) = <<>> /\ Numbers(<<>>)
<1>1. PICK e : e = <<>>
  OBVIOUS
<1>2. e \in Seq(CheckRecord) /\ Len(e) = 0
  BY <1>1
<1>3. Batches(0) = 0 /\ 0 * BatchEvery = 0
  BY LedgerConstants DEF Batches
<1>4. SigsOf(e) = <<>>
  <2>1. SigsOf(e) \in Seq(Signature) /\ (Signs => Len(SigsOf(e)) = 0) /\ (~Signs => SigsOf(e) = <<>>)
    BY <1>2, <1>3, SigsAre
  <2> QED
    BY <2>1
<1>5. SubSeq(e, Batches(Len(e)) * BatchEvery + 1, Len(e)) = <<>>
  BY <1>2, <1>3, SubSeqIs
<1>6. Parts(LedgerOf(e), <<>>, 0, <<>>, <<>>, <<>>)
  BY <1>1, <1>2, <1>4, <1>5, NoWindow, LedgerOfParts
<1>7. Parts(NewLedger, <<>>, 0, <<>>, <<>>, <<>>)
  BY DEF Parts, NewLedger
<1>8. LedgerOf(e) = NewLedger
  BY <1>6, <1>7, PartsSame
<1>9. Numbers(e)
  BY <1>2 DEF Numbers
<1> QED
  BY <1>1, <1>4, <1>8, <1>9

LEMMA ExactInit ==
    ASSUME Init
    PROVE  ExactInv
<1>1. /\ status = "up" /\ pc = "idle" /\ cells = NewCells /\ wal = <<>> /\ checks = <<>>
      /\ sidecar = <<>> /\ snap = [cells |-> NewCells, wal |-> 0, checks |-> 0]
      /\ mark = [wal |-> 0, checks |-> 0]
  BY DEF Init
<1>2. CellsGood(NewCells) /\ Formed(NewCells) /\ NewCells.ledger = NewLedger
  <2>1. HumanOK(NewCells)
    BY DEF HumanOK, NewCells, NoAdj
  <2>2. DOMAIN NewCells = Fields
    BY DEF NewCells, Fields
  <2>3. NewCells = [y \in Fields |-> NewCells[y]]
    BY DEF NewCells, Fields
  <2>4. NewCells.ledger = NewLedger
    BY DEF NewCells
  <2> QED
    BY <2>1, <2>2, <2>3, <2>4, NewCellsOK DEF CellsGood, Formed
<1>3. PICK h : h = [n \in {0} |-> NewCells]
  OBVIOUS
<1>4. h[0] = NewCells /\ Len(wal) = 0 /\ Len(checks) = 0 /\ 0..0 = {0}
  BY <1>1, <1>3
<1>5. WalExact(h)
  <2>1. History(h, wal)
    BY <1>2, <1>4, LaterAll DEF History
  <2>2. Same(cells, h[0]) /\ Same(snap.cells, h[0])
    BY <1>1, <1>4 DEF Same
  <2> QED
    BY <1>1, <1>4, <2>1, <2>2 DEF WalExact
<1>6. ChecksExact
  <2>1. First(checks, 0) = checks /\ checks \in Seq(CheckRecord)
    <3>1. PICK s : s = checks
      OBVIOUS
    <3>2. s \in Seq(CheckRecord) /\ Len(s) = 0 /\ 0 \in 0..Len(s)
      BY <1>1, <3>1
    <3>3. First(s, 0) = s
      BY <3>2, FirstIs
    <3> QED
      BY <3>1, <3>2, <3>3
  <2>2. SnapChecks(0)
    BY <1>1, <1>2, <1>4, <2>1, NewLedgerIs DEF SnapChecks
  <2> QED
    BY <1>1, <1>2, <1>4, <2>1, <2>2, NewLedgerIs DEF ChecksExact
<1>7. Ruled
  BY <1>1 DEF Ruled
<1> QED
  BY <1>1, <1>2, <1>5, <1>6, <1>7, SafeInit DEF ExactInv, Exact

LEMMA ExactStep ==
    ASSUME ExactInv, [Next]_vars
    PROVE  ExactInv'
<1>1. SafeInv /\ Ruled /\ (LogsExact => Exact)
  BY DEF ExactInv
<1>2. SafeInv'
  BY <1>1, SafeStep
<1>3. \/ CommitMove \/ CheckMove \/ QuietMove \/ Snapshot \/ Crash \/ Restore
      \/ ReplayTx \/ ReplayCheck \/ BootEnds \/ UNCHANGED vars
  <2>1. CASE \/ ChainRejects \/ EmitOutput \/ Publish \/ Concede \/ Settle
             \/ ProbeAudit \/ Audit \/ RaiseFlag \/ Adjudicate
             \/ \E o \in Writes, v \in {"auditor", "initiator"} : Resolve(o, v)
    BY <1>1, <2>1, CommitMoves
  <2>2. CASE \/ RejectedCheck \/ OutputCheck \/ ProbeCheck \/ DegradedAudit \/ PublishCheck
             \/ SanityCheck \/ ConcedeCheck \/ SettleCheck \/ BlindReaudit
    BY <1>1, <2>2, CheckMoves
  <2>3. CASE \/ \E slot \in Slots, object \in Objects : Write(slot, object)
             \/ InjectProbe \/ ProbeNow \/ NoReaudit \/ CycleFails
    BY <2>3, QuietMoves
  <2>4. CASE \/ Snapshot \/ Crash \/ Restore \/ ReplayTx \/ ReplayCheck \/ BootEnds \/ UNCHANGED vars
    BY <2>4
  <2> QED
    BY <2>1, <2>2, <2>3, <2>4 DEF Next
<1>4. Ruled'
  BY <1>1, <1>3, RuledCommit, RuledOther
<1>5. LogsExact' => Exact'
  <2> SUFFICES ASSUME LogsExact' PROVE Exact'
    OBVIOUS
  <2>1. CASE CommitMove
    BY <1>1, <2>1, ExactCommit
  <2>2. CASE CheckMove
    BY <1>1, <2>2, ExactCheck
  <2>3. CASE QuietMove
    BY <1>1, <2>3, ExactQuiet
  <2>4. CASE Snapshot
    BY <1>1, <2>4, ExactSnapshot
  <2>5. CASE Crash
    BY <1>1, <2>5, ExactCrash
  <2>6. CASE Restore
    BY <1>1, <2>6, ExactRestore
  <2>7. CASE ReplayTx
    BY <1>1, <2>7, ExactReplayTx
  <2>8. CASE ReplayCheck
    BY <1>1, <2>8, ExactReplayCheck
  <2>9. CASE BootEnds
    BY <1>1, <2>9, ExactBoot
  <2>10. CASE UNCHANGED vars
    BY <1>1, <2>10, ExactStutter
  <2> QED
    BY <1>3, <2>1, <2>2, <2>3, <2>4, <2>5, <2>6, <2>7, <2>8, <2>9, <2>10
<1> QED
  BY <1>2, <1>4, <1>5 DEF ExactInv

\* The inductive invariant of the replay.
THEOREM ExactInvHolds == Spec => []ExactInv
<1>1. Init => ExactInv
  BY ExactInit
<1>2. ExactInv /\ [Next]_vars => ExactInv'
  BY ExactStep
<1> QED
  BY <1>1, <1>2, PTL DEF Spec

-----------------------------------------------------------------------------
(* What a boot would rebuild.                                              *)

\* The two loops of Rebuilt.
LEMMA RebuiltRuns ==
    ASSUME NEW x, NEW y, x = Rest(wal, snap.wal), y = Rest(checks, snap.checks),
           NEW m \in Nat, m = Len(x), NEW n \in Nat, n = Len(y)
    PROVE  \E g, r : /\ Turns(g, "cells", 0, RestoredCells, x, m)
                     /\ Turns(r, "ledger", 0, RestoredCells.ledger, y, n)
                     /\ Rebuilt = [g[m] EXCEPT !.ledger = r[n]]
<1> DEFINE txs == Rest(wal, snap.wal)
           recs == Rest(checks, snap.checks)
           CellsRun(g) == g = [i \in 0..Len(txs) |->
                IF i = 0 THEN RestoredCells ELSE Applied(g[i - 1], txs[i])]
           LedgerRun(r) == r = [i \in 0..Len(recs) |->
                IF i = 0 THEN RestoredCells.ledger ELSE ReplayRecord(r[i - 1], recs[i])]
<1>1. Rebuilt = [(CHOOSE g : CellsRun(g))[Len(txs)] EXCEPT
                    !.ledger = (CHOOSE r : LedgerRun(r))[Len(recs)]]
  BY DEF Rebuilt
<1>2. \A g : CellsRun(g) <=> Turns(g, "cells", 0, RestoredCells, x, m)
  BY DEF Turns, Turn
<1>3. \A r : LedgerRun(r) <=> Turns(r, "ledger", 0, RestoredCells.ledger, y, n)
  BY DEF Turns, Turn
<1>4. (\E g : CellsRun(g)) /\ \E r : LedgerRun(r)
  <2>1. PICK a, b : a = RestoredCells /\ b = RestoredCells.ledger
    OBVIOUS
  <2>2. PICK g : Turns(g, "cells", 0, a, x, m)
    BY LoopRuns
  <2>3. PICK r : Turns(r, "ledger", 0, b, y, n)
    BY LoopRuns
  <2>4. CellsRun(g)
    BY <1>2, <2>1, <2>2
  <2>5. LedgerRun(r)
    BY <1>3, <2>1, <2>3
  <2> HIDE DEF CellsRun, LedgerRun
  <2> QED
    BY <2>4, <2>5
<1>5. PICK a, b : a = (CHOOSE g : CellsRun(g)) /\ b = (CHOOSE r : LedgerRun(r))
  OBVIOUS
<1>6. Len(txs) = m /\ Len(recs) = n
  OBVIOUS
<1> HIDE DEF CellsRun, LedgerRun, txs, recs
<1>7. CellsRun(a) /\ LedgerRun(b)
  BY <1>4, <1>5
<1>8. Rebuilt = [a[m] EXCEPT !.ledger = b[n]]
  BY <1>1, <1>5, <1>6
<1> QED
  BY <1>2, <1>3, <1>7, <1>8

\* The cells a replay starts from.
LEMMA RestoredIs ==
    ASSUME SafeInv, Exact
    PROVE  /\ CellsOK(RestoredCells) /\ QueueOK(RestoredCells) /\ Formed(RestoredCells)
           /\ Same(RestoredCells, snap.cells) /\ RestoredCells.ledger = snap.cells.ledger
<1>1. PICK k \in 0..Len(checks) : SnapChecks(k)
  BY DEF Exact, ChecksExact
<1>2. PICK f : f = First(checks, k)
  OBVIOUS
<1>3. checks \in Seq(CheckRecord) /\ Numbers(checks) /\ snap.cells.ledger = LedgerOf(f)
  BY <1>1, <1>2 DEF Exact, ChecksExact, SnapChecks
<1>4. f \in Seq(CheckRecord) /\ Numbers(f)
  BY <1>1, <1>2, <1>3, FirstIs
<1>5. PICK c, l, d : c = snap.cells /\ l = snap.cells.ledger /\ d = RestoredCells
  OBVIOUS
<1>6. Restored(c.ledger) = l /\ c.ledger = l
  BY <1>3, <1>4, <1>5, RestoredOf
<1>7. CellsOK(c) /\ QueueOK(c) /\ BackedIn(wal, c) /\ Formed(c)
  BY <1>5 DEF SafeInv, LogsOK, ReviewInv, Exact
<1>8. d = [c EXCEPT !.ledger = l]
  BY <1>5, <1>6, <1>7 DEF RestoredCells, Formed, Fields
<1>9. CellsOK(d) /\ QueueOK(d)
  BY <1>7, <1>8, LedgerOnly
<1>10. Formed(d) /\ Same(d, c) /\ d.ledger = l
  BY ONLY <1>7, <1>8, LedgerSet
<1> QED
  BY <1>5, <1>9, <1>10

\* The transactions after the snapshot's, replayed, give what all of them did.
LEMMA CellsRebuilt ==
    ASSUME SafeInv, Exact, status = "up",
           NEW x, x = Rest(wal, snap.wal), NEW m \in Nat, m = Len(x),
           NEW g, Turns(g, "cells", 0, RestoredCells, x, m)
    PROVE  Formed(g[m]) /\ Same(cells, g[m])
<1>1. PICK h : WalExact(h)
  BY DEF Exact
<1>2. PICK n, a : n = Len(wal) /\ a = snap.wal
  OBVIOUS
<1>3. /\ wal \in Seq(Txs) /\ n \in Nat /\ a \in Nat /\ History(h, wal)
      /\ CellsOK(cells) /\ Same(cells, h[n])
  BY <1>1, <1>2 DEF SafeInv, LogsOK, WalExact
<1>4. PICK k \in 0..n : a <= k /\ Same(snap.cells, h[k])
  BY <1>1, <1>2 DEF WalExact
<1>5. a + 1 \in Nat \ {0} /\ a \in 0..k /\ a <= n /\ a \in 0..n
  BY <1>3, <1>4
<1>6. m = n - a /\ \A i \in 1..m : x[i] = wal[i + a]
  BY <1>2, <1>3, <1>5, RestIs
<1>7. \A i \in 0..n : CellsOK(h[i])
  BY <1>2, <1>3 DEF History, CellsGood
<1> DEFINE Good(c, j) == CellsOK(c) /\ QueueOK(c) /\ Formed(c) /\ Replaying(c, h, j, n)
<1>8. Good(RestoredCells, a)
  <2>1. PICK c : c = RestoredCells
    OBVIOUS
  <2>2. CellsOK(c) /\ QueueOK(c) /\ Formed(c) /\ Same(c, h[k])
    BY <1>4, <2>1, RestoredIs, SameAll
  <2>3. Replaying(c, h, a, n)
    BY <1>3, <1>4, <1>5, <1>7, <2>2, ReplayBegins
  <2> QED
    BY <2>1, <2>2, <2>3
<1>9. ASSUME NEW c, NEW j \in 0..n, j < n, Good(c, j) PROVE Good(Applied(c, wal[j + 1]), j + 1)
  <2>1. PICK t, d : t = wal[j + 1] /\ d = Applied(c, t)
    OBVIOUS
  <2>2. j + 1 \in 1..n /\ t \in Txs
    BY <1>2, <1>3, <1>9, <2>1
  <2>3. Replayable(c, t) /\ Replaying(d, h, j + 1, n)
    BY <1>2, <1>3, <1>9, <2>1, ReplayOne
  <2>4. CellsOK(d) /\ QueueOK(d)
    BY <1>9, <2>1, <2>2, <2>3, AppliedKeeps
  <2>5. Effect(c, d, t)
    BY <1>9, <2>1, <2>2, Effects
  <2>6. Formed(d)
    BY <1>9, <2>5 DEF Effect
  <2> QED
    BY <2>1, <2>3, <2>4, <2>6
<1> HIDE DEF Good
<1>10. g[0] = RestoredCells /\ \A i \in 1..m : g[i] = Turn("cells", 0, g[i - 1], x[i])
  <2>1. PICK c : c = RestoredCells
    OBVIOUS
  <2>2. Turns(g, "cells", 0, c, x, m)
    BY <2>1
  <2>3. g[0] = c /\ \A i \in 1..m : g[i] = Turn("cells", 0, g[i - 1], x[i])
    BY ONLY m \in Nat, <2>2, LoopTurns
  <2> QED
    BY <2>1, <2>3
<1> DEFINE N == {i \in Nat : i <= m => Good(g[i], i + a)}
<1>11. 0 \in N
  BY <1>3, <1>8, <1>10
<1>12. ASSUME NEW i \in N PROVE i + 1 \in N
  <2> SUFFICES ASSUME i + 1 <= m PROVE Good(g[i + 1], (i + 1) + a)
    OBVIOUS
  <2>1. /\ i \in Nat /\ i + 1 \in 1..m /\ (i + 1) - 1 = i /\ i + a \in 0..n /\ i + a < n
        /\ (i + 1) + a = (i + a) + 1 /\ i <= m
    <3>1. i \in Nat /\ i + 1 <= m /\ m = n - a /\ n \in Nat /\ a \in Nat /\ m \in Nat
      BY <1>3, <1>6
    <3> QED
      BY ONLY <3>1
  <2>2. Good(g[i], i + a)
    BY <2>1
  <2>3. g[i + 1] = Applied(g[i], wal[(i + a) + 1])
    <3>1. g[i + 1] = Turn("cells", 0, g[i], x[i + 1])
      BY <1>10, <2>1
    <3>2. x[i + 1] = wal[(i + a) + 1]
      BY <1>6, <2>1
    <3> QED
      BY <3>1, <3>2 DEF Turn
  <2>4. Good(Applied(g[i], wal[(i + a) + 1]), (i + a) + 1)
    BY <1>9, <2>1, <2>2
  <2> QED
    BY <2>1, <2>3, <2>4
<1>13. N = Nat
  <2>1. N \in SUBSET Nat
    OBVIOUS
  <2> HIDE DEF N
  <2> QED
    BY <1>11, <1>12, <2>1, SetInduction
<1>14. Good(g[m], n)
  <2>1. m + a = n
    BY <1>3, <1>6
  <2>2. m \in N
    BY <1>13
  <2> QED
    BY <2>1, <2>2
<1>15. PICK d : d = g[m]
  OBVIOUS
<1>16. CellsOK(d) /\ Formed(d) /\ Replaying(d, h, n, n)
  BY <1>14, <1>15 DEF Good
<1>17. n \in 0..n
  BY <1>3
<1>18. CellsOK(h[n])
  BY <1>7, <1>17
<1>19. Same(d, h[n])
  BY <1>3, <1>16, <1>18, ReplayDone
<1>20. Same(cells, d)
  BY <1>3, <1>19 DEF Same
<1> QED
  BY <1>15, <1>16, <1>20

\* The records after the snapshot's, replayed, give the ledger of all of them.
LEMMA LedgerRebuilt ==
    ASSUME SafeInv, Exact, status = "up",
           NEW y, y = Rest(checks, snap.checks), NEW n \in Nat, n = Len(y),
           NEW r, Turns(r, "ledger", 0, RestoredCells.ledger, y, n)
    PROVE  r[n] = cells.ledger
<1>1. PICK s, b, a : s = checks /\ b = Len(s) /\ a = snap.checks
  OBVIOUS
<1>2. /\ s \in Seq(CheckRecord) /\ Numbers(s) /\ b \in Nat /\ a \in Nat
      /\ cells.ledger = LedgerOf(s)
  BY <1>1 DEF Exact, ChecksExact
<1>3. PICK k \in 0..b : SnapChecks(k)
  BY <1>1 DEF Exact, ChecksExact
<1>4. a <= k /\ RestoredCells.ledger = LedgerOf(First(s, k))
  BY <1>1, <1>3, RestoredIs DEF SnapChecks
<1>5. a + 1 \in Nat \ {0} /\ a <= b /\ k \in Nat
  BY <1>2, <1>3, <1>4
<1>6. n = b - a /\ \A i \in 1..n : y[i] = s[i + a]
  <2>1. a \in 0..Len(s) /\ y = Rest(s, a)
    BY <1>1, <1>2, <1>5
  <2>2. s \in Seq(CheckRecord) /\ b = Len(s) /\ n = Len(y)
    BY <1>1, <1>2
  <2>3. Len(y) = Len(s) - a /\ \A i \in 1..Len(y) : y[i] = s[i + a]
    BY ONLY <2>1, <2>2, RestIs
  <2> QED
    BY ONLY <2>2, <2>3
<1> DEFINE Good(l, j) == \E e \in 0..b : j <= e /\ l = LedgerOf(First(s, e))
<1>7. Good(RestoredCells.ledger, a)
  BY <1>3, <1>4
<1>8. ASSUME NEW l, NEW j \in 0..b, j < b, Good(l, j) PROVE Good(ReplayRecord(l, s[j + 1]), j + 1)
  <2>1. PICK e \in 0..b : j <= e /\ l = LedgerOf(First(s, e))
    BY <1>8
  <2>2. j \in 0..e /\ e \in 0..Len(s) /\ j < Len(s) /\ e \in Nat /\ j \in Nat
    BY <1>1, <1>2, <1>8, <2>1
  <2>3. /\ j < e => ReplayRecord(l, s[j + 1]) = l
        /\ j = e => ReplayRecord(l, s[j + 1]) = LedgerOf(First(s, e + 1))
    BY <1>2, <2>1, <2>2, LedgerReplays
  <2>4. CASE j < e
    <3>1. j + 1 <= e
      BY <2>2, <2>4
    <3> QED
      BY <2>1, <2>3, <2>4, <3>1
  <2>5. CASE j = e
    <3>1. e + 1 \in 0..b /\ j + 1 <= e + 1
      BY <1>2, <1>8, <2>2, <2>5
    <3> QED
      BY <2>3, <2>5, <3>1
  <2> QED
    BY <2>1, <2>2, <2>4, <2>5
<1> HIDE DEF Good
<1>9. r[0] = RestoredCells.ledger /\ \A i \in 1..n : r[i] = Turn("ledger", 0, r[i - 1], y[i])
  <2>1. PICK l : l = RestoredCells.ledger
    OBVIOUS
  <2>2. Turns(r, "ledger", 0, l, y, n)
    BY <2>1
  <2>3. r[0] = l /\ \A i \in 1..n : r[i] = Turn("ledger", 0, r[i - 1], y[i])
    BY ONLY n \in Nat, <2>2, LoopTurns
  <2> QED
    BY <2>1, <2>3
<1> DEFINE N == {i \in Nat : i <= n => Good(r[i], i + a)}
<1>10. 0 \in N
  BY <1>2, <1>7, <1>9
<1>11. ASSUME NEW i \in N PROVE i + 1 \in N
  <2> SUFFICES ASSUME i + 1 <= n PROVE Good(r[i + 1], (i + 1) + a)
    OBVIOUS
  <2>1. /\ i \in Nat /\ i + 1 \in 1..n /\ (i + 1) - 1 = i /\ i + a \in 0..b /\ i + a < b
        /\ (i + 1) + a = (i + a) + 1 /\ i <= n
    <3>1. i \in Nat /\ i + 1 <= n /\ n = b - a /\ b \in Nat /\ a \in Nat /\ n \in Nat
      BY <1>2, <1>6
    <3> QED
      BY ONLY <3>1
  <2>2. Good(r[i], i + a)
    BY <2>1
  <2>3. r[i + 1] = ReplayRecord(r[i], s[(i + a) + 1])
    <3>1. r[i + 1] = Turn("ledger", 0, r[i], y[i + 1])
      BY <1>9, <2>1
    <3>2. y[i + 1] = s[(i + a) + 1]
      BY <1>6, <2>1
    <3> QED
      BY <3>1, <3>2 DEF Turn
  <2>4. Good(ReplayRecord(r[i], s[(i + a) + 1]), (i + a) + 1)
    BY <1>8, <2>1, <2>2
  <2> QED
    BY <2>1, <2>3, <2>4
<1>12. N = Nat
  <2>1. N \in SUBSET Nat
    OBVIOUS
  <2> HIDE DEF N
  <2> QED
    BY <1>10, <1>11, <2>1, SetInduction
<1>13. Good(r[n], b)
  <2>1. n + a = b
    BY <1>2, <1>6
  <2>2. n \in N
    BY <1>12
  <2> QED
    BY <2>1, <2>2
<1>14. PICK e \in 0..b : b <= e /\ r[n] = LedgerOf(First(s, e))
  BY <1>13 DEF Good
<1>15. e = b /\ b \in 0..Len(s) /\ b = Len(s)
  BY <1>1, <1>2, <1>14
<1>16. First(s, b) = s
  BY <1>2, <1>15, FirstIs
<1> QED
  BY <1>2, <1>14, <1>15, <1>16

\* At every point of every cycle, memory is what a boot would rebuild, for any
\* number of transactions, records, snapshots and crashes.
THEOREM LiveStaysReplayable == Spec => []LiveMatchesReplay
<1>1. ExactInv => LiveMatchesReplay
  <2> SUFFICES ASSUME ExactInv, status = "up", LogsExact PROVE cells = Rebuilt
    BY DEF LiveMatchesReplay
  <2>1. SafeInv /\ Exact
    BY DEF ExactInv
  <2>2. PICK x, y : x = Rest(wal, snap.wal) /\ y = Rest(checks, snap.checks)
    OBVIOUS
  <2>3. x \in Seq(Txs) /\ y \in Seq(CheckRecord)
    <3>1. /\ wal \in Seq(Txs) /\ snap.wal \in Nat
          /\ checks \in Seq(CheckRecord) /\ snap.checks \in Nat
      BY <2>1 DEF SafeInv, LogsOK, Exact, ChecksExact
    <3>2. ASSUME NEW S, NEW s \in Seq(S), NEW j \in Nat PROVE Rest(s, j) \in Seq(S)
      <4>1. PICK n, k : n = Len(s) /\ k = j + 1
        OBVIOUS
      <4>2. n \in Nat /\ k \in Nat \ {0} /\ n <= Len(s)
        BY <4>1
      <4>3. SubSeq(s, k, n) \in Seq(S)
        BY <4>2, SubSeqIs
      <4> QED
        BY <4>1, <4>3 DEF Rest
    <3> QED
      BY ONLY <2>2, <3>1, <3>2
  <2>4. PICK m, n : m = Len(x) /\ n = Len(y)
    OBVIOUS
  <2>5. m \in Nat /\ n \in Nat
    BY <2>3, <2>4
  <2>6. PICK g, r : /\ Turns(g, "cells", 0, RestoredCells, x, m)
                    /\ Turns(r, "ledger", 0, RestoredCells.ledger, y, n)
                    /\ Rebuilt = [g[m] EXCEPT !.ledger = r[n]]
    BY ONLY <2>2, <2>4, <2>5, RebuiltRuns
  <2>7. PICK c, l, d : c = g[m] /\ l = r[n] /\ d = [c EXCEPT !.ledger = l]
    OBVIOUS
  <2>8. Formed(c) /\ Same(cells, c)
    BY <2>1, <2>2, <2>4, <2>5, <2>6, <2>7, CellsRebuilt
  <2>9. l = cells.ledger
    BY <2>1, <2>2, <2>4, <2>5, <2>6, <2>7, LedgerRebuilt
  <2>10. Formed(d) /\ Same(d, c) /\ d.ledger = l
    BY ONLY <2>7, <2>8, LedgerSet
  <2>11. Same(cells, d) /\ cells.ledger = d.ledger
    BY <2>8, <2>9, <2>10 DEF Same
  <2>12. Formed(cells)
    BY <2>1 DEF Exact
  <2>13. cells = d
    BY <2>10, <2>11, <2>12, FormedSame
  <2> QED
    BY <2>6, <2>7, <2>13
<1> QED
  BY <1>1, ExactInvHolds, PTL

\* At a tier that signs, a boot is never refused, but for a log that kept a
\* failed commit or a signature file that was not written.
THEOREM SigningBootsServe ==
    ASSUME Signs
    PROVE  Spec => []RecoveryServes
<1>1. ExactInv => RecoveryServes
  BY DEF ExactInv, Exact, RecoveryServes
<1> QED
  BY <1>1, ExactInvHolds, PTL

=============================================================================
