------------------------------ MODULE Curation ------------------------------
(***************************************************************************)
(* The curation cycle (router/mod.rs) over the Librarian, the Warden, the  *)
(* Adjudicator, the cross-check ledger and the guardrails (curator/), with *)
(* crashes, failed transactions, snapshots and recovery (bootstrap/mod.rs).*)
(*                                                                         *)
(* A cycle follows a write, under the mutation barrier: no two overlap.    *)
(* Each of its steps commits one transaction of its own, so that a crash   *)
(* or an error may cut it anywhere.  A transaction is one step, as shown   *)
(* of DurableNode; a failed one may still be found in the log by the next  *)
(* boot.  A failed audit record stops the node: that is a Crash here.      *)
(*                                                                         *)
(* An output is named by the number of the write it follows, and so are    *)
(* its judgment and its adjudication, whose handles are made from the same *)
(* logical time and seed.                                                  *)
(***************************************************************************)
EXTENDS Ledger, FiniteSets

CONSTANTS
    Slots,             \* the (subject, predicate) pairs facts are written to
    Objects,           \* their objects, Blank and Ghost among them
    Blank,             \* a text no skeleton can be made of
    Ghost,             \* a text that names a handle that does not exist
    External,          \* the curators are external models, not the built-in rules
    CalWindow,         \* CALIBRATION_WINDOW
    CalMin,            \* the outcomes CalibrationTracker::accuracy wants to see
    MaxWrites,         \* bound: writes that are curated
    MaxProbes,         \* bound: probes
    MaxSnaps,          \* bound: snapshots
    MaxCrashes,        \* bound: crashes
    MaxErrors,         \* bound: cycles cut by an error that left nothing behind
    MaxKept,           \* bound: failed transactions the log kept
    MaxUnsaved,        \* bound: failed writes of the signature file
    MaxFaults          \* bound: probes, errors and failed writes together

ASSUME CurationConstants ==
    /\ {Blank, Ghost} \subseteq Objects
    /\ External \in BOOLEAN
    /\ CalWindow \in Nat \ {0}
    /\ CalMin \in Nat \ {0}
    /\ {MaxWrites, MaxProbes, MaxSnaps, MaxCrashes, MaxErrors, MaxKept, MaxUnsaved,
        MaxFaults} \subseteq Nat

VARIABLES
    status,     \* "up", "down", "replaying" or "refused"
    pc,         \* the step of the cycle, "idle" between cycles
    made,       \* made[n]: the output that followed write n, and the fact written
    pass,       \* the Warden's verdict of this cycle
    forced,     \* force_adjudication of resolve_audit_failure
    probing,    \* the number of the running probe's judgment, or 0
    cells,      \* the curators' cells and the ledger, in memory
    cal,        \* CalibrationTracker, in memory only
    wal,        \* the committed curator transactions
    checks,     \* the committed records of the cross-check stream
    sidecar,    \* batch-signatures.cbor
    snap,       \* the last snapshot and where the replay after it starts
    mark,       \* where the logs were when the last write began
    todo,       \* recovery: what is left to replay
    faults      \* how much of each fault budget has been used

disk == <<wal, checks, sidecar, snap, mark>>
vars == <<status, pc, made, pass, forced, probing, cells, cal, disk, todo, faults>>

Bands == {"low", "medium", "high"}
Writes == 1..MaxWrites

\* Judgments of the operator's probes have numbers of their own.
Judgments == 1..(MaxWrites + MaxProbes)

FaultLimits == [probe |-> MaxProbes, snap |-> MaxSnaps, crash |-> MaxCrashes,
                error |-> MaxErrors, kept |-> MaxKept, unsaved |-> MaxUnsaved]

Spend(k) ==
    /\ faults[k] < FaultLimits[k]
    /\ \/ k \in {"snap", "crash"}
       \/ faults.probe + faults.error + faults.kept + faults.unsaved < MaxFaults
    /\ faults' = [faults EXCEPT ![k] = @ + 1]

-----------------------------------------------------------------------------
(* What the curators produce and decide.                                   *)

\* SubstrateView::active_sp of the facts written so far, without the new one.
Rivals(slot) == {i \in DOMAIN made : made[i].slot = slot}

\* ConfidenceBand::from_precise of the three confidences decide gives: 0.85,
\* 0.7 and, for an empty skeleton, 0.3.
Band(op, body) ==
    IF op = "supersede" THEN "medium" ELSE IF body = "blank" THEN "low" ELSE "high"

\* curate_unstored and decide, for a fact with this slot and object: the
\* first other fact of the slot decides.  A model that fails or times out
\* gives an empty skeleton (lost).
Decided(slot, object, lost) ==
    LET n == Len(made) + 1
        first == CHOOSE i \in Rivals(slot) : \A j \in Rivals(slot) : i <= j
        old == made[first].object
        op == IF Rivals(slot) # {} /\ old # object THEN "supersede" ELSE "skeleton"
        body == CASE op = "supersede" -> IF Ghost \in {old, object} THEN "ghost" ELSE "text"
                  [] lost \/ object = Blank -> "blank"
                  [] object = Ghost -> "ghost"
                  [] OTHER -> "text"
    IN  [slot |-> slot, object |-> object, op |-> op, body |-> body,
         ground |-> IF op = "supersede" THEN {first, n} ELSE {n},
         band |-> Band(op, body)]

HandleExists(h) == h \in DOMAIN made

\* A fabricated output: it is grounded in a handle nobody wrote.
ProbeOutput == [op |-> "skeleton", ground |-> {0}, body |-> "text"]

\* evaluate_librarian: the verdicts the Warden may come to.  Only an external
\* model may reject what passes the structural checks.
Verdicts(out) ==
    IF \/ \E h \in out.ground : ~HandleExists(h)
       \/ out.body = "ghost"
       \/ out.op = "skeleton" /\ out.body = "blank"
       \/ out.op = "supersede" /\ Cardinality(out.ground) < 2
    THEN {FALSE}
    ELSE IF External THEN BOOLEAN ELSE {TRUE}

\* The flag resolve_audit_failure builds.
FlagOp == IF forced THEN "flag_drift" ELSE "audit_fail"

Live(ground) == {h \in ground : HandleExists(h)}

\* sanity_check_warden.
SanityAgrees(op, ground) ==
    CASE op = "flag_hallucination" -> Live(ground) # ground
      [] op = "flag_drift" -> Cardinality(Live(ground)) >= 2
      [] OTHER -> TRUE

\* policy_table: the resolution, where it has a rule.
PolicyTable(op, ground) ==
    CASE op = "flag_hallucination" /\ ground # {} ->
            {IF Live(ground) # ground THEN "auditor" ELSE "initiator"}
      [] op = "flag_drift" /\ Cardinality(ground) >= 2 ->
            {IF Cardinality(Live(ground)) >= 2 THEN "auditor" ELSE "initiator"}
      [] OTHER -> {}

\* The verdicts of a judge of the pool: with equal evidence on both sides the
\* lean comes from a hash, and a model may say anything.
Judged == {"auditor", "initiator", "human"}

\* adjudicate: the policy, then a judge, then a human.
Resolutions(op, ground) ==
    IF PolicyTable(op, ground) # {} THEN {[path |-> "policy", res |-> r] : r \in PolicyTable(op, ground)}
    ELSE {[path |-> IF r = "human" THEN "human" ELSE "pool", res |-> r] : r \in Judged}

\* CalibrationTracker::record.
Recorded(band, ok) == [cal EXCEPT ![band] = Pushed(@, ok, CalWindow)]

Below(q, floor) ==
    /\ Len(q) >= CalMin
    /\ 100 * Len(SelectSeq(q, LAMBDA b : b)) < floor * Len(q)

\* degraded: HIGH_BAND_FLOOR is 0.85, MEDIUM_BAND_FLOOR 0.60.
Degraded == Below(cal["high"], 85) \/ Below(cal["medium"], 60)

NewCal == [b \in Bands |-> <<>>]

-----------------------------------------------------------------------------
(* The cells, and one committed transaction applied to them.  The cycle    *)
(* applies with the functions the replay uses.                             *)

NoAdj == [res |-> "none", path |-> "none", human |-> FALSE]

NewCells == [lib |-> [n \in Writes |-> "none"],
             facets |-> {},
             audits |-> {},
             adj |-> [n \in Writes |-> NoAdj],
             queue |-> <<>>,
             stats |-> [policy |-> 0, pool |-> 0, human |-> 0],
             ledger |-> NewLedger]

TxKinds == {"output", "audit", "flag", "adjudication", "resolve"}

Tx(k, o, v, p) == [k |-> k, o |-> o, v |-> v, p |-> p]

\* The transactions of the append_*_wal helpers: what each one logs.
OutputTx(o, st) == Tx("output", o, st, "")
StatusTx(o, st) == Tx("output", o, st, "")
AuditTx(o, v, of) == Tx("audit", o, v, of)
FlagTx(o, op) == Tx("flag", o, op, "")
AdjudicationTx(o, r) == Tx("adjudication", o, r.res, r.path)
ResolveTx(o, verdict) == Tx("resolve", o, verdict, "")

\* Mutant of Adjudicated: an escalation found again is queued again.
AdjudicatedAgain(c, t) ==
    [c EXCEPT !.adj[t.o] = [res |-> t.v, path |-> t.p, human |-> FALSE],
              !.stats[t.p] = @ + 1,
              !.queue = IF t.v = "human" THEN Append(@, t.o) ELSE @]

\* replay_adjudication: a known record is left alone.
Adjudicated(c, t) ==
    IF c.adj[t.o].res # "none" THEN c
    ELSE [c EXCEPT !.adj[t.o] = [res |-> t.v, path |-> t.p, human |-> FALSE],
                   !.stats[t.p] = @ + 1,
                   !.queue = IF t.v = "human" THEN Append(@, t.o) ELSE @]

\* A queue without the entries of n.
Without(q, n) ==
    LET r[i \in 0..Len(q)] ==
            IF i = 0 THEN <<>> ELSE IF q[i] = n THEN r[i - 1] ELSE Append(r[i - 1], q[i])
    IN  r[Len(q)]

\* resolve_human and the status that follows.
HumanResolved(c, t) ==
    LET n == t.o
        lib == IF t.v = "auditor" THEN "quarantined" ELSE "active"
        d == [c EXCEPT !.lib[n] = lib]
    IN  IF c.adj[n].human THEN d
        ELSE [d EXCEPT !.adj[n] = [@ EXCEPT !.res = t.v, !.human = TRUE],
                       !.queue = Without(@, n)]

\* The private facets of an output are in its first, pending record only.
Applied(c, t) ==
    CASE t.k = "output" ->
            [c EXCEPT !.lib[t.o] = t.v,
                      !.facets = IF t.v = "pending" THEN @ \cup {t.o} ELSE @]
      [] t.k = "audit" ->
            [c EXCEPT !.audits = {a \in @ : a.id # t.o}
                                     \cup {[id |-> t.o, of |-> t.p, pass |-> t.v]}]
      [] t.k = "flag" -> c
      [] t.k = "adjudication" -> Adjudicated(c, t)
      [] t.k = "resolve" -> HumanResolved(c, t)

\* replay_admin_op refuses to resolve what is not awaiting a human.
Replayable(c, t) ==
    t.k = "resolve" => c.adj[t.o].human \/ c.adj[t.o].res = "human"

-----------------------------------------------------------------------------
(* The steps of a cycle.                                                   *)

Init ==
    /\ status = "up"
    /\ pc = "idle"
    /\ made = <<>>
    /\ pass = FALSE
    /\ forced = FALSE
    /\ probing = 0
    /\ cells = NewCells
    /\ cal = NewCal
    /\ wal = <<>>
    /\ checks = <<>>
    /\ sidecar = <<>>
    /\ snap = [cells |-> NewCells, wal |-> 0, checks |-> 0]
    /\ mark = [wal |-> 0, checks |-> 0]
    /\ todo = [wal |-> <<>>, checks |-> <<>>]
    /\ faults = [k \in DOMAIN FaultLimits |-> 0]

\* The output of the running cycle: one cycle runs at a time.
cur == Len(made)

Idle == status = "up" /\ pc = "idle"
At(step) == status = "up" /\ pc = step
Goto(step) == pc' = step

\* durable_transaction, the effect of t on the cells and the next step.  An
\* append of the commit may fail and leave it in the log all the same: the
\* cycle then ends in an error.
Commit(t, next) ==
    /\ wal' = Append(wal, t)
    /\ \/ /\ cells' = Applied(cells, t)
          /\ Goto(next)
          /\ UNCHANGED faults
       \/ /\ Spend("kept")
          /\ Goto("idle")
          /\ UNCHANGED cells
    /\ UNCHANGED <<status, made, checks, sidecar, snap, mark, todo>>

\* ledger_append: the record is committed, then applied; a batch that is full
\* is signed.  When the signature file cannot be written the cycle ends in an
\* error too.
Check(kind, out, outcome, next) ==
    LET r == NextRecord(cells.ledger, kind, out, outcome)
        l == ApplyRecord(cells.ledger, r)
    IN  /\ checks' = Append(checks, r)
        /\ \/ /\ cells' = [cells EXCEPT !.ledger = l]
              /\ sidecar' = IF SignsNow(cells.ledger, r) THEN l.sigs ELSE sidecar
              /\ Goto(next)
              /\ UNCHANGED faults
           \/ /\ SignsNow(cells.ledger, r)
              /\ Spend("unsaved")
              /\ cells' = [cells EXCEPT !.ledger = ApplyUnsaved(@, r)]
              /\ Goto("idle")
              /\ UNCHANGED sidecar
           \/ /\ Spend("kept")
              /\ Goto("idle")
              /\ UNCHANGED <<cells, sidecar>>
        /\ UNCHANGED <<status, made, wal, snap, mark, todo>>

\* The transaction of this step succeeded.
Succeeds == faults' = faults

\* A fact is durable; its curation begins.
Write(slot, object) ==
    /\ Idle
    /\ cur < MaxWrites
    /\ \E lost \in {FALSE, External} :
          made' = Append(made, Decided(slot, object, lost))
    /\ mark' = [wal |-> Len(wal), checks |-> Len(checks)]
    /\ forced' = FALSE
    /\ probing' = 0
    /\ Goto("output")
    /\ UNCHANGED <<status, pass, cells, cal, wal, checks, sidecar, snap,
                   todo, faults>>

\* The Trinity chain refuses the output and quarantines it.
ChainRejects ==
    /\ At("output")
    /\ Commit(OutputTx(cur, "quarantined"), "rejected")
    /\ UNCHANGED <<pass, forced, probing, cal>>

RejectedCheck ==
    /\ At("rejected")
    /\ Check("output", cur, "disagree", "idle")
    /\ UNCHANGED <<pass, forced, probing, cal>>

\* store_private_facets and the pending output.
EmitOutput ==
    /\ At("output")
    /\ Commit(OutputTx(cur, "pending"), "emitted")
    /\ UNCHANGED <<pass, forced, probing, cal>>

OutputCheck ==
    /\ At("emitted")
    /\ Check("output", cur, "agree", "audit")
    /\ UNCHANGED <<pass, forced, probing, cal>>

\* run_adversarial_probe in a cycle, when should_probe says so.  Its judgment
\* gets the handle the audit of the output is about to get.
InjectProbe ==
    /\ At("audit")
    /\ probing = 0
    /\ Spend("probe")
    /\ probing' = cur
    /\ Goto("probe")
    /\ UNCHANGED <<status, made, pass, forced, cells, cal, disk, todo>>

\* run_curation_probe: the operator's.
ProbeNow ==
    /\ Idle
    /\ Spend("probe")
    /\ probing' = MaxWrites + faults["probe"] + 1
    /\ Goto("probe")
    /\ UNCHANGED <<status, made, pass, forced, cells, cal, disk, todo>>

VerdictName(v) == IF v THEN "pass" ELSE "fail"

ProbeAudit ==
    /\ At("probe")
    /\ \E v \in Verdicts(ProbeOutput) :
          /\ pass' = v
          /\ Commit(AuditTx(probing, VerdictName(v), "probe"), "probed")
    /\ UNCHANGED <<forced, probing, cal>>

\* A probe is named by its judgment in the ledger.
ProbeCheck ==
    /\ At("probed")
    /\ Check("probe", probing, IF pass THEN "agree" ELSE "disagree",
             IF probing <= MaxWrites THEN "audit" ELSE "idle")
    /\ UNCHANGED <<pass, forced, probing, cal>>

\* The Warden's audit.  In degraded mode a pass is escalated all the same.
Audit ==
    /\ At("audit")
    /\ \E v \in Verdicts(made[cur]) :
          /\ pass' = v
          /\ forced' = (v /\ Degraded)
          /\ Commit(AuditTx(cur, VerdictName(v), "output"),
                    IF ~v THEN "flag" ELSE IF Degraded THEN "degraded" ELSE "publish")
    /\ UNCHANGED <<probing, cal>>

DegradedAudit ==
    /\ At("degraded")
    /\ Check("audit", cur, "agree", "flag")
    /\ UNCHANGED <<pass, forced, probing, cal>>

Publish ==
    /\ At("publish")
    /\ Commit(StatusTx(cur, "active"), "published")
    /\ UNCHANGED <<pass, forced, probing, cal>>

PublishCheck ==
    /\ At("published")
    /\ Check("audit", cur, "agree", "blind")
    /\ cal' = IF Succeeds THEN Recorded(made[cur].band, TRUE) ELSE cal
    /\ UNCHANGED <<pass, forced, probing>>

\* resolve_audit_failure: the flag, which the Librarian may dispute unless
\* the adjudication is forced.
RaiseFlag ==
    /\ At("flag")
    /\ Commit(FlagTx(cur, FlagOp), IF forced THEN "dispute" ELSE "sanity")
    /\ UNCHANGED <<pass, forced, probing, cal>>

SanityCheck ==
    /\ At("sanity")
    /\ LET agrees == SanityAgrees(FlagOp, made[cur].ground)
       IN  Check("sanity", cur, IF agrees THEN "agree" ELSE "disagree",
                 IF agrees THEN "conceded" ELSE "dispute")
    /\ UNCHANGED <<pass, forced, probing, cal>>

\* Mutant of Concede: a conceded output keeps its status.
ConcedeQuietly ==
    /\ At("conceded")
    /\ Goto("withdrawn")
    /\ UNCHANGED <<status, made, pass, forced, probing, cells, cal, disk, todo, faults>>

Concede ==
    /\ At("conceded")
    /\ Commit(StatusTx(cur, "quarantined"), "withdrawn")
    /\ UNCHANGED <<pass, forced, probing, cal>>

ConcedeCheck ==
    /\ At("withdrawn")
    /\ Check("audit", cur, "disagree", "idle")
    /\ cal' = IF Succeeds THEN Recorded(made[cur].band, FALSE) ELSE cal
    /\ UNCHANGED <<pass, forced, probing>>

Adjudicate ==
    /\ At("dispute")
    /\ \E r \in Resolutions(FlagOp, made[cur].ground) :
          Commit(AdjudicationTx(cur, r), "resolved")
    /\ UNCHANGED <<pass, forced, probing, cal>>

\* Mutant of Settle: an escalated output is put to use meanwhile.
SettleEarly ==
    /\ At("resolved")
    /\ Commit(StatusTx(cur, "active"), "settled")
    /\ UNCHANGED <<pass, forced, probing, cal>>

\* The status the resolution asks for, and the outcome the calibration sees.
Settle ==
    /\ At("resolved")
    /\ cells.adj[cur].res # "human"
    /\ LET upheld == cells.adj[cur].res = "initiator"
       IN  /\ Commit(StatusTx(cur, IF upheld THEN "active" ELSE "quarantined"),
                     "settled")
           /\ cal' = IF Succeeds THEN Recorded(made[cur].band, upheld) ELSE cal
    /\ UNCHANGED <<pass, forced, probing>>

SettledAs(res) ==
    CASE res = "initiator" -> "agree"
      [] res = "auditor" -> "disagree"
      [] res = "human" -> "escalated"

\* The last ledger record.  An escalated output stays pending.
SettleCheck ==
    /\ \/ At("settled")
       \/ At("resolved") /\ cells.adj[cur].res = "human"
    /\ Check(IF forced THEN "adjudication" ELSE "audit", cur,
             SettledAs(cells.adj[cur].res), IF forced THEN "blind" ELSE "idle")
    /\ UNCHANGED <<pass, forced, probing, cal>>

\* The blind re-audit of a passed output, when should_reaudit says so: two
\* fresh reviews of frozen evidence, whose verdicts only models make differ.
BlindReaudit ==
    /\ At("blind")
    /\ \E v1, v2 \in Verdicts(made[cur]) :
          Check("blind", cur, IF v1 = v2 THEN "agree" ELSE "disagree", "idle")
    /\ UNCHANGED <<pass, forced, probing, cal>>

NoReaudit ==
    /\ At("blind")
    /\ Goto("idle")
    /\ UNCHANGED <<status, made, pass, forced, probing, cells, cal, disk, todo, faults>>

\* The operator's resolve of an escalated dispute.
Resolve(o, verdict) ==
    /\ Idle
    /\ cells.adj[o].res = "human"
    /\ ~cells.adj[o].human
    /\ cells.lib[o] # "none"
    /\ Commit(ResolveTx(o, verdict), "idle")
    /\ UNCHANGED <<pass, forced, probing, cal>>

-----------------------------------------------------------------------------
(* Errors, snapshots, crashes and recovery.                                *)

\* The chain refuses a later artifact of the cycle, or a prepare cannot be
\* logged: the cycle ends in an error and nothing undoes its earlier steps.
CycleFails ==
    /\ status = "up"
    /\ pc \notin {"idle", "blind"}
    /\ Spend("error")
    /\ Goto("idle")
    /\ UNCHANGED <<status, made, pass, forced, probing, cells, cal, disk, todo>>

\* What snapshot_state keeps of each curator and restore_state brings back: the
\* outputs with their status and facets, the audits, the adjudications with the
\* queue and the counts.
LibrarianState(c) == [lib |-> c.lib, facets |-> c.facets]
WardenState(c) == [audits |-> c.audits]
AdjudicatorState(c) == [adj |-> c.adj, queue |-> c.queue, stats |-> c.stats]
Captured(c) ==
    [lib |-> LibrarianState(c).lib, facets |-> LibrarianState(c).facets,
     audits |-> WardenState(c).audits,
     adj |-> AdjudicatorState(c).adj, queue |-> AdjudicatorState(c).queue,
     stats |-> AdjudicatorState(c).stats,
     ledger |-> c.ledger]

\* A snapshot asked for by the operator starts the replay after everything
\* logged; an automatic one has the logical time of the request it follows,
\* and the replay repeats that request's curation and what others committed
\* before the snapshot got the barrier.
Snapshot ==
    /\ Idle
    /\ Spend("snap")
    /\ \E from \in {mark, [wal |-> Len(wal), checks |-> Len(checks)]} :
          snap' = [cells |-> Captured(cells), wal |-> from.wal, checks |-> from.checks]
    /\ UNCHANGED <<status, pc, made, pass, forced, probing, cells, cal, wal, checks,
                   sidecar, mark, todo>>

\* The memory is lost, the calibration with it.
Crash ==
    /\ status \in {"up", "replaying"}
    /\ Spend("crash")
    /\ status' = "down"
    /\ Goto("idle")
    /\ cells' = NewCells
    /\ cal' = NewCal
    /\ todo' = [wal |-> <<>>, checks |-> <<>>]
    /\ UNCHANGED <<made, pass, forced, probing, disk>>

Rest(s, from) == SubSeq(s, from + 1, Len(s))

RestoredCells == [snap.cells EXCEPT !.ledger = Restored(@)]

Restore ==
    /\ status = "down"
    /\ status' = "replaying"
    /\ cells' = RestoredCells
    /\ todo' = [wal |-> Rest(wal, snap.wal), checks |-> Rest(checks, snap.checks)]
    /\ UNCHANGED <<pc, made, pass, forced, probing, cal, disk, faults>>

\* replay_frame of a shard's transaction.  The merge by logical time and cell
\* keeps the order of what one cell sees.
ReplayTx ==
    /\ status = "replaying"
    /\ todo.wal # <<>>
    /\ Replayable(cells, Head(todo.wal))
    /\ cells' = Applied(cells, Head(todo.wal))
    /\ todo' = [todo EXCEPT !.wal = Tail(@)]
    /\ UNCHANGED <<status, pc, made, pass, forced, probing, cal, disk, faults>>

\* replay_record of the cross-check stream, which comes after the shards.
ReplayCheck ==
    /\ status = "replaying"
    /\ todo.wal = <<>>
    /\ todo.checks # <<>>
    /\ LET r == Head(todo.checks)
           l == ReplayRecord(cells.ledger, r)
       IN  /\ ~ReplayGap(cells.ledger, r)
           /\ cells' = [cells EXCEPT !.ledger = l]
           /\ sidecar' = IF l.sigs # cells.ledger.sigs THEN l.sigs ELSE sidecar
    /\ todo' = [todo EXCEPT !.checks = Tail(@)]
    /\ UNCHANGED <<status, pc, made, pass, forced, probing, cal, wal, checks, snap,
                   mark, faults>>

\* reload_signature_state_from_sidecar and verify_batch_signatures, with a
\* boot that fails when they, or a replay, do.
BootEnds ==
    LET l == [cells.ledger EXCEPT !.sigs = IF sidecar = <<>> THEN @ ELSE sidecar]
        replayed == todo.wal = <<>> /\ todo.checks = <<>>
        stuck == IF todo.wal # <<>> THEN ~Replayable(cells, Head(todo.wal))
                 ELSE ReplayGap(cells.ledger, Head(todo.checks))
    IN  /\ status = "replaying"
        /\ ~replayed => stuck
        /\ cells' = IF replayed THEN [cells EXCEPT !.ledger = l] ELSE cells
        /\ status' = IF replayed /\ VerifyBatches(l) THEN "up" ELSE "refused"
        /\ UNCHANGED <<pc, made, pass, forced, probing, cal, disk, todo, faults>>

Next ==
    \/ \E slot \in Slots, object \in Objects : Write(slot, object)
    \/ ChainRejects \/ RejectedCheck \/ EmitOutput \/ OutputCheck
    \/ InjectProbe \/ ProbeNow \/ ProbeAudit \/ ProbeCheck
    \/ Audit \/ DegradedAudit \/ Publish \/ PublishCheck
    \/ RaiseFlag \/ SanityCheck \/ Concede \/ ConcedeCheck
    \/ Adjudicate \/ Settle \/ SettleCheck \/ BlindReaudit \/ NoReaudit
    \/ \E o \in Writes, v \in {"auditor", "initiator"} : Resolve(o, v)
    \/ CycleFails \/ Snapshot
    \/ Crash \/ Restore \/ ReplayTx \/ ReplayCheck \/ BootEnds

Spec == Init /\ [][Next]_vars

-----------------------------------------------------------------------------
(* Properties.                                                             *)

Logged(k, o, v) == \E i \in DOMAIN wal : wal[i].k = k /\ wal[i].o = o /\ wal[i].v = v

AuditPassed(o) ==
    \E i \in DOMAIN wal : wal[i] = AuditTx(o, "pass", "output")

\* An output is put to use only on a logged decision for it: the human's, the
\* adjudicator's, or, where no dispute was logged, the Warden's audit.  Status
\* lines, decisions and crashes may be cut apart anywhere (run_curation_cycle,
\* resolve_audit_failure, replay_frame).
ActiveIsReviewed ==
    \A o \in Writes : cells.lib[o] = "active" =>
        \/ Logged("resolve", o, "initiator")
        \/ Logged("adjudication", o, "initiator")
        \/ /\ AuditPassed(o)
           /\ ~Logged("adjudication", o, "auditor")
           /\ ~Logged("adjudication", o, "human")

\* No commit was kept by the log behind a failed append, and the signature
\* file was always written.
LogsExact == faults["kept"] = 0 /\ faults["unsaved"] = 0

\* What a boot would rebuild from the snapshot and the logs.
Rebuilt ==
    LET txs == Rest(wal, snap.wal)
        recs == Rest(checks, snap.checks)
        c[i \in 0..Len(txs)] ==
            IF i = 0 THEN RestoredCells ELSE Applied(c[i - 1], txs[i])
        l[i \in 0..Len(recs)] ==
            IF i = 0 THEN RestoredCells.ledger ELSE ReplayRecord(l[i - 1], recs[i])
    IN  [c[Len(txs)] EXCEPT !.ledger = l[Len(recs)]]

\* At every point of every cycle the curators' cells, the adjudicator's queue
\* and the ledger with its agreement window, its open batch and its
\* signatures are what a boot would rebuild, wherever the snapshot was cut
\* (replay_record, restore_state, replay_adjudication).
LiveMatchesReplay == status = "up" /\ LogsExact => cells = Rebuilt

\* A boot is refused only after a log that kept a failed commit or a signature
\* file that could not be written (recover, verify_batch_signatures).  At a
\* tier that does not sign this fails as soon as a batch is full.
RecoveryServes == status = "refused" => ~LogsExact

\* The operator's queue lists each escalated dispute that awaits a human, once,
\* and every adjudication is counted under one path only, though replays meet
\* them again (replay_adjudication, resolve_human).
EscalationsQueued ==
    LET q == cells.queue
        decided == {o \in Writes : cells.adj[o].res # "none"}
    IN  /\ {q[i] : i \in DOMAIN q} =
               {o \in Writes : cells.adj[o].res = "human" /\ ~cells.adj[o].human}
        /\ Len(q) = Cardinality({q[i] : i \in DOMAIN q})
        /\ cells.stats.policy + cells.stats.pool + cells.stats.human =
               Cardinality(decided)

\* Where no fault has cut a cycle, an output is left pending only when a human
\* is asked: nothing else would ever decide it (run_curation_cycle).
PendingAwaitsHuman ==
    /\ Idle
    /\ \A k \in {"crash", "error", "kept", "unsaved"} : faults[k] = 0
    => \A o \in 1..cur :
          /\ cells.lib[o] # "none"
          /\ cells.lib[o] = "pending" <=> \E i \in DOMAIN cells.queue : cells.queue[i] = o

=============================================================================
