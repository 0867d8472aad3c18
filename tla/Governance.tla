----------------------------- MODULE Governance -----------------------------
(***************************************************************************)
(* The rules a write is judged by and how they change: ContractCell,       *)
(* SpecAnchorCell, DecisionLedgerCell, CongruenceCell and GapCell          *)
(* (trinity/cells.rs), the order in which run_pre_validation asks them     *)
(* (trinity/chain.rs), the operator verbs that change them and their       *)
(* replay (bootstrap/mod.rs), and the gap accounting of the dispatch       *)
(* (router/mod.rs).  TrinityWrite has the budget and the quarantine.       *)
(*                                                                         *)
(* A verb takes its logical time first and the mutation barrier later;     *)
(* under the barrier it validates, commits its frame and changes the       *)
(* cells, all with the Trinity lock held.  A boot restores the snapshot,   *)
(* or provisions the cells, and replays the frames after the snapshot's    *)
(* time in the order of their times.  Contracts, decisions and the states  *)
(* of gaps are changed by the program that embeds the node, the host, and  *)
(* these changes, like the counts of a gap, only reach the disk in a       *)
(* snapshot.                                                               *)
(***************************************************************************)
EXTENDS Integers, Sequences, FiniteSets, FiniteSetsExt

CONSTANTS
    Operators,    \* connections of operators
    Schemas,      \* schema ids
    Version,      \* the number after ".v" in a schema id, 0 when there is none
    BootSchemas,  \* the contracts that provision_fresh registers
    Gaps,         \* the gaps that provision_fresh registers
    Entities,     \* entities that are not in the vocabulary at first
    Scopes,       \* scopes of decisions, the wildcard among them
    Wildcard,     \* WILDCARD_SCOPE
    Founded,      \* the scope of the founding decision
    Writes,       \* the writes that agents may send
    GapN,         \* GAP_FIXATION_N
    Deadlines,    \* values of deprecated_after
    Limits        \* bounds, as records that say how often each thing happens:
                  \* verbs, snapshots, crashes, failed commits that the log kept,
                  \* calls of the host, requests that name a gap

None == "none"
Counted == {"verbs", "snaps", "crashes", "kept", "registers", "decisions", "transitions",
            "dispatches"}

ASSUME GovernanceConstants ==
    /\ Version \in [Schemas -> Nat]
    /\ BootSchemas \subseteq Schemas /\ IsFiniteSet(BootSchemas)
    /\ None \notin Schemas
    /\ {Wildcard, Founded} \subseteq Scopes
    /\ Deadlines \subseteq Nat
    /\ GapN \in Nat \ {0}
    /\ \A l \in Limits : l \in [Counted -> Nat]

VARIABLES
    status,    \* "up", "down" or "refused"
    clock,     \* LogicalClock
    gov,       \* the contents of the cells
    verb,      \* the verb each operator is waiting with
    log,       \* the frames of committed verbs, in the order of the commits
    manifest,  \* the manifest's logical time and the snapshot it names
    limit,     \* the bounds of this behaviour
    used,      \* how much of each bound has been used
    \* What has happened, for the properties:
    acked,     \* frames of the verbs that were answered and are to last
    registered, \* what the host registered since the boot: the schema, the length
               \* of the log then, and whether a snapshot came after it
    forgotten, \* decisions that a crash took before a snapshot had them
    counted,   \* per gap, the dispatches let through since its last transition, by
               \* this life or before the snapshot it started from
    saved      \* what counted was when the last snapshot was taken

history == <<acked, registered, forgotten, counted, saved>>
vars == <<status, clock, gov, verb, log, manifest, limit, used, history>>

Idle == [verb |-> "idle", at |-> 0]
Verbs == {"plan", "apply", "accept", "snapshot"}
NoDecision == [at |-> 0, seq |-> 0]

-----------------------------------------------------------------------------
(* The cells.                                                              *)

\* Contract, as register leaves it.
NewContract == [deprecated |-> FALSE, by |-> None, decision |-> NoDecision,
                after |-> 0, appliedAt |-> 0]

\* DecisionLedgerCell::append: the handle is made from the time and a number.
NewDecision(at, scope) == [at |-> at, scope |-> scope, by |-> NoDecision]
Handle(ds, i) == [at |-> ds[i].at, seq |-> i]

\* Gap, as register leaves it.
NewGap == [state |-> "open", count |-> 0]

\* provision_fresh.  The anchors are a constant set, and so is the vocabulary
\* but for what is accepted later.
Provisioned ==
    [contracts |-> [s \in BootSchemas |-> NewContract],
     decisions |-> <<NewDecision(1, Founded)>>,
     accepted |-> {},
     gaps |-> [g \in Gaps |-> NewGap]]

\* ContractCell::register replaces what is there.
Register(g, s) ==
    [g EXCEPT !.contracts = [x \in DOMAIN @ \cup {s} |-> IF x = s THEN NewContract ELSE @[x]]]

\* DecisionLedgerCell::exists.
Exists(g, d) == d.seq \in DOMAIN g.decisions /\ g.decisions[d.seq].at = d.at

\* The number of the append is the number of decisions before it.
AppendDecision(g, at, scope) == [g EXCEPT !.decisions = Append(@, NewDecision(at, scope))]

\* DecisionLedgerCell::supersede.
MaySupersede(g, old, new) ==
    /\ {old, new} \subseteq DOMAIN g.decisions
    /\ g.decisions[old].by = NoDecision
Supersede(g, old, new) == [g EXCEPT !.decisions[old].by = Handle(g.decisions, new)]

\* active_exact_in_scope, and active_in_scope: the wildcard's decisions hold
\* where the scope has none of its own.
ActiveExact(g, scope) ==
    {Handle(g.decisions, i) : i \in {j \in DOMAIN g.decisions :
        g.decisions[j].scope = scope /\ g.decisions[j].by = NoDecision}}
ActiveInScope(g, scope) ==
    IF scope = Wildcard \/ ActiveExact(g, scope) # {} THEN ActiveExact(g, scope)
    ELSE ActiveExact(g, Wildcard)

-----------------------------------------------------------------------------
(* The chain.                                                              *)

\* validate_schema: a schema without a contract passes.
ValidateSchema(g, w) ==
    w.schema \in DOMAIN g.contracts => ~ g.contracts[w.schema].deprecated /\ w.whole

\* SpecAnchorCell::validate.
ValidateAnchor(w) == w.exempt \/ w.anchored

\* check_conflicts: cites is the decision the payload respects or supersedes.
CheckConflicts(g, w) ==
    \/ w.scope = None
    \/ ActiveInScope(g, w.scope) = {}
    \/ w.cites \in ActiveInScope(g, w.scope)

\* preview_delta: w.names are the entities extract_entities finds in the payload
\* that the vocabulary does not have.
PreviewDelta(g, w) == w.names \subseteq g.accepted

\* The step of run_pre_validation that refuses the write, if one does.
Refusal(g, w) ==
    CASE ~ ValidateSchema(g, w) -> "contract"
      [] ValidateSchema(g, w) /\ ~ ValidateAnchor(w) -> "spec_anchor"
      [] ValidateSchema(g, w) /\ ValidateAnchor(w) /\ ~ CheckConflicts(g, w) -> "decision_ledger"
      [] ValidateSchema(g, w) /\ ValidateAnchor(w) /\ CheckConflicts(g, w)
            /\ ~ PreviewDelta(g, w) -> "congruence"
      [] OTHER -> None

-----------------------------------------------------------------------------
(* Migrations and accepted deltas: what a verb checks and what it changes. *)

\* Mutant of EnsureUpgrade: the versions are not compared.
EnsureUpgradeAny(source, target) == source # target

\* ensure_upgrade: only two ids that both have a version are compared.
EnsureUpgrade(source, target) ==
    /\ source # target
    /\ 0 \notin {Version[source], Version[target]} => Version[source] < Version[target]

ValidateMigrationPlan(g, f) ==
    /\ EnsureUpgrade(f.source, f.target)
    /\ {f.source, f.target} \subseteq DOMAIN g.contracts
    /\ ~ g.contracts[f.target].deprecated
    /\ ~ g.contracts[f.source].deprecated
    /\ g.contracts[f.source].by = None

PlanMigration(g, f) ==
    [g EXCEPT !.contracts[f.source] =
        [@ EXCEPT !.by = f.target, !.decision = f.decision, !.after = f.after, !.appliedAt = 0]]

ValidateApplyMigration(g, f) ==
    /\ f.source \in DOMAIN g.contracts
    /\ ~ g.contracts[f.source].deprecated
    /\ g.contracts[f.source].by # None
    /\ f.at >= g.contracts[f.source].after

ApplyMigration(g, f) ==
    [g EXCEPT !.contracts[f.source] = [@ EXCEPT !.deprecated = TRUE, !.appliedAt = f.at]]

AcceptDelta(g, f) == [g EXCEPT !.accepted = @ \cup {f.entity}]

\* What admin_dispatch checks before it commits the frame.
Validated(g, f) ==
    CASE f.verb = "plan" -> Exists(g, f.decision) /\ ValidateMigrationPlan(g, f)
      [] f.verb = "apply" -> ValidateApplyMigration(g, f)
      [] f.verb = "accept" -> TRUE

\* What it changes after the commit.
Effect(g, f) ==
    CASE f.verb = "plan" -> PlanMigration(g, f)
      [] f.verb = "apply" -> ApplyMigration(g, f)
      [] f.verb = "accept" -> AcceptDelta(g, f)

-----------------------------------------------------------------------------
(* Requests.                                                               *)

Spend(k) ==
    /\ used[k] < limit[k]
    /\ used' = [used EXCEPT ![k] = @ + 1]
    /\ UNCHANGED limit

\* The verbs and their arguments, at the time t.  "congruence accept" takes a
\* list of entities, or one entity.
Decided == {Handle(gov.decisions, i) : i \in DOMAIN gov.decisions}
Requests(v, t) ==
    CASE v = "plan" -> [verb : {v}, at : {t}, source : Schemas, target : Schemas,
                        after : Deadlines, decision : Decided \cup {NoDecision}]
      [] v = "apply" -> [verb : {v}, at : {t}, source : Schemas]
      [] v = "accept" -> [verb : {v}, at : {t}, entity : Entities, listed : BOOLEAN]
      [] OTHER -> {}

\* admin_dispatch up to the barrier: the time comes first.  The arguments have
\* come with the verb and matter under the barrier only.
BeginVerb(o, v) ==
    /\ status = "up"
    /\ verb[o] = Idle
    /\ Spend("verbs")
    /\ clock' = clock + 1
    /\ verb' = [verb EXCEPT ![o] = [verb |-> v, at |-> clock']]
    /\ UNCHANGED <<status, gov, log, manifest, history>>

Answer(o) == verb' = [verb EXCEPT ![o] = Idle]

\* What the verb of an operator can commit.
Committable(o) ==
    {f \in Requests(verb[o].verb, verb[o].at) : Validated(gov, f)}

\* The verb under the barrier: committed and applied, or refused although the
\* log kept the commit.
CommitVerb(o, f) ==
    /\ status = "up"
    /\ Answer(o)
    /\ \/ /\ log' = Append(log, [f |-> f, kept |-> FALSE])
          /\ gov' = Effect(gov, f)
          /\ acked' = IF f.verb = "accept" /\ ~ f.listed THEN acked ELSE acked \cup {f}
          /\ UNCHANGED <<limit, used>>
       \/ /\ Spend("kept")
          /\ log' = Append(log, [f |-> f, kept |-> TRUE])
          /\ UNCHANGED <<gov, acked>>
    /\ UNCHANGED <<status, clock, manifest, registered, forgotten, counted, saved>>

\* The verb refused by a check, or by a commit that left no trace.
RefuseVerb(o) ==
    /\ status = "up"
    /\ verb[o] # Idle
    /\ Answer(o)
    /\ UNCHANGED <<status, clock, gov, log, manifest, limit, used, history>>

\* The schemas a frame is about.
SchemasOf(f) ==
    CASE f.verb = "plan" -> {f.source, f.target}
      [] f.verb = "apply" -> {f.source}
      [] f.verb = "accept" -> {}

\* What snapshot_state keeps of each cell and restore_state brings back: the
\* contracts with their migrations, the decisions with what superseded them and
\* their number, the accepted entities, the gaps with their counts.
ContractState(g) == g.contracts
DecisionState(g) == g.decisions
CongruenceState(g) == g.accepted
GapState(g) == g.gaps
Captured(g) ==
    [contracts |-> ContractState(g), decisions |-> DecisionState(g),
     accepted |-> CongruenceState(g), gaps |-> GapState(g)]

\* "snapshot" under the barrier.  The frames of the log that it contains are
\* counted for the properties, and what it saves of the host is marked.
Snapshot(o) ==
    /\ status = "up"
    /\ verb[o].verb = "snapshot"
    /\ Spend("snaps")
    /\ Answer(o)
    /\ manifest' = [at |-> clock,
                    snap |-> <<[at |-> verb[o].at, gov |-> Captured(gov), has |-> Len(log)]>>]
    /\ registered' = {[r EXCEPT !.saved = TRUE] : r \in registered}
    /\ saved' = counted
    /\ UNCHANGED <<status, clock, gov, log, acked, forgotten, counted>>

-----------------------------------------------------------------------------
(* The host, and requests of agents that name a gap.                       *)

HostRegister(s) ==
    /\ status = "up"
    /\ Spend("registers")
    /\ gov' = Register(gov, s)
    /\ registered' = registered \cup {[schema |-> s, after |-> Len(log), saved |-> FALSE]}
    /\ acked' = {f \in acked : f.verb \in {"plan", "apply"} => f.source # s}
    /\ UNCHANGED <<status, clock, verb, log, manifest, forgotten, counted, saved>>

HostDecide(scope) ==
    /\ status = "up"
    /\ Spend("decisions")
    /\ gov' = AppendDecision(gov, clock, scope)
    /\ UNCHANGED <<status, clock, verb, log, manifest, history>>

HostSupersede(old, new) ==
    /\ status = "up"
    /\ MaySupersede(gov, old, new)
    /\ Spend("decisions")
    /\ gov' = Supersede(gov, old, new)
    /\ UNCHANGED <<status, clock, verb, log, manifest, history>>

\* GapCell::transition.
HostTransition(g, to) ==
    /\ status = "up"
    /\ Spend("transitions")
    /\ gov' = [gov EXCEPT !.gaps[g] = [state |-> to, count |-> 0]]
    /\ counted' = [counted EXCEPT ![g] = 0]
    /\ UNCHANGED <<status, clock, verb, log, manifest, acked, registered, forgotten, saved>>

\* Mutant of OnDispatch: the dispatch that fixates the gap goes through.
OnDispatchLate(gap) ==
    IF gap.state \in {"resolved", "fixated"} THEN [ok |-> FALSE, gap |-> gap]
    ELSE [ok |-> TRUE,
          gap |-> [state |-> IF gap.count + 1 > GapN THEN "fixated" ELSE gap.state,
                   count |-> gap.count + 1]]

\* GapCell::on_dispatch: whether it lets the dispatch through, and the gap
\* after it.
OnDispatch(gap) ==
    IF gap.state \in {"resolved", "fixated"} THEN [ok |-> FALSE, gap |-> gap]
    ELSE [ok |-> gap.count + 1 <= GapN,
          gap |-> [state |-> IF gap.count + 1 > GapN THEN "fixated" ELSE gap.state,
                   count |-> gap.count + 1]]

\* dispatch, for an envelope with a gap_ref.  The handler that follows is in
\* the other modules.
DispatchGap(g) ==
    /\ status = "up"
    /\ Spend("dispatches")
    /\ gov' = [gov EXCEPT !.gaps[g] = OnDispatch(@).gap]
    /\ counted' = [counted EXCEPT ![g] = @ + IF OnDispatch(gov.gaps[g]).ok THEN 1 ELSE 0]
    /\ UNCHANGED <<status, clock, verb, log, manifest, acked, registered, forgotten, saved>>

-----------------------------------------------------------------------------
(* Crashes and boots.                                                      *)

\* What a boot starts from.
Base == IF manifest.snap = <<>> THEN [at |-> 0, gov |-> Provisioned, has |-> 0]
        ELSE manifest.snap[1]

\* A crash may come between the commit of a verb and its answer.
Crash ==
    /\ status = "up"
    /\ Spend("crashes")
    /\ status' = "down"
    /\ \/ UNCHANGED log
       \/ \E o \in Operators : \E f \in Committable(o) :
            log' = Append(log, [f |-> f, kept |-> FALSE])
    /\ verb' = [o \in Operators |-> Idle]
    /\ forgotten' = forgotten \cup {d \in Decided : ~ Exists(Base.gov, d)}
    /\ UNCHANGED <<clock, gov, manifest, acked, registered, counted, saved>>

\* replay_admin_op gives the cells, or fails and gives none.  A plan that is in
\* force and a contract that is deprecated are left as they are; of the deltas
\* only those of a list are read.
Failed == {}

\* Mutant of ReplayAdminOp: what is in force is not recognised.
ReplayAdminOpTwice(g, f) ==
    CASE f.verb = "plan" -> IF ValidateMigrationPlan(g, f) THEN {PlanMigration(g, f)} ELSE Failed
      [] f.verb = "apply" -> IF ValidateApplyMigration(g, f) THEN {ApplyMigration(g, f)} ELSE Failed
      [] f.verb = "accept" -> {IF f.listed THEN AcceptDelta(g, f) ELSE g}

\* Mutant of ReplayAdminOp: a migration is not applied again.
ReplayAdminOpPlans(g, f) ==
    CASE f.verb = "plan" -> IF ValidateMigrationPlan(g, f) THEN {PlanMigration(g, f)} ELSE {g}
      [] f.verb = "apply" -> {g}
      [] f.verb = "accept" -> {IF f.listed THEN AcceptDelta(g, f) ELSE g}

ReplayAdminOp(g, f) ==
    CASE /\ f.verb = "plan"
         /\ f.source \in DOMAIN g.contracts
         /\ g.contracts[f.source].by = f.target
         /\ g.contracts[f.source].decision = f.decision -> {g}
      [] /\ f.verb = "plan"
         /\ f.source \in DOMAIN g.contracts =>
                <<g.contracts[f.source].by, g.contracts[f.source].decision>> # <<f.target, f.decision>>
            -> IF ValidateMigrationPlan(g, f) THEN {PlanMigration(g, f)} ELSE Failed
      [] /\ f.verb = "apply"
         /\ f.source \in DOMAIN g.contracts
         /\ g.contracts[f.source].deprecated -> {g}
      [] /\ f.verb = "apply"
         /\ f.source \in DOMAIN g.contracts => ~ g.contracts[f.source].deprecated
            -> IF ValidateApplyMigration(g, f) THEN {ApplyMigration(g, f)} ELSE Failed
      [] f.verb = "accept" -> {IF f.listed THEN AcceptDelta(g, f) ELSE g}

\* Frames in the order of their logical times, of which no two are the same.
ByTime(frames) ==
    CHOOSE q \in [1..Cardinality(frames) -> frames] :
        \A i, j \in 1..Cardinality(frames) : i < j => q[i].at < q[j].at

\* The cells g and then n frames, one after the other.
Replaying(g, frames, n) ==
    LET r[i \in 0..n] ==
            IF i = 0 THEN {g} ELSE UNION {ReplayAdminOp(h, frames[i]) : h \in r[i - 1]}
    IN  r[n]

\* The frames after the snapshot's time.
Frames == {log[i].f : i \in DOMAIN log}
Due == {f \in Frames : f.at > Base.at}
Replayed == Replaying(Base.gov, ByTime(Due), Cardinality(Due))

\* Committed frames that the next boot skips although the snapshot lacks them.
Skipped == {log[i].f : i \in {j \in DOMAIN log : j > Base.has /\ log[j].f.at <= Base.at}}

\* recover, and the manifest that boot saves.
Boot ==
    /\ status = "down"
    /\ IF Replayed = Failed
       THEN /\ status' = "refused"
            /\ UNCHANGED <<clock, gov, manifest, acked, registered, counted>>
       ELSE /\ status' = "up"
            /\ gov' \in Replayed
            /\ clock' = Max({1, manifest.at, Base.at} \cup {f.at : f \in Frames})
            /\ manifest' = [manifest EXCEPT !.at = clock']
            /\ acked' = acked \ Skipped
            /\ registered' = {}
            /\ counted' = saved
    /\ UNCHANGED <<verb, log, limit, used, forgotten, saved>>

-----------------------------------------------------------------------------

\* The first boot has provisioned the cells and saved a manifest.
Init ==
    /\ status = "up"
    /\ clock = 1
    /\ gov = Provisioned
    /\ verb = [o \in Operators |-> Idle]
    /\ log = <<>>
    /\ manifest = [at |-> 1, snap |-> <<>>]
    /\ limit \in Limits
    /\ used = [k \in Counted |-> 0]
    /\ acked = {}
    /\ registered = {}
    /\ forgotten = {}
    /\ counted = [g \in Gaps |-> 0]
    /\ saved = counted

GapStates == {"open", "investigating", "resolved", "fixated"}

Next ==
    \/ \E o \in Operators :
        \/ \E v \in Verbs : BeginVerb(o, v)
        \/ \E f \in Committable(o) : CommitVerb(o, f)
        \/ RefuseVerb(o)
        \/ Snapshot(o)
    \/ \E s \in Schemas : HostRegister(s)
    \/ \E scope \in Scopes : HostDecide(scope)
    \/ \E old, new \in DOMAIN gov.decisions : HostSupersede(old, new)
    \/ \E g \in Gaps : (\E to \in GapStates : HostTransition(g, to)) \/ DispatchGap(g)
    \/ Crash
    \/ Boot

Spec == Init /\ [][Next]_vars

-----------------------------------------------------------------------------
(* Properties.                                                             *)

\* What an operator was told is what writes are judged by: a write under a
\* schema whose migration was applied is refused by its contract, one that only
\* names an accepted entity is not refused by the congruence step, and a planned
\* migration stays planned under a decision of the ledger; across crashes too.
\* The exceptions: frames that came too late for a snapshot, a delta accepted as
\* one entity, which the replay does not read, and a decision that a crash took,
\* since appending it is not logged and planning with it is.
InForce(f) ==
    CASE f.verb = "apply" -> \A w \in Writes : w.schema = f.source => Refusal(gov, w) = "contract"
      [] f.verb = "plan" -> /\ f.source \in DOMAIN gov.contracts
                            /\ gov.contracts[f.source].by = f.target
                            /\ Exists(gov, f.decision) \/ f.decision \in forgotten
      [] f.verb = "accept" -> \A w \in Writes : w.names = {f.entity} => Refusal(gov, w) # "congruence"
AckedInForce == status = "up" => \A f \in acked : InForce(f)

\* Whoever is turned away from a schema has somewhere to go: its successors,
\* followed as far as they go, include one that takes writes.  This needs ids
\* with versions: two schemas without one can replace each other.
Follows(t, s) == s \in DOMAIN gov.contracts /\ gov.contracts[s].by = t
Successors(s) ==
    {t \in Schemas : \A S \in SUBSET Schemas :
        (\A x \in S \cup {s}, y \in Schemas : Follows(y, x) => y \in S) => t \in S}
SuccessorOpen ==
    status = "up" =>
        \A s \in DOMAIN gov.contracts :
            /\ gov.contracts[s].deprecated
            /\ \A t \in Successors(s) \cup {s} : Version[t] > 0
            => \E t \in Successors(s) \cap DOMAIN gov.contracts : ~ gov.contracts[t].deprecated

\* A boot takes what the verbs have logged, unless a frame came too late for a
\* snapshot, a commit that failed was kept, two verbs about one schema were
\* committed against the order of their times, or the host registered a contract
\* that is in no snapshot, or that a verb of before is replayed on: the times of
\* snapshots need not grow either.
Replayable == {i \in DOMAIN log : log[i].f.at > Base.at}
Crossed ==
    \E i, j \in Replayable :
        /\ i < j
        /\ log[i].f.at > log[j].f.at
        /\ SchemasOf(log[i].f) \cap SchemasOf(log[j].f) # {}
Unsaved ==
    \E r \in registered :
        \/ ~ r.saved
        \/ \E i \in Replayable : i <= r.after /\ r.schema \in SchemasOf(log[i].f)
GovernedBootServes ==
    status = "refused" =>
        \/ Skipped # {}
        \/ \E i \in Replayable : log[i].kept
        \/ Crossed
        \/ Unsaved

\* Between two transitions a gap lets at most GapN dispatches through in one
\* life of the process, those that the snapshot it started from has seen
\* included: a restart gives back no more than what came after that snapshot,
\* although docs/PersistenceLayer.md:287 has the counters strict.
FixationBounded == \A g \in Gaps : counted[g] <= GapN

=============================================================================
