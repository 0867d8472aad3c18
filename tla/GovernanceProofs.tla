-------------------------- MODULE GovernanceProofs --------------------------
(***************************************************************************)
(* What holds of the rules that writes are judged by, for any schemas,     *)
(* decisions, gaps, operators, snapshots and crashes.                      *)
(***************************************************************************)
EXTENDS Governance, FiniteSetTheorems, NaturalsInduction, SequenceTheorems, TLAPS

-----------------------------------------------------------------------------
(* Ordering the frames of a replay.                                        *)

\* Induction over the naturals, stated of a set.
LEMMA SetInduction ==
    ASSUME NEW S \in SUBSET Nat, 0 \in S, \A n \in S : n + 1 \in S
    PROVE  S = Nat
<1> DEFINE T == Nat \ S
<1> SUFFICES ASSUME T # {} PROVE FALSE
  OBVIOUS
<1>1. PICK x \in T : \A y \in T : ~(<<y, x>> \in OpToRel(<, Nat))
  BY WFMin, NatLessThanWellFounded
<1>2. \A y \in T : ~(y < x)
  BY <1>1 DEF OpToRel
<1>3. x # 0 /\ x - 1 \in Nat
  OBVIOUS
<1>4. x - 1 \in S
  BY <1>2, <1>3
<1> QED
  BY <1>3, <1>4

\* q lists the elements of T in the order of their keys.
Lists(q, m, T, key) ==
    /\ q \in [1..m -> T]
    /\ \A x \in T : \E i \in 1..m : q[i] = x
    /\ \A i, j \in 1..m : i < j => key[q[i]] < key[q[j]]

\* Elements with different keys below n can be listed, by induction on n.
LEMMA ListExists ==
    ASSUME NEW S, NEW key \in [S -> Nat],
           \A x, y \in S : key[x] = key[y] => x = y
    PROVE  \A n \in Nat : \A T \in SUBSET S : (\A x \in T : key[x] < n)
               => \E m \in Nat : \E q : Lists(q, m, T, key)
<1> DEFINE Below(n, T) == \A x \in T : key[x] < n
           N == {n \in Nat : \A T \in SUBSET S : Below(n, T)
                                => \E m \in Nat : \E q : Lists(q, m, T, key)}
<1>1. 0 \in N
  <2> SUFFICES ASSUME NEW T \in SUBSET S, Below(0, T)
               PROVE  \E m \in Nat : \E q : Lists(q, m, T, key)
    OBVIOUS
  <2>1. T = {}
    OBVIOUS
  <2>2. Lists([i \in 1..0 |-> 0], 0, T, key)
    BY <2>1 DEF Lists
  <2> QED
    BY <2>2
<1>2. ASSUME NEW n \in N PROVE n + 1 \in N
  <2> SUFFICES ASSUME NEW T \in SUBSET S, Below(n + 1, T)
               PROVE  \E m \in Nat : \E q : Lists(q, m, T, key)
    OBVIOUS
  <2>1. CASE \A x \in T : key[x] # n
    <3>1. Below(n, T)
      BY <2>1
    <3> QED
      BY <3>1
  <2>2. ASSUME NEW z \in T, key[z] = n
        PROVE  \E m \in Nat : \E q : Lists(q, m, T, key)
    <3> DEFINE R == T \ {z}
    <3>1. Below(n, R)
      <4> SUFFICES ASSUME NEW x \in R PROVE key[x] < n
        OBVIOUS
      <4>1. key[x] # n /\ key[x] < n + 1 /\ key[x] \in Nat
        BY <2>2
      <4> QED
        BY <4>1
    <3>2. PICK m \in Nat : \E q : Lists(q, m, R, key)
      BY <3>1
    <3>3. PICK q : Lists(q, m, R, key)
      BY <3>2
    <3> DEFINE p == [i \in 1..(m + 1) |-> IF i = m + 1 THEN z ELSE q[i]]
    <3>4. /\ \A i \in 1..m : q[i] \in R
          /\ \A x \in R : \E i \in 1..m : q[i] = x
          /\ \A i, j \in 1..m : i < j => key[q[i]] < key[q[j]]
      BY <3>3 DEF Lists
    <3>5. \A i \in 1..(m + 1) : i \in 1..m \/ i = m + 1
      OBVIOUS
    <3>6. (\A i \in 1..m : p[i] = q[i] /\ i \in 1..(m + 1) /\ i # m + 1) /\ p[m + 1] = z
          /\ m + 1 \in 1..(m + 1)
      OBVIOUS
    <3>7. p \in [1..(m + 1) -> T]
      BY <3>4, <3>5, <3>6
    <3> HIDE DEF p
    <3>8. \A x \in T : \E i \in 1..(m + 1) : p[i] = x
      BY <3>4, <3>6
    <3>9. \A i, j \in 1..(m + 1) : i < j => key[p[i]] < key[p[j]]
      <4> SUFFICES ASSUME NEW i \in 1..(m + 1), NEW j \in 1..(m + 1), i < j
                   PROVE  key[p[i]] < key[p[j]]
        OBVIOUS
      <4>1. i \in 1..m
        OBVIOUS
      <4>2. CASE j \in 1..m
        BY <3>4, <3>6, <4>1, <4>2
      <4>3. CASE j = m + 1
        BY <2>2, <3>1, <3>4, <3>6, <4>1, <4>3
      <4> QED
        BY <3>5, <4>2, <4>3
    <3>10. Lists(p, m + 1, T, key)
      BY <3>7, <3>8, <3>9 DEF Lists
    <3> QED
      BY <3>10
  <2> QED
    BY <2>1, <2>2
<1> HIDE DEF Below
<1>3. N \in SUBSET Nat
  OBVIOUS
<1>4. N = Nat
  <2> HIDE DEF N
  <2> QED
    BY <1>1, <1>2, <1>3, SetInduction
<1> QED
  BY <1>4 DEF Below

\* What ByTime gives.
LEMMA ByTimeLists ==
    ASSUME NEW S, \A x \in S : x.at \in Nat, NEW n \in Nat,
           \A x, y \in S : x.at = y.at => x = y,
           \A x \in S : x.at < n
    PROVE  /\ Cardinality(S) \in Nat
           /\ ByTime(S) \in [1..Cardinality(S) -> S]
           /\ \A x \in S : \E i \in 1..Cardinality(S) : ByTime(S)[i] = x
           /\ \A i, j \in 1..Cardinality(S) : i < j => ByTime(S)[i].at < ByTime(S)[j].at
<1> DEFINE key == [x \in S |-> x.at]
<1>1. key \in [S -> Nat] /\ (\A x, y \in S : key[x] = key[y] => x = y) /\ \A x \in S : key[x] < n
  OBVIOUS
<1>2. \A x \in S : key[x] = x.at
  OBVIOUS
<1> HIDE DEF key
<1>3. PICK m \in Nat : \E q : Lists(q, m, S, key)
  BY <1>1, ListExists
<1>4. PICK q : Lists(q, m, S, key)
  BY <1>3
<1>5. /\ q \in [1..m -> S] /\ \A x \in S : \E i \in 1..m : q[i] = x
      /\ \A i, j \in 1..m : i < j => key[q[i]] < key[q[j]]
  BY <1>4 DEF Lists
<1>6. \A i, j \in 1..m : i < j => q[i].at < q[j].at
  BY <1>2, <1>5
<1>7. \A i, j \in 1..m : q[i] = q[j] => i = j
  <2> SUFFICES ASSUME NEW i \in 1..m, NEW j \in 1..m, q[i] = q[j], i < j
               PROVE  FALSE
    OBVIOUS
  <2>1. q[i].at < q[j].at /\ q[i].at \in Nat
    BY <1>5, <1>6
  <2> QED
    BY <2>1
<1>8. q \in Bijection(1..m, S)
  BY <1>5, <1>7 DEF Bijection, Injection, Surjection, IsInjective
<1>9. Cardinality(S) = m /\ IsFiniteSet(S)
  BY <1>8, FS_CountingElements, FS_NatBijection DEF ExistsBijection
<1>10. PICK p : /\ p \in [1..m -> S]
                /\ \A i, j \in 1..m : i < j => p[i].at < p[j].at
                /\ p = ByTime(S)
  BY <1>5, <1>6, <1>9 DEF ByTime
<1>11. \A x \in S : \E i \in 1..m : p[i] = x
  <2>1. \A i, j \in 1..m : p[i] = p[j] => i = j
    <3> SUFFICES ASSUME NEW i \in 1..m, NEW j \in 1..m, p[i] = p[j], i < j
                 PROVE  FALSE
      OBVIOUS
    <3>1. p[i].at < p[j].at /\ p[i].at \in Nat
      BY <1>10
    <3> QED
      BY <3>1
  <2>2. p \in Injection(1..m, S)
    BY <1>10, <2>1 DEF Injection, IsInjective
  <2>3. IsFiniteSet(1..m) /\ Cardinality(1..m) = m
    BY FS_Interval
  <2>4. p \in Surjection(1..m, S)
    BY <1>9, <2>2, <2>3, FS_Injection
  <2> QED
    BY <2>4 DEF Surjection
<1> QED
  BY <1>9, <1>10, <1>11

\* r[i] is what the replay has after i frames.
Replays(r, c, frames, n) ==
    /\ r[0] = {c}
    /\ \A i \in 1..n : r[i] = UNION {ReplayAdminOp(h, frames[i]) : h \in r[i - 1]}

\* The recursion of Replaying has a solution: induction on its length.
LEMMA ReplayingUnfolds ==
    ASSUME NEW c, NEW frames, NEW n \in Nat
    PROVE  \E r : Replaying(c, frames, n) = r[n] /\ Replays(r, c, frames, n)
<1> DEFINE Step(x, i) == UNION {ReplayAdminOp(h, frames[i]) : h \in x}
           Runs(g, k) == g = [i \in 0..k |-> IF i = 0 THEN {c} ELSE Step(g[i - 1], i)]
           N == {k \in Nat : \E g : Runs(g, k)}
<1>1. Replaying(c, frames, n) = (CHOOSE g : Runs(g, n))[n]
  BY DEF Replaying
<1> HIDE DEF Step
<1>2. 0 \in N
  <2>1. Runs([i \in 0..0 |-> {c}], 0)
    OBVIOUS
  <2> QED
    BY <2>1
<1>3. ASSUME NEW k \in N PROVE k + 1 \in N
  <2>1. PICK g : Runs(g, k)
    OBVIOUS
  <2> DEFINE h == [i \in 0..(k + 1) |-> IF i <= k THEN g[i] ELSE Step(g[k], k + 1)]
  <2>2. \A i \in 0..(k + 1) : h[i] = IF i = 0 THEN {c} ELSE Step(h[i - 1], i)
    <3> TAKE i \in 0..(k + 1)
    <3>1. CASE i = 0
      BY <2>1, <3>1
    <3>2. CASE i # 0 /\ i <= k
      <4>1. i \in 0..k /\ i - 1 \in 0..k /\ i - 1 \in 0..(k + 1) /\ i - 1 <= k
        BY <3>2
      <4>2. h[i] = g[i] /\ h[i - 1] = g[i - 1]
        BY <3>2, <4>1
      <4>3. g[i] = Step(g[i - 1], i)
        BY <2>1, <3>2, <4>1
      <4> HIDE DEF h
      <4> QED
        BY <3>2, <4>2, <4>3
    <3>3. CASE i = k + 1
      <4>1. k \in 0..(k + 1) /\ k <= k /\ (k + 1) - 1 = k /\ k + 1 \in 0..(k + 1)
            /\ ~(k + 1 <= k) /\ k + 1 # 0
        OBVIOUS
      <4>2. h[k] = g[k] /\ h[k + 1] = Step(g[k], k + 1)
        BY <4>1
      <4> HIDE DEF h
      <4> QED
        BY <3>3, <4>1, <4>2
    <3> QED
      BY <3>1, <3>2, <3>3
  <2>3. Runs(h, k + 1)
    <3>1. h = [i \in 0..(k + 1) |-> h[i]]
      OBVIOUS
    <3> HIDE DEF h
    <3> QED
      BY <2>2, <3>1
  <2>4. \E x : Runs(x, k + 1)
    <3> HIDE DEF Runs, h
    <3> QED
      BY <2>3
  <2> QED
    BY <2>4
<1>4. N = Nat
  <2>1. N \in SUBSET Nat
    OBVIOUS
  <2> HIDE DEF N
  <2> QED
    BY <1>2, <1>3, <2>1, SetInduction
<1>5. \E g : Runs(g, n)
  BY <1>4
<1>6. PICK r : r = (CHOOSE g : Runs(g, n))
  OBVIOUS
<1>7. Runs(r, n)
  <2> HIDE DEF Runs
  <2> QED
    BY <1>5, <1>6
<1>8. Replaying(c, frames, n) = r[n]
  BY <1>1, <1>6
<1>9. /\ r[0] = {c}
      /\ \A i \in 1..n : r[i] = Step(r[i - 1], i)
  <2>1. \A i \in 0..n : r[i] = IF i = 0 THEN {c} ELSE Step(r[i - 1], i)
    BY <1>7, Zenon
  <2>2. 0 \in 0..n /\ \A i \in 1..n : i \in 0..n /\ i # 0
    OBVIOUS
  <2> QED
    BY <2>1, <2>2, Zenon
<1>10. Replays(r, c, frames, n)
  BY <1>9 DEF Step, Replays
<1> QED
  BY <1>8, <1>10

-----------------------------------------------------------------------------
(* The inductive invariant, by parts.                                      *)

DecisionId == [at : Nat, seq : Nat]
Contract == [deprecated : BOOLEAN, by : Schemas \cup {None}, decision : DecisionId,
             after : Nat, appliedAt : Nat]
Decision == [at : Nat, scope : Scopes, by : DecisionId]
Gap == [state : GapStates, count : Nat]

PlanFrame == [verb : {"plan"}, at : Nat, source : Schemas, target : Schemas,
              after : Deadlines, decision : DecisionId]
ApplyFrame == [verb : {"apply"}, at : Nat, source : Schemas]
AcceptFrame == [verb : {"accept"}, at : Nat, entity : Entities, listed : BOOLEAN]
Frame == PlanFrame \cup ApplyFrame \cup AcceptFrame

\* A contract that is deprecated has a successor, and a successor has a contract
\* and a later version.
Migrated(cs, s) ==
    /\ cs[s].deprecated => cs[s].by # None
    /\ cs[s].by # None => cs[s].by \in DOMAIN cs /\ EnsureUpgrade(s, cs[s].by)

GoodContracts(cs) ==
    /\ DOMAIN cs \subseteq Schemas /\ IsFiniteSet(DOMAIN cs)
    /\ \A s \in DOMAIN cs : cs[s] \in Contract /\ Migrated(cs, s)

Good(g) ==
    /\ DOMAIN g = {"contracts", "decisions", "accepted", "gaps"}
    /\ GoodContracts(g.contracts)
    /\ g.decisions \in Seq(Decision)
    /\ g.gaps \in [Gaps -> Gap]

\* What a frame asked for is so.
Holds(g, f) ==
    /\ f.verb = "apply" => f.source \in DOMAIN g.contracts /\ g.contracts[f.source].deprecated
    /\ f.verb = "plan" => f.source \in DOMAIN g.contracts /\ g.contracts[f.source].by = f.target
    /\ f.verb = "accept" => f.entity \in g.accepted

\* h has what g has, and no host touched it in between.
Later(g, h) ==
    /\ Good(h)
    /\ h.decisions = g.decisions /\ h.gaps = g.gaps
    /\ g.accepted \subseteq h.accepted
    /\ DOMAIN h.contracts = DOMAIN g.contracts
    /\ \A s \in DOMAIN g.contracts :
          /\ g.contracts[s].deprecated => h.contracts[s].deprecated
          /\ g.contracts[s].by # None => h.contracts[s].by = g.contracts[s].by

Lasting(f) == f \in Frame /\ (f.verb = "accept" => f.listed)

Types ==
    /\ status \in {"up", "down", "refused"}
    /\ clock \in Nat
    /\ Good(gov)
    /\ verb \in [Operators -> [verb : Verbs \cup {"idle"}, at : Nat]]
    /\ log \in Seq([f : Frame, kept : BOOLEAN])
    /\ used \in [Counted -> Nat]
    /\ counted \in [Gaps -> Nat] /\ saved \in [Gaps -> Nat]

BaseGood ==
    /\ DOMAIN manifest = {"at", "snap"}
    /\ manifest.at \in Nat /\ manifest.at <= clock
    /\ Base.at \in Nat /\ Base.at <= clock
    /\ Base.has \in Nat /\ Base.has <= Len(log)
    /\ Good(Base.gov)

\* No two verbs have the same time.
TimesDiffer ==
    /\ \A i \in 1..Len(log) : log[i].f.at <= clock
    /\ \A i, j \in 1..Len(log) : log[i].f.at = log[j].f.at => i = j
    /\ \A o \in Operators :
          /\ verb[o].at <= clock
          /\ verb[o] # Idle => /\ status = "up" /\ verb[o].at > 0
                               /\ \A i \in 1..Len(log) : log[i].f.at # verb[o].at
                               /\ \A p \in Operators \ {o} : verb[p].at # verb[o].at

\* What was acknowledged is in the cells, and will be after a boot.
Lasts(f) ==
    /\ Lasting(f)
    /\ Holds(Base.gov, f) \/ f \in Due \/ f \in Skipped
    /\ status = "up" => Holds(gov, f)
    /\ f.verb = "plan" =>
          \/ f.decision \in forgotten
          \/ status = "up" /\ Exists(gov, f.decision)
          \/ status # "up" /\ Exists(Base.gov, f.decision)
AckedLast == \A f \in acked : Lasts(f)

\* In one life a gap lets no more dispatches through than it counts, and a boot
\* starts from a count that a snapshot has.
GapsCount ==
    \A g \in Gaps :
        /\ status = "up" => counted[g] <= gov.gaps[g].count
        /\ counted[g] <= GapN
        /\ saved[g] <= Base.gov.gaps[g].count /\ saved[g] <= GapN

GovInv == Types /\ BaseGood /\ TimesDiffer /\ AckedLast /\ GapsCount

-----------------------------------------------------------------------------
(* What the verbs do to the cells.                                         *)

LEMMA FrameVerbs ==
    ASSUME NEW f \in Frame
    PROVE  /\ f.at \in Nat /\ f.verb \in {"plan", "apply", "accept"}
           /\ f.verb = "plan" => f \in PlanFrame
           /\ f.verb = "apply" => f \in ApplyFrame
           /\ f.verb = "accept" => f \in AcceptFrame
BY DEF Frame, PlanFrame, ApplyFrame, AcceptFrame

\* One contract of cs is changed to c.
LEMMA ContractChanged ==
    ASSUME NEW g, Good(g), NEW s \in DOMAIN g.contracts, NEW c \in Contract,
           c.deprecated => c.by # None,
           c.by # None => c.by \in DOMAIN g.contracts /\ EnsureUpgrade(s, c.by),
           g.contracts[s].deprecated => c.deprecated,
           g.contracts[s].by # None => c.by = g.contracts[s].by,
           NEW h, h = [g EXCEPT !.contracts = [@ EXCEPT ![s] = c]]
    PROVE  Later(g, h) /\ h.contracts[s] = c /\ h.accepted = g.accepted
<1>1. /\ DOMAIN h = {"contracts", "decisions", "accepted", "gaps"}
      /\ h.contracts = [g.contracts EXCEPT ![s] = c]
      /\ h.decisions = g.decisions /\ h.accepted = g.accepted /\ h.gaps = g.gaps
  BY DEF Good
<1>2. /\ DOMAIN h.contracts = DOMAIN g.contracts /\ h.contracts[s] = c
      /\ \A x \in DOMAIN g.contracts : x # s => h.contracts[x] = g.contracts[x]
  BY <1>1
<1>3. /\ DOMAIN g.contracts \subseteq Schemas /\ IsFiniteSet(DOMAIN g.contracts)
      /\ \A x \in DOMAIN g.contracts : g.contracts[x] \in Contract /\ Migrated(g.contracts, x)
  BY DEF Good, GoodContracts
<1>4. \A x \in DOMAIN g.contracts : h.contracts[x] \in Contract /\ Migrated(h.contracts, x)
  BY <1>2, <1>3 DEF Migrated
<1>5. Good(h)
  BY <1>1, <1>2, <1>3, <1>4 DEF Good, GoodContracts
<1>6. \A x \in DOMAIN g.contracts :
          /\ g.contracts[x].deprecated => h.contracts[x].deprecated
          /\ g.contracts[x].by # None => h.contracts[x].by = g.contracts[x].by
  BY <1>2
<1> QED
  BY <1>1, <1>2, <1>5, <1>6 DEF Later

LEMMA PlanKeeps ==
    ASSUME NEW g, Good(g), NEW f \in PlanFrame, ValidateMigrationPlan(g, f)
    PROVE  Later(g, PlanMigration(g, f)) /\ Holds(PlanMigration(g, f), f)
<1>1. PICK s, old : s = f.source /\ old = g.contracts[s]
  OBVIOUS
<1>2. /\ s \in DOMAIN g.contracts /\ old \in Contract /\ f.target \in Schemas
      /\ f.decision \in DecisionId /\ f.after \in Nat /\ f.verb = "plan"
      /\ f.target \in DOMAIN g.contracts /\ EnsureUpgrade(s, f.target)
      /\ ~old.deprecated /\ old.by = None
  BY <1>1, GovernanceConstants DEF Good, GoodContracts, PlanFrame, ValidateMigrationPlan
<1>3. PICK c : c = [old EXCEPT !.by = f.target, !.decision = f.decision, !.after = f.after,
                               !.appliedAt = 0]
  OBVIOUS
<1>4. c \in Contract /\ c.by = f.target /\ c.deprecated = old.deprecated
  BY <1>2, <1>3 DEF Contract
<1>5. f.target # None
  BY <1>2, GovernanceConstants
<1>6. PICK h : h = [g EXCEPT !.contracts = [@ EXCEPT ![s] = c]]
  OBVIOUS
<1>7. PlanMigration(g, f) = h
  BY <1>1, <1>3, <1>6 DEF PlanMigration
<1>8. Later(g, h) /\ h.contracts[s] = c
  BY <1>1, <1>2, <1>4, <1>5, <1>6, ContractChanged
<1>9. DOMAIN h.contracts = DOMAIN g.contracts
  BY <1>8 DEF Later
<1>10. Holds(h, f)
  BY <1>1, <1>2, <1>4, <1>8, <1>9 DEF Holds
<1> QED
  BY <1>7, <1>8, <1>10

LEMMA ApplyKeeps ==
    ASSUME NEW g, Good(g), NEW f \in ApplyFrame, ValidateApplyMigration(g, f)
    PROVE  Later(g, ApplyMigration(g, f)) /\ Holds(ApplyMigration(g, f), f)
<1>1. PICK s, old : s = f.source /\ old = g.contracts[s]
  OBVIOUS
<1>2. /\ s \in DOMAIN g.contracts /\ old \in Contract /\ f.at \in Nat /\ f.verb = "apply"
      /\ Migrated(g.contracts, s) /\ old.by # None
  BY <1>1 DEF Good, GoodContracts, ApplyFrame, ValidateApplyMigration
<1>3. PICK c : c = [old EXCEPT !.deprecated = TRUE, !.appliedAt = f.at]
  OBVIOUS
<1>4. c \in Contract /\ c.by = old.by /\ c.deprecated
  BY <1>2, <1>3 DEF Contract
<1>5. old.by \in DOMAIN g.contracts /\ EnsureUpgrade(s, old.by)
  BY <1>1, <1>2 DEF Migrated
<1>6. PICK h : h = [g EXCEPT !.contracts = [@ EXCEPT ![s] = c]]
  OBVIOUS
<1>7. ApplyMigration(g, f) = h
  BY <1>1, <1>3, <1>6 DEF ApplyMigration
<1>8. Later(g, h) /\ h.contracts[s] = c
  BY <1>1, <1>2, <1>4, <1>5, <1>6, ContractChanged
<1>9. DOMAIN h.contracts = DOMAIN g.contracts
  BY <1>8 DEF Later
<1>10. Holds(h, f)
  BY <1>1, <1>2, <1>4, <1>8, <1>9 DEF Holds
<1> QED
  BY <1>7, <1>8, <1>10

LEMMA AcceptKeeps ==
    ASSUME NEW g, Good(g), NEW f \in AcceptFrame
    PROVE  Later(g, AcceptDelta(g, f)) /\ Holds(AcceptDelta(g, f), f)
<1>1. PICK h : h = AcceptDelta(g, f)
  OBVIOUS
<1>2. /\ DOMAIN h = {"contracts", "decisions", "accepted", "gaps"}
      /\ h.contracts = g.contracts /\ h.decisions = g.decisions /\ h.gaps = g.gaps
      /\ h.accepted = g.accepted \cup {f.entity}
  BY <1>1 DEF AcceptDelta, Good
<1>3. Good(h)
  BY <1>2 DEF Good
<1>4. f.verb = "accept"
  BY DEF AcceptFrame
<1> QED
  BY <1>1, <1>2, <1>3, <1>4 DEF Later, Holds

LEMMA LaterSame ==
    ASSUME NEW g, Good(g)
    PROVE  Later(g, g)
BY DEF Later

LEMMA LaterLater ==
    ASSUME NEW g, NEW h, NEW k, Later(g, h), Later(h, k)
    PROVE  Later(g, k)
BY DEF Later

\* What a frame asked for stays.
LEMMA HoldsLater ==
    ASSUME NEW g, NEW h, Later(g, h), NEW f \in Frame, Holds(g, f)
    PROVE  Holds(h, f)
<1>1. CASE f.verb = "plan"
  <2>1. f.target \in Schemas
    BY <1>1, FrameVerbs DEF PlanFrame
  <2>2. f.target # None
    BY <2>1, GovernanceConstants
  <2> QED
    BY <1>1, <2>2 DEF Holds, Later
<1>2. CASE f.verb = "apply"
  BY <1>2 DEF Holds, Later
<1>3. CASE f.verb = "accept"
  BY <1>3 DEF Holds, Later
<1> QED
  BY <1>1, <1>2, <1>3, FrameVerbs

\* A verb under the barrier.
LEMMA EffectKeeps ==
    ASSUME NEW g, Good(g), NEW f \in Frame, Validated(g, f)
    PROVE  Later(g, Effect(g, f)) /\ Holds(Effect(g, f), f)
<1>1. CASE f.verb = "plan"
  BY <1>1, FrameVerbs, PlanKeeps DEF Validated, Effect
<1>2. CASE f.verb = "apply"
  BY <1>2, FrameVerbs, ApplyKeeps DEF Validated, Effect
<1>3. CASE f.verb = "accept"
  BY <1>3, FrameVerbs, AcceptKeeps DEF Effect
<1> QED
  BY <1>1, <1>2, <1>3, FrameVerbs

\* A frame that is replayed and does not fail.
LEMMA ReplayKeeps ==
    ASSUME NEW g, Good(g), NEW f \in Frame, NEW h \in ReplayAdminOp(g, f)
    PROVE  Later(g, h) /\ (Lasting(f) => Holds(h, f))
<1>1. CASE f.verb = "plan"
  <2>1. f \in PlanFrame /\ f.source \in Schemas
    BY <1>1, FrameVerbs DEF PlanFrame
  <2>2. CASE /\ f.source \in DOMAIN g.contracts
             /\ g.contracts[f.source].by = f.target
             /\ g.contracts[f.source].decision = f.decision
    <3>1. ReplayAdminOp(g, f) = {g}
      BY <1>1, <2>2 DEF ReplayAdminOp
    <3>2. Holds(g, f)
      BY <1>1, <2>2 DEF Holds
    <3> QED
      BY <3>1, <3>2, LaterSame
  <2>3. CASE ~(/\ f.source \in DOMAIN g.contracts
               /\ g.contracts[f.source].by = f.target
               /\ g.contracts[f.source].decision = f.decision)
    <3>1. ReplayAdminOp(g, f)
            = IF ValidateMigrationPlan(g, f) THEN {PlanMigration(g, f)} ELSE Failed
      BY <1>1, <2>3 DEF ReplayAdminOp
    <3>2. ValidateMigrationPlan(g, f) /\ h = PlanMigration(g, f)
      BY <3>1 DEF Failed
    <3> QED
      BY <2>1, <3>2, PlanKeeps
  <2> QED
    BY <2>2, <2>3
<1>2. CASE f.verb = "apply"
  <2>1. f \in ApplyFrame
    BY <1>2, FrameVerbs
  <2>2. CASE f.source \in DOMAIN g.contracts /\ g.contracts[f.source].deprecated
    <3>1. ReplayAdminOp(g, f) = {g}
      BY <1>2, <2>2 DEF ReplayAdminOp
    <3>2. Holds(g, f)
      BY <1>2, <2>2 DEF Holds
    <3> QED
      BY <3>1, <3>2, LaterSame
  <2>3. CASE ~(f.source \in DOMAIN g.contracts /\ g.contracts[f.source].deprecated)
    <3>1. ReplayAdminOp(g, f)
            = IF ValidateApplyMigration(g, f) THEN {ApplyMigration(g, f)} ELSE Failed
      BY <1>2, <2>3 DEF ReplayAdminOp
    <3>2. ValidateApplyMigration(g, f) /\ h = ApplyMigration(g, f)
      BY <3>1 DEF Failed
    <3> QED
      BY <2>1, <3>2, ApplyKeeps
  <2> QED
    BY <2>2, <2>3
<1>3. CASE f.verb = "accept"
  <2>1. f \in AcceptFrame
    BY <1>3, FrameVerbs
  <2>2. h = IF f.listed THEN AcceptDelta(g, f) ELSE g
    BY <1>3 DEF ReplayAdminOp
  <2>3. CASE f.listed
    BY <2>1, <2>2, <2>3, AcceptKeeps
  <2>4. CASE ~f.listed
    BY <1>3, <2>2, <2>4, LaterSame DEF Lasting
  <2> QED
    BY <2>3, <2>4
<1> QED
  BY <1>1, <1>2, <1>3, FrameVerbs

\* A boot that is not refused keeps what was in the snapshot and has every
\* frame that it replayed.
LEMMA ReplayingKeeps ==
    ASSUME NEW g, Good(g), NEW n \in Nat, NEW frames \in [1..n -> Frame],
           NEW h \in Replaying(g, frames, n)
    PROVE  Later(g, h) /\ \A j \in 1..n : Lasting(frames[j]) => Holds(h, frames[j])
<1>1. PICK r : Replaying(g, frames, n) = r[n] /\ Replays(r, g, frames, n)
  BY ReplayingUnfolds
<1> DEFINE P(x, i) == Later(g, x) /\ \A j \in 1..n : j <= i /\ Lasting(frames[j]) => Holds(x, frames[j])
           N == {i \in Nat : i <= n => \A x \in r[i] : P(x, i)}
<1>2. 0 \in N
  <2> SUFFICES ASSUME NEW x \in r[0] PROVE P(x, 0)
    OBVIOUS
  <2>1. x = g
    BY <1>1 DEF Replays
  <2> QED
    BY <2>1, LaterSame
<1>3. ASSUME NEW i \in N PROVE i + 1 \in N
  <2> SUFFICES ASSUME i + 1 <= n, NEW y \in r[i + 1] PROVE P(y, i + 1)
    OBVIOUS
  <2>1. i + 1 \in 1..n /\ (i + 1) - 1 = i /\ i <= n
    OBVIOUS
  <2>2. r[i + 1] = UNION {ReplayAdminOp(x, frames[i + 1]) : x \in r[i]}
    BY <1>1, <2>1 DEF Replays
  <2>3. PICK x \in r[i] : y \in ReplayAdminOp(x, frames[i + 1])
    BY <2>2
  <2>4. P(x, i)
    BY <2>1
  <2>5. Good(x) /\ frames[i + 1] \in Frame
    BY <2>1, <2>4 DEF Later
  <2>6. Later(x, y) /\ (Lasting(frames[i + 1]) => Holds(y, frames[i + 1]))
    BY <2>3, <2>5, ReplayKeeps
  <2>7. Later(g, y)
    BY <2>4, <2>6, LaterLater
  <2>8. ASSUME NEW j \in 1..n, j <= i + 1, Lasting(frames[j]) PROVE Holds(y, frames[j])
    <3>1. CASE j = i + 1
      BY <2>6, <2>8, <3>1
    <3>2. CASE j <= i
      <4>1. Holds(x, frames[j]) /\ frames[j] \in Frame
        BY <2>4, <2>8, <3>2
      <4> QED
        BY <2>6, <4>1, HoldsLater
    <3> QED
      BY <2>8, <3>1, <3>2
  <2> QED
    BY <2>7, <2>8
<1>4. N = Nat
  <2>1. N \in SUBSET Nat
    OBVIOUS
  <2> HIDE DEF N
  <2> QED
    BY <1>2, <1>3, <2>1, SetInduction
<1>5. P(h, n)
  BY <1>1, <1>4
<1> QED
  BY <1>5

-----------------------------------------------------------------------------
(* What the steps have in common.                                          *)

LEMMA DecidedTyped ==
    ASSUME Types
    PROVE  Decided \subseteq DecisionId
<1> SUFFICES ASSUME NEW i \in DOMAIN gov.decisions
             PROVE  Handle(gov.decisions, i) \in DecisionId
  BY DEF Decided
<1>1. gov.decisions \in Seq(Decision)
  BY DEF Types, Good
<1>2. i \in Nat /\ gov.decisions[i] \in Decision
  BY <1>1
<1> QED
  BY <1>2 DEF Handle, Decision, DecisionId

\* What a verb can commit is a frame with the time of the verb.
LEMMA CommittableFrames ==
    ASSUME Types, NEW o \in Operators, NEW f \in Committable(o)
    PROVE  /\ f \in Frame /\ f.at = verb[o].at /\ verb[o] # Idle
           /\ Validated(gov, f)
           /\ f.verb = "plan" => Exists(gov, f.decision)
<1>1. PICK v, t : v = verb[o].verb /\ t = verb[o].at
  OBVIOUS
<1>2. v \in Verbs \cup {"idle"} /\ t \in Nat
  BY <1>1 DEF Types
<1>3. f \in Requests(v, t) /\ Validated(gov, f)
  BY <1>1 DEF Committable
<1>4. v # "idle" => verb[o] # Idle
  BY <1>1 DEF Idle
<1>5. CASE v = "plan"
  <2>1. f \in [verb : {v}, at : {t}, source : Schemas, target : Schemas,
               after : Deadlines, decision : Decided \cup {NoDecision}]
    BY <1>3, <1>5 DEF Requests
  <2>2. NoDecision \in DecisionId
    BY DEF NoDecision, DecisionId
  <2>3. f \in PlanFrame /\ f.at = t /\ f.verb = "plan"
    BY <1>2, <1>5, <2>1, <2>2, DecidedTyped DEF PlanFrame
  <2>4. Exists(gov, f.decision)
    BY <1>3, <2>3 DEF Validated
  <2> QED
    BY <1>1, <1>3, <1>4, <1>5, <2>3, <2>4 DEF Frame
<1>6. CASE v = "apply"
  <2>1. f \in ApplyFrame /\ f.at = t /\ f.verb = "apply"
    BY <1>2, <1>3, <1>6 DEF Requests, ApplyFrame
  <2> QED
    BY <1>1, <1>3, <1>4, <1>6, <2>1 DEF Frame
<1>7. CASE v = "accept"
  <2>1. f \in AcceptFrame /\ f.at = t /\ f.verb = "accept"
    BY <1>2, <1>3, <1>7 DEF Requests, AcceptFrame
  <2> QED
    BY <1>1, <1>3, <1>4, <1>7, <2>1 DEF Frame
<1>8. CASE v \in {"snapshot", "idle"}
  BY <1>3, <1>8 DEF Requests
<1> QED
  BY <1>2, <1>5, <1>6, <1>7, <1>8 DEF Verbs

\* One more frame in the log.
LEMMA LogGrows ==
    ASSUME GovInv, UNCHANGED manifest, NEW o \in Operators, NEW f \in Committable(o),
           NEW b \in BOOLEAN, log' = Append(log, [f |-> f, kept |-> b])
    PROVE  /\ log' \in Seq([f : Frame, kept : BOOLEAN])
           /\ Base' = Base /\ Base.has <= Len(log')
           /\ Due \subseteq Due' /\ Skipped \subseteq Skipped'
           /\ f \in Due' \/ f \in Skipped'
           /\ \A i \in 1..Len(log') : log'[i].f.at <= clock
           /\ \A i, j \in 1..Len(log') : log'[i].f.at = log'[j].f.at => i = j
           /\ \A p \in Operators \ {o} : verb[p] # Idle =>
                 \A i \in 1..Len(log') : log'[i].f.at # verb[p].at
<1>1. /\ f \in Frame /\ f.at = verb[o].at /\ verb[o] # Idle /\ f.at \in Nat
  BY CommittableFrames, FrameVerbs DEF GovInv
<1>2. log \in Seq([f : Frame, kept : BOOLEAN])
  BY DEF GovInv, Types
<1>3. PICK n \in Nat : n = Len(log)
  BY <1>2
<1>4. PICK e : e = [f |-> f, kept |-> b]
  OBVIOUS
<1>5. e \in [f : Frame, kept : BOOLEAN] /\ e.f = f
  BY <1>1, <1>4
<1>6. log' = Append(log, e)
  BY <1>4
<1>7. /\ log' \in Seq([f : Frame, kept : BOOLEAN])
      /\ Len(log') = n + 1 /\ log'[n + 1] = e
      /\ \A i \in 1..n : log'[i] = log[i]
      /\ DOMAIN log = 1..n /\ DOMAIN log' = 1..(n + 1)
  BY <1>2, <1>3, <1>5, <1>6
<1>8. \A i \in 1..(n + 1) : i \in 1..n \/ i = n + 1
  BY <1>3
<1>9. Base' = Base
  BY DEF Base
<1>10. Base.has \in Nat /\ Base.has <= n /\ Base.at \in Nat
  BY <1>3 DEF GovInv, BaseGood
<1>11. \A i \in 1..n : i \in 1..(n + 1)
  BY <1>3
<1>12. Due \subseteq Due'
  BY <1>7, <1>9, <1>11 DEF Due, Frames
<1>13. Skipped \subseteq Skipped'
  BY <1>7, <1>9, <1>11 DEF Skipped
<1>14. f \in Due' \/ f \in Skipped'
  <2>1. n + 1 \in DOMAIN log' /\ log'[n + 1].f = f /\ n + 1 > Base.has
    BY <1>3, <1>5, <1>7, <1>10
  <2>2. CASE f.at > Base.at
    BY <1>9, <2>1, <2>2 DEF Due, Frames
  <2>3. CASE f.at <= Base.at
    BY <1>9, <2>1, <2>3 DEF Skipped
  <2> QED
    BY <1>1, <1>10, <2>2, <2>3
<1>15. /\ \A i \in 1..n : log[i].f.at <= clock /\ log[i].f.at # f.at
       /\ \A i, j \in 1..n : log[i].f.at = log[j].f.at => i = j
       /\ f.at <= clock
       /\ \A p \in Operators \ {o} : verb[p] # Idle =>
             verb[p].at # f.at /\ \A i \in 1..n : log[i].f.at # verb[p].at
  <2>1. TimesDiffer
    BY DEF GovInv
  <2>2. \A i \in 1..n : log[i].f.at <= clock
    BY <1>3, <2>1 DEF TimesDiffer
  <2>3. \A i, j \in 1..n : log[i].f.at = log[j].f.at => i = j
    BY <1>3, <2>1 DEF TimesDiffer
  <2>4. \A p \in Operators : verb[p].at <= clock
    BY <2>1 DEF TimesDiffer
  <2>5. \A p \in Operators : verb[p] # Idle => \A i \in 1..n : log[i].f.at # verb[p].at
    BY <1>3, <2>1 DEF TimesDiffer
  <2>6. \A p \in Operators \ {o} : verb[p].at # verb[o].at
    BY <1>1, <2>1 DEF TimesDiffer
  <2>7. \A i \in 1..n : log[i].f.at # f.at
    BY <1>1, <2>5
  <2>8. \A p \in Operators \ {o} : verb[p].at # f.at
    BY <1>1, <2>6
  <2>9. f.at <= clock
    BY <1>1, <2>4
  <2> QED
    BY <2>2, <2>3, <2>5, <2>7, <2>8, <2>9
<1>16. \A i \in 1..(n + 1) : log'[i].f.at <= clock
  BY <1>5, <1>7, <1>8, <1>15
<1>17. \A i, j \in 1..(n + 1) : log'[i].f.at = log'[j].f.at => i = j
  <2>1. (\A i \in 1..n : log'[i].f.at = log[i].f.at) /\ log'[n + 1].f.at = f.at
    BY <1>5, <1>7
  <2> QED
    BY <1>8, <1>15, <2>1
<1>18. \A p \in Operators \ {o} : verb[p] # Idle =>
                 \A i \in 1..(n + 1) : log'[i].f.at # verb[p].at
  BY <1>5, <1>7, <1>8, <1>15
<1>19. Base.has <= n + 1
  BY <1>3, <1>10
<1> QED
  BY <1>7, <1>9, <1>12, <1>13, <1>14, <1>16, <1>17, <1>18, <1>19

LEMMA LogTyped ==
    ASSUME Types
    PROVE  /\ Len(log) \in Nat /\ DOMAIN log = 1..Len(log)
           /\ \A i \in 1..Len(log) : log[i].f \in Frame /\ log[i].f.at \in Nat
<1>1. PICK E : E = [f : Frame, kept : BOOLEAN]
  OBVIOUS
<1>2. log \in Seq(E)
  BY <1>1 DEF Types
<1>3. Len(log) \in Nat /\ DOMAIN log = 1..Len(log) /\ \A i \in 1..Len(log) : log[i] \in E
  BY <1>2
<1>4. \A i \in 1..Len(log) : log[i].f \in Frame
  BY <1>1, <1>3
<1> QED
  BY <1>3, <1>4, FrameVerbs

LEMMA SpendTyped ==
    ASSUME Types, NEW k \in Counted, Spend(k)
    PROVE  used' \in [Counted -> Nat]
BY DEF Types, Spend

\* A verb that is answered is no longer waiting.
LEMMA AnswerKeeps ==
    ASSUME GovInv, NEW o \in Operators, Answer(o), UNCHANGED <<log, clock, status>>
    PROVE  /\ verb' \in [Operators -> [verb : Verbs \cup {"idle"}, at : Nat]]
           /\ TimesDiffer'
<1>1. verb \in [Operators -> [verb : Verbs \cup {"idle"}, at : Nat]] /\ verb' = [verb EXCEPT ![o] = Idle]
  BY DEF GovInv, Types, Answer
<1>2. Idle \in [verb : Verbs \cup {"idle"}, at : Nat] /\ Idle.at = 0
  BY DEF Idle
<1>3. verb'[o] = Idle /\ \A p \in Operators \ {o} : verb'[p] = verb[p]
  BY <1>1
<1>4. clock \in Nat
  BY DEF GovInv, Types
<1>5. TimesDiffer'
  <2>1. /\ \A i \in 1..Len(log) : log[i].f.at <= clock
        /\ \A i, j \in 1..Len(log) : log[i].f.at = log[j].f.at => i = j
    BY DEF GovInv, TimesDiffer
  <2>2. ASSUME NEW p \in Operators
        PROVE  /\ verb'[p].at <= clock
               /\ verb'[p] # Idle => /\ status = "up" /\ verb'[p].at > 0
                                     /\ \A i \in 1..Len(log) : log[i].f.at # verb'[p].at
                                     /\ \A q \in Operators \ {p} : verb'[q].at # verb'[p].at
    <3>1. CASE p = o
      BY <1>2, <1>3, <1>4, <3>1
    <3>2. CASE p # o
      <4>1. verb'[p] = verb[p]
        BY <1>3, <3>2
      <4>2. /\ verb[p].at <= clock
            /\ verb[p] # Idle => /\ status = "up" /\ verb[p].at > 0
                                 /\ \A i \in 1..Len(log) : log[i].f.at # verb[p].at
                                 /\ \A q \in Operators \ {p} : verb[q].at # verb[p].at
        BY DEF GovInv, TimesDiffer
      <4>3. \A q \in Operators : verb'[q].at = verb[q].at \/ verb'[q].at = 0
        BY <1>2, <1>3
      <4>4. verb[p].at \in Nat
        BY <1>1
      <4> QED
        BY <4>1, <4>2, <4>3, <4>4
    <3> QED
      BY <3>1, <3>2
  <2> QED
    BY <2>1, <2>2 DEF TimesDiffer
<1> QED
  BY <1>1, <1>2, <1>5

LEMMA BaseKept ==
    ASSUME GovInv, UNCHANGED <<manifest, log, clock>>
    PROVE  BaseGood' /\ Base' = Base /\ Due' = Due /\ Skipped' = Skipped
BY DEF GovInv, BaseGood, Base, Due, Frames, Skipped

\* A step of a running node that changes neither what a boot starts from nor
\* what a frame asked for.
LEMMA LastsKept ==
    ASSUME NEW f, Lasts(f), status = "up", status' = "up", forgotten' = forgotten,
           Base' = Base, Due \subseteq Due', Skipped \subseteq Skipped',
           Holds(gov, f) => Holds(gov', f),
           Exists(gov, f.decision) => Exists(gov', f.decision)
    PROVE  Lasts(f)'
<1>1. Holds(gov', f)
  BY DEF Lasts
<1>2. Holds(Base'.gov, f) \/ f \in Due' \/ f \in Skipped'
  BY DEF Lasts
<1>3. f.verb = "plan" => f.decision \in forgotten' \/ Exists(gov', f.decision)
  BY DEF Lasts
<1> QED
  BY <1>1, <1>2, <1>3 DEF Lasts, Holds, Exists

LEMMA GapsKept ==
    ASSUME GapsCount, status' = status, counted' = counted, saved' = saved,
           Base' = Base, gov'.gaps = gov.gaps
    PROVE  GapsCount'
BY DEF GapsCount

LEMMA TimesKept ==
    ASSUME TimesDiffer, UNCHANGED <<status, clock, log, verb>>
    PROVE  TimesDiffer'
BY DEF TimesDiffer

-----------------------------------------------------------------------------
(* The steps.                                                              *)

LEMMA BeginVerbStep ==
    ASSUME GovInv, NEW o \in Operators, NEW v \in Verbs, BeginVerb(o, v)
    PROVE  GovInv'
<1>1. /\ status = "up" /\ clock' = clock + 1 /\ Spend("verbs")
      /\ verb' = [verb EXCEPT ![o] = [verb |-> v, at |-> clock']]
      /\ UNCHANGED <<status, gov, log, manifest, acked, registered, forgotten, counted, saved>>
  BY DEF BeginVerb, history
<1>2. clock \in Nat /\ verb \in [Operators -> [verb : Verbs \cup {"idle"}, at : Nat]]
  BY DEF GovInv, Types
<1>3. used' \in [Counted -> Nat]
  BY <1>1, SpendTyped DEF GovInv, Counted
<1>4. PICK w : w = [verb |-> v, at |-> clock + 1]
  OBVIOUS
<1>5. w \in [verb : Verbs \cup {"idle"}, at : Nat] /\ w.at = clock + 1
  BY <1>2, <1>4
<1>6. verb' = [verb EXCEPT ![o] = w]
  BY <1>1, <1>4
<1>7. /\ verb' \in [Operators -> [verb : Verbs \cup {"idle"}, at : Nat]]
      /\ verb'[o] = w /\ \A p \in Operators \ {o} : verb'[p] = verb[p]
  BY <1>2, <1>5, <1>6
<1>8. Types'
  BY <1>1, <1>2, <1>3, <1>7 DEF GovInv, Types
<1>9. Base' = Base /\ Due' = Due /\ Skipped' = Skipped
  BY <1>1 DEF Base, Due, Frames, Skipped
<1>10. BaseGood'
  BY <1>1, <1>2, <1>9 DEF GovInv, BaseGood
<1>11. TimesDiffer'
  <2>1. TimesDiffer /\ Types
    BY DEF GovInv
  <2>2. PICK n \in Nat : n = Len(log)
    BY <2>1, LogTyped
  <2>3. \A i \in 1..n : log[i].f.at <= clock /\ log[i].f.at \in Nat
    BY <2>1, <2>2, LogTyped DEF TimesDiffer
  <2>4. \A i \in 1..n : log[i].f.at <= clock + 1 /\ log[i].f.at # clock + 1
    BY <1>2, <2>3
  <2>5. \A p \in Operators : verb[p].at \in Nat /\ verb[p].at <= clock
    BY <1>2, <2>1 DEF TimesDiffer
  <2>6. ASSUME NEW p \in Operators
        PROVE  /\ verb'[p].at <= clock + 1
               /\ verb'[p] # Idle => /\ verb'[p].at > 0
                                     /\ \A i \in 1..n : log[i].f.at # verb'[p].at
                                     /\ \A q \in Operators \ {p} : verb'[q].at # verb'[p].at
    <3>1. CASE p = o
      <4>1. \A q \in Operators \ {p} : verb'[q].at # clock + 1
        BY <1>2, <1>7, <2>5, <3>1
      <4> QED
        BY <1>2, <1>5, <1>7, <2>4, <3>1, <4>1
    <3>2. CASE p # o
      <4>1. verb'[p] = verb[p] /\ verb[p].at <= clock /\ verb[p].at \in Nat
        BY <1>7, <2>5, <3>2
      <4>2. ASSUME verb[p] # Idle
            PROVE  /\ verb[p].at > 0 /\ \A i \in 1..n : log[i].f.at # verb[p].at
                   /\ \A q \in Operators \ {p} : verb[q].at # verb[p].at
        BY <2>1, <2>2, <4>2 DEF TimesDiffer
      <4>3. \A q \in Operators : verb'[q] = verb[q] \/ verb'[q].at = clock + 1
        BY <1>5, <1>7
      <4>4. ASSUME verb[p] # Idle, NEW q \in Operators \ {p} PROVE verb'[q].at # verb'[p].at
        BY <1>2, <4>1, <4>2, <4>3, <4>4
      <4> QED
        BY <1>2, <4>1, <4>2, <4>4
    <3> QED
      BY <3>1, <3>2
  <2>7. \A i, j \in 1..n : log[i].f.at = log[j].f.at => i = j
    BY <2>1, <2>2 DEF TimesDiffer
  <2> QED
    BY <1>1, <2>2, <2>4, <2>6, <2>7 DEF TimesDiffer
<1>12. AckedLast'
  <2> SUFFICES ASSUME NEW f \in acked' PROVE Lasts(f)'
    BY DEF AckedLast
  <2>1. Lasts(f)
    BY <1>1 DEF GovInv, AckedLast
  <2> QED
    BY <1>1, <1>9, <2>1, LastsKept
<1>13. GapsCount'
  BY <1>1, <1>9, GapsKept DEF GovInv
<1> QED
  BY <1>8, <1>10, <1>11, <1>12, <1>13 DEF GovInv

LEMMA CommitVerbStep ==
    ASSUME GovInv, NEW o \in Operators, NEW f \in Committable(o), CommitVerb(o, f)
    PROVE  GovInv'
<1>1. /\ status = "up" /\ verb' = [verb EXCEPT ![o] = Idle]
      /\ UNCHANGED <<status, clock, manifest, registered, forgotten, counted, saved>>
  BY DEF CommitVerb, Answer
<1>2. PICK b \in BOOLEAN : log' = Append(log, [f |-> f, kept |-> b])
  BY DEF CommitVerb
<1>3. /\ f \in Frame /\ Validated(gov, f) /\ (f.verb = "plan" => Exists(gov, f.decision))
  BY CommittableFrames DEF GovInv
<1>4. /\ log' \in Seq([f : Frame, kept : BOOLEAN])
      /\ Base' = Base /\ Base.has <= Len(log')
      /\ Due \subseteq Due' /\ Skipped \subseteq Skipped'
      /\ f \in Due' \/ f \in Skipped'
  BY <1>1, <1>2, LogGrows
<1>5. /\ \A i \in 1..Len(log') : log'[i].f.at <= clock
      /\ \A i, j \in 1..Len(log') : log'[i].f.at = log'[j].f.at => i = j
      /\ \A p \in Operators \ {o} : verb[p] # Idle =>
            \A i \in 1..Len(log') : log'[i].f.at # verb[p].at
  BY <1>1, <1>2, LogGrows
<1>6. /\ \/ gov' = Effect(gov, f) /\ (acked' = acked \/ (acked' = acked \cup {f} /\ Lasting(f)))
         \/ gov' = gov /\ acked' = acked
      /\ used' \in [Counted -> Nat]
  <2>1. CASE /\ gov' = Effect(gov, f)
             /\ acked' = IF f.verb = "accept" /\ ~ f.listed THEN acked ELSE acked \cup {f}
             /\ UNCHANGED <<limit, used>>
    <3>1. acked' = acked \/ (acked' = acked \cup {f} /\ Lasting(f))
      BY <1>3, <2>1 DEF Lasting
    <3> QED
      BY <2>1, <3>1 DEF GovInv, Types
  <2>2. CASE Spend("kept") /\ UNCHANGED <<gov, acked>>
    BY <2>2, SpendTyped DEF GovInv, Counted
  <2> QED
    BY <2>1, <2>2 DEF CommitVerb
<1>7. Later(gov, Effect(gov, f)) /\ Holds(Effect(gov, f), f) /\ Later(gov, gov)
  BY <1>3, EffectKeeps, LaterSame DEF GovInv, Types
<1>8. Later(gov, gov') /\ (acked' # acked => Holds(gov', f))
  <2>1. CASE gov' = Effect(gov, f)
    BY <1>7, <2>1 DEF Holds
  <2>2. CASE gov' = gov /\ acked' = acked
    <3>1. Later(gov, gov')
      BY <1>7, <2>2 DEF Later
    <3> QED
      BY <2>2, <3>1
  <2> QED
    BY <1>6, <2>1, <2>2
<1>9. gov'.decisions = gov.decisions /\ gov'.gaps = gov.gaps /\ Good(gov')
  BY <1>8 DEF Later
<1>10. /\ verb \in [Operators -> [verb : Verbs \cup {"idle"}, at : Nat]]
       /\ Idle \in [verb : Verbs \cup {"idle"}, at : Nat] /\ Idle.at = 0
  BY DEF GovInv, Types, Idle
<1>11. /\ verb' \in [Operators -> [verb : Verbs \cup {"idle"}, at : Nat]]
       /\ verb'[o] = Idle /\ \A p \in Operators \ {o} : verb'[p] = verb[p]
  BY <1>1, <1>10
<1>12. Types'
  <2>1. Good(gov)'
    BY <1>9 DEF Good
  <2> QED
    BY <1>1, <1>4, <1>6, <1>11, <2>1 DEF GovInv, Types
<1>13. BaseGood'
  BY <1>1, <1>4 DEF GovInv, BaseGood
<1>14. TimesDiffer'
  <2>1. ASSUME NEW p \in Operators
        PROVE  /\ verb'[p].at <= clock
               /\ verb'[p] # Idle => /\ verb'[p].at > 0
                                     /\ \A i \in 1..Len(log') : log'[i].f.at # verb'[p].at
                                     /\ \A q \in Operators \ {p} : verb'[q].at # verb'[p].at
    <3>1. TimesDiffer /\ clock \in Nat
      BY DEF GovInv, Types
    <3>2. CASE p = o
      BY <1>10, <1>11, <3>1, <3>2
    <3>3. CASE p # o
      <4>1. verb'[p] = verb[p] /\ verb[p].at <= clock /\ verb[p].at \in Nat
        BY <1>10, <1>11, <3>1, <3>3 DEF TimesDiffer
      <4>2. ASSUME verb[p] # Idle
            PROVE  /\ verb[p].at > 0
                   /\ \A q \in Operators \ {p} : verb[q].at # verb[p].at
        BY <3>1, <4>2 DEF TimesDiffer
      <4>3. \A q \in Operators : verb'[q] = verb[q] \/ verb'[q].at = 0
        BY <1>10, <1>11
      <4>4. ASSUME verb[p] # Idle, NEW q \in Operators \ {p} PROVE verb'[q].at # verb'[p].at
        BY <4>1, <4>2, <4>3, <4>4
      <4>5. verb[p] # Idle => \A i \in 1..Len(log') : log'[i].f.at # verb[p].at
        BY <1>5, <3>3
      <4> QED
        BY <4>1, <4>2, <4>4, <4>5
    <3> QED
      BY <3>2, <3>3
  <2> QED
    BY <1>1, <1>5, <2>1 DEF TimesDiffer
<1>15. AckedLast'
  <2> SUFFICES ASSUME NEW x \in acked' PROVE Lasts(x)'
    BY DEF AckedLast
  <2>1. \A d : Exists(gov, d) => Exists(gov', d)
    BY <1>9 DEF Exists
  <2>2. CASE x \in acked
    <3>1. Lasts(x)
      BY <2>2 DEF GovInv, AckedLast
    <3>2. Holds(gov, x) => Holds(gov', x)
      BY <1>8, <3>1, HoldsLater DEF Lasts, Lasting
    <3> QED
      BY <1>1, <1>4, <2>1, <3>1, <3>2, LastsKept
  <2>3. CASE x = f /\ acked' # acked
    <3>1. Lasting(f) /\ Holds(gov', f)
      BY <1>6, <1>8, <2>3
    <3>2. f.verb = "plan" => Exists(gov', f.decision)
      BY <1>3, <2>1
    <3> QED
      BY <1>1, <1>4, <2>3, <3>1, <3>2 DEF Lasts, Holds, Exists, Lasting
  <2> QED
    BY <1>6, <2>2, <2>3
<1>16. GapsCount'
  BY <1>1, <1>4, <1>6, <1>9, GapsKept DEF GovInv
<1> QED
  BY <1>12, <1>13, <1>14, <1>15, <1>16 DEF GovInv

LEMMA RefuseVerbStep ==
    ASSUME GovInv, NEW o \in Operators, RefuseVerb(o)
    PROVE  GovInv'
<1>1. /\ status = "up" /\ Answer(o)
      /\ UNCHANGED <<status, clock, gov, log, manifest, used, acked, registered, forgotten, counted, saved>>
  BY DEF RefuseVerb, history
<1>2. TimesDiffer' /\ verb' \in [Operators -> [verb : Verbs \cup {"idle"}, at : Nat]]
  BY <1>1, AnswerKeeps
<1>3. Types'
  BY <1>1, <1>2 DEF GovInv, Types
<1>4. BaseGood' /\ Base' = Base /\ Due' = Due /\ Skipped' = Skipped
  BY <1>1, BaseKept
<1>5. AckedLast'
  <2> SUFFICES ASSUME NEW x \in acked' PROVE Lasts(x)'
    BY DEF AckedLast
  <2>1. Lasts(x)
    BY <1>1 DEF GovInv, AckedLast
  <2> QED
    BY <1>1, <1>4, <2>1, LastsKept
<1>6. GapsCount'
  BY <1>1, <1>4, GapsKept DEF GovInv
<1> QED
  BY <1>2, <1>3, <1>4, <1>5, <1>6 DEF GovInv

LEMMA SnapshotStep ==
    ASSUME GovInv, NEW o \in Operators, Snapshot(o)
    PROVE  GovInv'
<1>1. /\ status = "up" /\ Answer(o) /\ Spend("snaps")
      /\ manifest' = [at |-> clock,
                    snap |-> <<[at |-> verb[o].at, gov |-> Captured(gov), has |-> Len(log)]>>]
      /\ saved' = counted
      /\ UNCHANGED <<status, clock, gov, log, acked, forgotten, counted>>
  BY DEF Snapshot
<1>2. TimesDiffer' /\ verb' \in [Operators -> [verb : Verbs \cup {"idle"}, at : Nat]]
  BY <1>1, AnswerKeeps
<1>3. used' \in [Counted -> Nat]
  BY <1>1, SpendTyped DEF GovInv, Counted
<1>4. Types'
  BY <1>1, <1>2, <1>3 DEF GovInv, Types
<1>5. PICK b : b = [at |-> verb[o].at, gov |-> Captured(gov), has |-> Len(log)]
  OBVIOUS
<1>6. manifest' = [at |-> clock, snap |-> <<b>>]
  BY <1>1, <1>5
<1>7. Base' = b
  <2>1. manifest'.snap = <<b>>
    BY <1>6
  <2>2. <<b>> # <<>> /\ <<b>>[1] = b
    OBVIOUS
  <2> QED
    BY <2>1, <2>2 DEF Base
<1>8. b.gov = Captured(gov) /\ b.at = verb[o].at /\ b.has = Len(log)
  BY <1>5
<1>9. /\ DOMAIN b.gov = {"contracts", "decisions", "accepted", "gaps"}
      /\ b.gov.contracts = gov.contracts /\ b.gov.decisions = gov.decisions
      /\ b.gov.accepted = gov.accepted /\ b.gov.gaps = gov.gaps
  BY <1>8 DEF Captured, ContractState, DecisionState, CongruenceState, GapState
<1>10. Good(b.gov)
  BY <1>9 DEF GovInv, Types, Good
<1>11. BaseGood'
  <2>1. clock \in Nat /\ verb[o].at \in Nat /\ Len(log) \in Nat
    BY LogTyped DEF GovInv, Types
  <2>2. verb[o].at <= clock
    BY DEF GovInv, TimesDiffer
  <2>3. DOMAIN manifest' = {"at", "snap"} /\ manifest'.at = clock
    BY <1>6
  <2> QED
    BY <1>1, <1>7, <1>8, <1>10, <2>1, <2>2, <2>3 DEF BaseGood
<1>12. AckedLast'
  <2> SUFFICES ASSUME NEW x \in acked' PROVE Lasts(x)'
    BY DEF AckedLast
  <2>1. Lasts(x)
    BY <1>1 DEF GovInv, AckedLast
  <2>2. Holds(gov, x)
    BY <1>1, <2>1 DEF Lasts
  <2>3. Holds(b.gov, x)
    BY <1>9, <2>2 DEF Holds
  <2>4. x.verb = "plan" => x.decision \in forgotten \/ Exists(gov, x.decision)
    BY <1>1, <2>1 DEF Lasts
  <2>5. Lasting(x)
    BY <2>1 DEF Lasts
  <2> QED
    BY <1>1, <1>7, <2>2, <2>3, <2>4, <2>5 DEF Lasts, Holds, Exists, Lasting
<1>13. GapsCount'
  <2>1. \A g \in Gaps : counted[g] <= gov.gaps[g].count /\ counted[g] <= GapN
    BY <1>1 DEF GovInv, GapsCount
  <2> QED
    BY <1>1, <1>7, <1>9, <2>1 DEF GapsCount
<1> QED
  BY <1>2, <1>4, <1>11, <1>12, <1>13 DEF GovInv

\* What the host and the agents change is in the cells only.
LEMMA CellsStep ==
    ASSUME GovInv, status = "up", UNCHANGED <<status, clock, verb, log, manifest, forgotten>>,
           NEW k \in Counted, Spend(k), Good(gov'), acked' \subseteq acked,
           \A f \in acked' : Holds(gov, f) => Holds(gov', f),
           \A d : Exists(gov, d) => Exists(gov', d),
           counted' \in [Gaps -> Nat], saved' = saved,
           GapsCount'
    PROVE  GovInv'
<1>1. used' \in [Counted -> Nat]
  BY SpendTyped DEF GovInv
<1>2. Good(gov)'
  BY DEF Good
<1>3. Types'
  BY <1>1, <1>2 DEF GovInv, Types
<1>4. BaseGood' /\ Base' = Base /\ Due' = Due /\ Skipped' = Skipped
  BY BaseKept
<1>5. TimesDiffer'
  BY TimesKept DEF GovInv
<1>6. AckedLast'
  <2> SUFFICES ASSUME NEW x \in acked' PROVE Lasts(x)'
    BY DEF AckedLast
  <2>1. Lasts(x)
    BY DEF GovInv, AckedLast
  <2> QED
    BY <1>4, <2>1, LastsKept
<1> QED
  BY <1>3, <1>4, <1>5, <1>6 DEF GovInv

LEMMA HostRegisterStep ==
    ASSUME GovInv, NEW s \in Schemas, HostRegister(s)
    PROVE  GovInv'
<1>1. /\ status = "up" /\ Spend("registers") /\ gov' = Register(gov, s)
      /\ acked' = {f \in acked : f.verb \in {"plan", "apply"} => f.source # s}
      /\ UNCHANGED <<status, clock, verb, log, manifest, forgotten, counted, saved>>
  BY DEF HostRegister
<1>2. PICK c : c = gov.contracts
  OBVIOUS
<1>3. /\ DOMAIN gov = {"contracts", "decisions", "accepted", "gaps"}
      /\ DOMAIN c \subseteq Schemas /\ IsFiniteSet(DOMAIN c)
      /\ \A x \in DOMAIN c : c[x] \in Contract /\ Migrated(c, x)
  BY <1>2 DEF GovInv, Types, Good, GoodContracts
<1>4. PICK e : e = [x \in DOMAIN c \cup {s} |-> IF x = s THEN NewContract ELSE c[x]]
  OBVIOUS
<1>5. gov' = [gov EXCEPT !.contracts = e]
  BY <1>1, <1>2, <1>4 DEF Register
<1>6. /\ DOMAIN gov' = {"contracts", "decisions", "accepted", "gaps"}
      /\ gov'.contracts = e /\ gov'.decisions = gov.decisions
      /\ gov'.accepted = gov.accepted /\ gov'.gaps = gov.gaps
  BY <1>3, <1>5
<1>7. /\ DOMAIN e = DOMAIN c \cup {s} /\ e[s] = NewContract
      /\ \A x \in DOMAIN c : x # s => e[x] = c[x]
  BY <1>4
<1>8. IsFiniteSet(DOMAIN e) /\ DOMAIN e \subseteq Schemas
  BY <1>3, <1>7, FS_AddElement
<1>9. NewContract \in Contract /\ NewContract.by = None /\ NewContract.deprecated = FALSE
  BY DEF NewContract, Contract, DecisionId, NoDecision
<1>10. \A x \in DOMAIN e : e[x] \in Contract /\ Migrated(e, x)
  BY <1>3, <1>7, <1>9 DEF Migrated
<1>11. Good(gov')
  <2>1. GoodContracts(e)
    BY <1>8, <1>10 DEF GoodContracts
  <2> QED
    BY <1>6, <2>1 DEF Good, GovInv, Types
<1>12. ASSUME NEW f \in acked', Holds(gov, f) PROVE Holds(gov', f)
  <2>1. f.verb \in {"plan", "apply"} => f.source # s
    BY <1>1
  <2> QED
    BY <1>2, <1>6, <1>7, <1>12, <2>1 DEF Holds
<1>13. \A d : Exists(gov, d) => Exists(gov', d)
  BY <1>6 DEF Exists
<1>14. GapsCount'
  <2>1. Base' = Base
    BY <1>1 DEF Base
  <2> QED
    BY <1>1, <1>6, <2>1, GapsKept DEF GovInv
<1>15. /\ acked' \subseteq acked /\ "registers" \in Counted
       /\ counted' \in [Gaps -> Nat]
  BY <1>1 DEF GovInv, Types, Counted
<1> QED
  BY <1>1, <1>11, <1>12, <1>13, <1>14, <1>15, CellsStep

\* The steps that change the decisions only.
LEMMA DecisionsStep ==
    ASSUME GovInv, status = "up", UNCHANGED <<status, clock, verb, log, manifest, history>>,
           Spend("decisions"), NEW ds \in Seq(Decision),
           gov' = [gov EXCEPT !.decisions = ds],
           \A i \in DOMAIN gov.decisions : i \in DOMAIN ds /\ ds[i].at = gov.decisions[i].at
    PROVE  GovInv'
<1>1. /\ DOMAIN gov = {"contracts", "decisions", "accepted", "gaps"}
  BY DEF GovInv, Types, Good
<1>2. /\ DOMAIN gov' = {"contracts", "decisions", "accepted", "gaps"}
      /\ gov'.contracts = gov.contracts /\ gov'.decisions = ds
      /\ gov'.accepted = gov.accepted /\ gov'.gaps = gov.gaps
  BY <1>1
<1>3. Good(gov')
  BY <1>2 DEF Good, GovInv, Types
<1>4. \A f \in acked' : Holds(gov, f) => Holds(gov', f)
  BY <1>2 DEF Holds
<1>5. \A d : Exists(gov, d) => Exists(gov', d)
  BY <1>2 DEF Exists
<1>6. GapsCount'
  <2>1. Base' = Base /\ counted' = counted /\ saved' = saved
    BY DEF Base, history
  <2> QED
    BY <1>2, <2>1, GapsKept DEF GovInv
<1>7. /\ acked' \subseteq acked /\ "decisions" \in Counted
      /\ counted' \in [Gaps -> Nat] /\ saved' = saved
      /\ UNCHANGED <<status, clock, verb, log, manifest, forgotten>>
  BY DEF GovInv, Types, Counted, history
<1> QED
  BY <1>3, <1>4, <1>5, <1>6, <1>7, CellsStep

LEMMA HostDecideStep ==
    ASSUME GovInv, NEW scope \in Scopes, HostDecide(scope)
    PROVE  GovInv'
<1>1. PICK old, d : old = gov.decisions /\ d = NewDecision(clock, scope)
  OBVIOUS
<1>2. old \in Seq(Decision) /\ clock \in Nat
  BY <1>1 DEF GovInv, Types, Good
<1>3. d \in Decision
  BY <1>1, <1>2 DEF NewDecision, Decision, NoDecision, DecisionId
<1>4. PICK ds : ds = Append(old, d)
  OBVIOUS
<1>5. ds \in Seq(Decision) /\ \A i \in DOMAIN old : i \in DOMAIN ds /\ ds[i] = old[i]
  BY <1>2, <1>3, <1>4
<1>6. gov' = [gov EXCEPT !.decisions = ds]
  BY <1>1, <1>4 DEF HostDecide, AppendDecision
<1>7. /\ status = "up" /\ Spend("decisions")
      /\ UNCHANGED <<status, clock, verb, log, manifest, history>>
  BY DEF HostDecide
<1>8. \A i \in DOMAIN gov.decisions : i \in DOMAIN ds /\ ds[i].at = gov.decisions[i].at
  BY <1>1, <1>5
<1> QED
  BY <1>5, <1>6, <1>7, <1>8, DecisionsStep

LEMMA HostSupersedeStep ==
    ASSUME GovInv, NEW old \in DOMAIN gov.decisions, NEW new \in DOMAIN gov.decisions,
           HostSupersede(old, new)
    PROVE  GovInv'
<1>1. PICK c, h : c = gov.decisions /\ h = Handle(c, new)
  OBVIOUS
<1>2. c \in Seq(Decision) /\ old \in DOMAIN c /\ new \in DOMAIN c
  BY <1>1 DEF GovInv, Types, Good
<1>3. h \in DecisionId
  <2>1. c[new] \in Decision /\ new \in Nat
    BY <1>2
  <2> QED
    BY <1>1, <2>1 DEF Handle, Decision, DecisionId
<1>4. PICK e : e = [c[old] EXCEPT !.by = h]
  OBVIOUS
<1>5. e \in Decision /\ e.at = c[old].at
  <2>1. c[old] \in Decision
    BY <1>2
  <2> QED
    BY <1>3, <1>4, <2>1 DEF Decision
<1>6. PICK ds : ds = [c EXCEPT ![old] = e]
  OBVIOUS
<1>7. ds \in Seq(Decision) /\ \A i \in DOMAIN c : i \in DOMAIN ds /\ ds[i].at = c[i].at
  BY <1>2, <1>5, <1>6
<1>8. gov' = [gov EXCEPT !.decisions = ds]
  BY <1>1, <1>4, <1>6 DEF HostSupersede, Supersede
<1>9. /\ status = "up" /\ Spend("decisions")
      /\ UNCHANGED <<status, clock, verb, log, manifest, history>>
  BY DEF HostSupersede
<1> QED
  BY <1>1, <1>7, <1>8, <1>9, DecisionsStep

\* The steps that change one gap only: n dispatches were let through.
LEMMA GapStep ==
    ASSUME GovInv, status = "up",
           UNCHANGED <<status, clock, verb, log, manifest, acked, registered, forgotten, saved>>,
           NEW k \in Counted, Spend(k), NEW g \in Gaps, NEW h \in Gap, NEW n \in Nat,
           gov' = [gov EXCEPT !.gaps = [@ EXCEPT ![g] = h]],
           counted' = [counted EXCEPT ![g] = n],
           n <= h.count,
           n <= GapN
    PROVE  GovInv'
<1>1. /\ DOMAIN gov = {"contracts", "decisions", "accepted", "gaps"}
      /\ gov.gaps \in [Gaps -> Gap] /\ counted \in [Gaps -> Nat]
  BY DEF GovInv, Types, Good
<1>2. PICK gs : gs = [gov.gaps EXCEPT ![g] = h]
  OBVIOUS
<1>3. /\ DOMAIN gov' = {"contracts", "decisions", "accepted", "gaps"}
      /\ gov'.contracts = gov.contracts /\ gov'.decisions = gov.decisions
      /\ gov'.accepted = gov.accepted /\ gov'.gaps = gs
  BY <1>1, <1>2
<1>4. gs \in [Gaps -> Gap] /\ gs[g] = h /\ \A x \in Gaps \ {g} : gs[x] = gov.gaps[x]
  BY <1>1, <1>2
<1>5. Good(gov')
  BY <1>3, <1>4 DEF Good, GovInv, Types
<1>6. \A f \in acked' : Holds(gov, f) => Holds(gov', f)
  BY <1>3 DEF Holds
<1>7. \A d : Exists(gov, d) => Exists(gov', d)
  BY <1>3 DEF Exists
<1>8. /\ counted' \in [Gaps -> Nat] /\ counted'[g] = n
      /\ \A x \in Gaps \ {g} : counted'[x] = counted[x]
  BY <1>1
<1>9. GapsCount'
  <2>1. /\ \A x \in Gaps : counted[x] <= gov.gaps[x].count /\ counted[x] <= GapN
        /\ \A x \in Gaps : saved[x] <= Base.gov.gaps[x].count /\ saved[x] <= GapN
    BY DEF GovInv, GapsCount
  <2>2. \A x \in Gaps : counted'[x] <= gs[x].count /\ counted'[x] <= GapN
    BY <1>4, <1>8, <2>1
  <2>3. Base' = Base
    BY DEF Base
  <2> QED
    BY <1>3, <2>1, <2>2, <2>3 DEF GapsCount
<1> QED
  BY <1>5, <1>6, <1>7, <1>8, <1>9, CellsStep

LEMMA HostTransitionStep ==
    ASSUME GovInv, NEW g \in Gaps, NEW to \in GapStates, HostTransition(g, to)
    PROVE  GovInv'
<1>1. PICK h : h = [state |-> to, count |-> 0]
  OBVIOUS
<1>2. h \in Gap /\ h.count = 0
  BY <1>1 DEF Gap
<1>3. gov' = [gov EXCEPT !.gaps = [@ EXCEPT ![g] = h]] /\ counted' = [counted EXCEPT ![g] = 0]
  BY <1>1 DEF HostTransition
<1>4. /\ status = "up" /\ Spend("transitions")
      /\ UNCHANGED <<status, clock, verb, log, manifest, acked, registered, forgotten, saved>>
  BY DEF HostTransition
<1>5. "transitions" \in Counted
  BY DEF Counted
<1>6. PICK z \in Nat : z = 0 /\ z <= h.count /\ z <= GapN
  BY <1>2, GovernanceConstants
<1> QED
  BY <1>2, <1>3, <1>4, <1>5, <1>6, GapStep

LEMMA DispatchGapStep ==
    ASSUME GovInv, NEW g \in Gaps, DispatchGap(g)
    PROVE  GovInv'
<1>1. PICK a, r, t : a = gov.gaps[g] /\ r = OnDispatch(a) /\ t = counted[g]
  OBVIOUS
<1>2. a \in Gap /\ t \in Nat
  BY <1>1 DEF GovInv, Types, Good
<1>3. PICK n : n = t + IF r.ok THEN 1 ELSE 0
  OBVIOUS
<1>4. gov' = [gov EXCEPT !.gaps = [@ EXCEPT ![g] = r.gap]] /\ counted' = [counted EXCEPT ![g] = n]
  BY <1>1, <1>3 DEF DispatchGap
<1>5. /\ status = "up" /\ Spend("dispatches")
      /\ UNCHANGED <<status, clock, verb, log, manifest, acked, registered, forgotten, saved>>
  BY DEF DispatchGap
<1>7. GapN \in Nat
  BY GovernanceConstants
<1>8. t <= a.count /\ t <= GapN
  BY <1>1, <1>5 DEF GovInv, GapsCount
<1>9. n \in Nat /\ r.gap \in Gap /\ n <= r.gap.count /\ n <= GapN
  <2>1. a.count \in Nat /\ a.state \in GapStates
    BY <1>2 DEF Gap
  <2>2. CASE a.state \in {"resolved", "fixated"}
    <3>1. r.ok = FALSE /\ r.gap = a
      BY <1>1, <2>2 DEF OnDispatch
    <3>2. n = t
      BY <1>2, <1>3, <3>1
    <3> QED
      BY <1>2, <1>8, <3>1, <3>2
  <2>3. CASE ~(a.state \in {"resolved", "fixated"})
    <3>1. /\ r.ok = (a.count + 1 <= GapN)
          /\ r.gap = [state |-> IF a.count + 1 > GapN THEN "fixated" ELSE a.state,
                      count |-> a.count + 1]
      BY <1>1, <2>3 DEF OnDispatch
    <3>2. r.gap \in Gap /\ r.gap.count = a.count + 1
      BY <2>1, <3>1 DEF Gap, GapStates
    <3>3. n = t \/ (n = t + 1 /\ a.count + 1 <= GapN)
      <4>1. CASE a.count + 1 <= GapN
        <5>1. r.ok
          BY <3>1, <4>1, Zenon
        <5> QED
          BY <1>3, <4>1, <5>1
      <4>2. CASE ~(a.count + 1 <= GapN)
        <5>1. ~ r.ok
          BY <3>1, <4>2, Zenon
        <5> QED
          BY <1>2, <1>3, <5>1
      <4> QED
        BY <4>1, <4>2
    <3> QED
      BY <1>2, <1>7, <1>8, <2>1, <3>2, <3>3
  <2> QED
    BY <2>2, <2>3
<1>10. "dispatches" \in Counted
  BY DEF Counted
<1> QED
  BY <1>4, <1>5, <1>9, <1>10, GapStep

-----------------------------------------------------------------------------
(* Crashes and boots.                                                      *)

\* A decision that the ledger has is its own handle.
LEMMA ExistsDecided ==
    ASSUME NEW d \in DecisionId, Exists(gov, d)
    PROVE  d \in Decided
<1>1. d.seq \in DOMAIN gov.decisions /\ gov.decisions[d.seq].at = d.at
  BY DEF Exists
<1>2. d = [at |-> d.at, seq |-> d.seq]
  BY DEF DecisionId
<1>3. Handle(gov.decisions, d.seq) = d
  BY <1>1, <1>2 DEF Handle
<1> QED
  BY <1>1, <1>3 DEF Decided

LEMMA CrashStep ==
    ASSUME GovInv, Crash
    PROVE  GovInv'
<1>1. /\ status = "up" /\ status' = "down" /\ Spend("crashes")
      /\ verb' = [o \in Operators |-> Idle]
      /\ forgotten' = forgotten \cup {d \in Decided : ~ Exists(Base.gov, d)}
      /\ UNCHANGED <<clock, gov, manifest, acked, registered, counted, saved>>
  BY DEF Crash
<1>2. /\ log' \in Seq([f : Frame, kept : BOOLEAN])
      /\ Base' = Base /\ Base.has <= Len(log')
      /\ Due \subseteq Due' /\ Skipped \subseteq Skipped'
      /\ \A i \in 1..Len(log') : log'[i].f.at <= clock
      /\ \A i, j \in 1..Len(log') : log'[i].f.at = log'[j].f.at => i = j
  <2>1. CASE UNCHANGED log
    <3>1. Base' = Base /\ Due' = Due /\ Skipped' = Skipped /\ log' = log
      BY <1>1, <2>1, BaseKept
    <3>2. log \in Seq([f : Frame, kept : BOOLEAN]) /\ Base.has <= Len(log)
      BY DEF GovInv, Types, BaseGood
    <3>3. /\ \A i \in 1..Len(log) : log[i].f.at <= clock
          /\ \A i, j \in 1..Len(log) : log[i].f.at = log[j].f.at => i = j
      BY DEF GovInv, TimesDiffer
    <3> QED
      BY <3>1, <3>2, <3>3
  <2>2. ASSUME NEW o \in Operators, NEW f \in Committable(o),
               log' = Append(log, [f |-> f, kept |-> FALSE])
        PROVE  /\ log' \in Seq([f : Frame, kept : BOOLEAN])
               /\ Base' = Base /\ Base.has <= Len(log')
               /\ Due \subseteq Due' /\ Skipped \subseteq Skipped'
               /\ \A i \in 1..Len(log') : log'[i].f.at <= clock
               /\ \A i, j \in 1..Len(log') : log'[i].f.at = log'[j].f.at => i = j
    BY <1>1, <2>2, LogGrows
  <2> QED
    BY <2>1, <2>2 DEF Crash
<1>3. used' \in [Counted -> Nat]
  BY <1>1, SpendTyped DEF GovInv, Counted
<1>4. \A o \in Operators : verb'[o] = Idle /\ Idle.at = 0
  BY <1>1 DEF Idle
<1>5. clock \in Nat
  BY DEF GovInv, Types
<1>6. Types'
  <2>1. verb' \in [Operators -> [verb : Verbs \cup {"idle"}, at : Nat]]
    BY <1>1 DEF Idle
  <2> QED
    BY <1>1, <1>2, <1>3, <2>1 DEF GovInv, Types
<1>7. BaseGood'
  BY <1>1, <1>2 DEF GovInv, BaseGood
<1>8. TimesDiffer'
  BY <1>1, <1>2, <1>4, <1>5 DEF TimesDiffer
<1>9. AckedLast'
  <2> SUFFICES ASSUME NEW x \in acked' PROVE Lasts(x)'
    BY DEF AckedLast
  <2>1. Lasts(x)
    BY <1>1 DEF GovInv, AckedLast
  <2>2. Lasting(x) /\ (Holds(Base.gov, x) \/ x \in Due \/ x \in Skipped)
    BY <2>1 DEF Lasts
  <2>3. x.verb = "plan" => x.decision \in forgotten' \/ Exists(Base.gov, x.decision)
    <3> SUFFICES ASSUME x.verb = "plan"
                 PROVE  x.decision \in forgotten' \/ Exists(Base.gov, x.decision)
      OBVIOUS
    <3>1. x.decision \in DecisionId
      BY <2>2, FrameVerbs DEF Lasting, PlanFrame
    <3>2. x.decision \in forgotten \/ Exists(gov, x.decision)
      BY <1>1, <2>1 DEF Lasts
    <3> QED
      BY <1>1, <3>1, <3>2, ExistsDecided
  <2>4. status' # "up"
    BY <1>1
  <2> QED
    BY <1>2, <2>2, <2>3, <2>4 DEF Lasts, Holds, Exists, Lasting
<1>10. GapsCount'
  BY <1>1, <1>2 DEF GovInv, GapsCount
<1> QED
  BY <1>6, <1>7, <1>8, <1>9, <1>10 DEF GovInv

\* A set of numbers with a bound has a greatest element.
LEMMA MaxOfBounded ==
    ASSUME NEW S \in SUBSET Nat, S # {}, NEW b \in Nat, \A x \in S : x <= b
    PROVE  Max(S) \in S /\ \A x \in S : x <= Max(S)
<1> DEFINE U == {u \in Nat : \A x \in S : x <= u}
<1>1. PICK u \in U : \A y \in U : ~(<<y, u>> \in OpToRel(<, Nat))
  BY WFMin, NatLessThanWellFounded
<1>2. \A y \in U : ~(y < u)
  BY <1>1 DEF OpToRel
<1>3. u \in S
  <2> SUFFICES ASSUME u \notin S PROVE FALSE
    OBVIOUS
  <2>1. \A x \in S : x < u
    OBVIOUS
  <2>2. u - 1 \in Nat /\ \A x \in S : x <= u - 1
    <3>1. PICK x \in S : x \in Nat /\ x < u
      BY <2>1
    <3>2. u - 1 \in Nat
      BY <3>1
    <3> QED
      BY <2>1, <3>2
  <2>3. u - 1 \in U /\ u - 1 < u
    BY <2>2
  <2> QED
    BY <1>2, <2>3
<1>4. \E x \in S : \A y \in S : x >= y
  BY <1>3
<1>5. Max(S) \in S /\ \A y \in S : Max(S) >= y
  BY <1>4 DEF Max
<1> QED
  BY <1>5

Timed(D) == \A f \in D : f \in Frame /\ f.at \in Nat /\ f.at > 0

\* The frames of a boot in the order in which it replays them.
LEMMA DueListed ==
    ASSUME GovInv
    PROVE  /\ Timed(Due) /\ (\A x \in Due : x.at <= clock) /\ clock \in Nat
           /\ \E n \in Nat : \E q \in [1..n -> Due] :
                 /\ Replayed = Replaying(Base.gov, q, n)
                 /\ \A x \in Due : \E i \in 1..n : q[i] = x
                 /\ \A i, j \in 1..n : i < j => q[i].at < q[j].at
<1>1. PICK S, m : S = Due /\ m = clock
  OBVIOUS
<1>2. m \in Nat /\ Base.at \in Nat
  BY <1>1 DEF GovInv, Types, BaseGood
<1>3. \A x \in S : x.at > Base.at /\ \E i \in 1..Len(log) : x = log[i].f
  BY <1>1, LogTyped DEF Due, Frames, GovInv
<1>4. \A x \in S : x \in Frame /\ x.at \in Nat /\ x.at <= m
  BY <1>1, <1>3, LogTyped DEF GovInv, TimesDiffer
<1>5. \A x, y \in S : x.at = y.at => x = y
  BY <1>3 DEF GovInv, TimesDiffer
<1>6. m + 1 \in Nat /\ \A x \in S : x.at < m + 1
  BY <1>2, <1>4
<1>7. /\ Cardinality(S) \in Nat
      /\ ByTime(S) \in [1..Cardinality(S) -> S]
      /\ \A x \in S : \E i \in 1..Cardinality(S) : ByTime(S)[i] = x
      /\ \A i, j \in 1..Cardinality(S) : i < j => ByTime(S)[i].at < ByTime(S)[j].at
  BY <1>4, <1>5, <1>6, ByTimeLists
<1>8. Replayed = Replaying(Base.gov, ByTime(S), Cardinality(S))
  BY <1>1 DEF Replayed
<1>9. Timed(S)
  BY <1>2, <1>3, <1>4 DEF Timed
<1> QED
  BY <1>1, <1>2, <1>4, <1>7, <1>8, <1>9

\* A boot that is not refused gives the cells that the frames ask for.
LEMMA ReplayedKeeps ==
    ASSUME GovInv, NEW h \in Replayed
    PROVE  /\ Later(Base.gov, h)
           /\ \A f \in Due : Lasting(f) => Holds(h, f)
<1>1. PICK S, c : S = Due /\ c = Base.gov
  OBVIOUS
<1>2. Good(c) /\ Timed(S)
  BY <1>1, DueListed DEF GovInv, BaseGood
<1>3. PICK n \in Nat : \E q \in [1..n -> S] :
                 /\ Replayed = Replaying(c, q, n)
                 /\ \A x \in S : \E i \in 1..n : q[i] = x
  BY <1>1, DueListed
<1>4. PICK q \in [1..n -> S] :
                 /\ Replayed = Replaying(c, q, n)
                 /\ \A x \in S : \E i \in 1..n : q[i] = x
  BY <1>3
<1>5. q \in [1..n -> Frame]
  BY <1>2, <1>4 DEF Timed
<1>6. h \in Replaying(c, q, n)
  BY <1>4
<1>7. Later(c, h) /\ \A j \in 1..n : Lasting(q[j]) => Holds(h, q[j])
  BY ONLY <1>2, <1>3, <1>5, <1>6, ReplayingKeeps
<1> QED
  BY <1>1, <1>4, <1>7

LEMMA BootStep ==
    ASSUME GovInv, Boot
    PROVE  GovInv'
<1>1. status = "down" /\ UNCHANGED <<verb, log, limit, used, forgotten, saved>>
  BY DEF Boot
<1>2. CASE status' = "refused" /\ UNCHANGED <<clock, gov, manifest, acked, registered, counted>>
  <2>1. Types'
    BY <1>1, <1>2 DEF GovInv, Types
  <2>2. BaseGood' /\ Base' = Base /\ Due' = Due /\ Skipped' = Skipped
    BY <1>1, <1>2, BaseKept
  <2>3. TimesDiffer'
    BY <1>1, <1>2 DEF GovInv, TimesDiffer
  <2>4. AckedLast'
    <3> SUFFICES ASSUME NEW x \in acked' PROVE Lasts(x)'
      BY DEF AckedLast
    <3>1. Lasts(x)
      BY <1>2 DEF GovInv, AckedLast
    <3>2. status # "up" /\ status' # "up"
      BY <1>1, <1>2
    <3> QED
      BY <1>1, <1>2, <2>2, <3>1, <3>2 DEF Lasts, Holds, Exists, Lasting
  <2>5. GapsCount'
    BY <1>1, <1>2, <2>2 DEF GovInv, GapsCount
  <2> QED
    BY <2>1, <2>2, <2>3, <2>4, <2>5 DEF GovInv
<1>3. CASE /\ status' = "up" /\ gov' \in Replayed
           /\ clock' = Max({1, manifest.at, Base.at} \cup {f.at : f \in Frames})
           /\ manifest' = [manifest EXCEPT !.at = clock']
           /\ acked' = acked \ Skipped
           /\ counted' = saved
  <2>1. Later(Base.gov, gov') /\ \A f \in Due : Lasting(f) => Holds(gov', f)
    BY <1>3, ReplayedKeeps
  <2>2. /\ DOMAIN manifest = {"at", "snap"} /\ manifest.at \in Nat /\ manifest.at <= clock
        /\ Base.at \in Nat /\ Base.at <= clock /\ clock \in Nat
    BY DEF GovInv, Types, BaseGood
  <2>3. PICK S : S = {1, manifest.at, Base.at} \cup {f.at : f \in Frames}
    OBVIOUS
  <2>4. /\ 1 \in S /\ manifest.at \in S /\ Base.at \in S
        /\ \A i \in 1..Len(log) : log[i].f.at \in S
    BY <2>3, LogTyped DEF Frames, GovInv
  <2>5. \A x \in S : x \in Nat /\ x <= clock + 1
    <3>1. \A f \in Frames : f.at \in Nat /\ f.at <= clock
      BY LogTyped DEF Frames, GovInv, TimesDiffer
    <3> QED
      BY <2>2, <2>3, <3>1
  <2>6. Max(S) \in S /\ \A x \in S : x <= Max(S)
    <3>1. S \in SUBSET Nat /\ S # {} /\ clock + 1 \in Nat
      BY <2>2, <2>4, <2>5
    <3> QED
      BY <2>5, <3>1, MaxOfBounded
  <2>7. clock' = Max(S)
    BY <1>3, <2>3
  <2>8. clock' \in Nat /\ \A x \in S : x <= clock'
    BY <2>5, <2>6, <2>7
  <2>9. DOMAIN manifest' = {"at", "snap"} /\ manifest'.at = clock' /\ manifest'.snap = manifest.snap
    BY <1>3, <2>2
  <2>10. Base' = Base
    BY <2>9 DEF Base
  <2>11. Due' = Due /\ Skipped' = Skipped
    BY <1>1, <2>10 DEF Due, Frames, Skipped
  <2>12. Good(gov') /\ gov'.decisions = Base.gov.decisions /\ gov'.gaps = Base.gov.gaps
    BY <2>1 DEF Later
  <2>13. Types'
    <3>1. Good(gov)'
      BY <2>12 DEF Good
    <3> QED
      BY <1>1, <1>3, <2>8, <3>1 DEF GovInv, Types
  <2>14. BaseGood'
    BY <1>1, <2>4, <2>8, <2>9, <2>10 DEF GovInv, BaseGood
  <2>15. TimesDiffer'
    <3>1. \A o \in Operators : verb[o] = Idle /\ verb[o].at = 0
      BY <1>1 DEF GovInv, TimesDiffer, Idle
    <3>2. \A i, j \in 1..Len(log) : log[i].f.at = log[j].f.at => i = j
      BY DEF GovInv, TimesDiffer
    <3> QED
      BY <1>1, <2>4, <2>8, <3>1, <3>2 DEF TimesDiffer
  <2>16. AckedLast'
    <3> SUFFICES ASSUME NEW x \in acked' PROVE Lasts(x)'
      BY DEF AckedLast
    <3>1. Lasts(x) /\ x \notin Skipped
      BY <1>3 DEF GovInv, AckedLast
    <3>2. Lasting(x) /\ (Holds(Base.gov, x) \/ x \in Due)
      BY <3>1 DEF Lasts
    <3>3. Holds(gov', x)
      <4>1. CASE x \in Due
        BY <2>1, <3>2, <4>1
      <4>2. CASE Holds(Base.gov, x)
        BY <2>1, <3>2, <4>2, HoldsLater DEF Lasting
      <4> QED
        BY <3>2, <4>1, <4>2
    <3>4. x.verb = "plan" => x.decision \in forgotten \/ Exists(Base.gov, x.decision)
      BY <1>1, <3>1 DEF Lasts
    <3>5. Exists(Base.gov, x.decision) => Exists(gov', x.decision)
      BY <2>12 DEF Exists
    <3> QED
      BY <1>1, <1>3, <2>10, <2>11, <3>2, <3>3, <3>4, <3>5 DEF Lasts, Holds, Exists, Lasting
  <2>17. GapsCount'
    <3>1. \A g \in Gaps : saved[g] <= Base.gov.gaps[g].count /\ saved[g] <= GapN
      BY DEF GovInv, GapsCount
    <3> QED
      BY <1>1, <1>3, <2>10, <2>12, <3>1 DEF GapsCount
  <2> QED
    BY <2>13, <2>14, <2>15, <2>16, <2>17 DEF GovInv
<1> QED
  BY <1>2, <1>3 DEF Boot

-----------------------------------------------------------------------------
(* What a replay does to the contracts, which alone decide if it fails.    *)

\* The contracts have what the frame asks for.
InEffect(cs, f) ==
    /\ f.verb = "plan" => /\ f.source \in DOMAIN cs
                          /\ cs[f.source].by = f.target /\ cs[f.source].decision = f.decision
    /\ f.verb = "apply" => f.source \in DOMAIN cs /\ cs[f.source].deprecated

\* The frame passes the checks of its verb.
Passes(cs, f) ==
    /\ f.verb = "plan" =>
          /\ EnsureUpgrade(f.source, f.target)
          /\ f.source \in DOMAIN cs /\ f.target \in DOMAIN cs
          /\ ~ cs[f.target].deprecated /\ ~ cs[f.source].deprecated
          /\ cs[f.source].by = None
    /\ f.verb = "apply" =>
          /\ f.source \in DOMAIN cs
          /\ ~ cs[f.source].deprecated /\ cs[f.source].by # None
          /\ f.at >= cs[f.source].after

\* The contract that the frame leaves.
Moved(c, f) ==
    IF f.verb = "plan"
    THEN [c EXCEPT !.by = f.target, !.decision = f.decision, !.after = f.after, !.appliedAt = 0]
    ELSE [c EXCEPT !.deprecated = TRUE, !.appliedAt = f.at]

Placed(cs, s, c) == [cs EXCEPT ![s] = c]

\* The frame is replayed on cs and gives ds.
Moves(cs, f, ds) ==
    \/ (f.verb = "accept" \/ InEffect(cs, f)) /\ ds = cs
    \/ /\ f.verb # "accept" /\ ~ InEffect(cs, f) /\ Passes(cs, f)
       /\ ds = Placed(cs, f.source, Moved(cs[f.source], f))

LEMMA PlacedIs ==
    ASSUME NEW cs, NEW s, NEW c
    PROVE  /\ DOMAIN Placed(cs, s, c) = DOMAIN cs
           /\ s \in DOMAIN cs => Placed(cs, s, c)[s] = c
           /\ \A x \in DOMAIN cs : x # s => Placed(cs, s, c)[x] = cs[x]
BY DEF Placed

\* What a plan and an apply do to the contracts of the cells.
LEMMA PlanPlaces ==
    ASSUME NEW g, Good(g), NEW f, f.verb = "plan"
    PROVE  /\ ValidateMigrationPlan(g, f) <=> Passes(g.contracts, f)
           /\ PlanMigration(g, f).contracts
                = Placed(g.contracts, f.source, Moved(g.contracts[f.source], f))
<1>1. ValidateMigrationPlan(g, f) <=> Passes(g.contracts, f)
  BY DEF ValidateMigrationPlan, Passes
<1>2. PICK c : c = Moved(g.contracts[f.source], f)
  OBVIOUS
<1>3. c = [g.contracts[f.source] EXCEPT !.by = f.target, !.decision = f.decision,
                                        !.after = f.after, !.appliedAt = 0]
  BY <1>2 DEF Moved
<1>4. PlanMigration(g, f) = [g EXCEPT !.contracts = [@ EXCEPT ![f.source] = c]]
  BY <1>3 DEF PlanMigration
<1>5. "contracts" \in DOMAIN g
  BY DEF Good
<1>6. PlanMigration(g, f).contracts = [g.contracts EXCEPT ![f.source] = c]
  BY <1>4, <1>5
<1> QED
  BY <1>1, <1>2, <1>6 DEF Placed

LEMMA ApplyPlaces ==
    ASSUME NEW g, Good(g), NEW f, f.verb = "apply"
    PROVE  /\ ValidateApplyMigration(g, f) <=> Passes(g.contracts, f)
           /\ ApplyMigration(g, f).contracts
                = Placed(g.contracts, f.source, Moved(g.contracts[f.source], f))
<1>1. ValidateApplyMigration(g, f) <=> Passes(g.contracts, f)
  BY DEF ValidateApplyMigration, Passes
<1>2. PICK c : c = Moved(g.contracts[f.source], f)
  OBVIOUS
<1>3. c = [g.contracts[f.source] EXCEPT !.deprecated = TRUE, !.appliedAt = f.at]
  BY <1>2 DEF Moved
<1>4. ApplyMigration(g, f) = [g EXCEPT !.contracts = [@ EXCEPT ![f.source] = c]]
  BY <1>3 DEF ApplyMigration
<1>5. "contracts" \in DOMAIN g
  BY DEF Good
<1>6. ApplyMigration(g, f).contracts = [g.contracts EXCEPT ![f.source] = c]
  BY <1>4, <1>5
<1> QED
  BY <1>1, <1>2, <1>6 DEF Placed

\* replay_admin_op, seen from the contracts: it gives what Moves says, and
\* fails when Moves has nothing to give.
LEMMA ReplayMoves ==
    ASSUME NEW g, Good(g), NEW f \in Frame
    PROVE  /\ \A h \in ReplayAdminOp(g, f) : Moves(g.contracts, f, h.contracts)
           /\ \A ds : Moves(g.contracts, f, ds) => \E h \in ReplayAdminOp(g, f) : h.contracts = ds
<1> DEFINE cs == g.contracts
           R == ReplayAdminOp(g, f)
           Goal == /\ \A h \in R : Moves(cs, f, h.contracts)
                   /\ \A ds : Moves(cs, f, ds) => \E h \in R : h.contracts = ds
<1>1. CASE f.verb = "accept"
  <2>1. R = {IF f.listed THEN AcceptDelta(g, f) ELSE g}
    BY <1>1 DEF ReplayAdminOp
  <2>2. AcceptDelta(g, f).contracts = cs
    BY DEF AcceptDelta, Good
  <2>3. PICK k : R = {k} /\ k.contracts = cs
    BY <2>1, <2>2
  <2>4. \A ds : Moves(cs, f, ds) <=> ds = cs
    BY <1>1 DEF Moves
  <2> HIDE DEF R, cs
  <2>5. Goal
    BY <2>3, <2>4
  <2> QED
    BY <2>5 DEF R, cs
<1>2. ASSUME f.verb # "accept", InEffect(cs, f), R = {g} PROVE Goal
  <2>1. \A ds : Moves(cs, f, ds) <=> ds = cs
    BY <1>2 DEF Moves
  <2> QED
    BY <1>2, <2>1
<1>3. ASSUME f.verb # "accept", ~ InEffect(cs, f), NEW k,
             k.contracts = Placed(cs, f.source, Moved(cs[f.source], f)),
             R = IF Passes(cs, f) THEN {k} ELSE Failed
      PROVE  Goal
  <2>1. \A ds : Moves(cs, f, ds) <=> Passes(cs, f) /\ ds = k.contracts
    BY <1>3 DEF Moves
  <2>2. CASE Passes(cs, f)
    <3>1. R = {k}
      BY <1>3, <2>2
    <3> QED
      BY <2>1, <2>2, <3>1
  <2>3. CASE ~ Passes(cs, f)
    <3>1. R = {}
      BY <1>3, <2>3 DEF Failed
    <3> QED
      BY <2>1, <2>3, <3>1
  <2> QED
    BY <2>2, <2>3
<1>4. CASE f.verb = "plan"
  <2>1. CASE InEffect(cs, f)
    <3>1. R = {g}
      BY <1>4, <2>1 DEF ReplayAdminOp, InEffect
    <3> QED
      BY <1>2, <1>4, <2>1, <3>1
  <2>2. CASE ~ InEffect(cs, f)
    <3>1. R = IF ValidateMigrationPlan(g, f) THEN {PlanMigration(g, f)} ELSE Failed
      BY <1>4, <2>2 DEF ReplayAdminOp, InEffect
    <3> QED
      BY <1>3, <1>4, <2>2, <3>1, PlanPlaces
  <2> QED
    BY <2>1, <2>2
<1>5. CASE f.verb = "apply"
  <2>1. CASE InEffect(cs, f)
    <3>1. R = {g}
      BY <1>5, <2>1 DEF ReplayAdminOp, InEffect
    <3> QED
      BY <1>2, <1>5, <2>1, <3>1
  <2>2. CASE ~ InEffect(cs, f)
    <3>1. R = IF ValidateApplyMigration(g, f) THEN {ApplyMigration(g, f)} ELSE Failed
      BY <1>5, <2>2 DEF ReplayAdminOp, InEffect
    <3> QED
      BY <1>3, <1>5, <2>2, <3>1, ApplyPlaces
  <2> QED
    BY <2>1, <2>2
<1> QED
  BY <1>1, <1>4, <1>5, FrameVerbs

\* What a verb under the barrier does to the contracts is what its replay does.
LEMMA EffectMoves ==
    ASSUME NEW g, Good(g), NEW f \in Frame, Validated(g, f)
    PROVE  /\ f.verb = "accept" => Effect(g, f).contracts = g.contracts
           /\ f.verb # "accept" =>
                 /\ f.source \in DOMAIN g.contracts
                 /\ ~ InEffect(g.contracts, f) /\ Passes(g.contracts, f)
                 /\ Effect(g, f).contracts
                      = Placed(g.contracts, f.source, Moved(g.contracts[f.source], f))
<1>1. CASE f.verb = "plan"
  <2>1. ValidateMigrationPlan(g, f) /\ Effect(g, f) = PlanMigration(g, f)
    BY <1>1 DEF Validated, Effect
  <2>2. Passes(g.contracts, f)
    BY <1>1, <2>1, PlanPlaces
  <2>3. f.target \in Schemas
    BY <1>1, FrameVerbs DEF PlanFrame
  <2>4. f.target # None
    BY <2>3, GovernanceConstants
  <2>5. f.source \in DOMAIN g.contracts /\ ~ InEffect(g.contracts, f)
    BY <1>1, <2>2, <2>4 DEF Passes, InEffect
  <2> QED
    BY <1>1, <2>1, <2>2, <2>5, PlanPlaces
<1>2. CASE f.verb = "apply"
  <2>1. ValidateApplyMigration(g, f) /\ Effect(g, f) = ApplyMigration(g, f)
    BY <1>2 DEF Validated, Effect
  <2>2. Passes(g.contracts, f)
    BY <1>2, <2>1, ApplyPlaces
  <2>3. f.source \in DOMAIN g.contracts /\ ~ InEffect(g.contracts, f)
    BY <1>2, <2>2 DEF Passes, InEffect
  <2> QED
    BY <1>2, <2>1, <2>2, <2>3, ApplyPlaces
<1>3. CASE f.verb = "accept"
  BY <1>3 DEF Effect, AcceptDelta, Good
<1> QED
  BY <1>1, <1>2, <1>3, FrameVerbs

\* A frame looks at the schemas it is about only.
LEMMA MovesLocally ==
    ASSUME NEW cs, NEW ds, NEW f \in Frame, DOMAIN ds = DOMAIN cs,
           \A x \in SchemasOf(f) : x \in DOMAIN cs => ds[x] = cs[x]
    PROVE  /\ InEffect(ds, f) <=> InEffect(cs, f)
           /\ Passes(ds, f) <=> Passes(cs, f)
           /\ f.verb # "accept" /\ f.source \in DOMAIN cs => ds[f.source] = cs[f.source]
<1>1. CASE f.verb = "plan"
  <2>1. /\ f.source \in DOMAIN cs => ds[f.source] = cs[f.source]
        /\ f.target \in DOMAIN cs => ds[f.target] = cs[f.target]
    BY <1>1 DEF SchemasOf
  <2> QED
    BY <1>1, <2>1 DEF InEffect, Passes
<1>2. CASE f.verb = "apply"
  <2>1. f.source \in DOMAIN cs => ds[f.source] = cs[f.source]
    BY <1>2 DEF SchemasOf
  <2> QED
    BY <1>2, <2>1 DEF InEffect, Passes
<1>3. CASE f.verb = "accept"
  BY <1>3 DEF InEffect, Passes
<1> QED
  BY <1>1, <1>2, <1>3, FrameVerbs

\* It keeps the contracts that there are, and changes that of its source only.
LEMMA MovesKeeps ==
    ASSUME NEW cs, NEW ds, NEW f \in Frame, Moves(cs, f, ds)
    PROVE  /\ DOMAIN ds = DOMAIN cs
           /\ \A x \in DOMAIN cs : x \notin SchemasOf(f) => ds[x] = cs[x]
<1>1. CASE ds = cs
  BY <1>1
<1>2. CASE f.verb # "accept" /\ ds = Placed(cs, f.source, Moved(cs[f.source], f))
  <2>1. f.source \in SchemasOf(f)
    BY <1>2, FrameVerbs DEF SchemasOf
  <2> QED
    BY <1>2, <2>1, PlacedIs
<1> QED
  BY <1>1, <1>2 DEF Moves

\* So another contract may be changed under it.
LEMMA MovesBeside ==
    ASSUME NEW cs, NEW ds, NEW f \in Frame, Moves(cs, f, ds), NEW s, s \notin SchemasOf(f), NEW c
    PROVE  Moves(Placed(cs, s, c), f, Placed(ds, s, c))
<1>1. PICK p : p = Placed(cs, s, c)
  OBVIOUS
<1>2. DOMAIN p = DOMAIN cs /\ \A x \in SchemasOf(f) : x \in DOMAIN cs => p[x] = cs[x]
  BY <1>1, PlacedIs
<1>3. /\ InEffect(p, f) <=> InEffect(cs, f)
      /\ Passes(p, f) <=> Passes(cs, f)
      /\ f.verb # "accept" /\ f.source \in DOMAIN cs => p[f.source] = cs[f.source]
  BY <1>2, MovesLocally
<1>4. CASE (f.verb = "accept" \/ InEffect(cs, f)) /\ ds = cs
  BY <1>1, <1>3, <1>4 DEF Moves
<1>5. CASE /\ f.verb # "accept" /\ ~ InEffect(cs, f) /\ Passes(cs, f)
           /\ ds = Placed(cs, f.source, Moved(cs[f.source], f))
  <2>1. f.source \in SchemasOf(f) /\ f.source \in DOMAIN cs
    BY <1>5, FrameVerbs DEF SchemasOf, Passes
  <2>2. PICK m : m = Moved(cs[f.source], f)
    OBVIOUS
  <2>3. m = Moved(p[f.source], f) /\ f.source # s
    BY <1>3, <1>5, <2>1, <2>2
  <2>4. Placed(Placed(cs, f.source, m), s, c) = Placed(Placed(cs, s, c), f.source, m)
    BY <2>3 DEF Placed
  <2>5. Placed(ds, s, c) = Placed(p, f.source, Moved(p[f.source], f))
    BY <1>1, <1>5, <2>2, <2>3, <2>4
  <2> QED
    BY <1>1, <1>3, <1>5, <2>5 DEF Moves
<1> QED
  BY <1>4, <1>5 DEF Moves

-----------------------------------------------------------------------------
(* Replays by the clock: what the contracts are after the frames up to     *)
(* each time, and how one more frame fits in between.                      *)

\* h[t] is what the frames of D up to the time t make of the contracts c.
Trace(h, c, D) ==
    /\ h[0] = c
    /\ \A t \in Nat : \A f \in D : f.at = t + 1 => Moves(h[t], f, h[t + 1])
    /\ \A t \in Nat : (\A f \in D : f.at # t + 1) => h[t + 1] = h[t]

Ends(h, D, cs) == \A t \in Nat : (\A f \in D : f.at <= t) => h[t] = cs

\* Between frames nothing changes.
LEMMA TraceRests ==
    ASSUME NEW h, NEW c, NEW D, Trace(h, c, D), NEW a \in Nat, NEW b \in Nat, a <= b,
           \A f \in D : ~ (a < f.at /\ f.at <= b)
    PROVE  h[b] = h[a]
<1> DEFINE N == {k \in Nat : a + k <= b => h[a + k] = h[a]}
<1>1. 0 \in N
  OBVIOUS
<1>2. ASSUME NEW k \in N PROVE k + 1 \in N
  <2> SUFFICES ASSUME a + (k + 1) <= b PROVE h[a + (k + 1)] = h[a]
    OBVIOUS
  <2>1. PICK t \in Nat : t = a + k /\ t + 1 = a + (k + 1) /\ a < t + 1 /\ t + 1 <= b /\ t <= b
    OBVIOUS
  <2>2. \A f \in D : f.at # t + 1
    BY <2>1
  <2>3. h[t + 1] = h[t]
    BY <2>2 DEF Trace
  <2>4. h[t] = h[a]
    BY <2>1
  <2> QED
    BY <2>1, <2>3, <2>4
<1>3. N = Nat
  <2>1. N \in SUBSET Nat
    OBVIOUS
  <2> HIDE DEF N
  <2> QED
    BY <1>1, <1>2, <2>1, SetInduction
<1>4. PICK k \in Nat : a + k = b
  <2>1. b - a \in Nat /\ a + (b - a) = b
    OBVIOUS
  <2> QED
    BY <2>1
<1>5. k \in N
  BY <1>3
<1> QED
  BY <1>4, <1>5

\* A contract that no frame after a is about stays as it is.
LEMMA TraceKeeps ==
    ASSUME NEW h, NEW c, NEW D, Timed(D), Trace(h, c, D), NEW a \in Nat, NEW b \in Nat, a <= b
    PROVE  /\ DOMAIN h[b] = DOMAIN h[a]
           /\ \A x \in DOMAIN h[a] :
                 (\A f \in D : a < f.at => x \notin SchemasOf(f)) => h[b][x] = h[a][x]
<1> DEFINE Keeps(u) ==
              /\ DOMAIN u = DOMAIN h[a]
              /\ \A x \in DOMAIN h[a] :
                    (\A f \in D : a < f.at => x \notin SchemasOf(f)) => u[x] = h[a][x]
           N == {k \in Nat : Keeps(h[a + k])}
<1>1. 0 \in N
  OBVIOUS
<1>2. ASSUME NEW k \in N PROVE k + 1 \in N
  <2>1. PICK t \in Nat : t = a + k /\ t + 1 = a + (k + 1) /\ a < t + 1
    OBVIOUS
  <2>2. Keeps(h[t])
    BY <2>1
  <2>3. Keeps(h[t + 1])
    <3>1. CASE \A f \in D : f.at # t + 1
      <4>1. h[t + 1] = h[t]
        BY <3>1 DEF Trace
      <4> QED
        BY <2>2, <4>1
    <3>2. ASSUME NEW f \in D, f.at = t + 1 PROVE Keeps(h[t + 1])
      <4>1. Moves(h[t], f, h[t + 1]) /\ f \in Frame
        BY <3>2 DEF Trace, Timed
      <4>2. /\ DOMAIN h[t + 1] = DOMAIN h[t]
            /\ \A x \in DOMAIN h[t] : x \notin SchemasOf(f) => h[t + 1][x] = h[t][x]
        BY <4>1, MovesKeeps
      <4> QED
        BY <2>1, <2>2, <3>2, <4>2
    <3> QED
      BY <3>1, <3>2
  <2> QED
    BY <2>1, <2>3
<1>3. N = Nat
  <2>1. N \in SUBSET Nat
    OBVIOUS
  <2> HIDE DEF N
  <2> QED
    BY <1>1, <1>2, <2>1, SetInduction
<1>4. PICK k \in Nat : a + k = b
  <2>1. b - a \in Nat /\ a + (b - a) = b
    OBVIOUS
  <2> QED
    BY <2>1
<1>5. k \in N
  BY <1>3
<1>6. Keeps(h[b])
  BY <1>4, <1>5
<1> QED
  BY <1>6

\* One more frame: nothing changes before it, and the frames after it go on.
LEMMA TraceSplice ==
    ASSUME NEW h, NEW c, NEW D, Trace(h, c, D), NEW f, NEW a \in Nat, f.at = a + 1,
           \A x \in D : x.at # a + 1,
           NEW k, \A t \in Nat : t <= a => k[t] = h[t],
           Moves(h[a], f, k[a + 1]),
           \A t \in Nat : t > a => /\ \A x \in D : x.at = t + 1 => Moves(k[t], x, k[t + 1])
                                   /\ (\A x \in D : x.at # t + 1) => k[t + 1] = k[t]
    PROVE  Trace(k, c, D \cup {f})
<1>1. k[0] = c
  BY DEF Trace
<1>2. ASSUME NEW t \in Nat, NEW x \in D \cup {f}, x.at = t + 1 PROVE Moves(k[t], x, k[t + 1])
  <2>1. CASE t = a
    <3>1. x = f
      BY <1>2, <2>1
    <3> QED
      BY <2>1, <3>1
  <2>2. CASE t < a
    <3>1. x \in D /\ t <= a /\ t + 1 <= a /\ t + 1 \in Nat
      BY <1>2, <2>2
    <3> QED
      BY <1>2, <3>1 DEF Trace
  <2>3. CASE t > a
    <3>1. x \in D
      BY <1>2, <2>3
    <3> QED
      BY <1>2, <2>3, <3>1
  <2> QED
    BY <2>1, <2>2, <2>3
<1>3. ASSUME NEW t \in Nat, \A x \in D \cup {f} : x.at # t + 1 PROVE k[t + 1] = k[t]
  <2>1. t # a /\ \A x \in D : x.at # t + 1
    BY <1>3
  <2>2. CASE t < a
    <3>1. t <= a /\ t + 1 <= a /\ t + 1 \in Nat /\ h[t + 1] = h[t]
      BY <2>1, <2>2 DEF Trace
    <3> QED
      BY <3>1
  <2>3. CASE t > a
    BY <2>1, <2>3
  <2> QED
    BY <2>1, <2>2, <2>3
<1> QED
  BY <1>1, <1>2, <1>3 DEF Trace

\* A verb that the cells accept now is also accepted at its time by a replay
\* that ends in the same contracts, when no later frame is about its schemas;
\* and the replay then ends in what the verb leaves.
LEMMA TraceInserts ==
    ASSUME NEW h, NEW c, NEW D, Timed(D), Trace(h, c, D), NEW m \in Nat, \A x \in D : x.at <= m,
           NEW f \in Frame, f.at > 0, f.at <= m, \A x \in D : x.at # f.at,
           \A x \in D : f.at < x.at => SchemasOf(f) \cap SchemasOf(x) = {},
           NEW g, Good(g), Validated(g, f), Ends(h, D, g.contracts)
    PROVE  \E k : Trace(k, c, D \cup {f}) /\ Ends(k, D \cup {f}, Effect(g, f).contracts)
<1>1. PICK a \in Nat : f.at = a + 1
  <2>1. f.at \in Nat /\ f.at - 1 \in Nat /\ f.at = (f.at - 1) + 1
    BY FrameVerbs
  <2> QED
    BY <2>1
<1>2. PICK cs, e : cs = g.contracts /\ e = Effect(g, f).contracts
  OBVIOUS
<1>3. /\ f.verb = "accept" => e = cs
      /\ f.verb # "accept" =>
            /\ f.source \in DOMAIN cs /\ ~ InEffect(cs, f) /\ Passes(cs, f)
            /\ e = Placed(cs, f.source, Moved(cs[f.source], f))
  BY <1>2, EffectMoves
<1>4. \A x \in D : x.at \in Nat /\ x \in Frame
  BY DEF Timed
<1>5. \A t \in Nat : t >= m => h[t] = cs
  BY <1>2, <1>4 DEF Ends
<1>6. ASSUME NEW t \in Nat, \A x \in D \cup {f} : x.at <= t PROVE h[t] = cs /\ t > a
  BY <1>1, <1>2, <1>6 DEF Ends
<1>7. CASE f.verb = "accept"
  <2>1. \A x \in D : x.at # a + 1
    BY <1>1
  <2>2. h[a + 1] = h[a]
    BY <2>1 DEF Trace
  <2>3. Moves(h[a], f, h[a + 1])
    BY <1>7, <2>2 DEF Moves
  <2>4. \A t \in Nat : t > a => /\ \A x \in D : x.at = t + 1 => Moves(h[t], x, h[t + 1])
                                /\ (\A x \in D : x.at # t + 1) => h[t + 1] = h[t]
    BY DEF Trace
  <2>5. Trace(h, c, D \cup {f})
    BY <1>1, <2>1, <2>3, <2>4, TraceSplice
  <2>6. Ends(h, D \cup {f}, e)
    BY <1>3, <1>6, <1>7 DEF Ends
  <2> QED
    BY <1>2, <2>5, <2>6
<1>8. CASE f.verb # "accept"
  <2>1. PICK s, n : s = f.source /\ n = Moved(cs[s], f)
    OBVIOUS
  <2>2. s \in SchemasOf(f) /\ s \in DOMAIN cs
    BY <1>3, <1>8, <2>1, FrameVerbs DEF SchemasOf
  <2>3. a <= m /\ h[m] = cs
    BY <1>1, <1>5
  <2>4. /\ DOMAIN h[m] = DOMAIN h[a]
        /\ \A x \in DOMAIN h[a] :
              (\A y \in D : a < y.at => x \notin SchemasOf(y)) => h[m][x] = h[a][x]
    BY <2>3, TraceKeeps
  <2>5. \A y \in D : a < y.at => SchemasOf(f) \cap SchemasOf(y) = {}
    <3> SUFFICES ASSUME NEW y \in D, a < y.at PROVE f.at < y.at
      OBVIOUS
    <3>1. y.at \in Nat /\ y.at # a + 1
      BY <1>1, <1>4
    <3> QED
      BY <1>1, <3>1
  <2>6. \A x \in SchemasOf(f) : x \in DOMAIN cs => h[a][x] = cs[x]
    BY <2>3, <2>4, <2>5
  <2>7. DOMAIN h[a] = DOMAIN cs
    BY <2>3, <2>4
  <2>8. /\ InEffect(h[a], f) <=> InEffect(cs, f)
        /\ Passes(h[a], f) <=> Passes(cs, f)
        /\ h[a][s] = cs[s]
    BY <1>8, <2>1, <2>2, <2>6, <2>7, MovesLocally
  <2>9. Moves(h[a], f, Placed(h[a], s, n))
    BY <1>3, <1>8, <2>1, <2>8 DEF Moves
  <2>10. PICK k : k = [t \in Nat |-> IF t <= a THEN h[t] ELSE Placed(h[t], s, n)]
    OBVIOUS
  <2>11. \A t \in Nat : (t <= a => k[t] = h[t]) /\ (t > a => k[t] = Placed(h[t], s, n))
    BY <2>10
  <2>12. \A x \in D : x.at # a + 1
    BY <1>1
  <2>13. h[a + 1] = h[a]
    BY <2>12 DEF Trace
  <2>14. Moves(h[a], f, k[a + 1])
    <3>1. a + 1 \in Nat /\ a + 1 > a
      OBVIOUS
    <3> QED
      BY <2>9, <2>11, <2>13, <3>1
  <2>15. ASSUME NEW t \in Nat, t > a
         PROVE  /\ \A x \in D : x.at = t + 1 => Moves(k[t], x, k[t + 1])
                /\ (\A x \in D : x.at # t + 1) => k[t + 1] = k[t]
    <3>1. t + 1 \in Nat /\ t + 1 > a
      BY <2>15
    <3>2. k[t] = Placed(h[t], s, n) /\ k[t + 1] = Placed(h[t + 1], s, n)
      BY <2>11, <2>15, <3>1
    <3>3. ASSUME NEW x \in D, x.at = t + 1 PROVE Moves(k[t], x, k[t + 1])
      <4>1. Moves(h[t], x, h[t + 1]) /\ x \in Frame
        BY <1>4, <3>3 DEF Trace
      <4>2. s \notin SchemasOf(x)
        BY <2>2, <2>5, <3>1, <3>3
      <4> QED
        BY <3>2, <4>1, <4>2, MovesBeside
    <3>4. ASSUME \A x \in D : x.at # t + 1 PROVE k[t + 1] = k[t]
      BY <3>2, <3>4 DEF Trace
    <3> QED
      BY <3>3, <3>4
  <2>16. Trace(k, c, D \cup {f})
    BY <1>1, <2>11, <2>12, <2>14, <2>15, TraceSplice
  <2>17. Ends(k, D \cup {f}, e)
    <3> SUFFICES ASSUME NEW t \in Nat, \A x \in D \cup {f} : x.at <= t PROVE k[t] = e
      BY DEF Ends
    <3>1. h[t] = cs /\ t > a
      BY <1>6
    <3> QED
      BY <1>3, <1>8, <2>1, <2>11, <3>1
  <2> QED
    BY <1>2, <2>16, <2>17
<1> QED
  BY <1>7, <1>8

\* A boot whose frames have a trace is not refused.
LEMMA TraceServes ==
    ASSUME GovInv, NEW h, Trace(h, Base.gov.contracts, Due)
    PROVE  Replayed # {}
<1>1. PICK g : g = Base.gov
  OBVIOUS
<1>2. Good(g) /\ Timed(Due) /\ Trace(h, g.contracts, Due)
  BY <1>1, DueListed DEF GovInv, BaseGood
<1>3. PICK n \in Nat : \E q \in [1..n -> Due] :
                 /\ Replayed = Replaying(Base.gov, q, n)
                 /\ \A x \in Due : \E i \in 1..n : q[i] = x
                 /\ \A i, j \in 1..n : i < j => q[i].at < q[j].at
  BY DueListed
<1>4. PICK q \in [1..n -> Due] :
                 /\ Replayed = Replaying(Base.gov, q, n)
                 /\ \A x \in Due : \E i \in 1..n : q[i] = x
                 /\ \A i, j \in 1..n : i < j => q[i].at < q[j].at
  BY <1>3
<1>5. \A i \in 1..n : q[i] \in Due /\ q[i] \in Frame /\ q[i].at \in Nat /\ q[i].at > 0
  BY <1>2 DEF Timed
<1>6. PICK r : Replaying(g, q, n) = r[n] /\ Replays(r, g, q, n)
  BY ReplayingUnfolds
<1> DEFINE Last(i) == IF i = 0 THEN 0 ELSE q[i].at
           Serves(i) == \E x \in r[i] : Good(x) /\ x.contracts = h[Last(i)]
           N == {i \in Nat : i <= n => Serves(i)}
<1>7. \A i \in Nat : i <= n => Last(i) \in Nat
  BY <1>5
<1>8. Last(0) = 0 /\ \A i \in 1..n : Last(i) = q[i].at
  OBVIOUS
<1> HIDE DEF Last
<1>9. 0 \in N
  <2>1. g \in r[0] /\ g.contracts = h[0]
    BY <1>2, <1>6 DEF Replays, Trace
  <2> QED
    BY <1>2, <1>8, <2>1
<1>10. ASSUME NEW i \in N PROVE i + 1 \in N
  <2> SUFFICES ASSUME i + 1 <= n PROVE Serves(i + 1)
    OBVIOUS
  <2>1. i + 1 \in 1..n /\ (i + 1) - 1 = i /\ i <= n
    OBVIOUS
  <2>2. r[i + 1] = UNION {ReplayAdminOp(x, q[i + 1]) : x \in r[i]}
    BY <1>6, <2>1 DEF Replays
  <2>3. PICK x \in r[i] : Good(x) /\ x.contracts = h[Last(i)]
    BY <2>1
  <2>4. PICK f : f = q[i + 1]
    OBVIOUS
  <2>5. f \in Due /\ f \in Frame /\ f.at \in Nat /\ f.at > 0
    BY <1>5, <2>1, <2>4
  <2>6. PICK t \in Nat : f.at = t + 1
    <3>1. f.at - 1 \in Nat /\ f.at = (f.at - 1) + 1
      BY <2>5
    <3> QED
      BY <3>1
  <2>7. PICK l \in Nat : l = Last(i)
    BY <1>7, <2>1
  <2>8. l <= t
    <3>1. CASE i = 0
      BY <1>8, <2>7, <3>1
    <3>2. CASE i # 0
      <4>1. i \in 1..n /\ i < i + 1
        BY <2>1, <3>2
      <4>2. q[i].at < f.at
        BY <1>4, <2>1, <2>4, <4>1
      <4> QED
        BY <1>8, <2>6, <2>7, <4>1, <4>2
    <3> QED
      BY <3>1, <3>2
  <2>9. ASSUME NEW y \in Due PROVE ~ (l < y.at /\ y.at <= t)
    <3>1. PICK j \in 1..n : q[j] = y
      BY <1>4
    <3>2. CASE j >= i + 1
      <4>1. y.at >= f.at
        BY <1>4, <1>5, <2>1, <2>4, <3>1, <3>2
      <4> QED
        BY <1>5, <2>6, <3>1, <4>1
    <3>3. CASE j < i + 1
      <4>1. i \in 1..n /\ j <= i
        BY <2>1, <3>3
      <4>2. y.at <= q[i].at
        BY <1>4, <1>5, <3>1, <4>1
      <4> QED
        BY <1>5, <1>8, <2>7, <3>1, <4>1, <4>2
    <3> QED
      BY <3>2, <3>3
  <2>10. h[t] = h[l]
    BY <1>2, <2>8, <2>9, TraceRests
  <2>11. Moves(x.contracts, f, h[t + 1])
    BY <1>2, <2>3, <2>5, <2>6, <2>7, <2>10 DEF Trace
  <2>12. PICK y \in ReplayAdminOp(x, f) : y.contracts = h[t + 1]
    BY <2>3, <2>5, <2>11, ReplayMoves
  <2>13. Good(y)
    BY <2>3, <2>5, <2>12, ReplayKeeps DEF Later
  <2>14. y \in r[i + 1]
    BY <2>2, <2>3, <2>4, <2>12
  <2>15. Last(i + 1) = t + 1
    BY <1>8, <2>1, <2>4, <2>6
  <2> QED
    BY <2>12, <2>13, <2>14, <2>15
<1>11. N = Nat
  <2>1. N \in SUBSET Nat
    OBVIOUS
  <2> HIDE DEF N
  <2> QED
    BY <1>9, <1>10, <2>1, SetInduction
<1>12. Serves(n)
  BY <1>11
<1>13. Replayed = r[n]
  BY <1>1, <1>4, <1>6
<1> QED
  BY <1>12, <1>13

\* And what a boot replays has a trace that ends in it.
LEMMA ServedTrace ==
    ASSUME GovInv, NEW z \in Replayed
    PROVE  \E h : Trace(h, Base.gov.contracts, Due) /\ Ends(h, Due, z.contracts)
<1>1. PICK g : g = Base.gov
  OBVIOUS
<1>2. Good(g) /\ Timed(Due)
  BY <1>1, DueListed DEF GovInv, BaseGood
<1>3. PICK n \in Nat : \E q \in [1..n -> Due] :
                 /\ Replayed = Replaying(Base.gov, q, n)
                 /\ \A x \in Due : \E i \in 1..n : q[i] = x
                 /\ \A i, j \in 1..n : i < j => q[i].at < q[j].at
  BY DueListed
<1>4. PICK q \in [1..n -> Due] :
                 /\ Replayed = Replaying(Base.gov, q, n)
                 /\ \A x \in Due : \E i \in 1..n : q[i] = x
                 /\ \A i, j \in 1..n : i < j => q[i].at < q[j].at
  BY <1>3
<1>5. \A i \in 1..n : q[i] \in Due /\ q[i] \in Frame /\ q[i].at \in Nat /\ q[i].at > 0
  BY <1>2 DEF Timed
<1>6. PICK r : Replaying(g, q, n) = r[n] /\ Replays(r, g, q, n)
  BY ReplayingUnfolds
<1> DEFINE First(i) == {q[j] : j \in {k \in 1..n : k <= i}}
           Traced(i, cs) == \E h : Trace(h, g.contracts, First(i)) /\ Ends(h, First(i), cs)
           Goal(i) == \A x \in r[i] : Good(x) /\ Traced(i, x.contracts)
           N == {i \in Nat : i <= n => Goal(i)}
<1>7. First(0) = {}
  OBVIOUS
<1>8. First(n) = Due
  BY <1>4
<1>9. ASSUME NEW i \in Nat, i + 1 <= n
      PROVE  /\ First(i + 1) = First(i) \cup {q[i + 1]}
             /\ \A x \in First(i) : x.at \in Nat /\ x.at < q[i + 1].at
  <2>1. i + 1 \in 1..n /\ \A k \in 1..n : k <= i + 1 <=> k <= i \/ k = i + 1
    BY <1>9
  <2>2. First(i + 1) = First(i) \cup {q[i + 1]}
    BY <2>1
  <2>3. ASSUME NEW j \in 1..n, j <= i PROVE q[j].at \in Nat /\ q[j].at < q[i + 1].at
    BY <1>4, <1>5, <2>1, <2>3
  <2> QED
    BY <2>2, <2>3
<1> HIDE DEF First
<1>10. 0 \in N
  <2>1. \A x \in r[0] : x = g
    BY <1>6 DEF Replays
  <2>2. PICK h : h = [t \in Nat |-> g.contracts]
    OBVIOUS
  <2>3. \A t \in Nat : h[t] = g.contracts
    BY <2>2
  <2>4. \A t \in Nat : h[t + 1] = h[t]
    BY <2>3
  <2>5. Trace(h, g.contracts, {}) /\ Ends(h, {}, g.contracts)
    BY <2>3, <2>4 DEF Trace, Ends
  <2>6. Goal(0)
    BY <1>2, <1>7, <2>1, <2>5
  <2> QED
    BY <2>6
<1>11. ASSUME NEW i \in N PROVE i + 1 \in N
  <2> SUFFICES ASSUME i + 1 <= n, NEW y \in r[i + 1]
               PROVE  Good(y) /\ Traced(i + 1, y.contracts)
    OBVIOUS
  <2>1. i + 1 \in 1..n /\ (i + 1) - 1 = i /\ i <= n /\ i \in Nat
    OBVIOUS
  <2>2. r[i + 1] = UNION {ReplayAdminOp(x, q[i + 1]) : x \in r[i]}
    BY <1>6, <2>1 DEF Replays
  <2>3. PICK x \in r[i] : y \in ReplayAdminOp(x, q[i + 1])
    BY <2>2
  <2>4. Good(x) /\ Traced(i, x.contracts)
    BY <2>1
  <2>5. PICK f, D : f = q[i + 1] /\ D = First(i)
    OBVIOUS
  <2>6. f \in Frame /\ f.at \in Nat /\ f.at > 0
    BY <1>5, <2>1, <2>5
  <2>7. Good(y) /\ Moves(x.contracts, f, y.contracts)
    BY <2>3, <2>4, <2>5, <2>6, ReplayKeeps, ReplayMoves DEF Later
  <2>8. PICK a \in Nat : f.at = a + 1
    <3>1. f.at - 1 \in Nat /\ f.at = (f.at - 1) + 1
      BY <2>6
    <3> QED
      BY <3>1
  <2>9. ASSUME NEW u \in D PROVE u.at \in Nat /\ u.at < a + 1 /\ u.at <= a
    <3>1. u.at \in Nat /\ u.at < f.at
      BY <1>9, <2>1, <2>5, <2>9
    <3> QED
      BY <2>8, <3>1
  <2>10. PICK h : Trace(h, g.contracts, D) /\ Ends(h, D, x.contracts)
    BY <2>4, <2>5
  <2>11. h[a] = x.contracts
    BY <2>9, <2>10 DEF Ends
  <2>12. PICK k : k = [t \in Nat |-> IF t <= a THEN h[t] ELSE y.contracts]
    OBVIOUS
  <2>13. \A t \in Nat : (t <= a => k[t] = h[t]) /\ (t > a => k[t] = y.contracts)
    BY <2>12
  <2>14. k[a + 1] = y.contracts
    BY <2>13
  <2>15. ASSUME NEW t \in Nat, t > a
         PROVE  /\ \A u \in D : u.at = t + 1 => Moves(k[t], u, k[t + 1])
                /\ (\A u \in D : u.at # t + 1) => k[t + 1] = k[t]
    <3>1. \A u \in D : u.at # t + 1
      BY <2>9, <2>15
    <3>2. t + 1 \in Nat /\ t + 1 > a
      BY <2>15
    <3> QED
      BY <2>13, <2>15, <3>1, <3>2
  <2>16. \A u \in D : u.at # a + 1
    BY <2>9
  <2>17. Trace(k, g.contracts, D \cup {f})
    <3>1. Moves(h[a], f, k[a + 1])
      BY <2>7, <2>11, <2>14
    <3>2. \A t \in Nat : t <= a => k[t] = h[t]
      BY <2>13
    <3> QED
      BY ONLY <2>8, <2>10, <2>15, <2>16, <3>1, <3>2, TraceSplice
  <2>18. Ends(k, D \cup {f}, y.contracts)
    BY <2>8, <2>13 DEF Ends
  <2>19. First(i + 1) = D \cup {f}
    BY <1>9, <2>1, <2>5
  <2> QED
    BY <2>7, <2>17, <2>18, <2>19
<1>12. N = Nat
  <2>1. N \in SUBSET Nat
    OBVIOUS
  <2> HIDE DEF N
  <2> QED
    BY <1>10, <1>11, <2>1, SetInduction
<1>13. Goal(n)
  BY <1>12
<1>14. z \in r[n]
  BY <1>1, <1>4, <1>6
<1>15. Traced(n, z.contracts)
  BY <1>13, <1>14
<1> QED
  BY <1>1, <1>8, <1>15

-----------------------------------------------------------------------------
(* What a boot would do now.                                               *)

\* The causes that GovernedBootServes names.
Excused ==
    \/ Skipped # {}
    \/ \E i \in Replayable : log[i].kept
    \/ Crossed
    \/ Unsaved

\* The frames that are due lead from the snapshot to the contracts cs.
Leads(cs) == \E h : Trace(h, Base.gov.contracts, Due) /\ Ends(h, Due, cs)

Serve ==
    /\ status = "up" => Excused \/ Leads(gov.contracts)
    /\ status = "down" => Excused \/ \E h : Trace(h, Base.gov.contracts, Due)
    /\ status = "refused" => Excused

\* A frame of the log is in effect, unless its verb was refused, or the host has
\* replaced the contract since, or every verb under way has a later time: the
\* next snapshot then leaves nothing to the boot that the contracts do not have.
Overwritten(i) == \E r \in registered : r.schema \in SchemasOf(log[i].f) /\ i <= r.after
Behind(i) == \A o \in Operators : verb[o] # Idle => log[i].f.at < verb[o].at
Logged(i) ==
    log[i].kept \/ InEffect(gov.contracts, log[i].f) \/ Overwritten(i) \/ Behind(i)
LogInEffect == status = "up" => \A i \in 1..Len(log) : Logged(i)

Registered == registered \subseteq [schema : Schemas, after : Nat, saved : BOOLEAN]

ServeInv == Serve /\ LogInEffect /\ Registered

\* What was done since then stays done.
LEMMA InEffectLater ==
    ASSUME NEW g, Good(g), NEW f \in Frame, Validated(g, f), NEW x \in Frame,
           InEffect(g.contracts, x)
    PROVE  InEffect(Effect(g, f).contracts, x)
<1>1. PICK cs, e : cs = g.contracts /\ e = Effect(g, f).contracts
  OBVIOUS
<1>2. CASE f.verb = "accept"
  BY <1>1, <1>2, EffectMoves
<1>3. CASE f.verb # "accept"
  <2>1. PICK s, n : s = f.source /\ n = Moved(cs[s], f)
    OBVIOUS
  <2>2. s \in DOMAIN cs /\ ~ InEffect(cs, f) /\ Passes(cs, f) /\ e = Placed(cs, s, n)
    BY <1>1, <1>3, <2>1, EffectMoves
  <2>3. DOMAIN e = DOMAIN cs /\ e[s] = n /\ \A y \in DOMAIN cs : y # s => e[y] = cs[y]
    BY <2>2, PlacedIs
  <2>4. CASE x.verb = "plan"
    <3>1. x.source \in DOMAIN cs /\ cs[x.source].by = x.target /\ cs[x.source].decision = x.decision
      BY <1>1, <2>4 DEF InEffect
    <3>2. x.target # None
      BY <2>4, FrameVerbs, GovernanceConstants DEF PlanFrame
    <3>3. CASE x.source = s
      <4>1. f.verb = "apply"
        BY <1>3, <2>1, <2>2, <3>1, <3>2, <3>3, FrameVerbs DEF Passes
      <4>2. n = [cs[s] EXCEPT !.deprecated = TRUE, !.appliedAt = f.at]
        BY <2>1, <4>1 DEF Moved
      <4>3. n.by = cs[s].by /\ n.decision = cs[s].decision
        BY <4>2
      <4> QED
        BY <1>1, <2>3, <2>4, <3>1, <3>3, <4>3 DEF InEffect
    <3>4. CASE x.source # s
      BY <1>1, <2>3, <2>4, <3>1, <3>4 DEF InEffect
    <3> QED
      BY <3>3, <3>4
  <2>5. CASE x.verb = "apply"
    <3>1. x.source \in DOMAIN cs /\ cs[x.source].deprecated
      BY <1>1, <2>5 DEF InEffect
    <3>2. x.source # s
      BY <1>3, <2>1, <2>2, <3>1, FrameVerbs DEF Passes
    <3> QED
      BY <1>1, <2>3, <2>5, <3>1, <3>2 DEF InEffect
  <2>6. CASE x.verb = "accept"
    BY <2>6 DEF InEffect
  <2> QED
    BY <2>4, <2>5, <2>6, FrameVerbs
<1> QED
  BY <1>2, <1>3

\* A step of a running node that leaves the log, the snapshot and the contracts
\* alone, and begins no verb with an earlier time.
LEMMA ServeKept ==
    ASSUME GovInv, ServeInv, status = "up",
           UNCHANGED <<status, log, manifest, registered>>,
           gov'.contracts = gov.contracts,
           \A o \in Operators : verb'[o] # Idle =>
              verb'[o] = verb[o] \/ (verb'[o].at \in Nat /\ verb'[o].at > clock)
    PROVE  ServeInv'
<1>1. Base' = Base /\ Due' = Due /\ Skipped' = Skipped /\ Replayable' = Replayable
  BY DEF Base, Due, Frames, Skipped, Replayable
<1>2. Excused' <=> Excused
  BY <1>1 DEF Excused, Crossed, Unsaved
<1>3. Leads(gov.contracts)' <=> Leads(gov.contracts)
  BY <1>1 DEF Leads
<1>4. Serve'
  BY <1>2, <1>3 DEF ServeInv, Serve
<1>5. ASSUME NEW i \in 1..Len(log) PROVE Logged(i)'
  <2>1. Logged(i)
    BY DEF ServeInv, LogInEffect
  <2>2. Overwritten(i)' <=> Overwritten(i)
    BY DEF Overwritten
  <2>3. ASSUME Behind(i), NEW o \in Operators, verb'[o] # Idle PROVE log[i].f.at < verb'[o].at
    <3>1. CASE verb'[o] = verb[o]
      BY <2>3, <3>1 DEF Behind
    <3>2. CASE verb'[o].at \in Nat /\ verb'[o].at > clock
      <4>1. log[i].f.at \in Nat /\ log[i].f.at <= clock /\ clock \in Nat
        BY LogTyped DEF GovInv, TimesDiffer, Types
      <4> QED
        BY <3>2, <4>1
    <3> QED
      BY <2>3, <3>1, <3>2
  <2>4. Behind(i) => Behind(i)'
    BY <2>3 DEF Behind
  <2> QED
    BY <2>1, <2>2, <2>4 DEF Logged
<1>6. LogInEffect'
  BY <1>5 DEF LogInEffect
<1>7. Registered'
  BY DEF ServeInv, Registered
<1> QED
  BY <1>4, <1>6, <1>7 DEF ServeInv

\* One more frame: what is excused stays excused, and without an excuse its
\* schemas are in the frames of later times not mentioned.
LEMMA LogMore ==
    ASSUME GovInv, Registered, UNCHANGED <<manifest, registered>>,
           NEW o \in Operators, NEW f \in Committable(o),
           NEW b \in BOOLEAN, log' = Append(log, [f |-> f, kept |-> b])
    PROVE  /\ Excused => Excused'
           /\ b => Excused'
           /\ ~ Excused' => /\ Due' = Due \cup {f}
                            /\ \A x \in Due : x.at # f.at
                            /\ \A x \in Due : f.at < x.at => SchemasOf(f) \cap SchemasOf(x) = {}
           /\ Len(log') = Len(log) + 1 /\ log'[Len(log) + 1] = [f |-> f, kept |-> b]
           /\ \A i \in 1..Len(log) : log'[i] = log[i]
<1>1. f \in Frame /\ f.at = verb[o].at /\ verb[o] # Idle /\ f.at \in Nat
  BY CommittableFrames, FrameVerbs DEF GovInv
<1>2. Base' = Base /\ Skipped \subseteq Skipped' /\ (f \in Due' \/ f \in Skipped')
  BY LogGrows
<1>3. PICK n \in Nat : n = Len(log)
  BY LogTyped DEF GovInv
<1>4. PICK e : e = [f |-> f, kept |-> b]
  OBVIOUS
<1>5. e.f = f /\ e.kept = b /\ e \in [f : Frame, kept : BOOLEAN]
  BY <1>1, <1>4
<1>6. log \in Seq([f : Frame, kept : BOOLEAN]) /\ log' = Append(log, e)
  BY <1>4 DEF GovInv, Types
<1>7. /\ DOMAIN log = 1..n /\ DOMAIN log' = 1..(n + 1) /\ Len(log') = n + 1
      /\ log'[n + 1] = e /\ \A i \in 1..n : log'[i] = log[i]
  BY <1>3, <1>5, <1>6
<1>8. \A i \in 1..n : i \in 1..(n + 1) /\ i < n + 1
  OBVIOUS
<1>9. \A i \in 1..(n + 1) : i \in 1..n \/ i = n + 1
  OBVIOUS
<1>10. Base.at \in Nat
  BY DEF GovInv, BaseGood
<1>11. Replayable \subseteq Replayable' /\ Replayable \subseteq 1..n
  BY <1>2, <1>7, <1>8 DEF Replayable
<1>12. \A i \in Replayable : log'[i] = log[i]
  BY <1>7, <1>11
<1>13. Excused => Excused'
  <2>1. CASE Skipped # {}
    BY <1>2, <2>1 DEF Excused
  <2>2. ASSUME NEW i \in Replayable, log[i].kept PROVE Excused'
    <3>1. i \in Replayable' /\ log'[i].kept
      BY <1>11, <1>12, <2>2
    <3> QED
      BY <3>1 DEF Excused
  <2>3. CASE Crossed
    <3>1. PICK i, j \in Replayable : /\ i < j /\ log[i].f.at > log[j].f.at
                                     /\ SchemasOf(log[i].f) \cap SchemasOf(log[j].f) # {}
      BY <2>3 DEF Crossed
    <3>2. /\ i \in Replayable' /\ j \in Replayable'
          /\ i < j /\ log'[i].f.at > log'[j].f.at
          /\ SchemasOf(log'[i].f) \cap SchemasOf(log'[j].f) # {}
      BY <1>11, <1>12, <3>1
    <3>3. Crossed'
      BY <3>2 DEF Crossed
    <3> QED
      BY <3>3 DEF Excused
  <2>4. CASE Unsaved
    <3>1. PICK r \in registered : \/ ~ r.saved
                                  \/ \E i \in Replayable : i <= r.after /\ r.schema \in SchemasOf(log[i].f)
      BY <2>4 DEF Unsaved
    <3>2. CASE ~ r.saved
      BY <3>2 DEF Excused, Unsaved
    <3>3. ASSUME NEW i \in Replayable, i <= r.after, r.schema \in SchemasOf(log[i].f)
          PROVE  Unsaved'
      <4>1. i \in Replayable' /\ r \in registered' /\ r.schema \in SchemasOf(log'[i].f)
        BY <1>11, <1>12, <3>3
      <4> QED
        BY <3>3, <4>1 DEF Unsaved
    <3> QED
      BY <3>1, <3>2, <3>3 DEF Excused
  <2> QED
    BY <2>1, <2>2, <2>3, <2>4 DEF Excused
<1>14. f.at > Base.at => n + 1 \in Replayable'
  BY <1>2, <1>5, <1>7 DEF Replayable
<1>15. f.at <= Base.at => f \in Skipped'
  <2>1. n + 1 > Base.has /\ n + 1 \in DOMAIN log'
    BY <1>3, <1>7 DEF GovInv, BaseGood
  <2> QED
    BY <1>2, <1>5, <1>7, <2>1 DEF Skipped
<1>16. b => Excused'
  <2>1. CASE f.at <= Base.at
    BY <1>15, <2>1 DEF Excused
  <2>2. CASE f.at > Base.at
    BY <1>5, <1>7, <1>14, <2>2 DEF Excused
  <2> QED
    BY <1>1, <1>10, <2>1, <2>2
<1>17. ASSUME ~ Excused'
       PROVE  /\ Due' = Due \cup {f}
              /\ \A x \in Due : x.at # f.at
              /\ \A x \in Due : f.at < x.at => SchemasOf(f) \cap SchemasOf(x) = {}
  <2>1. f.at > Base.at
    BY <1>1, <1>10, <1>15, <1>17 DEF Excused
  <2>2. Frames' = Frames \cup {f}
    <3>1. Frames = {log[i].f : i \in 1..n} /\ Frames' = {log'[i].f : i \in 1..(n + 1)}
      BY <1>7 DEF Frames
    <3>2. \A i \in 1..n : log'[i].f = log[i].f
      BY <1>7
    <3>3. log'[n + 1].f = f /\ n + 1 \in 1..(n + 1)
      BY <1>5, <1>7
    <3> QED
      BY <1>8, <1>9, <3>1, <3>2, <3>3
  <2>3. Due' = Due \cup {f}
    BY <1>2, <2>1, <2>2 DEF Due
  <2>4. ASSUME NEW x \in Due
        PROVE  x.at # f.at /\ (f.at < x.at => SchemasOf(f) \cap SchemasOf(x) = {})
    <3>1. PICK i \in 1..n : x = log[i].f /\ i \in Replayable
      BY <1>7 DEF Due, Frames, Replayable
    <3>2. x.at # f.at
      BY <1>1, <1>3, <3>1 DEF GovInv, TimesDiffer
    <3>3. i \in Replayable' /\ log'[i].f = x /\ n + 1 \in Replayable' /\ log'[n + 1].f = f /\ i < n + 1
      BY <1>5, <1>7, <1>8, <1>11, <1>14, <2>1, <3>1
    <3>4. ~ Crossed'
      BY <1>17 DEF Excused
    <3>5. f.at < x.at => SchemasOf(x) \cap SchemasOf(f) = {}
      <4>1. x.at \in Nat
        BY <1>3, <3>1, LogTyped DEF GovInv
      <4>2. f.at < x.at => x.at > f.at
        BY <1>1, <4>1
      <4>3. ~ (x.at > f.at /\ SchemasOf(x) \cap SchemasOf(f) # {})
        BY <3>3, <3>4 DEF Crossed
      <4> QED
        BY <4>2, <4>3
    <3> QED
      BY <3>2, <3>5
  <2> QED
    BY <2>3, <2>4
<1> QED
  BY <1>3, <1>4, <1>7, <1>13, <1>16, <1>17

\* A commit that is not excused goes into the replay, which then ends in what
\* the verb leaves.
LEMMA CommitLeads ==
    ASSUME GovInv, ServeInv, status = "up", UNCHANGED <<manifest, registered>>,
           NEW o \in Operators, NEW f \in Committable(o),
           NEW b \in BOOLEAN, log' = Append(log, [f |-> f, kept |-> b]),
           ~ Excused'
    PROVE  /\ ~ b
           /\ \E h : /\ Trace(h, Base'.gov.contracts, Due')
                     /\ Ends(h, Due', Effect(gov, f).contracts)
<1>1. /\ ~ Excused /\ ~ b
      /\ Due' = Due \cup {f}
      /\ \A x \in Due : x.at # f.at
      /\ \A x \in Due : f.at < x.at => SchemasOf(f) \cap SchemasOf(x) = {}
  BY LogMore DEF ServeInv
<1>2. PICK h : Trace(h, Base.gov.contracts, Due) /\ Ends(h, Due, gov.contracts)
  BY <1>1 DEF ServeInv, Serve, Leads
<1>3. Timed(Due) /\ (\A x \in Due : x.at <= clock) /\ clock \in Nat
  BY DueListed
<1>4. f \in Frame /\ Validated(gov, f) /\ f.at > 0 /\ f.at <= clock /\ Good(gov)
  <2>1. f \in Frame /\ f.at = verb[o].at /\ verb[o] # Idle /\ Validated(gov, f)
    BY CommittableFrames DEF GovInv
  <2>2. verb[o].at > 0 /\ verb[o].at <= clock
    BY <2>1 DEF GovInv, TimesDiffer
  <2> QED
    BY <2>1, <2>2 DEF GovInv, Types
<1>5. Base' = Base
  BY DEF Base
<1>6. \E k : Trace(k, Base.gov.contracts, Due \cup {f})
             /\ Ends(k, Due \cup {f}, Effect(gov, f).contracts)
  BY <1>1, <1>2, <1>3, <1>4, TraceInserts
<1> QED
  BY <1>1, <1>5, <1>6

-----------------------------------------------------------------------------
(* The steps, and what a boot would do.                                    *)

LEMMA BeginVerbServe ==
    ASSUME GovInv, ServeInv, NEW o \in Operators, NEW v \in Verbs, BeginVerb(o, v)
    PROVE  ServeInv'
<1>1. /\ status = "up" /\ clock' = clock + 1
      /\ verb' = [verb EXCEPT ![o] = [verb |-> v, at |-> clock']]
      /\ UNCHANGED <<status, gov, log, manifest, registered>>
  BY DEF BeginVerb, history
<1>2. clock \in Nat /\ DOMAIN verb = Operators
  BY DEF GovInv, Types
<1>3. ASSUME NEW p \in Operators
      PROVE  verb'[p] = verb[p] \/ (verb'[p].at \in Nat /\ verb'[p].at > clock)
  <2>1. CASE p = o
    <3>1. verb'[p].at = clock + 1
      BY <1>1, <1>2, <2>1
    <3> QED
      BY <1>2, <3>1
  <2>2. CASE p # o
    BY <1>1, <1>2, <2>2
  <2> QED
    BY <2>1, <2>2
<1> QED
  BY <1>1, <1>3, ServeKept

LEMMA RefuseVerbServe ==
    ASSUME GovInv, ServeInv, NEW o \in Operators, RefuseVerb(o)
    PROVE  ServeInv'
<1>1. /\ status = "up" /\ verb' = [verb EXCEPT ![o] = Idle]
      /\ UNCHANGED <<status, gov, log, manifest, registered>>
  BY DEF RefuseVerb, Answer, history
<1>2. DOMAIN verb = Operators
  BY DEF GovInv, Types
<1>3. \A p \in Operators : verb'[p] # Idle => verb'[p] = verb[p]
  BY <1>1, <1>2
<1> QED
  BY <1>1, <1>3, ServeKept

\* Decisions and gaps are no part of what a replay can be refused by.
LEMMA CellsServe ==
    ASSUME GovInv, ServeInv, status = "up",
           UNCHANGED <<status, verb, log, manifest, registered>>,
           gov'.contracts = gov.contracts
    PROVE  ServeInv'
<1>1. \A p \in Operators : verb'[p] = verb[p]
  OBVIOUS
<1> QED
  BY <1>1, ServeKept

LEMMA HostServe ==
    ASSUME GovInv, ServeInv,
           \/ \E scope \in Scopes : HostDecide(scope)
           \/ \E old, new \in DOMAIN gov.decisions : HostSupersede(old, new)
           \/ \E g \in Gaps : (\E to \in GapStates : HostTransition(g, to)) \/ DispatchGap(g)
    PROVE  ServeInv'
<1>1. DOMAIN gov = {"contracts", "decisions", "accepted", "gaps"}
  BY DEF GovInv, Types, Good
<1>2. ASSUME NEW scope \in Scopes, HostDecide(scope) PROVE ServeInv'
  <2>1. status = "up" /\ UNCHANGED <<status, verb, log, manifest, registered>>
    BY <1>2 DEF HostDecide, history
  <2>2. gov'.contracts = gov.contracts
    BY <1>1, <1>2 DEF HostDecide, AppendDecision
  <2> QED
    BY <2>1, <2>2, CellsServe
<1>3. ASSUME NEW old \in DOMAIN gov.decisions, NEW new \in DOMAIN gov.decisions,
             HostSupersede(old, new)
      PROVE  ServeInv'
  <2>1. status = "up" /\ UNCHANGED <<status, verb, log, manifest, registered>>
    BY <1>3 DEF HostSupersede, history
  <2>2. gov'.contracts = gov.contracts
    BY <1>1, <1>3 DEF HostSupersede, Supersede
  <2> QED
    BY <2>1, <2>2, CellsServe
<1>4. ASSUME NEW g \in Gaps, NEW to \in GapStates, HostTransition(g, to) PROVE ServeInv'
  <2>1. status = "up" /\ UNCHANGED <<status, verb, log, manifest, registered>>
    BY <1>4 DEF HostTransition
  <2>2. gov'.contracts = gov.contracts
    BY <1>1, <1>4 DEF HostTransition
  <2> QED
    BY <2>1, <2>2, CellsServe
<1>5. ASSUME NEW g \in Gaps, DispatchGap(g) PROVE ServeInv'
  <2>1. status = "up" /\ UNCHANGED <<status, verb, log, manifest, registered>>
    BY <1>5 DEF DispatchGap
  <2>2. gov'.contracts = gov.contracts
    BY <1>1, <1>5 DEF DispatchGap
  <2> QED
    BY <2>1, <2>2, CellsServe
<1> QED
  BY <1>2, <1>3, <1>4, <1>5

LEMMA CommitVerbServe ==
    ASSUME GovInv, ServeInv, NEW o \in Operators, NEW f \in Committable(o), CommitVerb(o, f)
    PROVE  ServeInv'
<1>1. /\ status = "up" /\ verb' = [verb EXCEPT ![o] = Idle]
      /\ UNCHANGED <<status, clock, manifest, registered>>
  BY DEF CommitVerb, Answer
<1>2. PICK b \in BOOLEAN : /\ log' = Append(log, [f |-> f, kept |-> b])
                           /\ gov' = IF b THEN gov ELSE Effect(gov, f)
  BY DEF CommitVerb
<1>3. f \in Frame /\ Validated(gov, f) /\ Good(gov)
  BY CommittableFrames DEF GovInv, Types
<1>4. Serve'
  <2>1. ASSUME ~ Excused' PROVE Leads(gov.contracts)'
    <3>1. ~ b /\ \E h : Trace(h, Base'.gov.contracts, Due') /\ Ends(h, Due', Effect(gov, f).contracts)
      BY <1>1, <1>2, <2>1, CommitLeads
    <3>2. gov' = Effect(gov, f)
      BY <1>2, <3>1
    <3> QED
      BY <3>1, <3>2 DEF Leads
  <2> QED
    BY <1>1, <2>1 DEF Serve
<1>5. PICK n \in Nat : n = Len(log)
  BY LogTyped DEF GovInv
<1>6. /\ Len(log') = n + 1 /\ log'[n + 1] = [f |-> f, kept |-> b]
      /\ \A i \in 1..n : log'[i] = log[i]
  BY <1>1, <1>2, <1>5, LogMore DEF ServeInv
<1>7. \A i \in 1..n : log[i].f \in Frame
  BY <1>5, LogTyped DEF GovInv
<1>8. \A p \in Operators : verb'[p] = verb[p] \/ verb'[p] = Idle
  BY <1>1 DEF GovInv, Types
<1>9. ASSUME NEW i \in 1..n PROVE Logged(i)'
  <2>1. Logged(i)
    BY <1>1, <1>5 DEF ServeInv, LogInEffect
  <2>2. log'[i] = log[i]
    BY <1>6
  <2>3. InEffect(gov.contracts, log[i].f) => InEffect(gov'.contracts, log'[i].f)
    BY <1>2, <1>3, <1>7, <2>2, InEffectLater
  <2>4. Overwritten(i) => Overwritten(i)'
    BY <1>1, <2>2 DEF Overwritten
  <2>5. Behind(i) => Behind(i)'
    BY <1>8, <2>2 DEF Behind
  <2> QED
    BY <2>1, <2>2, <2>3, <2>4, <2>5 DEF Logged
<1>10. Logged(n + 1)'
  <2>1. log'[n + 1].f = f /\ log'[n + 1].kept = b
    BY <1>6
  <2>2. CASE b
    BY <2>1, <2>2 DEF Logged
  <2>3. CASE ~ b
    <3>1. gov' = Effect(gov, f)
      BY <1>2, <2>3
    <3>2. InEffect(Effect(gov, f).contracts, f)
      <4>1. Holds(Effect(gov, f), f)
        BY <1>3, EffectKeeps
      <4>2. CASE f.verb = "plan"
        <5>1. PICK cs : cs = gov.contracts
          OBVIOUS
        <5>2. f.source \in DOMAIN cs /\ cs[f.source] \in Contract
              /\ Effect(gov, f).contracts = Placed(cs, f.source, Moved(cs[f.source], f))
          BY <1>3, <4>2, <5>1, EffectMoves DEF Good, GoodContracts
        <5>3. PICK c : c = Moved(cs[f.source], f)
          OBVIOUS
        <5>4. c.by = f.target /\ c.decision = f.decision
          BY <4>2, <5>2, <5>3 DEF Moved, Contract
        <5> QED
          BY <4>2, <5>2, <5>3, <5>4, PlacedIs DEF InEffect
      <4>3. CASE f.verb # "plan"
        BY <4>1, <4>3 DEF Holds, InEffect
      <4> QED
        BY <4>2, <4>3
    <3> QED
      BY <2>1, <3>1, <3>2 DEF Logged
  <2> QED
    BY <2>2, <2>3
<1>11. \A i \in 1..(n + 1) : i \in 1..n \/ i = n + 1
  OBVIOUS
<1>12. LogInEffect'
  BY <1>6, <1>9, <1>10, <1>11 DEF LogInEffect
<1>13. Registered'
  BY <1>1 DEF ServeInv, Registered
<1> QED
  BY <1>4, <1>12, <1>13 DEF ServeInv

\* A snapshot leaves to the boot only what the contracts have.
LEMMA SnapshotServe ==
    ASSUME GovInv, ServeInv, NEW o \in Operators, Snapshot(o)
    PROVE  ServeInv'
<1>1. /\ status = "up" /\ verb' = [verb EXCEPT ![o] = Idle] /\ verb[o].verb = "snapshot"
      /\ manifest' = [at |-> clock,
                    snap |-> <<[at |-> verb[o].at, gov |-> Captured(gov), has |-> Len(log)]>>]
      /\ registered' = {[r EXCEPT !.saved = TRUE] : r \in registered}
      /\ UNCHANGED <<status, clock, gov, log>>
  BY DEF Snapshot, Answer
<1>2. PICK b : b = [at |-> verb[o].at, gov |-> Captured(gov), has |-> Len(log)]
  OBVIOUS
<1>3. Base' = b
  <2>1. manifest'.snap = <<b>>
    BY <1>1, <1>2
  <2>2. <<b>> # <<>> /\ <<b>>[1] = b
    OBVIOUS
  <2> QED
    BY <2>1, <2>2 DEF Base
<1>4. b.at = verb[o].at /\ b.gov.contracts = gov.contracts
  BY <1>2 DEF Captured, ContractState
<1>5. verb[o] # Idle
  BY <1>1 DEF Idle
<1>6. registered \subseteq [schema : Schemas, after : Nat, saved : BOOLEAN]
  BY DEF ServeInv, Registered
<1>7. ASSUME NEW r \in registered
      PROVE  \E s \in registered' : s.schema = r.schema /\ s.after = r.after
  <2>1. PICK s : s = [r EXCEPT !.saved = TRUE]
    OBVIOUS
  <2>2. s \in registered' /\ s.schema = r.schema /\ s.after = r.after
    BY <1>1, <1>6, <2>1
  <2> QED
    BY <2>2
<1>8. Registered'
  <2>1. ASSUME NEW s \in registered' PROVE s \in [schema : Schemas, after : Nat, saved : BOOLEAN]
    <3>1. PICK r \in registered : s = [r EXCEPT !.saved = TRUE]
      BY <1>1
    <3> QED
      BY <1>6, <3>1
  <2> QED
    BY <2>1 DEF Registered
<1>9. DOMAIN log = 1..Len(log) /\ \A i \in 1..Len(log) : log[i].f \in Frame /\ log[i].f.at \in Nat
  BY LogTyped DEF GovInv
<1>10. ASSUME ~ Excused', NEW x \in Due' PROVE InEffect(gov.contracts, x)
  <2>1. PICK i \in 1..Len(log) : x = log[i].f /\ log[i].f.at > verb[o].at
    BY <1>1, <1>3, <1>4, <1>9 DEF Due, Frames
  <2>2. i \in Replayable'
    BY <1>1, <1>3, <1>4, <1>9, <2>1 DEF Replayable
  <2>3. Logged(i)
    BY <1>1 DEF ServeInv, LogInEffect
  <2>4. ~ log[i].kept
    BY <1>1, <1>10, <2>2 DEF Excused
  <2>5. ~ Behind(i)
    <3>1. log[i].f.at \in Nat /\ verb[o].at \in Nat
      BY <1>9 DEF GovInv, Types
    <3>2. ~ (log[i].f.at < verb[o].at)
      BY <2>1, <3>1
    <3> QED
      BY <1>5, <3>2 DEF Behind
  <2>6. ~ Overwritten(i)
    <3>1. ~ Unsaved'
      BY <1>10 DEF Excused
    <3>2. ASSUME NEW r \in registered, r.schema \in SchemasOf(log[i].f), i <= r.after PROVE FALSE
      <4>1. PICK s \in registered' : s.schema = r.schema /\ s.after = r.after
        BY <1>7
      <4>2. i <= s.after /\ s.schema \in SchemasOf(log'[i].f)
        BY <1>1, <3>2, <4>1
      <4>3. Unsaved'
        BY <2>2, <4>2 DEF Unsaved
      <4> QED
        BY <3>1, <4>3
    <3> QED
      BY <3>2 DEF Overwritten
  <2> QED
    BY <2>1, <2>3, <2>4, <2>5, <2>6 DEF Logged
<1>11. ASSUME ~ Excused' PROVE Leads(gov.contracts)'
  <2>1. PICK cs : cs = gov.contracts
    OBVIOUS
  <2>2. PICK h : h = [t \in Nat |-> cs]
    OBVIOUS
  <2>3. \A t \in Nat : h[t] = cs /\ h[t + 1] = cs
    BY <2>2
  <2>4. \A x \in Due' : Moves(cs, x, cs)
    BY <1>10, <1>11, <2>1 DEF Moves
  <2>5. Trace(h, cs, Due') /\ Ends(h, Due', cs)
    BY <2>3, <2>4 DEF Trace, Ends
  <2> QED
    BY <1>1, <1>3, <1>4, <2>1, <2>5 DEF Leads
<1>12. Serve'
  BY <1>1, <1>11 DEF Serve
<1>13. ASSUME NEW i \in 1..Len(log) PROVE Logged(i)'
  <2>1. Logged(i)
    BY <1>1 DEF ServeInv, LogInEffect
  <2>2. Overwritten(i) => Overwritten(i)'
    BY <1>1, <1>7 DEF Overwritten
  <2>3. \A p \in Operators : verb'[p] = verb[p] \/ verb'[p] = Idle
    BY <1>1 DEF GovInv, Types
  <2>4. Behind(i) => Behind(i)'
    BY <1>1, <2>3 DEF Behind
  <2> QED
    BY <1>1, <2>1, <2>2, <2>4 DEF Logged
<1>14. LogInEffect'
  BY <1>1, <1>13 DEF LogInEffect
<1> QED
  BY <1>8, <1>12, <1>14 DEF ServeInv

LEMMA HostRegisterServe ==
    ASSUME GovInv, ServeInv, NEW s \in Schemas, HostRegister(s)
    PROVE  ServeInv'
<1>1. /\ status = "up" /\ gov' = Register(gov, s)
      /\ registered' = registered \cup {[schema |-> s, after |-> Len(log), saved |-> FALSE]}
      /\ UNCHANGED <<status, clock, verb, log, manifest>>
  BY DEF HostRegister
<1>2. PICK r : r = [schema |-> s, after |-> Len(log), saved |-> FALSE]
  OBVIOUS
<1>3. r \in registered' /\ r.schema = s /\ r.after = Len(log) /\ ~ r.saved
  BY <1>1, <1>2
<1>4. Serve'
  BY <1>1, <1>3 DEF Serve, Excused, Unsaved
<1>5. Len(log) \in Nat /\ \A i \in 1..Len(log) : log[i].f \in Frame
  BY LogTyped DEF GovInv
<1>6. Registered'
  <2>1. r \in [schema : Schemas, after : Nat, saved : BOOLEAN]
    BY <1>2, <1>5
  <2> QED
    BY <1>1, <1>2, <2>1 DEF ServeInv, Registered
<1>7. PICK cs, e : cs = gov.contracts /\ e = gov'.contracts
  OBVIOUS
<1>8. e = [x \in DOMAIN cs \cup {s} |-> IF x = s THEN NewContract ELSE cs[x]]
  BY <1>1, <1>7 DEF Register, GovInv, Types, Good
<1>9. \A x \in DOMAIN cs : x # s => x \in DOMAIN e /\ e[x] = cs[x]
  BY <1>8
<1>10. ASSUME NEW i \in 1..Len(log) PROVE Logged(i)'
  <2>1. Logged(i)
    BY <1>1 DEF ServeInv, LogInEffect
  <2>2. Overwritten(i) => Overwritten(i)'
    BY <1>1 DEF Overwritten
  <2>3. Behind(i) => Behind(i)'
    BY <1>1 DEF Behind
  <2>4. CASE s \in SchemasOf(log[i].f)
    <3>1. i <= r.after
      BY <1>3, <1>5
    <3>2. Overwritten(i)'
      BY <1>1, <1>3, <2>4, <3>1 DEF Overwritten
    <3> QED
      BY <3>2 DEF Logged
  <2>5. CASE s \notin SchemasOf(log[i].f)
    <3>1. PICK f \in Frame : f = log[i].f
      BY <1>5
    <3>2. f.verb # "accept" => f.source # s
      BY <2>5, <3>1, FrameVerbs DEF SchemasOf
    <3>3. InEffect(cs, f) => InEffect(e, f)
      BY <1>9, <3>2 DEF InEffect
    <3> QED
      BY <1>1, <1>7, <2>1, <2>2, <2>3, <3>1, <3>3 DEF Logged
  <2> QED
    BY <2>4, <2>5
<1>11. LogInEffect'
  BY <1>1, <1>10 DEF LogInEffect
<1> QED
  BY <1>4, <1>6, <1>11 DEF ServeInv

LEMMA CrashServe ==
    ASSUME GovInv, ServeInv, Crash
    PROVE  ServeInv'
<1>1. status = "up" /\ status' = "down" /\ UNCHANGED <<clock, gov, manifest, registered>>
  BY DEF Crash
<1>2. CASE UNCHANGED log
  <2>1. Base' = Base /\ Due' = Due /\ Skipped' = Skipped /\ Replayable' = Replayable
    BY <1>1, <1>2 DEF Base, Due, Frames, Skipped, Replayable
  <2>2. Excused' <=> Excused
    BY <1>1, <1>2, <2>1 DEF Excused, Crossed, Unsaved
  <2>3. Excused \/ Leads(gov.contracts)
    BY <1>1 DEF ServeInv, Serve
  <2> QED
    BY <1>1, <2>1, <2>2, <2>3 DEF ServeInv, Serve, Leads, LogInEffect, Registered
<1>3. ASSUME NEW o \in Operators, NEW f \in Committable(o),
             log' = Append(log, [f |-> f, kept |-> FALSE])
      PROVE  ServeInv'
  <2>1. ASSUME ~ Excused' PROVE \E h : Trace(h, Base'.gov.contracts, Due')
    BY <1>1, <1>3, <2>1, CommitLeads
  <2> QED
    BY <1>1, <2>1 DEF ServeInv, Serve, LogInEffect, Registered
<1> QED
  BY <1>2, <1>3 DEF Crash

LEMMA BootServe ==
    ASSUME GovInv, ServeInv, Boot
    PROVE  ServeInv'
<1>1. status = "down" /\ UNCHANGED <<verb, log>>
  BY DEF Boot
<1>2. CASE status' = "refused" /\ Replayed = Failed /\ UNCHANGED <<gov, manifest, registered>>
  <2>1. Base' = Base /\ Due' = Due /\ Skipped' = Skipped /\ Replayable' = Replayable
    BY <1>1, <1>2 DEF Base, Due, Frames, Skipped, Replayable
  <2>2. Excused' <=> Excused
    BY <1>1, <1>2, <2>1 DEF Excused, Crossed, Unsaved
  <2>3. Excused
    BY <1>1, <1>2, TraceServes DEF ServeInv, Serve, Failed
  <2> QED
    BY <1>2, <2>2, <2>3 DEF ServeInv, Serve, LogInEffect, Registered
<1>3. CASE /\ status' = "up" /\ gov' \in Replayed
           /\ manifest' = [manifest EXCEPT !.at = clock']
           /\ registered' = {}
  <2>1. manifest'.snap = manifest.snap
    BY <1>3 DEF GovInv, BaseGood
  <2>2. Base' = Base /\ Due' = Due
    BY <1>1, <2>1 DEF Base, Due, Frames
  <2>3. Leads(gov.contracts)'
    <3>1. \E h : Trace(h, Base.gov.contracts, Due) /\ Ends(h, Due, gov'.contracts)
      BY <1>3, ServedTrace
    <3> QED
      BY <2>2, <3>1 DEF Leads
  <2>4. \A o \in Operators : verb'[o] = Idle
    BY <1>1 DEF GovInv, TimesDiffer
  <2>5. LogInEffect'
    BY <2>4 DEF LogInEffect, Logged, Behind
  <2>6. Registered'
    BY <1>3 DEF Registered
  <2> QED
    BY <1>3, <2>3, <2>5, <2>6 DEF ServeInv, Serve
<1> QED
  BY <1>2, <1>3 DEF Boot

LEMMA InitServe ==
    ASSUME Init
    PROVE  ServeInv
<1>1. /\ status = "up" /\ gov = Provisioned /\ log = <<>>
      /\ manifest = [at |-> 1, snap |-> <<>>] /\ registered = {}
  BY DEF Init
<1>2. Base.gov = Provisioned
  BY <1>1 DEF Base
<1>3. Due = {}
  BY <1>1 DEF Due, Frames
<1>4. PICK cs : cs = gov.contracts
  OBVIOUS
<1>5. PICK h : h = [t \in Nat |-> cs]
  OBVIOUS
<1>6. \A t \in Nat : h[t] = cs /\ h[t + 1] = cs
  BY <1>5
<1>7. Trace(h, cs, {}) /\ Ends(h, {}, cs)
  BY <1>6 DEF Trace, Ends
<1>8. Leads(gov.contracts)
  BY <1>1, <1>2, <1>3, <1>4, <1>7 DEF Leads
<1> QED
  BY <1>1, <1>8 DEF ServeInv, Serve, LogInEffect, Registered

LEMMA NextServe ==
    ASSUME GovInv, ServeInv, [Next]_vars
    PROVE  ServeInv'
<1>1. CASE UNCHANGED vars
  <2>1. UNCHANGED <<status, gov, verb, log, manifest, registered>>
    BY <1>1 DEF vars, history
  <2>2. Base' = Base /\ Due' = Due /\ Skipped' = Skipped /\ Replayable' = Replayable
    BY <2>1 DEF Base, Due, Frames, Skipped, Replayable
  <2>3. Excused' <=> Excused
    BY <2>1, <2>2 DEF Excused, Crossed, Unsaved
  <2>4. Serve'
    BY <2>1, <2>2, <2>3 DEF ServeInv, Serve, Leads
  <2>5. LogInEffect' /\ Registered'
    BY <2>1 DEF ServeInv, LogInEffect, Logged, Overwritten, Behind, Registered
  <2> QED
    BY <2>4, <2>5 DEF ServeInv
<1>2. ASSUME NEW o \in Operators, NEW v \in Verbs, BeginVerb(o, v) PROVE ServeInv'
  BY <1>2, BeginVerbServe
<1>3. ASSUME NEW o \in Operators, NEW f \in Committable(o), CommitVerb(o, f) PROVE ServeInv'
  BY <1>3, CommitVerbServe
<1>4. ASSUME NEW o \in Operators, RefuseVerb(o) PROVE ServeInv'
  BY <1>4, RefuseVerbServe
<1>5. ASSUME NEW o \in Operators, Snapshot(o) PROVE ServeInv'
  BY <1>5, SnapshotServe
<1>6. ASSUME NEW s \in Schemas, HostRegister(s) PROVE ServeInv'
  BY <1>6, HostRegisterServe
<1>7. CASE \/ \E scope \in Scopes : HostDecide(scope)
           \/ \E old, new \in DOMAIN gov.decisions : HostSupersede(old, new)
           \/ \E g \in Gaps : (\E to \in GapStates : HostTransition(g, to)) \/ DispatchGap(g)
  BY <1>7, HostServe
<1>8. CASE Crash
  BY <1>8, CrashServe
<1>9. CASE Boot
  BY <1>9, BootServe
<1> QED
  BY <1>1, <1>2, <1>3, <1>4, <1>5, <1>6, <1>7, <1>8, <1>9 DEF Next

-----------------------------------------------------------------------------
(* The theorems.                                                           *)

LEMMA InitGov ==
    ASSUME Init
    PROVE  GovInv
<1>1. /\ status = "up" /\ clock = 1 /\ gov = Provisioned /\ log = <<>>
      /\ verb = [o \in Operators |-> Idle] /\ manifest = [at |-> 1, snap |-> <<>>]
      /\ used = [k \in Counted |-> 0] /\ acked = {}
      /\ counted = [g \in Gaps |-> 0] /\ saved = counted
  BY DEF Init
<1>2. PICK c : c = [s \in BootSchemas |-> NewContract]
  OBVIOUS
<1>3. NewContract \in Contract /\ NewContract.by = None /\ NewContract.deprecated = FALSE
  BY DEF NewContract, Contract, DecisionId, NoDecision
<1>4. GoodContracts(c)
  BY <1>2, <1>3, GovernanceConstants DEF GoodContracts, Migrated
<1>5. NewDecision(1, Founded) \in Decision
  BY GovernanceConstants DEF NewDecision, Decision, NoDecision, DecisionId
<1>6. <<NewDecision(1, Founded)>> \in Seq(Decision)
  BY <1>5
<1>7. [g \in Gaps |-> NewGap] \in [Gaps -> Gap]
  BY DEF NewGap, Gap, GapStates
<1>8. Good(Provisioned)
  BY <1>2, <1>4, <1>6, <1>7 DEF Good, Provisioned
<1>9. Len(log) = 0 /\ log \in Seq([f : Frame, kept : BOOLEAN])
  BY <1>1
<1>10. Idle \in [verb : Verbs \cup {"idle"}, at : Nat] /\ Idle.at = 0
  BY DEF Idle
<1>11. Types
  BY <1>1, <1>8, <1>9, <1>10 DEF Types
<1>12. Base.at = 0 /\ Base.has = 0 /\ Base.gov = Provisioned
  BY <1>1 DEF Base
<1>13. BaseGood
  BY <1>1, <1>8, <1>9, <1>12 DEF BaseGood
<1>14. TimesDiffer
  BY <1>1, <1>9, <1>10 DEF TimesDiffer
<1>15. AckedLast
  BY <1>1 DEF AckedLast
<1>16. GapsCount
  <2>1. \A g \in Gaps : counted[g] = 0 /\ saved[g] = 0 /\ Provisioned.gaps[g].count = 0
    BY <1>1 DEF Provisioned, NewGap
  <2> QED
    BY <1>1, <1>12, <2>1, GovernanceConstants DEF GapsCount
<1> QED
  BY <1>11, <1>13, <1>14, <1>15, <1>16 DEF GovInv

LEMMA NextGov ==
    ASSUME GovInv, [Next]_vars
    PROVE  GovInv'
<1>1. CASE UNCHANGED vars
  <2>1. UNCHANGED <<status, clock, gov, verb, log, manifest, used, acked, forgotten, counted, saved>>
    BY <1>1 DEF vars, history
  <2>2. Base' = Base /\ Due' = Due /\ Skipped' = Skipped
    BY <2>1 DEF Base, Due, Frames, Skipped
  <2>3. Types' /\ BaseGood' /\ TimesDiffer' /\ GapsCount'
    BY <2>1, <2>2 DEF GovInv, Types, BaseGood, TimesDiffer, GapsCount
  <2>4. AckedLast'
    BY <2>1, <2>2 DEF GovInv, AckedLast, Lasts, Lasting, Holds, Exists
  <2> QED
    BY <2>3, <2>4 DEF GovInv
<1>2. ASSUME NEW o \in Operators, NEW v \in Verbs, BeginVerb(o, v) PROVE GovInv'
  BY <1>2, BeginVerbStep
<1>3. ASSUME NEW o \in Operators, NEW f \in Committable(o), CommitVerb(o, f) PROVE GovInv'
  BY <1>3, CommitVerbStep
<1>4. ASSUME NEW o \in Operators, RefuseVerb(o) PROVE GovInv'
  BY <1>4, RefuseVerbStep
<1>5. ASSUME NEW o \in Operators, Snapshot(o) PROVE GovInv'
  BY <1>5, SnapshotStep
<1>6. ASSUME NEW s \in Schemas, HostRegister(s) PROVE GovInv'
  BY <1>6, HostRegisterStep
<1>7. ASSUME NEW scope \in Scopes, HostDecide(scope) PROVE GovInv'
  BY <1>7, HostDecideStep
<1>8. ASSUME NEW old \in DOMAIN gov.decisions, NEW new \in DOMAIN gov.decisions,
             HostSupersede(old, new)
      PROVE  GovInv'
  BY <1>8, HostSupersedeStep
<1>9. ASSUME NEW g \in Gaps, NEW to \in GapStates, HostTransition(g, to) PROVE GovInv'
  BY <1>9, HostTransitionStep
<1>10. ASSUME NEW g \in Gaps, DispatchGap(g) PROVE GovInv'
  BY <1>10, DispatchGapStep
<1>11. CASE Crash
  BY <1>11, CrashStep
<1>12. CASE Boot
  BY <1>12, BootStep
<1> QED
  BY <1>1, <1>2, <1>3, <1>4, <1>5, <1>6, <1>7, <1>8, <1>9, <1>10, <1>11, <1>12 DEF Next

\* The verbs, the log and the cells fit together at every step: no two verbs
\* have one time, what the operator was told is in the cells or will be after
\* a boot, a deprecated contract has a successor that is a later version, and a
\* gap counts what it lets through.
THEOREM GovInvHolds == Spec => []GovInv
<1>1. Init => GovInv
  BY InitGov
<1>2. GovInv /\ [Next]_vars => GovInv'
  BY NextGov
<1> QED
  BY <1>1, <1>2, PTL DEF Spec

\* A migration that was answered stays planned under a decision of the ledger
\* and stays applied, and an accepted entity stays in the vocabulary, through
\* any snapshots and crashes: what InForce says of the writes that
\* run_pre_validation judges.
THEOREM AckedStaysInForce == Spec => []AckedInForce
<1>1. ASSUME GovInv, status = "up", NEW f \in acked PROVE InForce(f)
  <2>1. Lasts(f)
    BY <1>1 DEF GovInv, AckedLast
  <2>2. f \in Frame /\ Holds(gov, f)
    BY <1>1, <2>1 DEF Lasts, Lasting
  <2>3. CASE f.verb = "apply"
    <3>1. f.source \in DOMAIN gov.contracts /\ gov.contracts[f.source].deprecated
      BY <2>2, <2>3 DEF Holds
    <3>2. ASSUME NEW w \in Writes, w.schema = f.source PROVE Refusal(gov, w) = "contract"
      <4>1. ~ ValidateSchema(gov, w)
        BY <3>1, <3>2 DEF ValidateSchema
      <4> QED
        BY <4>1 DEF Refusal
    <3> QED
      BY <2>3, <3>2 DEF InForce
  <2>4. CASE f.verb = "plan"
    <3>1. f.source \in DOMAIN gov.contracts /\ gov.contracts[f.source].by = f.target
      BY <2>2, <2>4 DEF Holds
    <3>2. Exists(gov, f.decision) \/ f.decision \in forgotten
      BY <1>1, <2>1, <2>4 DEF Lasts
    <3> QED
      BY <2>4, <3>1, <3>2 DEF InForce
  <2>5. CASE f.verb = "accept"
    <3>1. f.entity \in gov.accepted
      BY <2>2, <2>5 DEF Holds
    <3>2. ASSUME NEW w \in Writes, w.names = {f.entity} PROVE Refusal(gov, w) # "congruence"
      <4>1. PreviewDelta(gov, w)
        BY <3>1, <3>2 DEF PreviewDelta
      <4> QED
        BY <4>1 DEF Refusal, None
    <3> QED
      BY <2>5, <3>2 DEF InForce
  <2> QED
    BY <2>2, <2>3, <2>4, <2>5, FrameVerbs
<1>2. GovInv => AckedInForce
  BY <1>1 DEF AckedInForce
<1> QED
  BY <1>2, GovInvHolds, PTL

\* on_dispatch lets at most GAP_FIXATION_N dispatches through between two
\* transitions of a gap in one life of the process, those that the snapshot it
\* started from has seen included.
THEOREM DispatchesAreBounded == Spec => []FixationBounded
<1>1. GovInv => FixationBounded
  BY DEF GovInv, GapsCount, FixationBounded
<1> QED
  BY <1>1, GovInvHolds, PTL

\* A finite set has an element with the greatest key, by induction on its size.
LEMMA GreatestExists ==
    ASSUME NEW S, NEW key \in [S -> Nat]
    PROVE  \A n \in Nat : \A T \in SUBSET S : IsFiniteSet(T) /\ Cardinality(T) = n /\ T # {}
               => \E x \in T : \A y \in T : key[y] <= key[x]
<1> DEFINE Great(T) == \E x \in T : \A y \in T : key[y] <= key[x]
           N == {n \in Nat : \A T \in SUBSET S :
                    IsFiniteSet(T) /\ Cardinality(T) = n /\ T # {} => Great(T)}
<1>1. 0 \in N
  BY FS_EmptySet
<1>2. ASSUME NEW n \in N PROVE n + 1 \in N
  <2> SUFFICES ASSUME NEW T \in SUBSET S, IsFiniteSet(T), Cardinality(T) = n + 1, T # {}
               PROVE  Great(T)
    OBVIOUS
  <2>1. PICK z \in T : TRUE
    OBVIOUS
  <2>2. PICK R : R = T \ {z}
    OBVIOUS
  <2>3. R \in SUBSET S /\ IsFiniteSet(R) /\ Cardinality(R) = n
    BY <2>1, <2>2, FS_RemoveElement
  <2>4. CASE R = {}
    BY <2>1, <2>2, <2>4
  <2>5. CASE R # {}
    <3>1. PICK x \in R : \A y \in R : key[y] <= key[x]
      BY <2>3, <2>5
    <3>2. key[x] \in Nat /\ key[z] \in Nat /\ \A y \in T : y \in R \/ y = z
      BY <2>2, <2>3
    <3>3. CASE key[x] <= key[z]
      <4>1. \A y \in T : key[y] <= key[z]
        BY <3>1, <3>2, <3>3
      <4> QED
        BY <4>1
    <3>4. CASE key[z] <= key[x]
      <4>1. \A y \in T : key[y] <= key[x]
        BY <3>1, <3>2, <3>4
      <4> QED
        BY <2>2, <4>1
    <3> QED
      BY <3>2, <3>3, <3>4
  <2> QED
    BY <2>4, <2>5
<1>3. N = Nat
  <2>1. N \in SUBSET Nat
    OBVIOUS
  <2> HIDE DEF N
  <2> QED
    BY <1>1, <1>2, <2>1, SetInduction
<1> QED
  BY <1>3

\* The successors of a schema have contracts, and their successors are among
\* them.
LEMMA SuccessorsClosed ==
    ASSUME GoodContracts(gov.contracts), NEW s \in DOMAIN gov.contracts
    PROVE  /\ Successors(s) \subseteq DOMAIN gov.contracts
           /\ \A x \in Successors(s) \cup {s} :
                 gov.contracts[x].by # None => gov.contracts[x].by \in Successors(s)
<1>1. PICK c : c = gov.contracts
  OBVIOUS
<1>2. /\ DOMAIN c \subseteq Schemas /\ s \in DOMAIN c
      /\ \A x \in DOMAIN c : Migrated(c, x)
  BY <1>1 DEF GoodContracts
<1>3. \A x, y : Follows(y, x) <=> x \in DOMAIN c /\ c[x].by = y
  BY <1>1 DEF Follows
<1>4. Successors(s) \subseteq DOMAIN c
  <2>1. ASSUME NEW x \in DOMAIN c \cup {s}, NEW y \in Schemas, Follows(y, x)
        PROVE  y \in DOMAIN c
    <3>1. x \in DOMAIN c /\ c[x].by = y /\ y # None
      BY <1>3, <2>1, GovernanceConstants
    <3> QED
      BY <1>2, <3>1 DEF Migrated
  <2>2. DOMAIN c \in SUBSET Schemas
    BY <1>2
  <2> QED
    BY <2>1, <2>2 DEF Successors
<1>5. ASSUME NEW x \in Successors(s) \cup {s}, c[x].by # None
      PROVE  c[x].by \in Successors(s)
  <2>1. PICK y : y = c[x].by
    OBVIOUS
  <2>2. x \in DOMAIN c /\ y \in Schemas
    BY <1>2, <1>4, <1>5, <2>1 DEF Migrated
  <2>3. Follows(y, x)
    BY <1>3, <2>1, <2>2
  <2>4. ASSUME NEW S \in SUBSET Schemas,
               \A u \in S \cup {s}, v \in Schemas : Follows(v, u) => v \in S
        PROVE  y \in S
    <3>1. x \in S \cup {s}
      BY <2>4 DEF Successors
    <3> QED
      BY <2>2, <2>3, <2>4, <3>1
  <2>5. y \in Successors(s)
    BY <2>2, <2>4 DEF Successors
  <2> QED
    BY <2>1, <2>5
<1> QED
  BY <1>1, <1>4, <1>5

\* Whoever ensure_upgrade and apply_migration turn away from a schema finds a
\* contract that takes writes among its successors, when their ids have versions.
THEOREM SuccessorStaysOpen == Spec => []SuccessorOpen
<1>1. ASSUME GovInv, NEW s \in DOMAIN gov.contracts, gov.contracts[s].deprecated,
             \A t \in Successors(s) \cup {s} : Version[t] > 0
      PROVE  \E t \in Successors(s) \cap DOMAIN gov.contracts : ~ gov.contracts[t].deprecated
  <2>1. PICK c, T : c = gov.contracts /\ T = Successors(s)
    OBVIOUS
  <2>2. GoodContracts(c)
    BY <1>1, <2>1 DEF GovInv, Types, Good
  <2>3. /\ DOMAIN c \subseteq Schemas /\ IsFiniteSet(DOMAIN c) /\ s \in DOMAIN c
        /\ \A x \in DOMAIN c : Migrated(c, x)
    BY <1>1, <2>1, <2>2 DEF GoodContracts
  <2>4. T \subseteq DOMAIN c /\ \A x \in T \cup {s} : c[x].by # None => c[x].by \in T
    BY <1>1, <2>1, <2>2, SuccessorsClosed
  <2>5. c[s].by # None
    BY <1>1, <2>1, <2>3 DEF Migrated
  <2>6. T # {}
    BY <2>4, <2>5
  <2>7. IsFiniteSet(T) /\ Cardinality(T) \in Nat /\ T \in SUBSET Schemas
    BY <2>3, <2>4, FS_Subset, FS_CardinalityType
  <2>8. PICK x \in T : \A y \in T : Version[y] <= Version[x]
    <3>1. Version \in [Schemas -> Nat]
      BY GovernanceConstants
    <3> QED
      BY <2>6, <2>7, <3>1, GreatestExists
  <2>9. ~ c[x].deprecated
    <3> SUFFICES ASSUME c[x].deprecated PROVE FALSE
      OBVIOUS
    <3>1. x \in DOMAIN c /\ c[x].by # None /\ EnsureUpgrade(x, c[x].by)
      BY <2>3, <2>4 DEF Migrated
    <3>2. PICK y : y = c[x].by
      OBVIOUS
    <3>3. y \in T /\ EnsureUpgrade(x, y)
      BY <2>4, <3>1, <3>2
    <3>4. Version[x] > 0 /\ Version[y] > 0 /\ Version[x] \in Nat /\ Version[y] \in Nat
      BY <1>1, <2>1, <2>7, <3>3, GovernanceConstants
    <3>5. Version[x] < Version[y]
      BY <3>3, <3>4 DEF EnsureUpgrade
    <3> QED
      BY <2>8, <3>3, <3>4, <3>5
  <2> QED
    BY <2>1, <2>4, <2>9
<1>2. GovInv => SuccessorOpen
  BY <1>1 DEF SuccessorOpen
<1> QED
  BY <1>2, GovInvHolds, PTL

\* A boot takes what the operator verbs have logged: replay_admin_op refuses it
\* only after a frame that came too late for a snapshot, a failed commit that
\* the log kept, two verbs about one schema committed against the order of
\* their times, or a contract of the host that is in no snapshot or that an
\* earlier verb is replayed on.
THEOREM GovernedBootsServe == Spec => []GovernedBootServes
<1>1. Init => GovInv /\ ServeInv
  BY InitGov, InitServe
<1>2. GovInv /\ ServeInv /\ [Next]_vars => (GovInv /\ ServeInv)'
  BY NextGov, NextServe
<1>3. GovInv /\ ServeInv => GovernedBootServes
  BY DEF ServeInv, Serve, Excused, GovernedBootServes
<1> QED
  BY <1>1, <1>2, <1>3, PTL DEF Spec

=============================================================================
