------------------------- MODULE TrinityWriteProofs -------------------------
(***************************************************************************)
(* What TrinityWrite keeps for every set of agents, tasks and payloads,    *)
(* every estimate, every grant and every number of faults: its types, the  *)
(* exclusiveness of the barrier, the bound on the work budgets, what they  *)
(* are charged for, and how often a quarantined item is driven again.      *)
(***************************************************************************)
EXTENDS TrinityWrite, FiniteSetTheorems, TLAPS

-----------------------------------------------------------------------------
(* WorkBudgetCell.                                                         *)

\* charge_post keeps a budget a budget, with or without its reservation.
LEMMA SettledType ==
    ASSUME NEW b \in Budget, NEW u \in Nat, NEW n \in Nat
    PROVE  Settled(b, u, n) \in Budget
<1> DEFINE left == Monus(b.reserved, u)
           cost == IF n <= u THEN n ELSE u
<1>1. b.reserved \in Nat /\ b.spent \in Nat
  BY DEF Budget
<1>2. left \in Nat
  BY <1>1 DEF Monus
<1>3. cost \in Nat
  OBVIOUS
<1>4. b.spent + cost \in Nat
  BY <1>1, <1>3
<1> HIDE DEF left, cost
<1>5. [b EXCEPT !.reserved = left, !.spent = @ + cost] \in Budget
  BY <1>2, <1>4 DEF Budget
<1>6. QED
  BY <1>5 DEF Settled, left, cost

\* charge_pre keeps a budget a budget.
LEMMA ReservedType ==
    ASSUME NEW b \in Budget, NEW u \in Nat
    PROVE  Reserved(b, u) \in Budget
BY DEF Budget, Reserved

Covered(b) == b.reserved + b.spent <= b.granted

\* charge_pre after its check stays within the grant.
LEMMA ReservedCovered ==
    ASSUME NEW b \in Budget, NEW u \in Nat, Covered(b), Available(b) >= u
    PROVE  /\ Covered(Reserved(b, u))
           /\ Reserved(b, u).reserved = b.reserved + u
BY DEF Budget, Reserved, Covered, Available, Monus

\* charge_post of a reservation that is there stays within the grant and takes
\* exactly that reservation.
LEMMA SettledCovered ==
    ASSUME NEW b \in Budget, NEW u \in Nat, NEW n \in Nat, Covered(b),
           b.reserved >= u
    PROVE  /\ Covered(Settled(b, u, n))
           /\ Settled(b, u, n).reserved = b.reserved - u
BY DEF Budget, Settled, Covered, Monus

\* A charge in full (reads and curators' artifacts) stays within the grant and
\* leaves the reservations of others alone.
LEMMA ChargeCovered ==
    ASSUME NEW b \in Budget, NEW u \in Nat, Covered(b), Available(b) >= u
    PROVE  LET c == Settled(Reserved(b, u), u, u) IN
           /\ c \in Budget
           /\ Covered(c)
           /\ c.reserved = b.reserved
<1> DEFINE r == Reserved(b, u)
<1>1. r \in Budget /\ Covered(r) /\ r.reserved = b.reserved + u
  BY ReservedType, ReservedCovered
<1>2. b.reserved \in Nat
  BY DEF Budget
<1>3. r.reserved >= u /\ r.reserved - u = b.reserved
  BY <1>1, <1>2
<1> HIDE DEF r
<1>4. Settled(r, u, u) \in Budget
  BY <1>1, SettledType
<1>5. Covered(Settled(r, u, u)) /\ Settled(r, u, u).reserved = b.reserved
  BY <1>1, <1>3, SettledCovered
<1>6. QED
  BY <1>4, <1>5 DEF r

-----------------------------------------------------------------------------
(* Types.                                                                  *)

Steps == Reserving \cup {"idle", "enter", "chain", "edge", "curate", "reinject", "reject"}

\* The parts of TypeOK about the threads, and about the cells.
ThreadsOK ==
    /\ pc \in [Agents -> Steps]
    /\ job \in [Agents -> Job]
    /\ \A a \in Agents :
          /\ pc[a] \in Reserving \cup {"chain", "edge"} => job[a].payload # Artifact
          /\ job[a].item <= Len(items)
          /\ pc[a] \in {"reinject", "reject"} => job[a].item > 0

CellsOK ==
    /\ items \in Seq(Item)
    /\ drives \in Seq(Nat)
    /\ Len(drives) = Len(items)

\* TypeOK by its parts.
LEMMA TypeParts ==
    TypeOK <=> /\ ThreadsOK
               /\ CellsOK
               /\ guard \in Agents \cup {Free}
               /\ budget \in [Tasks -> Budget]
               /\ saved \in [Tasks -> Budget]
               /\ work \in [Tasks -> Nat]
               /\ requests \in Nat
               /\ faults \in [FaultKinds -> Nat]
BY DEF TypeOK, ThreadsOK, CellsOK, Steps

\* The parts of TypeOK after a step make TypeOK after it.
LEMMA TypePartsNext ==
    ASSUME ThreadsOK', CellsOK', guard' \in Agents \cup {Free},
           budget' \in [Tasks -> Budget], saved' \in [Tasks -> Budget],
           work' \in [Tasks -> Nat], requests' \in Nat,
           faults' \in [FaultKinds -> Nat]
    PROVE  TypeOK'
BY DEF TypeOK, ThreadsOK, CellsOK, Steps

\* What has passed the checks of handle_write or handle_supersede has units.
LEMMA EstimateType ==
    ASSUME ThreadsOK, NEW a \in Agents,
           pc[a] \in Reserving \cup {"chain", "edge"}
    PROVE  Estimate(a) \in Nat /\ job[a].task \in Tasks
<1>1. job[a] \in Job /\ job[a].payload # Artifact
  BY DEF ThreadsOK
<1>2. job[a].payload \in Payloads \/ job[a].payload = Edge
  BY <1>1 DEF Job, Requested
<1>3. QED
  BY <1>1, <1>2, UnitsAreNatural DEF Estimate, Job

\* A thread moves on, with the job it has.
LEMMA MovedThreads ==
    ASSUME ThreadsOK, CellsOK, CellsOK', Len(items') >= Len(items),
           NEW a \in Agents, NEW step \in Steps \ {"reinject", "reject"},
           step \in Reserving \cup {"chain", "edge"} => job[a].payload # Artifact,
           Goto(a, step), UNCHANGED job
    PROVE  ThreadsOK'
<1>1. pc' = [pc EXCEPT ![a] = step]
  BY DEF Goto
<1>2. pc' \in [Agents -> Steps] /\ job' \in [Agents -> Job]
  BY <1>1 DEF ThreadsOK
<1>3. Len(items) \in Nat /\ Len(items') \in Nat
  BY DEF CellsOK
<1>4. ASSUME NEW b \in Agents
      PROVE  /\ pc'[b] \in Reserving \cup {"chain", "edge"} => job'[b].payload # Artifact
             /\ job'[b].item <= Len(items')
             /\ pc'[b] \in {"reinject", "reject"} => job'[b].item > 0
  <2>1. job[b].item \in Nat /\ job[b].item <= Len(items) /\ job'[b] = job[b]
    BY DEF ThreadsOK, Job
  <2>2. pc'[b] = pc[b] \/ (b = a /\ pc'[b] = step)
    BY <1>1 DEF ThreadsOK
  <2>3. QED
    BY <1>3, <2>1, <2>2 DEF ThreadsOK
<1>5. QED
  BY <1>2, <1>4 DEF ThreadsOK

\* A request that is answered leaves the quarantine as it was.
LEMMA FinishType ==
    ASSUME ThreadsOK, CellsOK, NEW a \in Agents, Finish(a), UNCHANGED <<job, items>>
    PROVE  ThreadsOK' /\ CellsOK' /\ guard' \in Agents \cup {Free}
<1>1. job[a].item \in Nat /\ job[a].item <= Len(items)
  BY DEF ThreadsOK, Job
<1>2. job[a].item # 0 => job[a].item \in 1 .. Len(drives)
  BY <1>1 DEF CellsOK
<1>3. drives' \in Seq(Nat) /\ Len(drives') = Len(drives)
  <2>1. CASE job[a].item = 0
    BY <2>1 DEF Finish, CellsOK
  <2>2. CASE job[a].item # 0
    BY <1>2, <2>2 DEF Finish, CellsOK
  <2>3. QED
    BY <2>1, <2>2
<1>4. CellsOK' /\ Len(items') >= Len(items)
  BY <1>3 DEF CellsOK
<1>5. Goto(a, "idle") /\ "idle" \in Steps \ {"reinject", "reject"}
      /\ "idle" \notin Reserving \cup {"chain", "edge"}
  BY DEF Finish, Goto, Steps, Reserving
<1>6. ThreadsOK'
  BY <1>4, <1>5, MovedThreads
<1>7. QED
  BY <1>4, <1>6 DEF Finish

\* A request that leaves an item in the quarantine.
LEMMA FinishAbsorbedType ==
    ASSUME ThreadsOK, CellsOK, NEW a \in Agents, NEW p \in Requested,
           Absorb(p), FinishAbsorbed(a), UNCHANGED job
    PROVE  ThreadsOK' /\ CellsOK' /\ guard' \in Agents \cup {Free}
<1> DEFINE counted == IF job[a].item = 0 THEN drives
                      ELSE [drives EXCEPT ![job[a].item] = @ + 1]
<1>1. job[a].item \in Nat /\ job[a].item <= Len(items)
  BY DEF ThreadsOK, Job
<1>2. job[a].item # 0 => job[a].item \in 1 .. Len(drives)
  BY <1>1 DEF CellsOK
<1>3. counted \in Seq(Nat) /\ Len(counted) = Len(drives)
  <2>1. CASE job[a].item = 0
    BY <2>1 DEF CellsOK
  <2>2. CASE job[a].item # 0
    BY <1>2, <2>2 DEF CellsOK
  <2>3. QED
    BY <2>1, <2>2
<1>4. drives' = Append(counted, 0)
  BY DEF FinishAbsorbed
<1> HIDE DEF counted
<1>5. drives' \in Seq(Nat) /\ Len(drives') = Len(drives) + 1
  BY <1>3, <1>4 DEF CellsOK
<1>6. [payload |-> p, status |-> "pending"] \in Item
  BY DEF Item
<1>7. items' \in Seq(Item) /\ Len(items') = Len(items) + 1
  BY <1>6 DEF Absorb, CellsOK
<1>8. CellsOK' /\ Len(items') >= Len(items)
  BY <1>5, <1>7 DEF CellsOK
<1>9. Goto(a, "idle") /\ "idle" \in Steps \ {"reinject", "reject"}
      /\ "idle" \notin Reserving \cup {"chain", "edge"}
  BY DEF FinishAbsorbed, Goto, Steps, Reserving
<1>10. ThreadsOK'
  BY <1>8, <1>9, MovedThreads
<1>11. QED
  BY <1>8, <1>10 DEF FinishAbsorbed

\* charge_post of a request's reservation keeps the budgets' type.
LEMMA SettleType ==
    ASSUME ThreadsOK, budget \in [Tasks -> Budget], NEW a \in Agents,
           pc[a] \in Reserving, NEW n \in Nat, Settle(a, n)
    PROVE  budget' \in [Tasks -> Budget]
BY EstimateType, SettledType DEF Settle

\* So does the charge of a curator's artifact.
LEMMA GovernedType ==
    ASSUME budget \in [Tasks -> Budget]
    PROVE  Governed \in [Tasks -> Budget]
BY ReservedType, SettledType, TasksKnown, UnitsAreNatural DEF Governed

\* A fault that happens is counted.
LEMMA SpendType ==
    ASSUME faults \in [FaultKinds -> Nat], NEW k \in FaultKinds, Spend(k)
    PROVE  faults' \in [FaultKinds -> Nat]
BY DEF Spend

\* Work that is done is counted.
LEMMA WorkType ==
    ASSUME work \in [Tasks -> Nat], NEW t \in Tasks, NEW n \in Nat,
           work' = [work EXCEPT ![t] = @ + n]
    PROVE  work' \in [Tasks -> Nat]
OBVIOUS

\* The steps at which the barrier is held, and how a request may go on there.
Inside == Reserving \cup {"chain", "edge", "curate"}

\* A step that only moves its thread on, to a step with a payload.
LEMMA GotoType ==
    ASSUME ThreadsOK, CellsOK, NEW a \in Agents,
           pc[a] \in Reserving \cup {"chain", "edge"},
           NEW step \in Inside, Goto(a, step), UNCHANGED <<job, items, drives>>
    PROVE  ThreadsOK' /\ CellsOK'
<1>1. CellsOK' /\ Len(items') >= Len(items)
  BY DEF CellsOK
<1>2. step \in Steps \ {"reinject", "reject"} /\ job[a].payload # Artifact
  BY DEF Inside, Steps, Reserving, ThreadsOK
<1>3. QED
  BY <1>1, <1>2, MovedThreads

\* The arrival of a request, and a read, keep the types.
LEMMA RequestType ==
    ASSUME TypeOK, NEW a \in Agents, Request(a)
    PROVE  TypeOK'
<1> USE TypeParts, TypePartsNext
<1>1. ASSUME NEW step \in {"enter", "reinject", "reject"}, NEW j \in Job,
             Ask(a, step, j), j.item <= Len(items),
             step # "enter" => j.item > 0
      PROVE  TypeOK'
  <2>1. /\ pc' = [pc EXCEPT ![a] = step] /\ job' = [job EXCEPT ![a] = j]
        /\ requests' = requests + 1
        /\ UNCHANGED <<guard, budget, saved, items, drives, work, faults>>
    BY <1>1 DEF Ask, Goto
  <2>2. step \in Steps /\ step \notin Reserving \cup {"chain", "edge"}
    BY DEF Steps, Reserving
  <2>3. ThreadsOK'
    BY <1>1, <2>1, <2>2 DEF ThreadsOK
  <2>4. CellsOK'
    BY <2>1 DEF CellsOK
  <2>5. QED
    BY <2>1, <2>3, <2>4
<1>2. ASSUME NEW t \in Tasks, NEW p \in Payloads \cup {Edge}, AskWrite(a, t, p)
      PROVE  TypeOK'
  <2>1. [task |-> t, payload |-> p, item |-> 0] \in Job
    BY DEF Job, Requested
  <2>2. 0 <= Len(items)
    BY DEF CellsOK
  <2>3. QED
    BY <1>1, <1>2, <2>1, <2>2 DEF AskWrite
<1>3. ASSUME NEW q \in 1 .. Len(items), NEW step \in {"reinject", "reject"},
             AskResolve(a, step, q)
      PROVE  TypeOK'
  <2>1. items[q] \in Item /\ Len(items) \in Nat
    BY DEF CellsOK
  <2>2. [task |-> AdminTask, payload |-> items[q].payload, item |-> q] \in Job
    BY <2>1, TasksKnown DEF Job, Item
  <2>3. QED
    BY <1>1, <1>3, <2>1, <2>2 DEF AskResolve
<1>4. ASSUME NEW t \in Tasks, Read(a, t)
      PROVE  TypeOK'
  <2>1. Settled(Reserved(budget[t], ReadUnits), ReadUnits, ReadUnits) \in Budget
    BY ReservedType, SettledType, UnitsAreNatural
  <2>2. budget' \in [Tasks -> Budget] /\ work' \in [Tasks -> Nat]
    BY <1>4, <2>1, UnitsAreNatural DEF Read
  <2>3. ThreadsOK' /\ CellsOK'
    BY <1>4 DEF Read, ThreadsOK, CellsOK
  <2>4. QED
    BY <1>4, <2>2, <2>3 DEF Read
<1>5. QED
  BY <1>2, <1>3, <1>4 DEF Request

\* reinject and reject keep the quarantine's items.
LEMMA ResolveType ==
    ASSUME ThreadsOK, CellsOK, NEW a \in Agents, pc[a] \in {"reinject", "reject"},
           NEW s \in {"reinjected", "rejected"}, Resolve(job[a].item, s),
           UNCHANGED drives
    PROVE  CellsOK' /\ Len(items') = Len(items)
<1> DEFINE q == job[a].item
<1>1. q \in 1 .. Len(items)
  BY DEF ThreadsOK, CellsOK, Job
<1>2. items[q] \in Item
  BY <1>1 DEF CellsOK
<1>3. [items[q] EXCEPT !.status = s] \in Item
  BY <1>2 DEF Item
<1>4. items' = [items EXCEPT ![q] = [items[q] EXCEPT !.status = s]]
  BY DEF Resolve
<1>5. QED
  BY <1>1, <1>3, <1>4 DEF CellsOK

\* Every step of a request keeps the types.
LEMMA StepType ==
    ASSUME TypeOK, NEW a \in Agents, Step(a)
    PROVE  TypeOK'
<1> USE TypeParts, TypePartsNext
<1>1. CASE Enter(a)
  <2>1. ASSUME job[a].payload # Artifact, guard' = a, UNCHANGED <<job, items, drives>>,
               Goto(a, IF job[a].payload = Edge THEN "edge" ELSE "chain")
        PROVE  ThreadsOK' /\ CellsOK'
    <3>1. CellsOK' /\ Len(items') >= Len(items)
      BY <2>1 DEF CellsOK
    <3>2. QED
      BY <2>1, <3>1, MovedThreads DEF Steps
  <2>2. ThreadsOK' /\ CellsOK' /\ guard' \in Agents \cup {Free}
    BY <1>1, <2>1, FinishType DEF Enter
  <2>3. QED
    BY <1>1, <2>2 DEF Enter
<1>2. CASE ChainRejects(a)
  <2>1. job[a].payload \in Requested
    BY DEF ThreadsOK, Job
  <2>2. ThreadsOK' /\ CellsOK' /\ guard' \in Agents \cup {Free}
    BY <1>2, <2>1, FinishAbsorbedType DEF ChainRejects
  <2>3. QED
    BY <1>2, <2>2 DEF ChainRejects
<1>3. CASE AbsorbFails(a)
  <2>1. ThreadsOK' /\ CellsOK' /\ guard' \in Agents \cup {Free}
    BY <1>3, FinishType DEF AbsorbFails
  <2>2. faults' \in [FaultKinds -> Nat]
    BY <1>3, SpendType DEF AbsorbFails, FaultKinds
  <2>3. QED
    BY <1>3, <2>1, <2>2 DEF AbsorbFails
<1>4. CASE ChainAccepts(a)
  <2>1. budget' \in [Tasks -> Budget]
    BY <1>4, EstimateType, ReservedType DEF ChainAccepts, At
  <2>2. ThreadsOK' /\ CellsOK'
    BY <1>4, GotoType DEF ChainAccepts, At, Inside, Reserving
  <2>3. QED
    BY <1>4, <2>1, <2>2 DEF ChainAccepts
<1>5. CASE GovernAccepts(a)
  <2>1. budget' \in [Tasks -> Budget] /\ work' \in [Tasks -> Nat]
    BY <1>5, GovernedType, TasksKnown, UnitsAreNatural DEF GovernAccepts
  <2>2. PICK step \in {"agreed", "adjudicate", "adjudicated"} : Goto(a, step)
    BY <1>5 DEF GovernAccepts
  <2>3. ThreadsOK' /\ CellsOK'
    BY <1>5, <2>2, GotoType DEF GovernAccepts, Inside, Reserving
  <2>4. QED
    BY <1>5, <2>1, <2>3 DEF GovernAccepts
<1>6. CASE GovernRejects(a)
  <2>1. Artifact \in Requested
    BY DEF Requested
  <2>2. ThreadsOK' /\ CellsOK' /\ guard' \in Agents \cup {Free}
    BY <1>6, <2>1, FinishAbsorbedType DEF GovernRejects
  <2>3. budget' \in [Tasks -> Budget]
    BY <1>6, SettleType DEF GovernRejects, At, Reserving
  <2>4. QED
    BY <1>6, <2>2, <2>3 DEF GovernRejects
<1>7. CASE GovernFails(a)
  <2>1. ThreadsOK' /\ CellsOK' /\ guard' \in Agents \cup {Free}
    BY <1>7, FinishType DEF GovernFails
  <2>2. faults' \in [FaultKinds -> Nat]
    BY <1>7, SpendType DEF GovernFails, FaultKinds
  <2>3. pc[a] \in Reserving
    BY <1>7 DEF GovernFails, Reserving
  <2>4. CASE Settle(a, 0) /\ UNCHANGED work
    BY <1>7, <2>1, <2>2, <2>3, <2>4, SettleType DEF GovernFails
  <2>5. CASE /\ budget' = [Governed EXCEPT ![job[a].task] = Settled(@, Estimate(a), 0)]
             /\ work' = [work EXCEPT ![CuratorTask] = @ + GovernUnits]
    <3>1. Governed \in [Tasks -> Budget] /\ Estimate(a) \in Nat /\ job[a].task \in Tasks
      BY <2>3, GovernedType, EstimateType
    <3>2. budget' \in [Tasks -> Budget]
      BY <2>5, <3>1, SettledType
    <3>3. work' \in [Tasks -> Nat]
      BY <2>5, TasksKnown, UnitsAreNatural
    <3>4. QED
      BY <1>7, <2>1, <2>2, <3>2, <3>3 DEF GovernFails
  <2>6. QED
    BY <1>7, <2>4, <2>5 DEF GovernFails
<1>8. CASE Ledger(a)
  <2>1. PICK step \in {"uphold", "overrule"} : Goto(a, step)
    BY <1>8 DEF Ledger
  <2>2. ThreadsOK' /\ CellsOK'
    BY <1>8, <2>1, GotoType DEF Ledger, At, Inside, Reserving
  <2>3. QED
    BY <1>8, <2>2 DEF Ledger
<1>9. CASE LedgerFails(a)
  <2>1. ThreadsOK' /\ CellsOK' /\ guard' \in Agents \cup {Free}
    BY <1>9, FinishType DEF LedgerFails
  <2>2. faults' \in [FaultKinds -> Nat]
    BY <1>9, SpendType DEF LedgerFails, FaultKinds
  <2>3. QED
    BY <1>9, <2>1, <2>2 DEF LedgerFails
<1>10. CASE Uphold(a)
  <2>1. job[a].payload \in Requested
    BY DEF ThreadsOK, Job
  <2>2. ThreadsOK' /\ CellsOK' /\ guard' \in Agents \cup {Free}
    BY <1>10, <2>1, FinishAbsorbedType DEF Uphold
  <2>3. budget' \in [Tasks -> Budget]
    BY <1>10, SettleType DEF Uphold, At, Reserving
  <2>4. QED
    BY <1>10, <2>2, <2>3 DEF Uphold
<1>11. CASE Unwind(a)
  <2>1. ThreadsOK' /\ CellsOK' /\ guard' \in Agents \cup {Free}
    BY <1>11, FinishType DEF Unwind
  <2>2. faults' \in [FaultKinds -> Nat]
    BY <1>11, SpendType DEF Unwind, FaultKinds
  <2>3. budget' \in [Tasks -> Budget]
    BY <1>11, SettleType DEF Unwind, At, Reserving
  <2>4. QED
    BY <1>11, <2>1, <2>2, <2>3 DEF Unwind
<1>12. CASE Unsupported(a)
  <2>1. ThreadsOK' /\ CellsOK' /\ guard' \in Agents \cup {Free}
    BY <1>12, FinishType DEF Unsupported
  <2>2. budget' \in [Tasks -> Budget]
    BY <1>12, SettleType DEF Unsupported, At, Reserving
  <2>3. QED
    BY <1>12, <2>1, <2>2 DEF Unsupported
<1>13. CASE BadSupersedes(a)
  <2>1. ThreadsOK' /\ CellsOK' /\ guard' \in Agents \cup {Free}
    BY <1>13, FinishType DEF BadSupersedes
  <2>2. QED
    BY <1>13, <2>1 DEF BadSupersedes
<1>14. CASE Store(a)
  <2>1. pc[a] \in Reserving
    BY <1>14 DEF Store, At, Reserving
  <2>2. Estimate(a) \in Nat /\ job[a].task \in Tasks
    BY <2>1, EstimateType
  <2>3. budget' \in [Tasks -> Budget]
    BY <1>14, <2>1, <2>2, SettleType DEF Store
  <2>4. work' \in [Tasks -> Nat]
    BY <1>14, <2>2, WorkType DEF Store
  <2>5. ThreadsOK' /\ CellsOK' /\ guard' \in Agents \cup {Free}
    BY <1>14, <2>1, GotoType, FinishType DEF Store, Inside
  <2>6. QED
    BY <1>14, <2>3, <2>4, <2>5 DEF Store
<1>15. CASE StoreFails(a)
  <2>1. ThreadsOK' /\ CellsOK' /\ guard' \in Agents \cup {Free}
    BY <1>15, FinishType DEF StoreFails
  <2>2. faults' \in [FaultKinds -> Nat]
    BY <1>15, SpendType DEF StoreFails, FaultKinds
  <2>3. budget' \in [Tasks -> Budget]
    BY <1>15, SettleType DEF StoreFails, At, Reserving
  <2>4. QED
    BY <1>15, <2>1, <2>2, <2>3 DEF StoreFails
<1>16. CASE ReserveEdge(a)
  <2>1. Estimate(a) \in Nat /\ job[a].task \in Tasks
    BY <1>16, EstimateType DEF ReserveEdge, At
  <2>2. budget' \in [Tasks -> Budget]
    BY <1>16, <2>1, ReservedType DEF ReserveEdge
  <2>3. ThreadsOK' /\ CellsOK' /\ guard' \in Agents \cup {Free}
    BY <1>16, GotoType, FinishType DEF ReserveEdge, At, Inside, Reserving
  <2>4. QED
    BY <1>16, <2>2, <2>3 DEF ReserveEdge
<1>17. CASE SettleEdge(a)
  <2>1. pc[a] \in Reserving
    BY <1>17 DEF SettleEdge, At, Reserving
  <2>2. Estimate(a) \in Nat /\ job[a].task \in Tasks
    BY <2>1, EstimateType
  <2>3. budget' \in [Tasks -> Budget]
    BY <1>17, <2>1, <2>2, SettleType DEF SettleEdge
  <2>4. work' \in [Tasks -> Nat]
    BY <1>17, <2>2, WorkType DEF SettleEdge
  <2>5. ThreadsOK' /\ CellsOK' /\ guard' \in Agents \cup {Free}
    BY <1>17, FinishType DEF SettleEdge
  <2>6. QED
    BY <1>17, <2>3, <2>4, <2>5 DEF SettleEdge
<1>18. CASE Curate(a)
  <2>1. budget' \in [Tasks -> Budget] /\ work' \in [Tasks -> Nat]
    BY <1>18, GovernedType, TasksKnown, UnitsAreNatural DEF Curate
  <2>2. ThreadsOK' /\ CellsOK'
    BY <1>18 DEF Curate, ThreadsOK, CellsOK
  <2>3. QED
    BY <1>18, <2>1, <2>2 DEF Curate
<1>19. CASE CurateEnds(a)
  <2>1. Artifact \in Requested
    BY DEF Requested
  <2>2. ThreadsOK' /\ CellsOK' /\ guard' \in Agents \cup {Free}
    BY <1>19, <2>1, FinishType, FinishAbsorbedType DEF CurateEnds
  <2>3. faults' \in [FaultKinds -> Nat]
    BY <1>19, SpendType DEF CurateEnds, FaultKinds
  <2>4. QED
    BY <1>19, <2>2, <2>3 DEF CurateEnds
<1>20. CASE Reinject(a)
  <2>1. CellsOK' /\ Len(items') = Len(items)
    BY <1>20, ResolveType DEF Reinject
  <2>2. Len(items') >= Len(items)
    BY <2>1 DEF CellsOK
  <2>3. ThreadsOK'
    BY <1>20, <2>1, <2>2, MovedThreads DEF Reinject, Steps, Reserving
  <2>4. QED
    BY <1>20, <2>1, <2>3 DEF Reinject
<1>21. CASE Reject(a)
  <2>1. CellsOK' /\ Len(items') = Len(items)
    BY <1>21, ResolveType DEF Reject
  <2>2. Len(items') >= Len(items)
    BY <2>1 DEF CellsOK
  <2>3. ThreadsOK'
    BY <1>21, <2>1, <2>2, MovedThreads DEF Reject, Steps, Reserving
  <2>4. QED
    BY <1>21, <2>1, <2>3 DEF Reject
<1>22. CASE ResolveFails(a)
  <2>1. CellsOK' /\ Len(items') >= Len(items)
    BY <1>22 DEF ResolveFails, CellsOK
  <2>2. ThreadsOK'
    BY <1>22, <2>1, MovedThreads DEF ResolveFails, Steps, Reserving
  <2>3. faults' \in [FaultKinds -> Nat]
    BY <1>22, SpendType DEF ResolveFails, FaultKinds
  <2>4. QED
    BY <1>22, <2>1, <2>2, <2>3 DEF ResolveFails
<1>23. QED
  BY <1>1, <1>2, <1>3, <1>4, <1>5, <1>6, <1>7, <1>8, <1>9, <1>10, <1>11, <1>12, <1>13, <1>14, <1>15, <1>16, <1>17, <1>18, <1>19, <1>20, <1>21, <1>22 DEF Step

\* Every variable of the governed write path keeps its type; in particular no
\* curator's artifact gets past the field checks of handle_write.
THEOREM TypeCorrect == Spec => []TypeOK
<1>1. Init => TypeOK
  BY TasksKnown, UnitsAreNatural
     DEF Init, TypeOK, Fresh, Budget, Job, Item, Requested, Reserving, FaultKinds
<1>2. TypeOK /\ [Next]_vars => TypeOK'
  <2>1. SUFFICES ASSUME TypeOK, [Next]_vars PROVE TypeOK'
    OBVIOUS
  <2>2. CASE \E a \in Agents : Request(a) \/ Step(a)
    BY <2>1, <2>2, RequestType, StepType
  <2>3. CASE Snapshot
    BY <2>1, <2>3 DEF Snapshot, TypeOK
  <2>4. CASE Crash
    <3>1. faults' \in [FaultKinds -> Nat]
      BY <2>1, <2>4, SpendType DEF Crash, TypeOK, FaultKinds
    <3>2. QED
      BY <2>1, <2>4, <3>1 DEF Crash, TypeOK, Reserving
  <2>5. CASE UNCHANGED vars
    BY <2>1, <2>5 DEF vars, TypeOK
  <2>6. QED
    BY <2>1, <2>2, <2>3, <2>4, <2>5 DEF Next
<1>3. QED
  BY <1>1, <1>2, PTL DEF Spec

-----------------------------------------------------------------------------
(* The bound on the budgets.  charge_post clamps with saturating_sub, so a *)
(* release that finds too little reserved would let the units it spends    *)
(* pass the grant: the bound needs that each reservation is still there,   *)
(* which needs that nobody else is inside the barrier, which holds after a *)
(* crash only if the budgets of every snapshot are sound too.              *)

Exclusive == \A a \in Agents : pc[a] \in Inside => guard = a

SavedCovered == \A t \in Tasks : Covered(saved[t])

BudgetInv == Exclusive /\ NoOverdraft /\ SavedCovered /\ ReservedCovers

\* Nobody else is inside.
Alone(a) == \A b \in Agents \ {a} : pc[b] \notin Inside

\* Who holds or can take the barrier has nobody else inside.
LEMMA HolderIsAlone ==
    ASSUME Exclusive, NEW a \in Agents, guard \in {a, Free}
    PROVE  Alone(a)
BY MarkersAreNew DEF Exclusive, Alone

\* A thread that leaves, or never was inside, leaves nobody behind.
LEMMA LeaveKeeps ==
    ASSUME pc \in [Agents -> Steps], NEW a \in Agents, Alone(a),
           NEW step \in Steps \ Inside, pc' = [pc EXCEPT ![a] = step]
    PROVE  Exclusive' /\ ReservedCovers'
<1>1. \A b \in Agents : pc'[b] \notin Inside
  BY DEF Alone
<1>2. QED
  BY <1>1 DEF Exclusive, ReservedCovers, Inside

\* The holder moves on inside, with its reservation if it has one.
LEMMA MoveKeeps ==
    ASSUME pc \in [Agents -> Steps], NEW a \in Agents, Alone(a),
           NEW step \in Inside, pc' = [pc EXCEPT ![a] = step], guard' = a,
           UNCHANGED job,
           step \in Reserving => budget'[job[a].task].reserved >= Estimate(a)
    PROVE  Exclusive' /\ ReservedCovers'
<1>1. \A b \in Agents \ {a} : pc'[b] \notin Inside
  BY DEF Alone
<1>2. pc'[a] = step /\ Estimate(a)' = Estimate(a)
  BY DEF Estimate
<1>3. Exclusive'
  BY <1>1 DEF Exclusive
<1>4. ReservedCovers'
  BY <1>1, <1>2 DEF ReservedCovers, Inside
<1>5. QED
  BY <1>3, <1>4

\* NoOverdraft, budget by budget.
LEMMA BoundParts == NoOverdraft <=> \A t \in Tasks : Covered(budget[t])
BY DEF NoOverdraft, Covered

\* NoOverdraft after a step, budget by budget.
LEMMA BoundPartsNext == (\A t \in Tasks : Covered(budget'[t])) => NoOverdraft'
BY DEF NoOverdraft, Covered

\* One task's budget changes, to a sound one.
LEMMA ChangeKeeps ==
    ASSUME budget \in [Tasks -> Budget], NoOverdraft, NEW t \in Tasks, NEW c,
           Covered(c), budget' = [budget EXCEPT ![t] = c]
    PROVE  NoOverdraft'
BY BoundParts, BoundPartsNext

\* charge_post of the reservation the thread has.
LEMMA SettleKeeps ==
    ASSUME TypeOK, NoOverdraft, ReservedCovers, NEW a \in Agents,
           pc[a] \in Reserving, NEW n \in Nat, Settle(a, n)
    PROVE  NoOverdraft'
<1>1. Estimate(a) \in Nat /\ job[a].task \in Tasks
  BY TypeParts, EstimateType
<1>2. budget[job[a].task] \in Budget /\ Covered(budget[job[a].task])
  BY <1>1, TypeParts, BoundParts
<1>3. budget[job[a].task].reserved >= Estimate(a)
  BY DEF ReservedCovers
<1>4. Covered(Settled(budget[job[a].task], Estimate(a), n))
  BY <1>1, <1>2, <1>3, SettledCovered
<1>5. budget' = [budget EXCEPT
                   ![job[a].task] = Settled(budget[job[a].task], Estimate(a), n)]
  BY DEF Settle
<1>6. QED
  BY <1>1, <1>4, <1>5, ChangeKeeps, TypeParts

\* charge_pre within what is available.
LEMMA ReserveKeeps ==
    ASSUME TypeOK, NoOverdraft, NEW a \in Agents, pc[a] \in {"chain", "edge"},
           Available(budget[job[a].task]) >= Estimate(a),
           budget' = [budget EXCEPT ![job[a].task] = Reserved(@, Estimate(a))]
    PROVE  NoOverdraft' /\ budget'[job[a].task].reserved >= Estimate(a)
<1>1. Estimate(a) \in Nat /\ job[a].task \in Tasks
  BY TypeParts, EstimateType
<1> DEFINE b == budget[job[a].task]
<1>2. b \in Budget /\ Covered(b) /\ b.reserved \in Nat
  BY <1>1, TypeParts, BoundParts DEF Budget
<1>3. Covered(Reserved(b, Estimate(a))) /\ Reserved(b, Estimate(a)).reserved = b.reserved + Estimate(a)
  BY <1>1, <1>2, ReservedCovered
<1>4. budget' = [budget EXCEPT ![job[a].task] = Reserved(b, Estimate(a))]
  OBVIOUS
<1>5. NoOverdraft'
  BY <1>1, <1>3, <1>4, ChangeKeeps, TypeParts
<1>6. budget'[job[a].task] = Reserved(b, Estimate(a))
  BY <1>1, <1>4, TypeParts
<1>7. b.reserved + Estimate(a) >= Estimate(a)
  BY <1>1, <1>2
<1> HIDE DEF b
<1>8. QED
  BY <1>3, <1>5, <1>6, <1>7

\* A curator's artifact is charged in full; reservations are as they were.
LEMMA GovernedKeeps ==
    ASSUME TypeOK, NoOverdraft, Available(budget[CuratorTask]) >= GovernUnits
    PROVE  \A t \in Tasks : /\ Covered(Governed[t])
                            /\ Governed[t].reserved = budget[t].reserved
<1> DEFINE c == Settled(Reserved(budget[CuratorTask], GovernUnits), GovernUnits, GovernUnits)
<1>1. CuratorTask \in Tasks /\ GovernUnits \in Nat
  BY TasksKnown, UnitsAreNatural
<1>2. \A t \in Tasks : budget[t] \in Budget /\ Covered(budget[t])
  BY TypeParts, BoundParts
<1>3. Covered(c) /\ c.reserved = budget[CuratorTask].reserved
  BY <1>1, <1>2, ChargeCovered
<1>4. Governed = [budget EXCEPT ![CuratorTask] = c]
  BY DEF Governed
<1> HIDE DEF c
<1>5. QED
  BY <1>1, <1>2, <1>3, <1>4, TypeParts

\* The arrival of a request, and a read, keep the bound and the reservations.
LEMMA RequestKeeps ==
    ASSUME TypeOK, BudgetInv, NEW a \in Agents, Request(a)
    PROVE  BudgetInv'
<1> USE TypeParts DEF BudgetInv
<1>1. ASSUME NEW step \in {"enter", "reinject", "reject"}, NEW j, Ask(a, step, j)
      PROVE  BudgetInv'
  <2>1. /\ pc[a] = "idle" /\ pc' = [pc EXCEPT ![a] = step] /\ job' = [job EXCEPT ![a] = j]
        /\ UNCHANGED <<guard, budget, saved>>
    BY <1>1 DEF Ask, Goto
  <2>2. pc \in [Agents -> Steps] /\ job \in [Agents -> Job]
    BY DEF ThreadsOK
  <2>3. pc'[a] \notin Inside
        /\ \A b \in Agents \ {a} : pc'[b] = pc[b] /\ job'[b] = job[b]
    BY <2>1, <2>2 DEF Inside, Reserving
  <2>4. Exclusive'
    BY <2>1, <2>3 DEF Exclusive
  <2>5. ReservedCovers'
    <3>1. ASSUME NEW b \in Agents, pc'[b] \in Reserving
          PROVE  budget'[job'[b].task].reserved >= Estimate(b)'
      <4>1. b # a /\ pc[b] \in Reserving /\ job'[b] = job[b]
        BY <2>3, <3>1 DEF Inside
      <4>2. Estimate(b)' = Estimate(b)
        BY <4>1 DEF Estimate
      <4>3. QED
        BY <2>1, <4>1, <4>2 DEF ReservedCovers
    <3>2. QED
      BY <3>1 DEF ReservedCovers
  <2>6. NoOverdraft' /\ SavedCovered'
    BY <2>1 DEF NoOverdraft, SavedCovered
  <2>7. QED
    BY <2>4, <2>5, <2>6
<1>2. ASSUME NEW t \in Tasks, Read(a, t)
      PROVE  BudgetInv'
  <2> DEFINE c == Settled(Reserved(budget[t], ReadUnits), ReadUnits, ReadUnits)
  <2>1. budget[t] \in Budget /\ Covered(budget[t]) /\ ReadUnits \in Nat
    BY BoundParts, UnitsAreNatural
  <2>2. Covered(c)
    BY <1>2, <2>1, ChargeCovered DEF Read
  <2>3. budget' = [budget EXCEPT ![t] = c] /\ UNCHANGED <<pc, job, guard, saved>>
    BY <1>2 DEF Read
  <2>4. guard = Free
    BY <1>2 DEF Read
  <2> HIDE DEF c
  <2>5. NoOverdraft'
    BY <2>2, <2>3, ChangeKeeps
  <2>6. \A b \in Agents : pc[b] \notin Inside
    BY <2>4, MarkersAreNew DEF Exclusive
  <2>7. Exclusive' /\ ReservedCovers' /\ SavedCovered'
    BY <2>3, <2>6 DEF Exclusive, ReservedCovers, SavedCovered, Inside
  <2>8. QED
    BY <2>5, <2>7
<1>3. QED
  BY <1>1, <1>2 DEF Request, AskWrite, AskResolve

\* A request that ends: its budget step keeps the bound, and nobody is inside.
LEMMA EndKeeps ==
    ASSUME TypeOK, BudgetInv, NEW a \in Agents, guard = a,
           pc' = [pc EXCEPT ![a] = "idle"], NoOverdraft', UNCHANGED saved
    PROVE  BudgetInv'
<1>1. Alone(a)
  BY HolderIsAlone DEF BudgetInv
<1>2. "idle" \in Steps \ Inside /\ pc \in [Agents -> Steps]
  BY TypeParts DEF Steps, Inside, Reserving, ThreadsOK
<1>3. Exclusive' /\ ReservedCovers'
  BY <1>1, <1>2, LeaveKeeps
<1>4. QED
  BY <1>3 DEF BudgetInv, SavedCovered

\* The holder moves on inside.
LEMMA InnerKeeps ==
    ASSUME TypeOK, BudgetInv, NEW a \in Agents, guard = a, UNCHANGED <<job, guard, saved>>,
           NEW step \in Inside, Goto(a, step), NoOverdraft',
           step \in Reserving => budget'[job[a].task].reserved >= Estimate(a)
    PROVE  BudgetInv'
<1>1. Alone(a)
  BY HolderIsAlone DEF BudgetInv
<1>2. pc' = [pc EXCEPT ![a] = step] /\ pc \in [Agents -> Steps] /\ guard' = a
  BY TypeParts DEF Goto, ThreadsOK
<1>3. Exclusive' /\ ReservedCovers'
  BY <1>1, <1>2, MoveKeeps
<1>4. QED
  BY <1>3 DEF BudgetInv, SavedCovered

\* So does every step of a request, the returns that do not settle included.
LEMMA StepKeeps ==
    ASSUME TypeOK, BudgetInv, NEW a \in Agents, Step(a)
    PROVE  BudgetInv'
<1>0. /\ UNCHANGED budget => NoOverdraft'
      /\ pc[a] \in Reserving => budget[job[a].task].reserved >= Estimate(a)
      /\ NoOverdraft
  BY DEF BudgetInv, NoOverdraft, ReservedCovers
<1>1. CASE Enter(a)
  <2>1. Alone(a) /\ pc \in [Agents -> Steps]
    BY <1>1, HolderIsAlone, TypeParts DEF Enter, BudgetInv, ThreadsOK
  <2>2. PICK step \in {"chain", "edge", "idle"} :
             /\ pc' = [pc EXCEPT ![a] = step]
             /\ step # "idle" => guard' = a
    BY <1>1 DEF Enter, Goto, Finish
  <2>3. step = "idle" => Exclusive' /\ ReservedCovers'
    BY <1>1, <2>1, <2>2, LeaveKeeps DEF Enter, Steps, Inside, Reserving
  <2>4. step # "idle" => Exclusive' /\ ReservedCovers'
    BY <1>1, <2>1, <2>2, MoveKeeps DEF Enter, Inside, Reserving
  <2>5. QED
    BY <1>0, <1>1, <2>3, <2>4 DEF Enter, BudgetInv, SavedCovered
<1>2. CASE ChainRejects(a)
  BY <1>0, <1>2, EndKeeps DEF ChainRejects, At, FinishAbsorbed
<1>3. CASE AbsorbFails(a)
  BY <1>0, <1>3, EndKeeps DEF AbsorbFails, At, Finish
<1>4. CASE ChainAccepts(a)
  <2>1. NoOverdraft' /\ budget'[job[a].task].reserved >= Estimate(a)
    BY <1>0, <1>4, ReserveKeeps DEF ChainAccepts, At
  <2>2. QED
    BY <1>4, <2>1, InnerKeeps DEF ChainAccepts, At, Inside, Reserving
<1>5. CASE GovernAccepts(a)
  <2>1. \A t \in Tasks : Covered(budget'[t]) /\ budget'[t].reserved = budget[t].reserved
    BY <1>0, <1>5, GovernedKeeps DEF GovernAccepts
  <2>2. pc[a] \in Reserving /\ job[a].task \in Tasks
    BY <1>5, TypeParts, EstimateType DEF GovernAccepts, Reserving
  <2>3. NoOverdraft' /\ budget'[job[a].task].reserved >= Estimate(a)
    BY <1>0, <2>1, <2>2, BoundPartsNext
  <2>4. PICK step \in {"agreed", "adjudicate", "adjudicated"} : Goto(a, step)
    BY <1>5 DEF GovernAccepts
  <2>5. QED
    BY <1>5, <2>3, <2>4, InnerKeeps DEF GovernAccepts, Inside, Reserving
<1>6. CASE GovernRejects(a)
  <2>1. NoOverdraft'
    BY <1>6, SettleKeeps DEF GovernRejects, At, BudgetInv, Reserving
  <2>2. QED
    BY <1>6, <2>1, EndKeeps DEF GovernRejects, At, FinishAbsorbed
<1>7. CASE GovernFails(a)
  <2>1. pc[a] \in Reserving
    BY <1>7 DEF GovernFails, Reserving
  <2>2. CASE Settle(a, 0)
    BY <1>7, <2>1, <2>2, SettleKeeps, EndKeeps DEF GovernFails, Finish, BudgetInv
  <2>3. CASE /\ Available(budget[CuratorTask]) >= GovernUnits
             /\ budget' = [Governed EXCEPT ![job[a].task] = Settled(@, Estimate(a), 0)]
    <3>1. Estimate(a) \in Nat /\ job[a].task \in Tasks
      BY <2>1, TypeParts, EstimateType
    <3> DEFINE b == Governed[job[a].task]
               c == Settled(b, Estimate(a), 0)
    <3>2. Governed \in [Tasks -> Budget] /\ \A t \in Tasks : Covered(Governed[t])
      BY <1>0, <2>3, GovernedType, GovernedKeeps, TypeParts
    <3>3. b \in Budget /\ Covered(b) /\ b.reserved >= Estimate(a)
      BY <1>0, <2>1, <2>3, <3>1, <3>2, GovernedKeeps
    <3> HIDE DEF b
    <3>4. Covered(c)
      BY <3>1, <3>3, SettledCovered
    <3> HIDE DEF c
    <3>5. budget' = [Governed EXCEPT ![job[a].task] = c]
      BY <2>3 DEF b, c
    <3>6. NoOverdraft'
      BY <3>1, <3>2, <3>4, <3>5, BoundPartsNext
    <3>7. QED
      BY <1>7, <3>6, EndKeeps DEF GovernFails, Finish
  <2>4. QED
    BY <1>7, <2>2, <2>3 DEF GovernFails
<1>8. CASE Ledger(a)
  <2>1. PICK step \in {"uphold", "overrule"} : Goto(a, step)
    BY <1>8 DEF Ledger
  <2>2. QED
    BY <1>0, <1>8, <2>1, InnerKeeps DEF Ledger, At, Inside, Reserving
<1>9. CASE LedgerFails(a)
  BY <1>0, <1>9, EndKeeps DEF LedgerFails, At, Finish
<1>10. CASE Uphold(a)
  <2>1. NoOverdraft'
    BY <1>10, SettleKeeps DEF Uphold, At, BudgetInv, Reserving
  <2>2. QED
    BY <1>10, <2>1, EndKeeps DEF Uphold, At, FinishAbsorbed
<1>11. CASE Unwind(a)
  <2>1. NoOverdraft'
    BY <1>11, SettleKeeps DEF Unwind, At, BudgetInv, Reserving
  <2>2. QED
    BY <1>11, <2>1, EndKeeps DEF Unwind, At, Finish
<1>12. CASE Unsupported(a)
  <2>1. NoOverdraft'
    BY <1>12, SettleKeeps DEF Unsupported, At, BudgetInv, Reserving
  <2>2. QED
    BY <1>12, <2>1, EndKeeps DEF Unsupported, At, Finish
<1>13. CASE BadSupersedes(a)
  BY <1>0, <1>13, EndKeeps DEF BadSupersedes, At, Finish
<1>14. CASE Store(a)
  <2>1. pc[a] \in Reserving /\ Estimate(a) \in Nat
    BY <1>14, TypeParts, EstimateType DEF Store, At, Reserving
  <2>2. NoOverdraft'
    BY <1>14, <2>1, SettleKeeps DEF Store, BudgetInv
  <2>3. CASE Goto(a, "curate") /\ UNCHANGED guard
    BY <1>14, <2>2, <2>3, InnerKeeps DEF Store, At, Inside, Reserving
  <2>4. CASE Finish(a)
    BY <1>14, <2>2, <2>4, EndKeeps DEF Store, At, Finish
  <2>5. QED
    BY <1>14, <2>3, <2>4 DEF Store
<1>15. CASE StoreFails(a)
  <2>1. NoOverdraft'
    BY <1>15, SettleKeeps DEF StoreFails, At, BudgetInv, Reserving
  <2>2. QED
    BY <1>15, <2>1, EndKeeps DEF StoreFails, At, Finish
<1>16. CASE ReserveEdge(a)
  <2>1. CASE UNCHANGED budget /\ Finish(a)
    BY <1>0, <1>16, <2>1, EndKeeps DEF ReserveEdge, At, Finish
  <2>2. CASE /\ Available(budget[job[a].task]) >= Estimate(a)
             /\ budget' = [budget EXCEPT ![job[a].task] = Reserved(@, Estimate(a))]
             /\ Goto(a, "stored_edge")
             /\ UNCHANGED guard
    <3>1. NoOverdraft' /\ budget'[job[a].task].reserved >= Estimate(a)
      BY <1>0, <1>16, <2>2, ReserveKeeps DEF ReserveEdge, At
    <3>2. QED
      BY <1>16, <2>2, <3>1, InnerKeeps DEF ReserveEdge, At, Inside, Reserving
  <2>3. QED
    BY <1>16, <2>1, <2>2 DEF ReserveEdge
<1>17. CASE SettleEdge(a)
  <2>1. pc[a] \in Reserving /\ Estimate(a) \in Nat
    BY <1>17, TypeParts, EstimateType DEF SettleEdge, At, Reserving
  <2>2. NoOverdraft'
    BY <1>17, <2>1, SettleKeeps DEF SettleEdge, BudgetInv
  <2>3. QED
    BY <1>17, <2>2, EndKeeps DEF SettleEdge, At, Finish
<1>18. CASE Curate(a)
  <2>1. NoOverdraft'
    BY <1>0, <1>18, GovernedKeeps, BoundPartsNext DEF Curate
  <2>2. pc' = [pc EXCEPT ![a] = "curate"]
    BY <1>18, TypeParts DEF Curate, At, ThreadsOK
  <2>3. QED
    BY <1>18, <2>1, <2>2, InnerKeeps DEF Curate, At, Goto, Inside, Reserving
<1>19. CASE CurateEnds(a)
  BY <1>0, <1>19, EndKeeps DEF CurateEnds, At, Finish, FinishAbsorbed
<1>20. CASE Reinject(a)
  <2>1. Alone(a) /\ pc \in [Agents -> Steps]
    BY <1>20, HolderIsAlone, TypeParts DEF Reinject, BudgetInv, ThreadsOK
  <2>2. Exclusive' /\ ReservedCovers'
    BY <1>20, <2>1, LeaveKeeps DEF Reinject, Goto, Steps, Inside, Reserving
  <2>3. QED
    BY <1>0, <1>20, <2>2 DEF Reinject, BudgetInv, SavedCovered
<1>21. CASE Reject(a)
  <2>1. Alone(a) /\ pc \in [Agents -> Steps]
    BY <1>21, HolderIsAlone, TypeParts DEF Reject, BudgetInv, ThreadsOK
  <2>2. Exclusive' /\ ReservedCovers'
    BY <1>21, <2>1, LeaveKeeps DEF Reject, Goto, Steps, Inside, Reserving
  <2>3. QED
    BY <1>0, <1>21, <2>2 DEF Reject, BudgetInv, SavedCovered
<1>22. CASE ResolveFails(a)
  <2>1. Alone(a) /\ pc \in [Agents -> Steps]
    BY <1>22, HolderIsAlone, TypeParts DEF ResolveFails, BudgetInv, ThreadsOK
  <2>2. Exclusive' /\ ReservedCovers'
    BY <1>22, <2>1, LeaveKeeps DEF ResolveFails, Goto, Steps, Inside, Reserving
  <2>3. QED
    BY <1>0, <1>22, <2>2 DEF ResolveFails, BudgetInv, SavedCovered
<1>23. QED
  BY <1>1, <1>2, <1>3, <1>4, <1>5, <1>6, <1>7, <1>8, <1>9, <1>10, <1>11, <1>12, <1>13, <1>14, <1>15, <1>16, <1>17, <1>18, <1>19, <1>20, <1>21, <1>22 DEF Step

\* The invariant the bound rests on is inductive relative to TypeOK.
LEMMA BudgetInvariant == Spec => []BudgetInv
<1>1. Init => BudgetInv
  <2>1. SUFFICES ASSUME Init PROVE BudgetInv
    OBVIOUS
  <2>2. \A t \in Tasks : Covered(Fresh(t))
    BY UnitsAreNatural DEF Covered, Fresh
  <2>3. NoOverdraft /\ SavedCovered
    BY <2>1, <2>2, BoundParts DEF Init, SavedCovered
  <2>4. Exclusive /\ ReservedCovers
    BY <2>1 DEF Init, Exclusive, ReservedCovers, Inside, Reserving
  <2>5. QED
    BY <2>3, <2>4 DEF BudgetInv
<1>2. TypeOK /\ BudgetInv /\ [Next]_vars => BudgetInv'
  <2>1. SUFFICES ASSUME TypeOK, BudgetInv, [Next]_vars PROVE BudgetInv'
    OBVIOUS
  <2>2. CASE \E a \in Agents : Request(a) \/ Step(a)
    BY <2>1, <2>2, RequestKeeps, StepKeeps
  <2>3. CASE Snapshot
    <3>1. SavedCovered'
      BY <2>1, <2>3, BoundParts DEF Snapshot, SavedCovered, BudgetInv
    <3>2. Exclusive' /\ NoOverdraft' /\ ReservedCovers'
      BY <2>1, <2>3
         DEF Snapshot, BudgetInv, Exclusive, NoOverdraft, ReservedCovers, Estimate
    <3>3. QED
      BY <3>1, <3>2 DEF BudgetInv
  <2>4. CASE Crash
    <3>1. NoOverdraft' /\ SavedCovered'
      BY <2>1, <2>4, BoundPartsNext DEF Crash, BudgetInv, SavedCovered
    <3>2. \A a \in Agents : pc'[a] \notin Inside
      BY <2>4 DEF Crash, Inside, Reserving
    <3>3. Exclusive' /\ ReservedCovers'
      BY <3>2 DEF Exclusive, ReservedCovers, Inside
    <3>4. QED
      BY <3>1, <3>3 DEF BudgetInv
  <2>5. CASE UNCHANGED vars
    BY <2>1, <2>5 DEF vars, BudgetInv, Exclusive, NoOverdraft, SavedCovered,
                      ReservedCovers, Estimate
  <2>6. QED
    BY <2>1, <2>2, <2>3, <2>4, <2>5 DEF Next
<1>3. QED
  BY <1>1, <1>2, TypeCorrect, PTL DEF Spec

\* No task ever has more reserved and spent than it was granted, for any
\* estimates and grants, however requests end and whatever a crash restores
\* (charge_pre and charge_post).
THEOREM BudgetsHold == Spec => []NoOverdraft
<1>1. BudgetInv => NoOverdraft
  BY DEF BudgetInv
<1>2. QED
  BY <1>1, BudgetInvariant, PTL

\* Whoever is between charge_pre and charge_post finds its reservation there:
\* nobody else has released it.
THEOREM ReservationsAreHeld == Spec => []ReservedCovers
<1>1. BudgetInv => ReservedCovers
  BY DEF BudgetInv
<1>2. QED
  BY <1>1, BudgetInvariant, PTL

-----------------------------------------------------------------------------
(* What is charged.  A crash brings back the budgets of the last snapshot, *)
(* so those too are charged for no more than was done by then.             *)

LEMMA SettledSpent ==
    ASSUME NEW b \in Budget, NEW u \in Nat
    PROVE  /\ Settled(b, u, 0).spent = b.spent
           /\ Settled(b, u, u).spent = b.spent + u
           /\ Reserved(b, u).spent = b.spent
           /\ Settled(Reserved(b, u), u, u).spent = b.spent + u
<1> DEFINE r == Reserved(b, u)
<1>1. b.spent \in Nat
  BY DEF Budget
<1>2. Settled(b, u, 0).spent = b.spent /\ Settled(b, u, u).spent = b.spent + u
  BY <1>1 DEF Settled, Budget
<1>3. r \in Budget /\ r.spent = b.spent
  BY <1>1, ReservedType DEF Reserved, Budget
<1> HIDE DEF r
<1>4. Settled(r, u, u).spent = r.spent + u
  BY <1>3 DEF Settled, Budget
<1> QED
  BY <1>2, <1>3, <1>4 DEF r

SpentInv ==
    \A t \in Tasks :
        /\ budget[t].spent <= work[t]
        /\ saved[t].spent <= work[t]
        /\ faults["crash"] = 0 => budget[t].spent = work[t]

\* A step in which nothing is charged, and one in which task t is charged the
\* n units of what it did.
Uncharged == /\ work' = work
             /\ \A t \in Tasks : budget'[t].spent = budget[t].spent

Charged(t, n) ==
    /\ work' = [work EXCEPT ![t] = @ + n]
    /\ \A s \in Tasks : budget'[s].spent = IF s = t THEN budget[s].spent + n
                                             ELSE budget[s].spent

Accounted == Uncharged \/ \E t \in Tasks, n \in Nat : Charged(t, n)

LEMMA SpentTypes ==
    ASSUME TypeOK
    PROVE  /\ work \in [Tasks -> Nat]
           /\ budget \in [Tasks -> Budget]
           /\ \A t \in Tasks : /\ work[t] \in Nat
                                /\ budget[t].spent \in Nat /\ saved[t].spent \in Nat
<1>1. \A b \in Budget : b.spent \in Nat
  BY DEF Budget
<1> QED
  BY <1>1, TypeParts

LEMMA AccountedKeeps ==
    ASSUME TypeOK, SpentInv, Accounted, saved' \in {saved, budget},
           saved' # saved => Uncharged,
           faults'["crash"] = faults["crash"]
    PROVE  SpentInv'
<1>0. /\ work \in [Tasks -> Nat]
      /\ \A t \in Tasks : /\ work[t] \in Nat
                           /\ budget[t].spent \in Nat /\ saved[t].spent \in Nat
  BY SpentTypes
<1>1. CASE Uncharged
  BY <1>0, <1>1 DEF SpentInv, Uncharged
<1>2. ASSUME NEW t \in Tasks, NEW n \in Nat, Charged(t, n), saved' = saved PROVE SpentInv'
  <2>1. work'[t] = work[t] + n /\ \A s \in Tasks \ {t} : work'[s] = work[s]
    BY <1>0, <1>2 DEF Charged
  <2>2. /\ budget'[t].spent = budget[t].spent + n
        /\ \A s \in Tasks \ {t} : budget'[s].spent = budget[s].spent
    BY <1>2 DEF Charged
  <2>3. ASSUME NEW s \in Tasks
        PROVE  /\ budget'[s].spent <= work'[s]
               /\ saved'[s].spent <= work'[s]
               /\ faults'["crash"] = 0 => budget'[s].spent = work'[s]
    <3>1. CASE s = t
      BY <1>0, <1>2, <2>1, <2>2, <3>1 DEF SpentInv
    <3>2. CASE s # t
      BY <1>0, <1>2, <2>1, <2>2, <3>2 DEF SpentInv
    <3> QED
      BY <3>1, <3>2
  <2> QED
    BY <2>3 DEF SpentInv
<1> QED
  BY <1>1, <1>2 DEF Accounted

\* charge_post of a reservation with nothing done, and with all of it done.
LEMMA SettleAccounted ==
    ASSUME TypeOK, NEW a \in Agents, pc[a] \in Reserving
    PROVE  /\ Settle(a, 0) /\ work' = work => Accounted
           /\ /\ Settle(a, Estimate(a))
              /\ work' = [work EXCEPT ![job[a].task] = @ + Estimate(a)]
              => Accounted
<1>1. Estimate(a) \in Nat /\ job[a].task \in Tasks
  BY TypeParts, EstimateType
<1> DEFINE t == job[a].task
           b == budget[t]
<1>2. budget \in [Tasks -> Budget] /\ b \in Budget
  BY <1>1, SpentTypes
<1>3. ASSUME Settle(a, 0), work' = work PROVE Accounted
  <2>1. budget' = [budget EXCEPT ![t] = Settled(b, Estimate(a), 0)]
    BY <1>3 DEF Settle
  <2>2. Settled(b, Estimate(a), 0).spent = b.spent
    BY <1>1, <1>2, SettledSpent
  <2> QED
    BY <1>1, <1>2, <1>3, <2>1, <2>2 DEF Accounted, Uncharged
<1>4. ASSUME Settle(a, Estimate(a)), work' = [work EXCEPT ![t] = @ + Estimate(a)]
      PROVE  Accounted
  <2>1. budget' = [budget EXCEPT ![t] = Settled(b, Estimate(a), Estimate(a))]
    BY <1>4 DEF Settle
  <2>2. Settled(b, Estimate(a), Estimate(a)).spent = b.spent + Estimate(a)
    BY <1>1, <1>2, SettledSpent
  <2>3. Charged(t, Estimate(a))
    BY <1>1, <1>2, <1>4, <2>1, <2>2 DEF Charged
  <2> QED
    BY <1>1, <2>3 DEF Accounted
<1> QED
  BY <1>3, <1>4

\* charge_pre, and the charge of a curator's artifact.
LEMMA GovernedSpent ==
    ASSUME TypeOK
    PROVE  /\ Governed \in [Tasks -> Budget]
           /\ \A s \in Tasks : Governed[s].spent = IF s = CuratorTask
                                                   THEN budget[s].spent + GovernUnits
                                                   ELSE budget[s].spent
<1> DEFINE c == Settled(Reserved(budget[CuratorTask], GovernUnits), GovernUnits, GovernUnits)
<1>1. CuratorTask \in Tasks /\ GovernUnits \in Nat /\ budget \in [Tasks -> Budget]
  BY TasksKnown, UnitsAreNatural, TypeParts
<1>2. c.spent = budget[CuratorTask].spent + GovernUnits
  BY <1>1, SettledSpent
<1>3. Governed = [budget EXCEPT ![CuratorTask] = c]
  BY DEF Governed
<1> HIDE DEF c
<1> QED
  BY <1>1, <1>2, <1>3, GovernedType

LEMMA ReserveAccounted ==
    ASSUME TypeOK, NEW a \in Agents, pc[a] \in {"chain", "edge"}, work' = work,
           budget' = [budget EXCEPT ![job[a].task] = Reserved(@, Estimate(a))]
    PROVE  Accounted
<1>1. Estimate(a) \in Nat /\ job[a].task \in Tasks /\ budget \in [Tasks -> Budget]
  BY TypeParts, EstimateType
<1>2. Reserved(budget[job[a].task], Estimate(a)).spent = budget[job[a].task].spent
  BY <1>1, SettledSpent
<1> QED
  BY <1>1, <1>2 DEF Accounted, Uncharged

\* Every step of a request charges for what it does and for nothing else.
LEMMA StepAccounted ==
    ASSUME TypeOK, NEW a \in Agents, Step(a)
    PROVE  Accounted /\ saved' = saved /\ faults'["crash"] = faults["crash"]
<1>0. /\ faults' \in [FaultKinds -> Nat] /\ faults \in [FaultKinds -> Nat]
      /\ Spend("wal") => faults'["crash"] = faults["crash"]
      /\ CuratorTask \in Tasks /\ GovernUnits \in Nat
  BY StepType, TypeParts, TasksKnown, UnitsAreNatural DEF TypeOK, Spend, FaultKinds
<1>1. saved' = saved /\ faults'["crash"] = faults["crash"]
  BY <1>0 DEF Step, Enter, ChainRejects, AbsorbFails, ChainAccepts, GovernAccepts,
     GovernRejects, GovernFails, Ledger, LedgerFails, Uphold, Unwind, Unsupported,
     BadSupersedes, Store, StoreFails, ReserveEdge, SettleEdge, Curate, CurateEnds,
     Reinject, Reject, ResolveFails
<1>2. ASSUME work' = work, budget' = budget PROVE Accounted
  BY <1>2 DEF Accounted, Uncharged
<1>3. CASE \/ Enter(a) \/ ChainRejects(a) \/ AbsorbFails(a) \/ Ledger(a) \/ LedgerFails(a)
           \/ BadSupersedes(a) \/ CurateEnds(a) \/ Reinject(a) \/ Reject(a)
           \/ ResolveFails(a)
  <2>1. work' = work /\ budget' = budget
    BY <1>3 DEF Enter, ChainRejects, AbsorbFails, Ledger, LedgerFails, BadSupersedes,
       CurateEnds, Reinject, Reject, ResolveFails
  <2> QED
    BY <1>1, <1>2, <2>1
<1>4. CASE ChainAccepts(a)
  BY <1>1, <1>4, ReserveAccounted DEF ChainAccepts, At
<1>5. CASE GovernAccepts(a) \/ Curate(a)
  <2>1. /\ budget' = Governed
        /\ work' = [work EXCEPT ![CuratorTask] = @ + GovernUnits]
    BY <1>5 DEF GovernAccepts, Curate
  <2>2. Charged(CuratorTask, GovernUnits)
    BY <2>1, GovernedSpent DEF Charged
  <2> QED
    BY <1>0, <1>1, <2>2 DEF Accounted
<1>6. CASE GovernRejects(a) \/ Uphold(a) \/ Unwind(a) \/ Unsupported(a) \/ StoreFails(a)
  <2>1. Settle(a, 0) /\ work' = work /\ pc[a] \in Reserving
    BY <1>6 DEF GovernRejects, Uphold, Unwind, Unsupported, StoreFails, At, Reserving
  <2> QED
    BY <1>1, <2>1, SettleAccounted
<1>7. CASE GovernFails(a)
  <2>1. pc[a] \in Reserving
    BY <1>7 DEF GovernFails, Reserving
  <2>2. CASE Settle(a, 0) /\ work' = work
    BY <1>1, <2>1, <2>2, SettleAccounted
  <2>3. CASE /\ budget' = [Governed EXCEPT ![job[a].task] = Settled(@, Estimate(a), 0)]
             /\ work' = [work EXCEPT ![CuratorTask] = @ + GovernUnits]
    <3> DEFINE t == job[a].task
               c == Settled(Governed[t], Estimate(a), 0)
    <3>1. Estimate(a) \in Nat /\ t \in Tasks
      BY <2>1, TypeParts, EstimateType
    <3>2. Governed \in [Tasks -> Budget]
      BY GovernedSpent
    <3>3. c.spent = Governed[t].spent
      BY <3>1, <3>2, SettledSpent
    <3>4. budget' = [Governed EXCEPT ![t] = c]
      BY <2>3
    <3> HIDE DEF c, t
    <3>5. \A s \in Tasks : budget'[s].spent = Governed[s].spent
      BY <3>1, <3>2, <3>3, <3>4
    <3>6. Charged(CuratorTask, GovernUnits)
      BY <2>3, <3>5, GovernedSpent DEF Charged
    <3> QED
      BY <1>0, <1>1, <3>6 DEF Accounted
  <2> QED
    BY <1>7, <2>2, <2>3 DEF GovernFails
<1>8. CASE Store(a)
  BY <1>1, <1>8, SettleAccounted DEF Store, At, Reserving
<1>9. CASE ReserveEdge(a)
  <2>1. CASE budget' = budget
    BY <1>1, <1>2, <1>9, <2>1 DEF ReserveEdge
  <2>2. CASE budget' = [budget EXCEPT ![job[a].task] = Reserved(@, Estimate(a))]
    BY <1>1, <1>9, <2>2, ReserveAccounted DEF ReserveEdge, At
  <2> QED
    BY <1>9, <2>1, <2>2 DEF ReserveEdge
<1>10. CASE SettleEdge(a)
  BY <1>1, <1>10, SettleAccounted DEF SettleEdge, At, Reserving
<1> QED
  BY <1>3, <1>4, <1>5, <1>6, <1>7, <1>8, <1>9, <1>10 DEF Step

\* So does the arrival of a request, or a read.
LEMMA RequestAccounted ==
    ASSUME TypeOK, NEW a \in Agents, Request(a)
    PROVE  Accounted /\ saved' = saved /\ faults'["crash"] = faults["crash"]
<1>1. ASSUME NEW step, NEW j, Ask(a, step, j)
      PROVE  Accounted /\ saved' = saved /\ faults'["crash"] = faults["crash"]
  BY <1>1 DEF Ask, Accounted, Uncharged
<1>2. ASSUME NEW t \in Tasks, Read(a, t)
      PROVE  Accounted /\ saved' = saved /\ faults'["crash"] = faults["crash"]
  <2> DEFINE c == Settled(Reserved(budget[t], ReadUnits), ReadUnits, ReadUnits)
  <2>1. budget \in [Tasks -> Budget] /\ ReadUnits \in Nat
    BY TypeParts, UnitsAreNatural
  <2>2. c.spent = budget[t].spent + ReadUnits
    BY <2>1, SettledSpent
  <2>3. budget' = [budget EXCEPT ![t] = c] /\ work' = [work EXCEPT ![t] = @ + ReadUnits]
    BY <1>2 DEF Read
  <2> HIDE DEF c
  <2>4. Charged(t, ReadUnits)
    BY <2>1, <2>2, <2>3 DEF Charged
  <2> QED
    BY <1>2, <2>1, <2>4 DEF Read, Accounted
<1> QED
  BY <1>1, <1>2 DEF Request, AskWrite, AskResolve

\* A task is charged exactly for what was done for it: every return of the
\* write path that refuses, quarantines, overrules or fails costs nothing, and
\* a crash can only give units back (charge_post in handle_write,
\* handle_gate_dispute and handle_supersede).
THEOREM ChargedForWork == Spec => []SpentIsWork
<1>1. Init => SpentInv
  BY UnitsAreNatural DEF Init, SpentInv, Fresh
<1>2. TypeOK /\ SpentInv /\ [Next]_vars => SpentInv'
  <2> SUFFICES ASSUME TypeOK, SpentInv, [Next]_vars PROVE SpentInv'
    OBVIOUS
  <2>1. CASE \E a \in Agents : Request(a) \/ Step(a)
    <3>1. Accounted /\ saved' = saved /\ faults'["crash"] = faults["crash"]
      BY <2>1, RequestAccounted, StepAccounted
    <3> QED
      BY <3>1, AccountedKeeps
  <2>2. CASE Snapshot \/ UNCHANGED vars
    <3>1. Uncharged /\ saved' \in {saved, budget} /\ faults' = faults
      BY <2>2 DEF Snapshot, vars, Uncharged
    <3> QED
      BY <3>1, AccountedKeeps DEF Accounted
  <2>3. CASE Crash
    <3>1. /\ faults \in [FaultKinds -> Nat]
          /\ faults' = [faults EXCEPT !["crash"] = @ + 1]
          /\ budget' = saved /\ saved' = saved /\ work' = work
      BY <2>3, TypeParts DEF Crash, Spend
    <3>2. faults'["crash"] # 0
      BY <3>1 DEF FaultKinds
    <3> QED
      BY <3>1, <3>2 DEF SpentInv
  <2> QED
    BY <2>1, <2>2, <2>3 DEF Next
<1>3. SpentInv => SpentIsWork
  BY DEF SpentInv, SpentIsWork
<1> QED
  BY <1>1, <1>2, <1>3, TypeCorrect, PTL DEF Spec

-----------------------------------------------------------------------------
(* The quarantine and its operators.                                       *)

\* The request of a drives item q again.
Driving(a, q) == job[a].item = q /\ pc[a] \notin {"idle", "reinject", "reject"}

\* Only a reinjected item is ever driven, by one thread at a time and not
\* after it has been answered; without a crash one that is marked has been
\* driven or is being driven.
DrivesInv ==
    \A q \in 1 .. Len(items) :
        /\ drives[q] \in {0, 1}
        /\ drives[q] = 1 => items[q].status = "reinjected"
        /\ \A a, b \in Agents : Driving(a, q) /\ Driving(b, q) => a = b
        /\ \A a \in Agents : Driving(a, q) => /\ items[q].status = "reinjected"
                                              /\ drives[q] = 0
        /\ faults["crash"] = 0 /\ items[q].status = "reinjected" /\ drives[q] = 0
             => \E a \in Agents : Driving(a, q)

\* How often item q was, or is being, driven.
LEMMA DrivenCount ==
    ASSUME DrivesInv, NEW q \in 1 .. Len(items)
    PROVE  /\ (\E a \in Agents : Driving(a, q)) => Driven(q) = 1
           /\ ~(\E a \in Agents : Driving(a, q)) => Driven(q) = drives[q]
<1> DEFINE D == {a \in Agents : job[a].item = q
                               /\ pc[a] \notin {"idle", "reinject", "reject"}}
<1>1. Driven(q) = drives[q] + Cardinality(D)
  BY DEF Driven
<1>2. D = {a \in Agents : Driving(a, q)}
  BY DEF Driving
<1> HIDE DEF D
<1>3. ASSUME NEW a \in Agents, Driving(a, q) PROVE Driven(q) = 1
  <2>1. D = {a} /\ drives[q] = 0
    BY <1>2, <1>3 DEF DrivesInv
  <2>2. Cardinality({a}) = 1
    BY FS_Singleton
  <2> QED
    BY <1>1, <2>1, <2>2
<1>4. ASSUME ~(\E a \in Agents : Driving(a, q)) PROVE Driven(q) = drives[q]
  <2>1. D = {}
    BY <1>2, <1>4
  <2>2. Cardinality(D) = 0
    BY <2>1, FS_EmptySet
  <2>3. drives[q] \in {0, 1}
    BY DEF DrivesInv
  <2> QED
    BY <1>1, <2>2, <2>3
<1> QED
  BY <1>3, <1>4

LEMMA DrivesMeansOnce == ASSUME DrivesInv PROVE ReinjectedIsDrivenOnce
<1> SUFFICES ASSUME NEW q \in 1 .. Len(items)
             PROVE  LET due == IF items[q].status = "reinjected" THEN 1 ELSE 0 IN
                    /\ Driven(q) <= due
                    /\ faults["crash"] = 0 => Driven(q) = due
  BY DEF ReinjectedIsDrivenOnce
<1>1. CASE \E a \in Agents : Driving(a, q)
  <2>1. Driven(q) = 1 /\ items[q].status = "reinjected"
    BY <1>1, DrivenCount DEF DrivesInv
  <2> QED
    BY <2>1
<1>2. CASE ~(\E a \in Agents : Driving(a, q))
  <2>1. Driven(q) = drives[q]
    BY <1>2, DrivenCount
  <2>2. /\ drives[q] \in {0, 1}
        /\ drives[q] = 1 => items[q].status = "reinjected"
        /\ faults["crash"] = 0 /\ items[q].status = "reinjected" => drives[q] # 0
    BY <1>2 DEF DrivesInv
  <2> QED
    BY <2>1, <2>2
<1> QED
  BY <1>1, <1>2

\* Who drives what is the same after the step, and so are the items.
LEMMA DrivesQuiet ==
    ASSUME DrivesInv, items' = items, drives' = drives,
           faults'["crash"] = faults["crash"],
           \A a \in Agents : \A q \in 1 .. Len(items) : Driving(a, q)' <=> Driving(a, q)
    PROVE  DrivesInv'
BY DEF DrivesInv

\* A thread moves on, to a step that drives its item if and only if the step
\* before did.
LEMMA DrivesMove ==
    ASSUME DrivesInv, pc \in [Agents -> Steps], items' = items, drives' = drives,
           faults'["crash"] = faults["crash"], job' = job,
           NEW a \in Agents, NEW step, pc' = [pc EXCEPT ![a] = step],
           step \in {"idle", "reinject", "reject"} <=> pc[a] \in {"idle", "reinject", "reject"}
    PROVE  DrivesInv'
<1>1. \A b \in Agents : \A q \in 1 .. Len(items) : Driving(b, q)' <=> Driving(b, q)
  BY DEF Driving
<1> QED
  BY <1>1, DrivesQuiet

\* The request of a is answered: the drive of its item is counted, and an item
\* it leaves in the quarantine is new.
LEMMA DrivesEnd ==
    ASSUME TypeOK, DrivesInv, NEW a \in Agents,
           pc[a] \notin {"idle", "reinject", "reject"},
           pc' = [pc EXCEPT ![a] = "idle"], job' = job,
           faults'["crash"] = faults["crash"], Len(items') \in Nat,
           \A q \in 1 .. Len(items') :
              \/ /\ q \in 1 .. Len(items) /\ items'[q] = items[q]
                 /\ drives'[q] = IF q = job[a].item THEN drives[q] + 1 ELSE drives[q]
              \/ /\ q > Len(items)
                 /\ items'[q].status = "pending" /\ drives'[q] = 0
    PROVE  DrivesInv'
<1>0. /\ pc \in [Agents -> Steps] /\ Len(items) \in Nat
      /\ \A b \in Agents : job[b].item \in Nat /\ job[b].item <= Len(items)
  BY TypeParts DEF ThreadsOK, CellsOK, Job
<1>1. \A b \in Agents, q \in Nat : Driving(b, q)' <=> b # a /\ Driving(b, q)
  BY <1>0 DEF Driving
<1> DEFINE Good(q) ==
        /\ drives'[q] \in {0, 1}
        /\ drives'[q] = 1 => items'[q].status = "reinjected"
        /\ \A b, c \in Agents : Driving(b, q)' /\ Driving(c, q)' => b = c
        /\ \A b \in Agents : Driving(b, q)' => /\ items'[q].status = "reinjected"
                                               /\ drives'[q] = 0
        /\ faults'["crash"] = 0 /\ items'[q].status = "reinjected" /\ drives'[q] = 0
             => \E b \in Agents : Driving(b, q)'
<1>2. ASSUME NEW q \in 1 .. Len(items') PROVE Good(q)
  <2>1. CASE q > Len(items)
    <3>1. items'[q].status = "pending" /\ drives'[q] = 0
      BY <1>0, <2>1
    <3>2. \A b \in Agents : ~Driving(b, q)'
      BY <1>0, <1>1, <2>1 DEF Driving
    <3> QED
      BY <3>1, <3>2
  <2>2. CASE q \in 1 .. Len(items) /\ q = job[a].item
    <3>1. items'[q] = items[q] /\ drives'[q] = drives[q] + 1
      BY <1>0, <2>2
    <3>2. Driving(a, q)
      BY <2>2 DEF Driving
    <3>3. /\ items[q].status = "reinjected" /\ drives[q] = 0
          /\ \A b \in Agents : Driving(b, q) => b = a
      BY <2>2, <3>2 DEF DrivesInv
    <3>4. drives'[q] = 1 /\ items'[q].status = "reinjected"
      BY <3>1, <3>3
    <3>5. \A b \in Agents : ~Driving(b, q)'
      BY <1>1, <2>2, <3>3
    <3> QED
      BY <3>4, <3>5
  <2>3. CASE q \in 1 .. Len(items) /\ q # job[a].item
    <3>1. items'[q] = items[q] /\ drives'[q] = drives[q]
      BY <1>0, <2>3
    <3>2. \A b \in Agents : Driving(b, q)' <=> Driving(b, q)
      BY <1>1, <2>3 DEF Driving
    <3> QED
      BY <2>3, <3>1, <3>2 DEF DrivesInv
  <2> QED
    BY <1>0, <2>1, <2>2, <2>3
<1> QED
  BY <1>2 DEF DrivesInv

\* Finish and FinishAbsorbed are such answers.
LEMMA DrivesFinish ==
    ASSUME TypeOK, DrivesInv, NEW a \in Agents,
           pc[a] \notin {"idle", "reinject", "reject"}, job' = job,
           faults'["crash"] = faults["crash"],
           \/ Finish(a) /\ items' = items
           \/ FinishAbsorbed(a) /\ \E p \in Requested : Absorb(p)
    PROVE  DrivesInv'
<1> DEFINE counted == IF job[a].item = 0 THEN drives
                      ELSE [drives EXCEPT ![job[a].item] = @ + 1]
<1>1. /\ drives \in Seq(Nat) /\ Len(drives) = Len(items) /\ Len(items) \in Nat
      /\ items \in Seq(Item)
      /\ job[a].item \in Nat /\ job[a].item <= Len(items)
  BY TypeParts DEF CellsOK, ThreadsOK, Job
<1>2. /\ counted \in Seq(Nat) /\ Len(counted) = Len(items)
      /\ \A q \in 1 .. Len(items) :
            counted[q] = IF q = job[a].item THEN drives[q] + 1 ELSE drives[q]
  <2>1. CASE job[a].item = 0
    BY <1>1, <2>1
  <2>2. CASE job[a].item # 0
    BY <1>1, <2>2
  <2> QED
    BY <2>1, <2>2
<1>3. CASE Finish(a) /\ items' = items
  <2>1. drives' = counted /\ pc' = [pc EXCEPT ![a] = "idle"]
    BY <1>3 DEF Finish
  <2> HIDE DEF counted
  <2>2. \A q \in 1 .. Len(items') :
           /\ q \in 1 .. Len(items) /\ items'[q] = items[q]
           /\ drives'[q] = IF q = job[a].item THEN drives[q] + 1 ELSE drives[q]
    BY <1>2, <1>3, <2>1
  <2> QED
    BY <1>1, <1>3, <2>1, <2>2, DrivesEnd
<1>4. ASSUME NEW p \in Requested, FinishAbsorbed(a), Absorb(p) PROVE DrivesInv'
  <2>1. drives' = Append(counted, 0) /\ pc' = [pc EXCEPT ![a] = "idle"]
    BY <1>4 DEF FinishAbsorbed
  <2>2. items' = Append(items, [payload |-> p, status |-> "pending"])
    BY <1>4 DEF Absorb
  <2> HIDE DEF counted
  <2>3. /\ Len(items') = Len(items) + 1
        /\ \A q \in 1 .. Len(items) : items'[q] = items[q]
        /\ items'[Len(items) + 1].status = "pending"
    BY <1>1, <2>2
  <2>4. /\ \A q \in 1 .. Len(items) : drives'[q] = counted[q]
        /\ drives'[Len(items) + 1] = 0
    BY <1>2, <2>1
  <2>5. \A q \in 1 .. Len(items') :
              \/ /\ q \in 1 .. Len(items) /\ items'[q] = items[q]
                 /\ drives'[q] = IF q = job[a].item THEN drives[q] + 1 ELSE drives[q]
              \/ /\ q > Len(items)
                 /\ items'[q].status = "pending" /\ drives'[q] = 0
    <3>1. \A q \in 1 .. Len(items') : q \in 1 .. Len(items) \/ q = Len(items) + 1
      BY <1>1, <2>3
    <3>2. Len(items) + 1 > Len(items)
      BY <1>1
    <3> QED
      BY <1>2, <2>3, <2>4, <3>1, <3>2
  <2>6. Len(items') \in Nat
    BY <1>1, <2>3
  <2> QED
    BY <2>1, <2>5, <2>6, DrivesEnd
<1> QED
  BY <1>3, <1>4

\* The operator resolves a pending item; reinject goes on to drive it.
LEMMA DrivesResolve ==
    ASSUME TypeOK, DrivesInv, NEW a \in Agents, Reinject(a) \/ Reject(a)
    PROVE  DrivesInv'
<1>0. PICK q \in 1 .. Len(items) : q = job[a].item
  BY TypeParts DEF ThreadsOK, CellsOK, Job, Reinject, Reject
<1>1. /\ items \in Seq(Item) /\ pc \in [Agents -> Steps]
      /\ pc[a] \in {"reinject", "reject"} /\ items[q] \in Item
  BY TypeParts DEF ThreadsOK, CellsOK, Reinject, Reject
<1>2. PICK s \in {"reinjected", "rejected"} :
         /\ items' = [items EXCEPT ![q].status = s]
         /\ pc' = [pc EXCEPT ![a] = IF s = "reinjected" THEN "enter" ELSE "idle"]
  BY <1>0 DEF Reinject, Reject, Resolve, Goto
<1>3. /\ Len(items') = Len(items)
      /\ items'[q].status = s
      /\ \A r \in 1 .. Len(items) \ {q} : items'[r] = items[r]
  BY <1>1, <1>2 DEF Item
<1>4. /\ items[q].status = "pending" /\ drives' = drives /\ job' = job
      /\ faults' = faults
  BY <1>0 DEF Reinject, Reject
<1>5. drives[q] = 0 /\ \A b \in Agents : ~Driving(b, q)
  BY <1>1, <1>4 DEF DrivesInv
<1>6. /\ \A b \in Agents \ {a}, r \in 1 .. Len(items) : Driving(b, r)' <=> Driving(b, r)
      /\ \A r \in 1 .. Len(items) : Driving(a, r)' <=> r = q /\ s = "reinjected"
      /\ \A r \in 1 .. Len(items) : ~Driving(a, r)
  BY <1>0, <1>1, <1>2, <1>4 DEF Driving
<1> DEFINE Good(r) ==
        /\ drives'[r] \in {0, 1}
        /\ drives'[r] = 1 => items'[r].status = "reinjected"
        /\ \A b, c \in Agents : Driving(b, r)' /\ Driving(c, r)' => b = c
        /\ \A b \in Agents : Driving(b, r)' => /\ items'[r].status = "reinjected"
                                               /\ drives'[r] = 0
        /\ faults'["crash"] = 0 /\ items'[r].status = "reinjected" /\ drives'[r] = 0
             => \E b \in Agents : Driving(b, r)'
<1>7. Good(q)
  <2>1. \A b \in Agents : Driving(b, q)' <=> b = a /\ s = "reinjected"
    BY <1>1, <1>5, <1>6
  <2>2. drives'[q] = 0 /\ items'[q].status = s
    BY <1>3, <1>4, <1>5
  <2> QED
    BY <2>1, <2>2
<1>8. ASSUME NEW r \in 1 .. Len(items) \ {q} PROVE Good(r)
  <2>1. \A b \in Agents : Driving(b, r)' <=> Driving(b, r)
    BY <1>6
  <2>2. items'[r] = items[r] /\ drives'[r] = drives[r] /\ faults'["crash"] = faults["crash"]
    BY <1>3, <1>4
  <2> QED
    BY <2>1, <2>2 DEF DrivesInv
<1> HIDE DEF Good
<1>9. \A r \in 1 .. Len(items') : Good(r)
  BY <1>3, <1>7, <1>8
<1> QED
  BY <1>9 DEF DrivesInv, Good

LEMMA DrivesStep ==
    ASSUME TypeOK, DrivesInv, NEW a \in Agents, Step(a)
    PROVE  DrivesInv'
<1>0. /\ faults'["crash"] = faults["crash"] /\ pc \in [Agents -> Steps]
      /\ job[a].payload \in Requested /\ Artifact \in Requested
  BY StepAccounted, TypeParts DEF ThreadsOK, Job, Requested
<1>1. ASSUME pc[a] \notin {"idle", "reinject", "reject"}, job' = job,
             \/ Finish(a) /\ items' = items
             \/ FinishAbsorbed(a) /\ \E p \in Requested : Absorb(p)
      PROVE  DrivesInv'
  BY <1>0, <1>1, DrivesFinish
<1>2. ASSUME pc[a] \notin {"idle", "reinject", "reject"}, job' = job, items' = items,
             drives' = drives, NEW step \in Inside, Goto(a, step)
      PROVE  DrivesInv'
  BY <1>0, <1>2, DrivesMove DEF Goto, Inside, Reserving
<1>3. CASE Enter(a)
  <2>1. CASE Goto(a, IF job[a].payload = Edge THEN "edge" ELSE "chain") /\ UNCHANGED drives
    <3>1. PICK step \in {"edge", "chain"} : Goto(a, step)
      BY <2>1
    <3> QED
      BY <1>2, <1>3, <2>1, <3>1 DEF Enter, Inside
  <2>2. CASE Finish(a)
    BY <1>1, <1>3, <2>2 DEF Enter
  <2> QED
    BY <1>3, <2>1, <2>2 DEF Enter
<1>4. CASE ChainRejects(a) \/ Uphold(a) \/ GovernRejects(a)
  BY <1>0, <1>1, <1>4 DEF ChainRejects, Uphold, GovernRejects, At
<1>5. CASE AbsorbFails(a) \/ LedgerFails(a) \/ GovernFails(a)
  BY <1>1, <1>5 DEF AbsorbFails, LedgerFails, GovernFails, At
<1>6. CASE \/ Unwind(a) \/ Unsupported(a) \/ BadSupersedes(a) \/ StoreFails(a)
           \/ SettleEdge(a)
  BY <1>1, <1>6 DEF Unwind, Unsupported, BadSupersedes, StoreFails, SettleEdge, At
<1>7. CASE ChainAccepts(a) \/ GovernAccepts(a) \/ Ledger(a)
  <2>1. PICK step \in Inside : Goto(a, step)
    BY <1>7 DEF ChainAccepts, GovernAccepts, Ledger, Inside, Reserving
  <2> QED
    BY <1>2, <1>7, <2>1 DEF ChainAccepts, GovernAccepts, Ledger, At
<1>8. CASE Store(a) \/ ReserveEdge(a)
  <2>1. pc[a] \notin {"idle", "reinject", "reject"} /\ job' = job /\ items' = items
    BY <1>8 DEF Store, ReserveEdge, At
  <2>2. \/ Finish(a)
        \/ drives' = drives /\ \E step \in Inside : Goto(a, step)
    BY <1>8 DEF Store, ReserveEdge, Inside, Reserving
  <2> QED
    BY <1>1, <1>2, <2>1, <2>2
<1>9. CASE Curate(a)
  <2>1. pc' = pc /\ job' = job /\ items' = items /\ drives' = drives
    BY <1>9 DEF Curate
  <2>2. \A b \in Agents : \A q \in 1 .. Len(items) : Driving(b, q)' <=> Driving(b, q)
    BY <2>1 DEF Driving
  <2> QED
    BY <1>0, <2>1, <2>2, DrivesQuiet
<1>10. CASE CurateEnds(a)
  BY <1>0, <1>1, <1>10 DEF CurateEnds, At
<1>11. CASE Reinject(a) \/ Reject(a)
  BY <1>11, DrivesResolve
<1>12. CASE ResolveFails(a)
  <2>1. /\ pc[a] \in {"reinject", "reject"} /\ pc' = [pc EXCEPT ![a] = "idle"]
        /\ job' = job /\ items' = items /\ drives' = drives
    BY <1>12 DEF ResolveFails, Goto
  <2> QED
    BY <1>0, <2>1, DrivesMove
<1> QED
  BY <1>3, <1>4, <1>5, <1>6, <1>7, <1>8, <1>9, <1>10, <1>11, <1>12 DEF Step

LEMMA DrivesRequest ==
    ASSUME TypeOK, DrivesInv, NEW a \in Agents, Request(a)
    PROVE  DrivesInv'
<1>0. /\ pc \in [Agents -> Steps] /\ job \in [Agents -> Job]
      /\ faults'["crash"] = faults["crash"]
  BY RequestAccounted, TypeParts DEF ThreadsOK
<1>1. ASSUME NEW step, NEW j, Ask(a, step, j),
             step \notin {"reinject", "reject"} => j.item = 0
      PROVE  DrivesInv'
  <2>1. /\ pc[a] = "idle" /\ pc' = [pc EXCEPT ![a] = step] /\ job' = [job EXCEPT ![a] = j]
        /\ items' = items /\ drives' = drives
    BY <1>1 DEF Ask, Goto
  <2>2. \A q \in 1 .. Len(items) : ~Driving(a, q)' /\ ~Driving(a, q)
    BY <1>0, <1>1, <2>1 DEF Driving
  <2>3. \A b \in Agents \ {a} : \A q \in 1 .. Len(items) : Driving(b, q)' <=> Driving(b, q)
    BY <1>0, <2>1 DEF Driving
  <2> QED
    BY <1>0, <2>1, <2>2, <2>3, DrivesQuiet
<1>2. ASSUME NEW t \in Tasks, NEW p \in Payloads \cup {Edge}, AskWrite(a, t, p)
      PROVE  DrivesInv'
  BY <1>1, <1>2 DEF AskWrite
<1>3. ASSUME NEW q \in 1 .. Len(items), NEW step \in {"reinject", "reject"},
             AskResolve(a, step, q)
      PROVE  DrivesInv'
  BY <1>1, <1>3 DEF AskResolve
<1>4. ASSUME NEW t \in Tasks, Read(a, t) PROVE DrivesInv'
  BY <1>0, <1>4, DrivesQuiet DEF Read, Driving
<1> QED
  BY <1>2, <1>3, <1>4 DEF Request

\* A quarantined item is driven through the write path again once for its
\* reinjection and never otherwise, for any number of operators and agents: a
\* crash may lose the drive and never repeats it (quarantine_reinject, which
\* looks at the status and commits the transition under the barrier).
THEOREM DrivenOnce == Spec => []ReinjectedIsDrivenOnce
<1>1. Init => DrivesInv
  BY DEF Init, DrivesInv
<1>2. TypeOK /\ DrivesInv /\ [Next]_vars => DrivesInv'
  <2> SUFFICES ASSUME TypeOK, DrivesInv, [Next]_vars PROVE DrivesInv'
    OBVIOUS
  <2>1. CASE \E a \in Agents : Request(a) \/ Step(a)
    BY <2>1, DrivesRequest, DrivesStep
  <2>2. CASE Snapshot \/ UNCHANGED vars
    BY <2>2, DrivesQuiet DEF Snapshot, vars, Driving
  <2>3. CASE Crash
    <3>1. /\ faults \in [FaultKinds -> Nat]
          /\ faults' = [faults EXCEPT !["crash"] = @ + 1]
          /\ items' = items /\ drives' = drives
      BY <2>3, TypeParts DEF Crash, Spend
    <3>2. faults'["crash"] # 0
      BY <3>1 DEF FaultKinds
    <3>3. \A a \in Agents : \A q \in 1 .. Len(items) : ~Driving(a, q)'
      BY <2>3 DEF Crash, Driving
    <3> QED
      BY <3>1, <3>2, <3>3 DEF DrivesInv
  <2> QED
    BY <2>1, <2>2, <2>3 DEF Next
<1> QED
  BY <1>1, <1>2, DrivesMeansOnce, TypeCorrect, PTL DEF Spec

=============================================================================
