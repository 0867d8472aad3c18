---------------------------- MODULE TrinityWrite ----------------------------
(***************************************************************************)
(* Governed writes: the Trinity chain (trinity/chain.rs), the work budgets *)
(* and the quarantine (trinity/cells.rs), the paths of handle_write,       *)
(* handle_gate_dispute and handle_supersede through them (router/mod.rs),  *)
(* and the operator's reinject and reject (bootstrap/mod.rs).              *)
(*                                                                         *)
(* A request runs under the mutation barrier, one at a time.  It reserves  *)
(* units of its task's budget, may be judged by the curators, and ends in  *)
(* one of many returns, each of which has to settle the reservation.  What *)
(* the chain or the curators refuse is absorbed by the quarantine, from    *)
(* which an operator may drive it through the same path again.             *)
(*                                                                         *)
(* A durable transaction is one step that succeeds or fails, as shown of   *)
(* DurableNode.  What it commits survives a crash; budgets are not logged  *)
(* and come back as the last snapshot has them.  What the governance cells *)
(* say of a payload is not modelled: each check may pass or fail.          *)
(***************************************************************************)
EXTENDS Integers, Sequences, FiniteSets

CONSTANTS
    Agents,       \* connection threads, of agents and of operators
    Tasks,        \* task ids, the two below among them
    AdminTask,    \* "admin.reinject"
    CuratorTask,  \* "curator.warden" and the other curators'
    Payloads,     \* what agents write
    Units,        \* Units[p]: estimate_units of a write of p
    EdgeUnits,    \* the estimate of a supersession
    GovernUnits,  \* the estimate of a curator's artifact
    ReadUnits,    \* what a read costs
    Grant,        \* Grant[t]: default_for_task
    MaxRequests,  \* bound: requests ever made
    MaxCrashes,   \* bound: crashes
    MaxWalErrors  \* bound: durable transactions that fail

\* A curator's artifact: it has no subject, predicate and object.
Artifact == "artifact"
\* A supersession carries two handles.
Edge == "edge"
Free == "free"

Requested == Payloads \cup {Artifact, Edge}

ASSUME MarkersAreNew ==
    /\ Free \notin Agents
    /\ Artifact \notin Payloads
    /\ Edge \notin Payloads

ASSUME TasksKnown == {AdminTask, CuratorTask} \subseteq Tasks

ASSUME UnitsAreNatural ==
    /\ Units \in [Payloads -> Nat]
    /\ Grant \in [Tasks -> Nat]
    /\ EdgeUnits \in Nat
    /\ GovernUnits \in Nat
    /\ ReadUnits \in Nat

ASSUME BoundsKnown ==
    /\ MaxRequests \in Nat
    /\ MaxCrashes \in Nat
    /\ MaxWalErrors \in Nat

VARIABLES
    pc,        \* pc[a]: the step thread a is at
    job,       \* job[a]: its task, its payload and the item it drives again
    guard,     \* mutation_barrier: its holder, or Free
    budget,    \* WorkBudgetCell, in memory
    saved,     \* the budgets in the last snapshot
    items,     \* the quarantine's items in the order of their sequence number
    drives,    \* drives[q]: how often item q was driven again to its answer
    work,      \* work[t]: the units of what was done for task t
    requests,  \* requests made so far
    faults     \* how much of each fault budget has been used

vars == <<pc, job, guard, budget, saved, items, drives, work, requests, faults>>

FaultKinds == {"crash", "wal"}
Limit == [k \in FaultKinds |-> IF k = "crash" THEN MaxCrashes ELSE MaxWalErrors]

Spend(k) ==
    /\ faults[k] < Limit[k]
    /\ faults' = [faults EXCEPT ![k] = @ + 1]

-----------------------------------------------------------------------------
(* WorkBudgetCell.                                                         *)

\* ensure: a task's first budget is its default grant.
Fresh(t) == [granted |-> Grant[t], reserved |-> 0, spent |-> 0]

\* saturating_sub.
Monus(a, b) == IF a >= b THEN a - b ELSE 0

\* Mutant of Available: what is reserved is not counted.
AvailableUnreserved(b) == Monus(b.granted, b.spent)

Available(b) == Monus(b.granted, b.reserved + b.spent)

\* charge_pre, on the budget b.
Reserved(b, units) == [b EXCEPT !.reserved = @ + units]

\* Mutant of Settled: the estimate is charged, whatever was done.
SettledInFull(b, units, actual) ==
    [b EXCEPT !.reserved = Monus(@, units), !.spent = @ + units]

\* charge_post, on the budget b: never more is spent than was reserved.
Settled(b, units, actual) ==
    [b EXCEPT !.reserved = Monus(@, units),
              !.spent = @ + (IF actual <= units THEN actual ELSE units)]

-----------------------------------------------------------------------------
(* The parts of a request.                                                 *)

\* The units the request of a reserves.
Estimate(a) == IF job[a].payload = Edge THEN EdgeUnits ELSE Units[job[a].payload]

\* charge_post of a's reservation.
Settle(a, actual) ==
    budget' = [budget EXCEPT ![job[a].task] = Settled(@, Estimate(a), actual)]

At(a, step) == pc[a] = step /\ guard = a

Goto(a, step) == pc' = [pc EXCEPT ![a] = step]

\* The request of a is answered, and the barrier released.
Finish(a) ==
    /\ pc' = [pc EXCEPT ![a] = "idle"]
    /\ guard' = Free
    /\ drives' = IF job[a].item = 0 THEN drives
                 ELSE [drives EXCEPT ![job[a].item] = @ + 1]

\* absorb_with_qid after its transaction: a pending item, with the next number.
Absorb(p) == items' = Append(items, [payload |-> p, status |-> "pending"])

\* Finish of a request that leaves a new item in the quarantine.
FinishAbsorbed(a) ==
    /\ pc' = [pc EXCEPT ![a] = "idle"]
    /\ guard' = Free
    /\ drives' = Append(IF job[a].item = 0 THEN drives
                        ELSE [drives EXCEPT ![job[a].item] = @ + 1], 0)

-----------------------------------------------------------------------------
(* Arrival.                                                                *)

Ask(a, step, j) ==
    /\ pc[a] = "idle"
    /\ requests < MaxRequests
    /\ requests' = requests + 1
    /\ Goto(a, step)
    /\ job' = [job EXCEPT ![a] = j]
    /\ UNCHANGED <<guard, budget, saved, items, drives, work, faults>>

\* An agent writes a payload or supersedes a fact, on any task it names.
AskWrite(a, t, p) == Ask(a, "enter", [task |-> t, payload |-> p, item |-> 0])

\* An operator resolves an item; the answer may come too late for it.
AskResolve(a, step, q) ==
    Ask(a, step, [task |-> AdminTask, payload |-> items[q].payload, item |-> q])

\* Recall, hydrate and view charge what they emit, or fail.
Read(a, t) ==
    /\ pc[a] = "idle"
    /\ guard = Free
    /\ requests < MaxRequests
    /\ requests' = requests + 1
    /\ Available(budget[t]) >= ReadUnits
    /\ budget' = [budget EXCEPT
                    ![t] = Settled(Reserved(@, ReadUnits), ReadUnits, ReadUnits)]
    /\ work' = [work EXCEPT ![t] = @ + ReadUnits]
    /\ UNCHANGED <<pc, job, guard, saved, items, drives, faults>>

\* The barrier is taken.  What a token does not grant, and a payload without the
\* fields of its cell, are refused before anything is reserved.  What is driven
\* again has the operator's token, and had its fields unless it is an artifact.
Enter(a) ==
    /\ pc[a] = "enter"
    /\ guard = Free
    /\ \/ /\ job[a].payload # Artifact
          /\ guard' = a
          /\ Goto(a, IF job[a].payload = Edge THEN "edge" ELSE "chain")
          /\ UNCHANGED drives
       \/ /\ job[a].item = 0 \/ job[a].payload = Artifact
          /\ Finish(a)
    /\ UNCHANGED <<job, budget, saved, items, work, requests, faults>>

-----------------------------------------------------------------------------
(* run_pre_validation_inner.                                               *)

\* Contract, anchor, decision ledger, budget or congruence refuse (congruence
\* after its reservation is released): the envelope is absorbed.
ChainRejects(a) ==
    /\ At(a, "chain")
    /\ Absorb(job[a].payload)
    /\ FinishAbsorbed(a)
    /\ UNCHANGED <<job, budget, saved, work, requests, faults>>

\* The absorption is not durable: the error goes to the caller.
AbsorbFails(a) ==
    /\ At(a, "chain")
    /\ Spend("wal")
    /\ Finish(a)
    /\ UNCHANGED <<job, budget, saved, items, work, requests>>

\* All five steps pass, the fourth by a reservation.
ChainAccepts(a) ==
    /\ At(a, "chain")
    /\ Available(budget[job[a].task]) >= Estimate(a)
    /\ budget' = [budget EXCEPT ![job[a].task] = Reserved(@, Estimate(a))]
    /\ \E step \in {"apply", "govern"} : Goto(a, step)
    /\ UNCHANGED <<job, guard, saved, items, drives, work, requests, faults>>

-----------------------------------------------------------------------------
(* handle_gate_dispute: the Warden has judged against the write.           *)

\* govern_curator_payload: the curator's own artifact passes the chain and is
\* charged in full.
Governed == [budget EXCEPT ![CuratorTask] =
               Settled(Reserved(@, GovernUnits), GovernUnits, GovernUnits)]

\* The flag, or later the adjudication, is governed and logged.  After the flag
\* the Librarian agrees or the Adjudicator is asked.
GovernAccepts(a) ==
    /\ pc[a] \in {"govern", "adjudicate"}
    /\ guard = a
    /\ Available(budget[CuratorTask]) >= GovernUnits
    /\ budget' = Governed
    /\ work' = [work EXCEPT ![CuratorTask] = @ + GovernUnits]
    /\ \E step \in IF pc[a] = "govern" THEN {"agreed", "adjudicate"}
                   ELSE {"adjudicated"} : Goto(a, step)
    /\ UNCHANGED <<job, guard, saved, items, drives, requests, faults>>

\* The artifact is refused and absorbed; the write is released, not absorbed.
GovernRejects(a) ==
    /\ pc[a] \in {"govern", "adjudicate"}
    /\ guard = a
    /\ Settle(a, 0)
    /\ Absorb(Artifact)
    /\ FinishAbsorbed(a)
    /\ UNCHANGED <<job, saved, work, requests, faults>>

\* The refused artifact cannot be recorded, or the governed and charged one
\* cannot: the write is released.
GovernFails(a) ==
    /\ pc[a] \in {"govern", "adjudicate"}
    /\ guard = a
    /\ Spend("wal")
    /\ \/ Settle(a, 0) /\ UNCHANGED work
       \/ /\ Available(budget[CuratorTask]) >= GovernUnits
          /\ budget' = [Governed EXCEPT ![job[a].task] = Settled(@, Estimate(a), 0)]
          /\ work' = [work EXCEPT ![CuratorTask] = @ + GovernUnits]
    /\ Finish(a)
    /\ UNCHANGED <<job, saved, items, requests>>

\* Mutant of Ledger: it releases the reservation, which the answer releases too.
LedgerReleasing(a) ==
    /\ \/ At(a, "agreed") /\ Goto(a, "uphold")
       \/ At(a, "adjudicated") /\ \E step \in {"uphold", "overrule"} : Goto(a, step)
    /\ Settle(a, 0)
    /\ UNCHANGED <<job, guard, saved, items, drives, work, requests, faults>>

\* ledger_append records the agreement or the adjudication.
Ledger(a) ==
    /\ \/ At(a, "agreed") /\ Goto(a, "uphold")
       \/ At(a, "adjudicated") /\ \E step \in {"uphold", "overrule"} : Goto(a, step)
    /\ UNCHANGED <<job, guard, budget, saved, items, drives, work, requests, faults>>

\* ledger_append fails: this return does not settle the reservation.
LedgerFails(a) ==
    /\ pc[a] \in {"agreed", "adjudicated"}
    /\ guard = a
    /\ Spend("wal")
    /\ Finish(a)
    /\ UNCHANGED <<job, budget, saved, items, work, requests>>

\* release_and_absorb: both curators agree, the Adjudicator upholds the flag,
\* or a human has to decide.
Uphold(a) ==
    /\ At(a, "uphold")
    /\ Settle(a, 0)
    /\ Absorb(job[a].payload)
    /\ FinishAbsorbed(a)
    /\ UNCHANGED <<job, saved, work, requests, faults>>

\* The write is answered with an error and released: its quarantine record is
\* not durable, or the gate is overruled and the agent has to submit again.
Unwind(a) ==
    /\ \/ At(a, "uphold") /\ Spend("wal")
       \/ At(a, "overrule") /\ UNCHANGED faults
    /\ Settle(a, 0)
    /\ Finish(a)
    /\ UNCHANGED <<job, saved, items, work, requests>>

-----------------------------------------------------------------------------
(* The rest of handle_write, and handle_supersede.                         *)

\* A target that agents cannot write: released.
Unsupported(a) ==
    /\ At(a, "apply")
    /\ Settle(a, 0)
    /\ Finish(a)
    /\ UNCHANGED <<job, saved, items, work, requests, faults>>

\* "supersedes" names an unknown or superseded fact: this return does not
\* settle the reservation.
BadSupersedes(a) ==
    /\ At(a, "apply")
    /\ Finish(a)
    /\ UNCHANGED <<job, budget, saved, items, work, requests, faults>>

\* The write is durable and applied; facts and blobs go on to curation.
Store(a) ==
    /\ At(a, "apply")
    /\ Settle(a, Estimate(a))
    /\ work' = [work EXCEPT ![job[a].task] = @ + Estimate(a)]
    /\ \/ Goto(a, "curate") /\ UNCHANGED <<guard, drives>>
       \/ Finish(a)
    /\ UNCHANGED <<job, saved, items, requests, faults>>

\* The transaction of the write, or its application, fails: released.
StoreFails(a) ==
    /\ pc[a] \in {"apply", "stored_edge"}
    /\ guard = a
    /\ Spend("wal")
    /\ Settle(a, 0)
    /\ Finish(a)
    /\ UNCHANGED <<job, saved, items, work, requests>>

\* handle_supersede reserves before it looks at the handles.
ReserveEdge(a) ==
    /\ At(a, "edge")
    /\ \/ /\ Available(budget[job[a].task]) >= Estimate(a)
          /\ budget' = [budget EXCEPT ![job[a].task] = Reserved(@, Estimate(a))]
          /\ Goto(a, "stored_edge")
          /\ UNCHANGED <<guard, drives>>
       \/ /\ Available(budget[job[a].task]) < Estimate(a)
          /\ Finish(a)
          /\ UNCHANGED budget
    /\ UNCHANGED <<job, saved, items, work, requests, faults>>

\* The edge is refused and released, or durable, applied and charged.
SettleEdge(a) ==
    /\ At(a, "stored_edge")
    /\ \/ Settle(a, 0) /\ UNCHANGED work
       \/ /\ Settle(a, Estimate(a))
          /\ work' = [work EXCEPT ![job[a].task] = @ + Estimate(a)]
    /\ Finish(a)
    /\ UNCHANGED <<job, saved, items, requests, faults>>

\* run_curation_cycle: each artifact of the cycle is governed and charged.
Curate(a) ==
    /\ At(a, "curate")
    /\ Available(budget[CuratorTask]) >= GovernUnits
    /\ budget' = Governed
    /\ work' = [work EXCEPT ![CuratorTask] = @ + GovernUnits]
    /\ UNCHANGED <<pc, job, guard, saved, items, drives, requests, faults>>

\* The cycle ends: done, or with an artifact refused and absorbed, or with an
\* error for a write that is there.
CurateEnds(a) ==
    /\ At(a, "curate")
    /\ \/ Finish(a) /\ UNCHANGED <<items, faults>>
       \/ Absorb(Artifact) /\ FinishAbsorbed(a) /\ UNCHANGED faults
       \/ Spend("wal") /\ Finish(a) /\ UNCHANGED items
    /\ UNCHANGED <<job, budget, saved, work, requests>>

-----------------------------------------------------------------------------
(* The operator: quarantine reinject and quarantine reject.                *)

Resolve(q, s) == items' = [items EXCEPT ![q].status = s]

\* Mutant of Reinject: the status is not looked at under the barrier.
ReinjectUnchecked(a) ==
    /\ pc[a] = "reinject"
    /\ guard = Free
    /\ Resolve(job[a].item, "reinjected")
    /\ Goto(a, "enter")
    /\ UNCHANGED <<job, guard, budget, saved, drives, work, requests, faults>>

\* The transition is committed under the barrier, which is then released; the
\* payload is driven through handle_envelope afterwards.
Reinject(a) ==
    /\ pc[a] = "reinject"
    /\ guard = Free
    /\ items[job[a].item].status = "pending"
    /\ Resolve(job[a].item, "reinjected")
    /\ Goto(a, "enter")
    /\ UNCHANGED <<job, guard, budget, saved, drives, work, requests, faults>>

Reject(a) ==
    /\ pc[a] = "reject"
    /\ guard = Free
    /\ items[job[a].item].status = "pending"
    /\ Resolve(job[a].item, "rejected")
    /\ Goto(a, "idle")
    /\ UNCHANGED <<job, guard, budget, saved, drives, work, requests, faults>>

\* The item is resolved already, or its transition is not durable.
ResolveFails(a) ==
    /\ pc[a] \in {"reinject", "reject"}
    /\ guard = Free
    /\ \/ items[job[a].item].status # "pending" /\ UNCHANGED faults
       \/ items[job[a].item].status = "pending" /\ Spend("wal")
    /\ Goto(a, "idle")
    /\ UNCHANGED <<job, guard, budget, saved, items, drives, work, requests>>

-----------------------------------------------------------------------------
(* Snapshots and crashes.                                                  *)

\* snapshot_all under the barrier, and a manifest that names it.
Snapshot ==
    /\ guard = Free
    /\ saved # budget
    /\ saved' = budget
    /\ UNCHANGED <<pc, job, guard, budget, items, drives, work, requests, faults>>

\* The process dies and recovers: the log has the items, not the budgets.
Crash ==
    /\ Spend("crash")
    /\ pc' = [a \in Agents |-> "idle"]
    /\ guard' = Free
    /\ budget' = saved
    /\ UNCHANGED <<job, saved, items, drives, work, requests>>

-----------------------------------------------------------------------------
Init ==
    /\ pc = [a \in Agents |-> "idle"]
    /\ job = [a \in Agents |-> [task |-> AdminTask, payload |-> Edge, item |-> 0]]
    /\ guard = Free
    /\ budget = [t \in Tasks |-> Fresh(t)]
    /\ saved = [t \in Tasks |-> Fresh(t)]
    /\ items = <<>>
    /\ drives = <<>>
    /\ work = [t \in Tasks |-> 0]
    /\ requests = 0
    /\ faults = [k \in FaultKinds |-> 0]

Request(a) ==
    \/ \E t \in Tasks, p \in Payloads \cup {Edge} : AskWrite(a, t, p)
    \/ \E q \in 1 .. Len(items), step \in {"reinject", "reject"} : AskResolve(a, step, q)
    \/ \E t \in Tasks : Read(a, t)

Step(a) ==
    \/ Enter(a)
    \/ ChainRejects(a)
    \/ AbsorbFails(a)
    \/ ChainAccepts(a)
    \/ GovernAccepts(a)
    \/ GovernRejects(a)
    \/ GovernFails(a)
    \/ Ledger(a)
    \/ LedgerFails(a)
    \/ Uphold(a)
    \/ Unwind(a)
    \/ Unsupported(a)
    \/ BadSupersedes(a)
    \/ Store(a)
    \/ StoreFails(a)
    \/ ReserveEdge(a)
    \/ SettleEdge(a)
    \/ Curate(a)
    \/ CurateEnds(a)
    \/ Reinject(a)
    \/ Reject(a)
    \/ ResolveFails(a)

Next ==
    \/ \E a \in Agents : Request(a) \/ Step(a)
    \/ Snapshot
    \/ Crash

Spec == Init /\ [][Next]_vars

-----------------------------------------------------------------------------
(* Properties.                                                             *)

Budget == [granted : Nat, reserved : Nat, spent : Nat]
Item == [payload : Requested, status : {"pending", "reinjected", "rejected"}]
Job == [task : Tasks, payload : Requested, item : Nat]

\* The steps between the reservation of a request and its settlement.
Reserving == {"apply", "govern", "adjudicate", "agreed", "adjudicated", "uphold",
              "overrule", "stored_edge"}

\* Every variable has its type, and what has passed the checks of handle_write
\* has units (the fields of WorkBudgetCell and QuarantineCell).
TypeOK ==
    /\ pc \in [Agents -> Reserving \cup {"idle", "enter", "chain", "edge", "curate",
                                         "reinject", "reject"}]
    /\ job \in [Agents -> Job]
    /\ \A a \in Agents :
          /\ pc[a] \in Reserving \cup {"chain", "edge"} => job[a].payload # Artifact
          /\ job[a].item <= Len(items)
          /\ pc[a] \in {"reinject", "reject"} => job[a].item > 0
    /\ guard \in Agents \cup {Free}
    /\ budget \in [Tasks -> Budget]
    /\ saved \in [Tasks -> Budget]
    /\ items \in Seq(Item)
    /\ drives \in Seq(Nat)
    /\ Len(drives) = Len(items)
    /\ work \in [Tasks -> Nat]
    /\ requests \in Nat
    /\ faults \in [FaultKinds -> Nat]

\* No task ever has more reserved and spent than it was granted, whichever way
\* requests end, and after any crash (charge_pre, cells.rs:1036-1055).
NoOverdraft ==
    \A t \in Tasks : budget[t].reserved + budget[t].spent <= budget[t].granted

\* The holder of the barrier finds its reservation when it settles: nothing has
\* released it before, so saturating_sub never hides a double release
\* (charge_post, cells.rs:1061-1069).
ReservedCovers ==
    \A a \in Agents :
        pc[a] \in Reserving => budget[job[a].task].reserved >= Estimate(a)

\* What is charged is what was done: refused, quarantined, overruled and failed
\* requests cost nothing, and only a crash gives units back
\* (router/mod.rs:234-331, 494-530, 1624-1672).
SpentIsWork ==
    \A t \in Tasks :
        /\ budget[t].spent <= work[t]
        /\ faults["crash"] = 0 => budget[t].spent = work[t]

\* How often item q was, or is being, driven through the write path again.
Driven(q) ==
    drives[q] + Cardinality({a \in Agents :
                               job[a].item = q
                               /\ pc[a] \notin {"idle", "reinject", "reject"}})

\* An item is driven again once, exactly when it is marked reinjected, however
\* the operators race; a crash may lose the drive and never repeats it
\* ("Reinjected re-dispatches the original envelope", CellTaxonomy.md:363).
ReinjectedIsDrivenOnce ==
    \A q \in 1 .. Len(items) :
        LET due == IF items[q].status = "reinjected" THEN 1 ELSE 0 IN
        /\ Driven(q) <= due
        /\ faults["crash"] = 0 => Driven(q) = due

=============================================================================
