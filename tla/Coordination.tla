---------------------------- MODULE Coordination ----------------------------
(***************************************************************************)
(* Agents, tokens, subscriptions and events: AgentRegistryCell and         *)
(* SubscriptionCell (cells/coord.rs), the EventBus (router/events.rs), the *)
(* token checks (router/captoken.rs, router/mod.rs, proto/mod.rs) and the  *)
(* handlers that connection threads run over them.                         *)
(*                                                                         *)
(* A request takes its logical time first and the mutation barrier later;  *)
(* the bus, the cells and latest_seq are read under locks of their own.    *)
(* Each locked section is one step, so requests interleave between them.   *)
(* The registry and the bus are in memory only: a crash forgets the events *)
(* and what was registered since the last snapshot.  Subscriptions are     *)
(* logged, and replayed in the order of their logical times.               *)
(***************************************************************************)
EXTENDS Integers, Sequences, FiniteSets, SequencesExt

CONSTANTS
    Conns,         \* connection threads
    Agents,        \* agents that hold a token
    Operator,      \* the operator that provision_fresh registers
    Names,         \* event names
    Incidents,     \* the names under an ALWAYS_DELIVER prefix
    Patterns,      \* subscription globs, each the set of names it matches
    Expiry,        \* the logical time at which a token ends, 0 for never
    RingMax,       \* EVENT_RING
    MaxClock,      \* bound: logical time
    MaxEvents,     \* bound: events published
    MaxSnaps,      \* bound: snapshots
    MaxCrashes,    \* bound: crashes
    MaxKept        \* bound: failed commits that the log kept

ASSUME CoordinationConstants ==
    /\ Operator \in Agents
    /\ Incidents \subseteq Names
    /\ Patterns \subseteq SUBSET Names
    /\ Expiry \in [Agents -> Nat]
    /\ RingMax \in Nat \ {0}
    /\ {MaxClock, MaxEvents, MaxSnaps, MaxCrashes, MaxKept} \subseteq Nat

VARIABLES
    status,    \* "up", "down" or "refused"
    clock,     \* LogicalClock
    registry,  \* the registered agents, their roles, the escalation subscribers
    subs,      \* SubscriptionCell.subs, in the order of their numbers
    ring, next, pending,   \* EventBus
    conn,      \* what each connection thread is doing
    log,       \* the committed subscriptions
    snap,      \* the last snapshot
    used,      \* how much of each bound has been used
    \* What has happened, for the properties:
    acked,     \* subscriptions the client was told of
    late,      \* a subscription was committed behind a later logical time
    due,       \* the events queued for an agent since the boot
    handed,    \* the events handed to it from the queue, in order
    asked      \* the first event after it first asked for a subscription

bus == <<ring, next, pending, due, handed>>
vars == <<status, clock, registry, subs, bus, conn, log, snap, used, acked, late, asked>>

Roles == {"none", "agent", "operator"}
Never == MaxEvents + 1
Counted == {"snaps", "crashes", "kept"}

Resting == [pc |-> "idle", agent |-> Operator, at |-> 0, pattern |-> {}]

\* provision_fresh registers the operator, and whoever embeds the node may
\* register agents and operators before it serves.  An operator becomes an
\* escalation subscriber.
Registry(role) == [role |-> role,
                   active |-> {a \in Agents : role[a] # "none"},
                   escalation |-> {a \in Agents : role[a] = "operator"}]

Init ==
    /\ status = "up"
    /\ clock = 0
    /\ \E role \in [Agents -> Roles] : role[Operator] = "operator" /\ registry = Registry(role)
    /\ subs = <<>>
    /\ ring = <<>>
    /\ next = 0
    /\ pending = {}
    /\ due = [a \in Agents |-> {}]
    /\ handed = [a \in Agents |-> <<>>]
    /\ conn = [c \in Conns |-> Resting]
    /\ log = <<>>
    /\ snap = [at |-> 0, registry |-> registry, subs |-> <<>>]
    /\ used = [k \in Counted |-> 0]
    /\ acked = {}
    /\ late = FALSE
    /\ asked = [a \in Agents |-> Never]

Limits == [snaps |-> MaxSnaps, crashes |-> MaxCrashes, kept |-> MaxKept]

Spend(k) ==
    /\ used[k] < Limits[k]
    /\ used' = [used EXCEPT ![k] = @ + 1]

\* The elements of a finite set, ordered by a key that is different for each.
InOrder(S, key) ==
    CHOOSE q \in [1..Cardinality(S) -> S] :
        \A i, j \in 1..Cardinality(S) : i < j => key[q[i]] < key[q[j]]

At(c, pc) == status = "up" /\ conn[c].pc = pc

Goto(c, pc) == conn' = [conn EXCEPT ![c].pc = pc]
Return(c) == conn' = [conn EXCEPT ![c] = Resting]

Tick ==
    /\ clock < MaxClock
    /\ clock' = clock + 1

-----------------------------------------------------------------------------
(* Tokens and the registry.                                                *)

\* verify_token.  Every token issued grants its agent all the operations; no
\* token is revoked, since nothing calls revoke_token.
VerifyToken(a, now) == Expiry[a] = 0 \/ now < Expiry[a]

\* verify_capability also wants an active agent.
VerifyCapability(a, now) == VerifyToken(a, now) /\ a \in registry.active

-----------------------------------------------------------------------------
(* Subscriptions.                                                          *)

\* glob_match.
Matches(pattern, name) == name \in pattern

\* SubscriptionCell::matching.
Matching(name) ==
    {s.agent : s \in {x \in ToSet(subs) : Matches(x.pattern, name)}}

\* Mutant of EntitledAt: the age of the subscription does not matter.
EntitledAtAlways(a, e) ==
    \E s \in ToSet(subs) : s.agent = a /\ Matches(s.pattern, e.name)

\* SubscriptionCell::entitled_at.
EntitledAt(a, e) ==
    \E s \in ToSet(subs) : s.agent = a /\ e.at >= s.since /\ Matches(s.pattern, e.name)

\* handle_envelope up to handle_subscribe's barrier.
BeginSubscribe(c, a, pattern) ==
    /\ At(c, "idle")
    /\ Tick
    /\ VerifyToken(a, clock')
    /\ conn' = [conn EXCEPT ![c] = [pc |-> "subscribe", agent |-> a, at |-> clock',
                                    pattern |-> pattern]]
    /\ asked' = [asked EXCEPT ![a] = IF @ = Never THEN next ELSE @]
    /\ UNCHANGED <<status, registry, subs, bus, log, snap, used, acked, late>>

\* The frame handle_subscribe logs: the id comes from the cell.
NextSub(c) == [id |-> Len(subs) + 1, agent |-> conn[c].agent,
               pattern |-> conn[c].pattern, since |-> conn[c].at]

\* handle_subscribe under the barrier.  It may be refused by the budget or by
\* a failed append, and the log may keep what a failed append was to write.
Subscribe(c) ==
    LET s == NextSub(c)
    IN  /\ At(c, "subscribe")
        /\ \/ /\ log' = Append(log, s)
              /\ subs' = Append(subs, s)
              /\ acked' = acked \cup {s}
              /\ Goto(c, "done")
              /\ UNCHANGED used
           \/ /\ Spend("kept")
              /\ log' = Append(log, s)
              /\ Return(c)
              /\ UNCHANGED <<subs, acked>>
           \/ /\ Return(c)
              /\ UNCHANGED <<log, subs, acked, used>>
        /\ late' = (late \/ /\ log' # log
                            /\ \/ s.since <= snap.at
                               \/ \E f \in ToSet(log) : s.since < f.since)
    /\ UNCHANGED <<status, clock, registry, bus, snap, asked>>

-----------------------------------------------------------------------------
(* Events.                                                                 *)

Recipients(name) ==
    Matching(name) \cup (IF name \in Incidents THEN registry.escalation ELSE {})

\* A write or any other request that publishes: its time first.
BeginWrite(c) ==
    /\ At(c, "idle")
    /\ Tick
    /\ conn' = [conn EXCEPT ![c] = [Resting EXCEPT !.pc = "write", !.at = clock']]
    /\ UNCHANGED <<status, registry, subs, bus, log, snap, used, acked, late, asked>>

\* The ring's oldest event leaves when it is full.
Kept(q) == IF Len(q) = RingMax THEN Tail(q) ELSE q

\* EventBus::publish.
Publish(c, name) ==
    /\ At(c, "write")
    /\ next < MaxEvents
    /\ next' = next + 1
    /\ ring' = Append(Kept(ring), [seq |-> next, name |-> name, at |-> conn[c].at])
    /\ pending' = pending \cup (Recipients(name) \X {next})
    /\ due' = [a \in Agents |-> IF a \in Recipients(name) THEN due[a] \cup {next} ELSE due[a]]
    /\ UNCHANGED <<status, clock, registry, subs, conn, log, snap, used, acked, late,
                   handed, asked>>

EndWrite(c) ==
    /\ At(c, "write")
    /\ Goto(c, "done")
    /\ UNCHANGED <<status, clock, registry, subs, bus, log, snap, used, acked, late, asked>>

\* events_message: the token is verified at the current time, without a tick,
\* and then the bus is read.
Fetches(a) == status = "up" /\ VerifyCapability(a, clock)

QueuedFor(a) == {s \in 0..MaxEvents : <<a, s>> \in pending}
InRing(s) == \E e \in ToSet(ring) : e.seq = s

\* Mutant of DrainFor: what is handed out stays queued.
DrainForKeeps(a) ==
    LET found == {s \in QueuedFor(a) : InRing(s)}
    IN  /\ Fetches(a)
        /\ handed' = [handed EXCEPT ![a] = @ \o InOrder(found, [s \in found |-> s])]
        /\ UNCHANGED <<status, clock, registry, subs, conn, ring, next, pending, due, log,
                       snap, used, acked, late, asked>>

\* drain_for: the queue of one agent, without what the ring has lost.
DrainFor(a) ==
    LET found == {s \in QueuedFor(a) : InRing(s)}
    IN  /\ Fetches(a)
        /\ pending' = {p \in pending : p[1] # a}
        /\ handed' = [handed EXCEPT ![a] = @ \o InOrder(found, [s \in found |-> s])]
        /\ UNCHANGED <<status, clock, registry, subs, conn, ring, next, due, log, snap,
                       used, acked, late, asked>>

\* since_for: what a replay after an event number gives.  It changes nothing.
SinceFor(a, since) ==
    LET operator == a \in registry.active /\ registry.role[a] = "operator"
    IN  {e \in ToSet(ring) :
            /\ e.seq > since
            /\ EntitledAt(a, e) \/ (operator /\ e.name \in Incidents)}

-----------------------------------------------------------------------------
(* Snapshots, crashes, recovery.                                           *)

\* The operator's snapshot takes its logical time first, too.
BeginSnapshot(c) ==
    /\ At(c, "idle")
    /\ Tick
    /\ conn' = [conn EXCEPT ![c] = [Resting EXCEPT !.pc = "done", !.at = clock']]
    /\ UNCHANGED <<status, registry, subs, bus, log, snap, used, acked, late, asked>>

\* write_snapshot under the barrier, by the operator or by maybe_snapshot:
\* it has the logical time of the request.
WriteSnapshot(c) ==
    /\ At(c, "done")
    /\ Spend("snaps")
    /\ snap' = [at |-> conn[c].at, registry |-> registry, subs |-> subs]
    /\ Return(c)
    /\ UNCHANGED <<status, clock, registry, subs, bus, log, acked, late, asked>>

NoSnapshot(c) ==
    /\ At(c, "done")
    /\ Return(c)
    /\ UNCHANGED <<status, clock, registry, subs, bus, log, snap, used, acked, late, asked>>

Crash ==
    /\ status = "up"
    /\ Spend("crashes")
    /\ status' = "down"
    /\ conn' = [c \in Conns |-> Resting]
    /\ ring' = <<>>
    /\ next' = 0
    /\ pending' = {}
    /\ due' = [a \in Agents |-> {}]
    /\ handed' = [a \in Agents |-> <<>>]
    /\ asked' = [a \in Agents |-> IF asked[a] = Never THEN Never ELSE 0]
    /\ UNCHANGED <<clock, registry, subs, log, snap, acked, late>>

\* What restore_state of the two cells takes from the snapshot: all of it.
RestoredRegistry == snap.registry
RestoredSubs == snap.subs

\* Mutant of SubscribeWithId: a subscription that is there is refused.
SubscribeWithIdOnce(subscribed, s) ==
    IF s.id = Len(subscribed) + 1 THEN [ok |-> TRUE, subs |-> Append(subscribed, s)]
    ELSE [ok |-> FALSE, subs |-> subscribed]

\* subscribe_with_id: idempotent, and otherwise only the next number.
SubscribeWithId(subscribed, s) ==
    IF s.id = Len(subscribed) + 1 THEN [ok |-> TRUE, subs |-> Append(subscribed, s)]
    ELSE [ok |-> s.id <= Len(subscribed) /\ subscribed[s.id] = s, subs |-> subscribed]

\* Frames in the order of their logical times, of which no two are the same.
ByTime(frames) == InOrder(frames, [s \in frames |-> s.since])

\* Mutant of Replayed: the frame one tick after the snapshot is skipped too.
ReplayedFewer == ByTime({s \in ToSet(log) : s.since > snap.at + 1})

\* The frames recover replays, in its order.
Replayed == ByTime({s \in ToSet(log) : s.since > snap.at})

\* The cell of the snapshot and then frame after frame; the boot fails with the
\* first frame that cannot be applied.
Replaying(frames) ==
    LET r[i \in 0..Len(frames)] ==
            IF i = 0 THEN [ok |-> TRUE, subs |-> RestoredSubs]
            ELSE IF r[i - 1].ok THEN SubscribeWithId(r[i - 1].subs, frames[i])
            ELSE r[i - 1]
    IN  r[Len(frames)]

\* recover.
Recover ==
    LET frames == Replayed
        end == Replaying(frames)
    IN  /\ status = "down"
        /\ registry' = RestoredRegistry
        /\ subs' = end.subs
        /\ status' = IF end.ok THEN "up" ELSE "refused"
        /\ clock' = IF frames = <<>> THEN snap.at ELSE frames[Len(frames)].since
        /\ UNCHANGED <<bus, conn, log, snap, used, acked, late, asked>>

Next ==
    \/ \E a \in Agents : DrainFor(a)
    \/ \E c \in Conns :
          \/ \E a \in Agents, p \in Patterns : BeginSubscribe(c, a, p)
          \/ Subscribe(c)
          \/ BeginWrite(c)
          \/ \E n \in Names : Publish(c, n)
          \/ EndWrite(c)
          \/ BeginSnapshot(c)
          \/ WriteSnapshot(c)
          \/ NoSnapshot(c)
    \/ Crash
    \/ Recover

Spec == Init /\ [][Next]_vars

-----------------------------------------------------------------------------
(* Properties.                                                             *)

\* An event queued for an agent is handed to it once and in the order of
\* publication, is still queued, or left the ring before it was fetched; nobody
\* gets an event that was not queued for it (EventBus::publish, drain_for),
\* from however many connections an agent fetches its queue.
DueIsAccounted ==
    \A a \in Agents :
        LET got == ToSet(handed[a])
        IN  /\ got \cup QueuedFor(a) \subseteq due[a]
            /\ \A s \in due[a] \ (got \cup QueuedFor(a)) : s < next - Len(ring)
            /\ \A i, j \in DOMAIN handed[a] : i < j => handed[a][i] < handed[a][j]

\* A replay gives an agent no event that was published before it first asked
\* for a subscription, incidents for an operator apart, whatever the order of
\* the barrier, of the publications and of the clock of the requests
\* (since_for, entitled_at).
NoEarlyReplay ==
    status = "up" => \A a \in Agents : \A e \in SinceFor(a, 0) :
        \/ e.seq >= asked[a]
        \/ registry.role[a] = "operator" /\ e.name \in Incidents

\* A subscription the client was told of is there whenever the node serves,
\* also after crashes, unless a request was committed behind a later logical
\* time (handle_subscribe, recover).
AckedSubscribed == status = "up" /\ ~late => acked \subseteq ToSet(subs)

\* The subscriptions in the log are replayed without an error, unless the log
\* kept a failed one or holds one behind a later logical time
\* (subscribe_with_id, replay_frame).
SubscriptionsAccepted == status = "refused" => late \/ used["kept"] > 0

=============================================================================
