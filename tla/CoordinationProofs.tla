------------------------ MODULE CoordinationProofs ------------------------
(***************************************************************************)
(* What holds of the event bus and the subscriptions for any agents,       *)
(* connections, events, ring size, snapshots and crashes.                  *)
(***************************************************************************)
EXTENDS Coordination, FiniteSetTheorems, NaturalsInduction, SequenceTheorems, TLAPS

-----------------------------------------------------------------------------
(* Ordering a finite set.                                                  *)

\* Induction over the naturals, stated of a set.
LEMMA SetInduction ==
    ASSUME NEW S \in SUBSET Nat, 0 \in S, \A n \in S : n + 1 \in S
    PROVE  S = Nat
<1> DEFINE T == Nat \ S
<1> SUFFICES ASSUME T # {} PROVE FALSE
  OBVIOUS
<1>1. PICK x \in T : \A y \in T : ~(<<y, x>> \in OpToRel(<, Nat))
  BY WFMin, NatLessThanWellFounded
<1>2. \A y \in T : ~(y < x)
  BY <1>1 DEF OpToRel
<1>3. x # 0 /\ x - 1 \in Nat
  OBVIOUS
<1>4. x - 1 \in S
  BY <1>2, <1>3
<1> QED
  BY <1>3, <1>4

\* q lists the elements of T in the order of their keys.
Lists(q, m, T, key) ==
    /\ q \in [1..m -> T]
    /\ \A x \in T : \E i \in 1..m : q[i] = x
    /\ \A i, j \in 1..m : i < j => key[q[i]] < key[q[j]]

\* Elements with different keys below n can be listed, by induction on n.
LEMMA ListExists ==
    ASSUME NEW S, NEW key \in [S -> Nat],
           \A x, y \in S : key[x] = key[y] => x = y
    PROVE  \A n \in Nat : \A T \in SUBSET S : (\A x \in T : key[x] < n)
               => \E m \in Nat : \E q : Lists(q, m, T, key)
<1> DEFINE Below(n, T) == \A x \in T : key[x] < n
           N == {n \in Nat : \A T \in SUBSET S : Below(n, T)
                                => \E m \in Nat : \E q : Lists(q, m, T, key)}
<1>1. 0 \in N
  <2> SUFFICES ASSUME NEW T \in SUBSET S, Below(0, T)
               PROVE  \E m \in Nat : \E q : Lists(q, m, T, key)
    OBVIOUS
  <2>1. T = {}
    OBVIOUS
  <2>2. Lists([i \in 1..0 |-> 0], 0, T, key)
    BY <2>1 DEF Lists
  <2> QED
    BY <2>2
<1>2. ASSUME NEW n \in N PROVE n + 1 \in N
  <2> SUFFICES ASSUME NEW T \in SUBSET S, Below(n + 1, T)
               PROVE  \E m \in Nat : \E q : Lists(q, m, T, key)
    OBVIOUS
  <2>1. CASE \A x \in T : key[x] # n
    <3>1. Below(n, T)
      BY <2>1
    <3> QED
      BY <3>1
  <2>2. ASSUME NEW z \in T, key[z] = n
        PROVE  \E m \in Nat : \E q : Lists(q, m, T, key)
    <3> DEFINE R == T \ {z}
    <3>1. Below(n, R)
      <4> SUFFICES ASSUME NEW x \in R PROVE key[x] < n
        OBVIOUS
      <4>1. key[x] # n /\ key[x] < n + 1 /\ key[x] \in Nat
        BY <2>2
      <4> QED
        BY <4>1
    <3>2. PICK m \in Nat : \E q : Lists(q, m, R, key)
      BY <3>1
    <3>3. PICK q : Lists(q, m, R, key)
      BY <3>2
    <3> DEFINE p == [i \in 1..(m + 1) |-> IF i = m + 1 THEN z ELSE q[i]]
    <3>4. /\ \A i \in 1..m : q[i] \in R
          /\ \A x \in R : \E i \in 1..m : q[i] = x
          /\ \A i, j \in 1..m : i < j => key[q[i]] < key[q[j]]
      BY <3>3 DEF Lists
    <3>5. \A i \in 1..(m + 1) : i \in 1..m \/ i = m + 1
      OBVIOUS
    <3>6. (\A i \in 1..m : p[i] = q[i] /\ i \in 1..(m + 1) /\ i # m + 1) /\ p[m + 1] = z
          /\ m + 1 \in 1..(m + 1)
      OBVIOUS
    <3>7. p \in [1..(m + 1) -> T]
      BY <3>4, <3>5, <3>6
    <3> HIDE DEF p
    <3>8. \A x \in T : \E i \in 1..(m + 1) : p[i] = x
      BY <3>4, <3>6
    <3>9. \A i, j \in 1..(m + 1) : i < j => key[p[i]] < key[p[j]]
      <4> SUFFICES ASSUME NEW i \in 1..(m + 1), NEW j \in 1..(m + 1), i < j
                   PROVE  key[p[i]] < key[p[j]]
        OBVIOUS
      <4>1. i \in 1..m
        OBVIOUS
      <4>2. CASE j \in 1..m
        BY <3>4, <3>6, <4>1, <4>2
      <4>3. CASE j = m + 1
        BY <2>2, <3>1, <3>4, <3>6, <4>1, <4>3
      <4> QED
        BY <3>5, <4>2, <4>3
    <3>10. Lists(p, m + 1, T, key)
      BY <3>7, <3>8, <3>9 DEF Lists
    <3> QED
      BY <3>10
  <2> QED
    BY <2>1, <2>2
<1> HIDE DEF Below
<1>3. N \in SUBSET Nat
  OBVIOUS
<1>4. N = Nat
  <2> HIDE DEF N
  <2> QED
    BY <1>1, <1>2, <1>3, SetInduction
<1> QED
  BY <1>4 DEF Below

\* What InOrder gives.
LEMMA InOrderLists ==
    ASSUME NEW S, NEW key \in [S -> Nat], NEW n \in Nat,
           \A x, y \in S : key[x] = key[y] => x = y,
           \A x \in S : key[x] < n
    PROVE  /\ Cardinality(S) \in Nat
           /\ Lists(InOrder(S, key), Cardinality(S), S, key)
<1>1. PICK m \in Nat : \E q : Lists(q, m, S, key)
  BY ListExists
<1>2. PICK q : Lists(q, m, S, key)
  BY <1>1
<1>3. \A i, j \in 1..m : q[i] = q[j] => i = j
  <2> SUFFICES ASSUME NEW i \in 1..m, NEW j \in 1..m, q[i] = q[j], i < j
               PROVE  FALSE
    OBVIOUS
  <2>1. key[q[i]] < key[q[j]] /\ key[q[i]] \in Nat
    BY <1>2 DEF Lists
  <2> QED
    BY <2>1
<1>4. q \in Bijection(1..m, S)
  BY <1>2, <1>3 DEF Lists, Bijection, Injection, Surjection, IsInjective
<1>5. Cardinality(S) = m /\ IsFiniteSet(S)
  BY <1>4, FS_CountingElements, FS_NatBijection DEF ExistsBijection
<1>6. PICK p : /\ p \in [1..m -> S]
               /\ \A i, j \in 1..m : i < j => key[p[i]] < key[p[j]]
               /\ p = InOrder(S, key)
  BY <1>2, <1>5 DEF Lists, InOrder
<1>7. \A x \in S : \E i \in 1..m : p[i] = x
  <2>1. \A i, j \in 1..m : p[i] = p[j] => i = j
    <3> SUFFICES ASSUME NEW i \in 1..m, NEW j \in 1..m, p[i] = p[j], i < j
                 PROVE  FALSE
      OBVIOUS
    <3>1. key[p[i]] < key[p[j]] /\ key[p[i]] \in Nat
      BY <1>6
    <3> QED
      BY <3>1
  <2>2. p \in Injection(1..m, S)
    BY <1>6, <2>1 DEF Injection, IsInjective
  <2>3. IsFiniteSet(1..m) /\ Cardinality(1..m) = m
    BY FS_Interval
  <2>4. p \in Surjection(1..m, S)
    BY <1>5, <2>2, <2>3, FS_Injection
  <2> QED
    BY <2>4 DEF Surjection
<1> QED
  BY <1>5, <1>6, <1>7 DEF Lists

-----------------------------------------------------------------------------
(* Events: what is due to an agent is handed to it, queued, or lost with   *)
(* the ring.                                                               *)

\* The ring is the end of what was published, without a hole.
RingIsRecent ==
    /\ next \in Nat /\ next <= MaxEvents
    /\ ring \in Seq([seq : Nat, name : Names, at : Nat])
    /\ Len(ring) <= next
    /\ \A i \in 1..Len(ring) : ring[i].seq = next - Len(ring) + i - 1

Got(a) == {handed[a][i] : i \in 1..Len(handed[a])}

\* Nothing that is still queued is older than what was handed out.
QueuesInOrder ==
    /\ handed \in [Agents -> Seq(Nat)]
    /\ due \in [Agents -> SUBSET Nat]
    /\ \A a \in Agents :
          /\ Got(a) \subseteq due[a]
          /\ QueuedFor(a) \subseteq due[a]
          /\ \A s \in due[a] : s < next
          /\ \A s \in due[a] : s \in Got(a) \/ s \in QueuedFor(a) \/ s < next - Len(ring)
          /\ \A i, j \in 1..Len(handed[a]) : i < j => handed[a][i] < handed[a][j]
          /\ \A i \in 1..Len(handed[a]) : \A s \in QueuedFor(a) : handed[a][i] < s

ConnTimes == conn \in [Conns -> [pc : {"idle", "subscribe", "write", "done"}, agent : Agents,
                                 at : Nat, pattern : SUBSET Names]]

\* The inductive invariant behind DueIsAccounted.
BusInv == clock \in Nat /\ ConnTimes /\ RingIsRecent /\ QueuesInOrder

\* A number is in the ring exactly when it is among the last ones.
LEMMA RingHolds ==
    ASSUME RingIsRecent, NEW s \in Nat, s < next
    PROVE  InRing(s) <=> s >= next - Len(ring)
<1>1. Len(ring) \in Nat /\ DOMAIN ring = 1..Len(ring) /\ next \in Nat
  BY DEF RingIsRecent
<1>2. ASSUME InRing(s) PROVE s >= next - Len(ring)
  <2>1. PICK i \in 1..Len(ring) : ring[i].seq = s
    BY <1>1, <1>2 DEF InRing, ToSet
  <2>2. s = next - Len(ring) + i - 1
    BY <2>1 DEF RingIsRecent
  <2> QED
    BY <1>1, <2>2
<1>3. ASSUME s >= next - Len(ring) PROVE InRing(s)
  <2> DEFINE i == s - (next - Len(ring)) + 1
  <2>1. i \in 1..Len(ring) /\ next - Len(ring) + i - 1 = s
    BY <1>1, <1>3
  <2> HIDE DEF i
  <2>2. ring[i].seq = s
    BY <2>1 DEF RingIsRecent
  <2> QED
    BY <1>1, <2>1, <2>2 DEF InRing, ToSet
<1> QED
  BY <1>2, <1>3

\* EventBus::publish.
LEMMA PublishKeepsBus ==
    ASSUME BusInv, NEW c \in Conns, NEW n \in Names, Publish(c, n)
    PROVE  RingIsRecent' /\ QueuesInOrder'
<1> DEFINE e == [seq |-> next, name |-> n, at |-> conn[c].at]
           old == Kept(ring)
           Events == [seq : Nat, name : Names, at : Nat]
<1>1. next \in Nat /\ next < MaxEvents /\ next' = next + 1 /\ MaxEvents \in Nat
  BY CoordinationConstants DEF BusInv, RingIsRecent, Publish
<1>2. e \in Events
  BY <1>1 DEF BusInv, ConnTimes
<1>3. ring' = Append(old, e)
  BY DEF Publish
<1>4. /\ ring \in Seq(Events) /\ Len(ring) \in Nat /\ Len(ring) <= next
      /\ \A i \in 1..Len(ring) : ring[i].seq = next - Len(ring) + i - 1
  BY DEF BusInv, RingIsRecent
<1>5. RingMax \in Nat \ {0}
  BY CoordinationConstants
<1> HIDE DEF e, Events
<1>6. /\ old \in Seq(Events) /\ Len(old) \in Nat /\ Len(old) <= Len(ring)
      /\ \A i \in 1..Len(old) : old[i].seq = next - Len(old) + i - 1
  <2>1. CASE Len(ring) = RingMax
    <3>1. ring # <<>> /\ old = Tail(ring)
      BY <1>4, <1>5, <2>1 DEF Kept
    <3>2. Len(old) = Len(ring) - 1 /\ old \in Seq(Events)
          /\ \A i \in 1..Len(old) : old[i] = ring[i + 1] /\ i + 1 \in 1..Len(ring)
      BY <1>4, <3>1
    <3>3. \A i \in 1..Len(old) : old[i].seq = next - Len(ring) + (i + 1) - 1
      BY <1>4, <3>2
    <3>4. ASSUME NEW i \in 1..Len(old) PROVE old[i].seq = next - Len(old) + i - 1
      <4>1. i \in Int /\ next - Len(ring) + (i + 1) - 1 = next - Len(old) + i - 1
        BY <1>1, <1>4, <3>2
      <4> QED
        BY <3>3, <4>1
    <3>5. Len(old) \in Nat /\ Len(old) <= Len(ring)
      BY <1>4, <3>2
    <3> QED
      BY <3>2, <3>4, <3>5
  <2>2. CASE Len(ring) # RingMax
    BY <1>4, <2>2 DEF Kept
  <2> QED
    BY <2>1, <2>2
<1> HIDE DEF old
<1>7. /\ ring' \in Seq(Events) /\ Len(ring') = Len(old) + 1
      /\ \A i \in 1..Len(old) : ring'[i] = old[i]
      /\ ring'[Len(old) + 1] = e
  BY <1>2, <1>3, <1>6
<1>8. \A i \in 1..Len(ring') : ring'[i].seq = next' - Len(ring') + i - 1
  <2> TAKE i \in 1..Len(ring')
  <2>1. CASE i \in 1..Len(old)
    <3>1. ring'[i].seq = next - Len(old) + i - 1
      BY <1>6, <1>7, <2>1
    <3> QED
      BY <1>1, <1>6, <1>7, <3>1
  <2>2. CASE i = Len(old) + 1
    <3>1. ring'[i].seq = next
      BY <1>7, <2>2 DEF e
    <3> QED
      BY <1>1, <1>6, <1>7, <2>2, <3>1
  <2> QED
    BY <1>6, <1>7, <2>1, <2>2
<1>9. RingIsRecent'
  <2>1. next' \in Nat /\ next' <= MaxEvents /\ Len(ring') <= next'
    BY <1>1, <1>4, <1>6, <1>7
  <2>2. ring' \in Seq([seq : Nat, name : Names, at : Nat])
    BY <1>7 DEF Events
  <2> QED
    BY <1>8, <2>1, <2>2 DEF RingIsRecent
<1>10. next - Len(ring) <= next' - Len(ring')
  BY <1>1, <1>4, <1>6, <1>7
<1>11. /\ handed' = handed
       /\ pending' = pending \cup (Recipients(n) \X {next})
       /\ due' = [a \in Agents |-> IF a \in Recipients(n) THEN due[a] \cup {next} ELSE due[a]]
  BY DEF Publish
<1>12. QueuesInOrder'
  <2>1. handed' \in [Agents -> Seq(Nat)] /\ due' \in [Agents -> SUBSET Nat]
    BY <1>1, <1>11 DEF BusInv, QueuesInOrder
  <2>2. ASSUME NEW a \in Agents
        PROVE  /\ Got(a)' \subseteq due'[a]
               /\ QueuedFor(a)' \subseteq due'[a]
               /\ \A s \in due'[a] : s < next'
               /\ \A s \in due'[a] :
                     s \in Got(a)' \/ s \in QueuedFor(a)' \/ s < next' - Len(ring')
               /\ \A i, j \in 1..Len(handed'[a]) : i < j => handed'[a][i] < handed'[a][j]
               /\ \A i \in 1..Len(handed'[a]) : \A s \in QueuedFor(a)' : handed'[a][i] < s
    <3>1. Got(a)' = Got(a)
      BY <1>11 DEF Got
    <3>2. QueuedFor(a)' = IF a \in Recipients(n) THEN QueuedFor(a) \cup {next} ELSE QueuedFor(a)
      BY <1>1, <1>11 DEF QueuedFor
    <3>3. due'[a] = IF a \in Recipients(n) THEN due[a] \cup {next} ELSE due[a]
      BY <1>11
    <3>4. /\ Got(a) \subseteq due[a] /\ QueuedFor(a) \subseteq due[a] /\ due[a] \subseteq Nat
          /\ \A s \in due[a] : s < next
          /\ \A s \in due[a] : s \in Got(a) \/ s \in QueuedFor(a) \/ s < next - Len(ring)
          /\ \A i, j \in 1..Len(handed[a]) : i < j => handed[a][i] < handed[a][j]
          /\ \A i \in 1..Len(handed[a]) : \A s \in QueuedFor(a) : handed[a][i] < s
      BY DEF BusInv, QueuesInOrder
    <3>5. Got(a)' \subseteq due'[a] /\ QueuedFor(a)' \subseteq due'[a]
      BY <3>1, <3>2, <3>3, <3>4
    <3>6. \A s \in due'[a] : s < next'
      BY <1>1, <3>3, <3>4
    <3>7. \A s \in due'[a] : s \in Got(a)' \/ s \in QueuedFor(a)' \/ s < next' - Len(ring')
      <4> SUFFICES ASSUME NEW s \in due'[a], s \notin Got(a)', s \notin QueuedFor(a)'
                   PROVE  s < next' - Len(ring')
        OBVIOUS
      <4>1. s \in due[a] /\ s < next - Len(ring) /\ s \in Nat
        BY <3>1, <3>2, <3>3, <3>4
      <4>2. next' - Len(ring') \in Int /\ next - Len(ring) \in Int
        BY <1>1, <1>4, <1>6, <1>7
      <4> QED
        BY <1>10, <4>1, <4>2
    <3>8. \A i \in 1..Len(handed[a]) : handed[a][i] < next
      BY <3>4 DEF Got
    <3>9. \A i \in 1..Len(handed'[a]) : \A s \in QueuedFor(a)' : handed'[a][i] < s
      BY <1>11, <3>2, <3>4, <3>8
    <3> QED
      BY <1>11, <3>4, <3>5, <3>6, <3>7, <3>9
  <2> QED
    BY <2>1, <2>2 DEF QueuesInOrder
<1> QED
  BY <1>9, <1>12

\* EventBus::drain_for.
LEMMA DrainKeepsQueues ==
    ASSUME BusInv, NEW b \in Agents, DrainFor(b)
    PROVE  QueuesInOrder'
<1> DEFINE found == {s \in QueuedFor(b) : InRing(s)}
           key == [s \in found |-> s]
           out == InOrder(found, key)
           m == Cardinality(found)
<1>1. /\ handed \in [Agents -> Seq(Nat)] /\ due \in [Agents -> SUBSET Nat]
      /\ next \in Nat /\ Len(ring) \in Nat /\ Len(ring) <= next
  BY DEF BusInv, QueuesInOrder, RingIsRecent
<1>2. /\ handed' = [handed EXCEPT ![b] = handed[b] \o out]
      /\ pending' = {p \in pending : p[1] # b}
      /\ due' = due /\ next' = next /\ ring' = ring
  BY DEF DrainFor
<1>3. /\ Got(b) \subseteq due[b] /\ QueuedFor(b) \subseteq due[b] /\ due[b] \subseteq Nat
      /\ \A s \in due[b] : s < next
      /\ \A s \in due[b] : s \in Got(b) \/ s \in QueuedFor(b) \/ s < next - Len(ring)
      /\ \A i, j \in 1..Len(handed[b]) : i < j => handed[b][i] < handed[b][j]
      /\ \A i \in 1..Len(handed[b]) : \A s \in QueuedFor(b) : handed[b][i] < s
  BY DEF BusInv, QueuesInOrder
<1>4. found \subseteq QueuedFor(b) /\ found \subseteq Nat /\ key \in [found -> Nat]
      /\ (\A s \in found : key[s] = s /\ s < next)
  BY <1>3
<1>5. m \in Nat /\ Lists(out, m, found, key)
  <2>1. \A x, y \in found : key[x] = key[y] => x = y
    BY <1>4
  <2>2. \A x \in found : key[x] < next
    BY <1>4
  <2> HIDE DEF found, key
  <2> QED
    BY <1>1, <1>4, <2>1, <2>2, InOrderLists
<1>6. \A s \in QueuedFor(b) : s \in found \/ s < next - Len(ring)
  <2>1. ASSUME NEW s \in QueuedFor(b), ~InRing(s) PROVE s < next - Len(ring)
    <3>1. s \in Nat /\ s < next
      BY <1>3
    <3>2. ~(s >= next - Len(ring))
      BY <2>1, <3>1, RingHolds DEF BusInv
    <3> QED
      BY <1>1, <3>1, <3>2
  <2> QED
    BY <2>1
<1> HIDE DEF found, key, m, out
<1>7. /\ out \in [1..m -> found]
      /\ \A x \in found : \E i \in 1..m : out[i] = x
      /\ \A i, j \in 1..m : i < j => out[i] < out[j]
  BY <1>4, <1>5 DEF Lists
<1>8. out \in Seq(Nat) /\ Len(out) = m
  <2>1. out \in [1..m -> Nat] /\ m \in Nat
    BY <1>4, <1>5, <1>7
  <2> QED
    BY ONLY <2>1
<1> DEFINE h == handed[b]
           g == h \o out
<1>9. h \in Seq(Nat) /\ Len(h) \in Nat
  BY <1>1
<1>10. /\ g \in Seq(Nat) /\ Len(g) = Len(h) + m
       /\ \A i \in 1..Len(h) : g[i] = h[i]
       /\ \A i \in 1..m : g[Len(h) + i] = out[i]
  <2>1. /\ g \in Seq(Nat) /\ Len(g) = Len(h) + Len(out)
        /\ \A i \in 1..Len(h) : g[i] = h[i]
        /\ \A i \in 1..Len(out) : g[Len(h) + i] = out[i]
    <3> HIDE DEF h
    <3>1. h \in Seq(Nat) /\ out \in Seq(Nat)
      BY <1>8, <1>9
    <3> QED
      BY ONLY <3>1, ConcatProperties DEF g
  <2> QED
    BY <1>8, <2>1
<1>11. \A k \in 1..Len(g) : k \in 1..Len(h) \/ (k - Len(h) \in 1..m /\ g[k] = out[k - Len(h)])
  <2> TAKE k \in 1..Len(g)
  <2>1. CASE k <= Len(h)
    BY <1>9, <2>1
  <2>2. CASE k > Len(h)
    <3>1. k - Len(h) \in 1..m /\ Len(h) + (k - Len(h)) = k
      BY <1>5, <1>9, <1>10, <2>2
    <3> QED
      BY <1>10, <3>1
  <2> QED
    BY <1>9, <2>1, <2>2
<1>12. handed'[b] = g /\ \A a \in Agents \ {b} : handed'[a] = handed[a]
  BY <1>1, <1>2
<1>13. handed' \in [Agents -> Seq(Nat)] /\ due' \in [Agents -> SUBSET Nat]
  <2>1. handed' = [handed EXCEPT ![b] = g] /\ g \in Seq(Nat)
    BY <1>2, <1>10
  <2> HIDE DEF g
  <2> QED
    BY <1>1, <1>2, <2>1
<1>14. QueuedFor(b)' = {} /\ \A a \in Agents \ {b} : QueuedFor(a)' = QueuedFor(a)
  BY <1>2 DEF QueuedFor
<1>15. Got(b)' = Got(b) \cup found
  <2>1. Got(b) = {h[i] : i \in 1..Len(h)}
    BY DEF Got
  <2>2. Got(b)' = {g[i] : i \in 1..Len(g)}
    BY <1>12 DEF Got
  <2>3. \A i \in 1..Len(h) : i \in 1..Len(g)
    BY <1>5, <1>9, <1>10
  <2>4. \A i \in 1..m : Len(h) + i \in 1..Len(g)
    BY <1>5, <1>9, <1>10
  <2>5. \A x \in Got(b)' : x \in Got(b) \cup found
    <3> SUFFICES ASSUME NEW k \in 1..Len(g) PROVE g[k] \in Got(b) \cup found
      BY <2>2
    <3>1. CASE k \in 1..Len(h)
      BY <1>10, <2>1, <3>1
    <3>2. CASE k - Len(h) \in 1..m /\ g[k] = out[k - Len(h)]
      BY <1>7, <3>2
    <3> QED
      BY <1>11, <3>1, <3>2
  <2>6. \A x \in Got(b) : x \in Got(b)'
    BY <1>10, <2>1, <2>2, <2>3
  <2>7. \A x \in found : x \in Got(b)'
    BY <1>7, <1>10, <2>2, <2>4
  <2> QED
    BY <2>5, <2>6, <2>7
<1>16. \A i, j \in 1..Len(g) : i < j => g[i] < g[j]
  <2> SUFFICES ASSUME NEW i \in 1..Len(g), NEW j \in 1..Len(g), i < j
               PROVE  g[i] < g[j]
    OBVIOUS
  <2>1. CASE i \in 1..Len(h) /\ j \in 1..Len(h)
    BY <1>3, <1>10, <2>1
  <2>2. CASE i \in 1..Len(h) /\ j \notin 1..Len(h)
    <3>1. g[j] \in found
      BY <1>7, <1>11, <2>2
    <3> QED
      BY <1>3, <1>4, <1>10, <2>2, <3>1
  <2>3. CASE i \notin 1..Len(h)
    <3>1. /\ i - Len(h) \in 1..m /\ g[i] = out[i - Len(h)]
      BY <1>11, <2>3
    <3>2. j \notin 1..Len(h)
      BY <1>9, <2>3
    <3>3. j - Len(h) \in 1..m /\ g[j] = out[j - Len(h)]
      BY <1>11, <3>2
    <3>4. i - Len(h) < j - Len(h)
      BY <1>9
    <3> QED
      BY <1>7, <3>1, <3>3, <3>4
  <2> QED
    BY <2>1, <2>2, <2>3
<1> HIDE DEF g, h
<1>17. ASSUME NEW a \in Agents
       PROVE  /\ Got(a)' \subseteq due'[a]
              /\ QueuedFor(a)' \subseteq due'[a]
              /\ \A s \in due'[a] : s < next'
              /\ \A s \in due'[a] :
                    s \in Got(a)' \/ s \in QueuedFor(a)' \/ s < next' - Len(ring')
              /\ \A i, j \in 1..Len(handed'[a]) : i < j => handed'[a][i] < handed'[a][j]
              /\ \A i \in 1..Len(handed'[a]) : \A s \in QueuedFor(a)' : handed'[a][i] < s
  <2>1. CASE a = b
    <3>1. Got(b)' \subseteq due'[b] /\ QueuedFor(b)' \subseteq due'[b]
          /\ \A s \in due'[b] : s < next'
      BY <1>2, <1>3, <1>4, <1>14, <1>15
    <3>2. \A s \in due'[b] :
             s \in Got(b)' \/ s \in QueuedFor(b)' \/ s < next' - Len(ring')
      BY <1>2, <1>3, <1>6, <1>15
    <3>3. \A i, j \in 1..Len(handed'[b]) : i < j => handed'[b][i] < handed'[b][j]
      BY <1>12, <1>16
    <3>4. \A i \in 1..Len(handed'[b]) : \A s \in QueuedFor(b)' : handed'[b][i] < s
      BY <1>14
    <3> QED
      BY <2>1, <3>1, <3>2, <3>3, <3>4
  <2>2. CASE a # b
    <3>1. Got(a)' = Got(a) /\ QueuedFor(a)' = QueuedFor(a) /\ handed'[a] = handed[a]
      BY <1>12, <1>14, <2>2 DEF Got
    <3> QED
      BY <1>2, <3>1 DEF BusInv, QueuesInOrder
  <2> QED
    BY <2>1, <2>2
<1> QED
  BY <1>13, <1>17 DEF QueuesInOrder

-----------------------------------------------------------------------------
(* Replaying subscriptions.                                                *)

Sub == [id : Nat \ {0}, agent : Agents, pattern : SUBSET Names, since : Nat]

\* r[i] is what the replay has after i frames.
Replays(r, frames, n) ==
    /\ r[0] = [ok |-> TRUE, subs |-> RestoredSubs]
    /\ \A i \in 1..n : r[i] = IF r[i - 1].ok
                              THEN SubscribeWithId(r[i - 1].subs, frames[i])
                              ELSE r[i - 1]

\* The recursion of Replaying has a solution: induction on its length.
LEMMA ReplayingUnfolds ==
    ASSUME NEW frames, NEW n \in Nat, n = Len(frames)
    PROVE  \E r : Replaying(frames) = r[n] /\ Replays(r, frames, n)
<1> DEFINE Step(x, i) == IF x.ok THEN SubscribeWithId(x.subs, frames[i]) ELSE x
           First == [ok |-> TRUE, subs |-> RestoredSubs]
           Runs(g, k) == g = [i \in 0..k |-> IF i = 0 THEN First ELSE Step(g[i - 1], i)]
           N == {k \in Nat : \E g : Runs(g, k)}
<1>1. \A g : \A k \in Nat : Runs(g, k) <=>
          g = [i \in 0..k |-> IF i = 0 THEN [ok |-> TRUE, subs |-> RestoredSubs]
                              ELSE IF g[i - 1].ok THEN SubscribeWithId(g[i - 1].subs, frames[i])
                              ELSE g[i - 1]]
  OBVIOUS
<1> HIDE DEF Step, First
<1>2. 0 \in N
  <2>1. Runs([i \in 0..0 |-> First], 0)
    OBVIOUS
  <2> QED
    BY <2>1
<1>3. ASSUME NEW k \in N PROVE k + 1 \in N
  <2>1. PICK g : Runs(g, k)
    OBVIOUS
  <2> DEFINE h == [i \in 0..(k + 1) |-> IF i <= k THEN g[i] ELSE Step(g[k], k + 1)]
  <2>2. \A i \in 0..(k + 1) : h[i] = IF i = 0 THEN First ELSE Step(h[i - 1], i)
    <3> TAKE i \in 0..(k + 1)
    <3>1. CASE i = 0
      BY <2>1, <3>1
    <3>2. CASE i # 0 /\ i <= k
      <4>1. i \in 0..k /\ i - 1 \in 0..k /\ i - 1 \in 0..(k + 1) /\ i - 1 <= k
        BY <3>2
      <4>2. h[i] = g[i] /\ h[i - 1] = g[i - 1]
        BY <3>2, <4>1
      <4>3. g[i] = Step(g[i - 1], i)
        BY <2>1, <3>2, <4>1
      <4> HIDE DEF h
      <4> QED
        BY <3>2, <4>2, <4>3
    <3>3. CASE i = k + 1
      <4>1. k \in 0..(k + 1) /\ k <= k /\ (k + 1) - 1 = k /\ k + 1 \in 0..(k + 1)
            /\ ~(k + 1 <= k) /\ k + 1 # 0
        OBVIOUS
      <4>2. h[k] = g[k] /\ h[k + 1] = Step(g[k], k + 1)
        BY <4>1
      <4> HIDE DEF h
      <4> QED
        BY <3>3, <4>1, <4>2
    <3> QED
      BY <3>1, <3>2, <3>3
  <2>3. Runs(h, k + 1)
    <3>1. h = [i \in 0..(k + 1) |-> h[i]]
      OBVIOUS
    <3> HIDE DEF h
    <3> QED
      BY <2>2, <3>1
  <2>4. \E x : Runs(x, k + 1)
    <3> HIDE DEF Runs, h
    <3> QED
      BY <2>3
  <2> QED
    BY <2>4
<1>4. N = Nat
  <2>1. N \in SUBSET Nat
    OBVIOUS
  <2> HIDE DEF N
  <2> QED
    BY <1>2, <1>3, <2>1, SetInduction
<1>5. \E g : Runs(g, n)
  BY <1>4
<1>6. PICK r : r = (CHOOSE g : Runs(g, n))
  OBVIOUS
<1>7. Runs(r, n)
  <2> HIDE DEF Runs
  <2> QED
    BY <1>5, <1>6
<1>8. Replaying(frames) = r[n]
  BY <1>6 DEF Replaying, Step, First
<1>9. /\ r[0] = First
      /\ \A i \in 1..n : r[i] = Step(r[i - 1], i)
  BY <1>7
<1>10. Replays(r, frames, n)
  BY <1>9 DEF Step, First, Replays
<1> QED
  BY <1>8, <1>10

\* After i frames: the restored subscriptions and some of the frames, and all
\* i of them when none has failed.
KeptBy(x, frames, i) ==
    /\ x.ok \in BOOLEAN
    /\ x.subs \in Seq(Sub)
    /\ \A k \in 1..Len(RestoredSubs) : \E j \in 1..Len(x.subs) : x.subs[j] = RestoredSubs[k]
    /\ \A j \in 1..Len(x.subs) :
          \/ \E k \in 1..Len(RestoredSubs) : x.subs[j] = RestoredSubs[k]
          \/ \E k \in 1..Len(frames) : x.subs[j] = frames[k]
    /\ x.ok => \A k \in 1..i : \E j \in 1..Len(x.subs) : x.subs[j] = frames[k]

LEMMA ReplayingKeeps ==
    ASSUME NEW frames \in Seq(Sub), RestoredSubs \in Seq(Sub)
    PROVE  KeptBy(Replaying(frames), frames, Len(frames))
<1>1. PICK n \in Nat : n = Len(frames)
  OBVIOUS
<1> DEFINE Holds(x, i) == KeptBy(x, frames, i)
<1>2. PICK r : Replaying(frames) = r[n] /\ Replays(r, frames, n)
  BY <1>1, ReplayingUnfolds
<1> DEFINE N == {i \in Nat : i <= n => Holds(r[i], i)}
<1>3. 0 \in N
  <2>1. r[0].ok = TRUE /\ r[0].subs = RestoredSubs
    BY <1>2 DEF Replays
  <2>2. /\ r[0].ok \in BOOLEAN
        /\ r[0].subs \in Seq(Sub)
        /\ \A k \in 1..Len(RestoredSubs) : \E j \in 1..Len(r[0].subs) :
              r[0].subs[j] = RestoredSubs[k]
        /\ \A j \in 1..Len(r[0].subs) : \E k \in 1..Len(RestoredSubs) :
              r[0].subs[j] = RestoredSubs[k]
    BY <2>1
  <2>4. \A k \in 1..0 : FALSE
    OBVIOUS
  <2>3. Holds(r[0], 0)
    BY <2>2, <2>4 DEF KeptBy
  <2> HIDE DEF Holds
  <2> QED
    BY <2>3
<1>4. ASSUME NEW i \in N PROVE i + 1 \in N
  <2> SUFFICES ASSUME i + 1 <= n PROVE Holds(r[i + 1], i + 1)
    OBVIOUS
  <2> DEFINE x == r[i]
             f == frames[i + 1]
  <2>1. Holds(x, i) /\ i \in Nat
    BY <1>1
  <2>2. i + 1 \in 1..n /\ (i + 1) - 1 = i
    BY <1>1
  <2>3. r[i + 1] = IF x.ok THEN SubscribeWithId(x.subs, f) ELSE x
    BY <1>2, <2>2 DEF Replays
  <2>4. f \in Sub
    BY <1>1, <2>2
  <2>5. \A k \in 1..(i + 1) : k \in 1..i \/ k = i + 1
    BY <2>1
  <2>6. CASE ~x.ok
    BY <2>1, <2>3, <2>6 DEF KeptBy
  <2>7. CASE x.ok /\ f.id = Len(x.subs) + 1
    <3> DEFINE t == Append(x.subs, f)
    <3>1. r[i + 1] = [ok |-> TRUE, subs |-> t]
      BY <2>3, <2>7 DEF SubscribeWithId
    <3>2. r[i + 1].ok = TRUE /\ r[i + 1].subs = t
      BY <3>1
    <3>3. /\ t \in Seq(Sub) /\ Len(t) = Len(x.subs) + 1 /\ Len(x.subs) \in Nat
          /\ \A j \in 1..Len(x.subs) : t[j] = x.subs[j] /\ j \in 1..Len(t)
          /\ t[Len(x.subs) + 1] = f /\ Len(x.subs) + 1 \in 1..Len(t)
      BY <2>1, <2>4 DEF KeptBy
    <3> HIDE DEF t, x
    <3>17. PICK s : s = x.subs
      OBVIOUS
    <3>4. PICK l \in Nat : l = Len(s)
      BY <3>3, <3>17
    <3> DEFINE Restored(e) == \E k \in 1..Len(RestoredSubs) : e = RestoredSubs[k]
               Logged(e) == \E k \in 1..Len(frames) : e = frames[k]
    <3>14. /\ \A k \in 1..Len(RestoredSubs) : \E j \in 1..l : s[j] = RestoredSubs[k]
           /\ \A k \in 1..i : \E j \in 1..l : s[j] = frames[k]
      BY <2>1, <2>7, <3>4, <3>17 DEF KeptBy
    <3>15. \A j \in 1..l : Restored(s[j]) \/ Logged(s[j])
      BY <2>1, <3>4, <3>17 DEF KeptBy
    <3>16. /\ Len(t) = l + 1 /\ t[l + 1] = f
           /\ \A j \in 1..l : t[j] = s[j] /\ j \in 1..Len(t)
           /\ \A j \in 1..Len(t) : j \in 1..l \/ j = l + 1
           /\ l + 1 \in 1..Len(t)
      BY <3>3, <3>4, <3>17
    <3>5. \A k \in 1..Len(RestoredSubs) : \E j \in 1..Len(t) : t[j] = RestoredSubs[k]
      BY ONLY <3>14, <3>16
    <3>6. \A j \in 1..Len(t) : \/ \E k \in 1..Len(RestoredSubs) : t[j] = RestoredSubs[k]
                               \/ \E k \in 1..Len(frames) : t[j] = frames[k]
      <4> SUFFICES ASSUME NEW j \in 1..Len(t) PROVE Restored(t[j]) \/ Logged(t[j])
        OBVIOUS
      <4>1. Logged(f)
        BY <1>1, <2>2
      <4> HIDE DEF Restored, Logged
      <4> QED
        BY <3>15, <3>16, <4>1
    <3>7. \A k \in 1..(i + 1) : \E j \in 1..Len(t) : t[j] = frames[k]
      <4> TAKE k \in 1..(i + 1)
      <4>1. CASE k \in 1..i
        BY ONLY <3>14, <3>16, <4>1
      <4>2. CASE k = i + 1
        BY <3>16, <4>2
      <4> QED
        BY <2>5, <4>1, <4>2
    <3>8. PICK y : y = r[i + 1]
      OBVIOUS
    <3>18. y.subs = t
      BY <3>2, <3>8
    <3>9. y.ok \in BOOLEAN /\ y.subs \in Seq(Sub)
      BY <3>2, <3>3, <3>8
    <3>10. \A k \in 1..Len(RestoredSubs) : \E j \in 1..Len(y.subs) : y.subs[j] = RestoredSubs[k]
      BY <3>5, <3>18
    <3>11. \A j \in 1..Len(y.subs) : \/ \E k \in 1..Len(RestoredSubs) : y.subs[j] = RestoredSubs[k]
                                     \/ \E k \in 1..Len(frames) : y.subs[j] = frames[k]
      BY <3>6, <3>18
    <3>12. \A k \in 1..(i + 1) : \E j \in 1..Len(y.subs) : y.subs[j] = frames[k]
      BY <3>7, <3>18
    <3>13. KeptBy(y, frames, i + 1)
      BY ONLY <3>9, <3>10, <3>11, <3>12 DEF KeptBy
    <3> QED
      BY <3>8, <3>13
  <2>8. CASE x.ok /\ f.id # Len(x.subs) + 1
    <3> DEFINE b == f.id <= Len(x.subs) /\ x.subs[f.id] = f
    <3>1. r[i + 1] = [ok |-> b, subs |-> x.subs]
      BY <2>3, <2>8 DEF SubscribeWithId
    <3>2. r[i + 1].ok = b /\ r[i + 1].subs = x.subs
      BY <3>1
    <3>3. b => f.id \in 1..Len(x.subs) /\ x.subs[f.id] = f
      BY <2>1, <2>4 DEF Sub, KeptBy
    <3>4. b \in BOOLEAN
      OBVIOUS
    <3> HIDE DEF b, x
    <3>8. \A k \in 1..i : \E j \in 1..Len(x.subs) : x.subs[j] = frames[k]
      BY <2>1, <2>8 DEF KeptBy
    <3>5. b => \A k \in 1..(i + 1) : \E j \in 1..Len(x.subs) : x.subs[j] = frames[k]
      BY ONLY <2>5, <3>3, <3>8, f = frames[i + 1]
    <3>6. CASE b
      <4>1. r[i + 1].ok = TRUE
        BY <3>2, <3>4, <3>6
      <4> QED
        BY <2>1, <3>2, <3>5, <3>6, <4>1 DEF KeptBy
    <3>7. CASE ~b
      <4>1. r[i + 1].ok = FALSE
        BY <3>2, <3>4, <3>7
      <4>2. r[i + 1].ok \in BOOLEAN /\ ~r[i + 1].ok
        BY <4>1
      <4> QED
        BY <2>1, <3>2, <4>2 DEF KeptBy
    <3> QED
      BY <3>6, <3>7
  <2> QED
    BY <2>6, <2>7, <2>8
<1>5. N = Nat
  <2>1. N \in SUBSET Nat
    OBVIOUS
  <2> HIDE DEF N
  <2> QED
    BY <1>3, <1>4, <2>1, SetInduction
<1>6. Holds(r[n], n)
  <2> HIDE DEF Holds
  <2>1. n \in N /\ n <= n
    BY <1>1, <1>5
  <2> QED
    BY <2>1
<1> QED
  BY <1>1, <1>2, <1>6

-----------------------------------------------------------------------------
(* The inductive invariant, by parts.                                      *)

Types ==
    /\ status \in {"up", "down", "refused"}
    /\ clock \in Nat
    /\ ConnTimes
    /\ subs \in Seq(Sub)
    /\ log \in Seq(Sub)
    /\ snap.at \in Nat
    /\ snap.subs \in Seq(Sub)
    /\ used \in [Counted -> Nat]
    /\ late \in BOOLEAN
    /\ asked \in [Agents -> Nat]

\* Nothing of a life is left when the node is not up.
Quiet ==
    status # "up" => /\ ring = <<>> /\ next = 0
                     /\ \A c \in Conns : conn[c] = Resting

\* No two subscriptions have the same logical time, and none is in the future.
TimesDiffer ==
    /\ snap.at <= clock
    /\ \A c \in Conns : conn[c].at <= clock
    /\ \A i \in 1..Len(log) : log[i].since <= clock
    /\ \A i, j \in 1..Len(log) : log[i].since = log[j].since => i = j
    /\ \A c \in Conns : conn[c].pc = "subscribe" =>
          /\ \A i \in 1..Len(log) : log[i].since # conn[c].at
          /\ \A d \in Conns : conn[d].pc = "subscribe" /\ conn[d].at = conn[c].at => d = c

\* Whoever subscribes has asked, and what was published before that is older
\* than the subscription.
AskedBefore ==
    /\ \A a \in Agents : asked[a] = Never \/ asked[a] <= next
    /\ \A i \in 1..Len(subs) : asked[subs[i].agent] # Never
    /\ \A i \in 1..Len(log) : asked[log[i].agent] # Never
    /\ \A i \in 1..Len(snap.subs) : asked[snap.subs[i].agent] # Never
    /\ \A c \in Conns : conn[c].pc = "subscribe" => asked[conn[c].agent] # Never
    /\ \A k \in 1..Len(ring) : ring[k].at <= clock
    /\ status = "up" => \A i \in 1..Len(subs) : \A k \in 1..Len(ring) :
          ring[k].seq < asked[subs[i].agent] => ring[k].at < subs[i].since
    /\ \A c \in Conns : conn[c].pc = "subscribe" => \A k \in 1..Len(ring) :
          ring[k].seq < asked[conn[c].agent] => ring[k].at < conn[c].at

\* What the client was told of is in the snapshot or will be replayed.
AckedKept ==
    ~late => /\ status = "up" => \A f \in acked : \E i \in 1..Len(subs) : subs[i] = f
             /\ \A f \in acked :
                   \/ \E i \in 1..Len(snap.subs) : snap.subs[i] = f
                   \/ f.since > snap.at /\ \E i \in 1..Len(log) : log[i] = f

\* The log is the cell: its numbers and its times increase together, and the
\* snapshot has the part that is not replayed.
LogIsCell ==
    ~late /\ used["kept"] = 0 =>
        /\ status # "refused"
        /\ status = "up" => subs = log
        /\ \A i \in 1..Len(log) : log[i].id = i
        /\ \A i, j \in 1..Len(log) : i < j => log[i].since < log[j].since
        /\ Len(snap.subs) <= Len(log)
        /\ \A i \in 1..Len(snap.subs) : snap.subs[i] = log[i]
        /\ \A i \in 1..Len(log) : log[i].since <= snap.at => i <= Len(snap.subs)

CoordinationInv ==
    /\ Types
    /\ RingIsRecent
    /\ QueuesInOrder
    /\ Quiet
    /\ TimesDiffer
    /\ AskedBefore
    /\ AckedKept
    /\ LogIsCell

-----------------------------------------------------------------------------
(* What is left alone.                                                     *)

\* The invariant speaks of these variables only.
LEMMA UnchangedBus ==
    ASSUME RingIsRecent, QueuesInOrder, UNCHANGED bus
    PROVE  RingIsRecent' /\ QueuesInOrder'
<1>1. ring' = ring /\ next' = next /\ pending' = pending /\ due' = due /\ handed' = handed
  BY DEF bus
<1>2. RingIsRecent'
  BY <1>1 DEF RingIsRecent
<1>3. \A a : Got(a)' = Got(a) /\ QueuedFor(a)' = QueuedFor(a)
  BY <1>1 DEF Got, QueuedFor
<1>4. QueuesInOrder'
  BY <1>1, <1>3 DEF QueuesInOrder
<1> QED
  BY <1>2, <1>4

LEMMA InvInit ==
    ASSUME Init
    PROVE  CoordinationInv
<1> USE CoordinationConstants
<1>1. Types
  <2>1. ConnTimes
    <3>1. Resting \in [pc : {"idle", "subscribe", "write", "done"}, agent : Agents,
                       at : Nat, pattern : SUBSET Names]
      BY DEF Resting
    <3>2. conn = [c \in Conns |-> Resting]
      BY DEF Init
    <3> QED
      BY <3>1, <3>2 DEF ConnTimes
  <2>2. asked \in [Agents -> Nat]
    <3>1. Never \in Nat
      BY DEF Never
    <3> QED
      BY <3>1 DEF Init
  <2>3. used \in [Counted -> Nat]
    BY DEF Init
  <2>4. snap.at = 0 /\ snap.subs = <<>> /\ subs = <<>> /\ log = <<>>
    BY DEF Init
  <2>5. subs \in Seq(Sub) /\ log \in Seq(Sub) /\ snap.subs \in Seq(Sub) /\ snap.at \in Nat
    BY <2>4
  <2>6. status = "up" /\ clock = 0 /\ late = FALSE
    BY DEF Init
  <2> QED
    BY <2>1, <2>2, <2>3, <2>5, <2>6 DEF Types
<1>2. RingIsRecent
  BY DEF Init, RingIsRecent
<1>3. QueuesInOrder
  <2>1. \A a \in Agents : Got(a) = {} /\ QueuedFor(a) = {} /\ due[a] = {} /\ Len(handed[a]) = 0
    BY DEF Init, Got, QueuedFor
  <2>2. handed \in [Agents -> Seq(Nat)] /\ due \in [Agents -> SUBSET Nat]
    BY DEF Init
  <2> QED
    BY <2>1, <2>2 DEF QueuesInOrder
<1>4. Quiet
  BY DEF Init, Quiet
<1>5. TimesDiffer
  BY DEF Init, TimesDiffer, Resting
<1>6. AskedBefore
  BY DEF Init, AskedBefore, Resting
<1>7. AckedKept
  BY DEF Init, AckedKept
<1>8. LogIsCell
  BY DEF Init, LogIsCell
<1> QED
  BY <1>1, <1>2, <1>3, <1>4, <1>5, <1>6, <1>7, <1>8 DEF CoordinationInv

-----------------------------------------------------------------------------
(* Steps that touch neither the bus nor the subscriptions.                 *)

ConnType == [pc : {"idle", "subscribe", "write", "done"}, agent : Agents,
             at : Nat, pattern : SUBSET Names]

LEMMA EntryTypes ==
    ASSUME NEW q \in Seq(Sub), NEW i \in 1..Len(q)
    PROVE  /\ q[i] \in Sub /\ q[i].since \in Nat /\ q[i].agent \in Agents
           /\ q[i].id \in Nat /\ q[i].id # 0
<1>1. q[i] \in Sub
  OBVIOUS
<1> QED
  BY <1>1 DEF Sub

LEMMA EventTypes ==
    ASSUME RingIsRecent, NEW i \in 1..Len(ring)
    PROVE  ring[i].seq \in Nat /\ ring[i].at \in Nat
<1> DEFINE Events == [seq : Nat, name : Names, at : Nat]
<1>1. ring \in Seq(Events)
  BY DEF RingIsRecent
<1>2. ring[i] \in Events
  <2> HIDE DEF Events
  <2> QED
    BY <1>1
<1> QED
  BY <1>2

\* A connection goes on to something that is not a subscription.
LEMMA ConnStep ==
    ASSUME CoordinationInv, NEW c \in Conns, status = "up",
           clock' \in Nat, clock <= clock',
           NEW k \in ConnType, k.pc # "subscribe", k.at <= clock',
           conn' = [conn EXCEPT ![c] = k],
           UNCHANGED <<status, subs, bus, log, snap, used, acked, late, asked>>
    PROVE  CoordinationInv'
<1>1. /\ status' = status /\ subs' = subs /\ log' = log /\ snap' = snap /\ used' = used
      /\ acked' = acked /\ late' = late /\ asked' = asked
      /\ ring' = ring /\ next' = next /\ UNCHANGED bus
  BY DEF bus
<1>2. conn \in [Conns -> ConnType] /\ clock \in Nat /\ snap.at \in Nat /\ log \in Seq(Sub)
      /\ ring \in Seq([seq : Nat, name : Names, at : Nat])
  BY DEF CoordinationInv, Types, ConnTimes, ConnType, RingIsRecent
<1>3. conn' \in [Conns -> ConnType] /\ conn'[c] = k
      /\ \A d \in Conns : d # c => conn'[d] = conn[d]
  BY <1>2
<1>4. Types'
  BY <1>1, <1>3 DEF CoordinationInv, Types, ConnTimes, ConnType
<1>5. RingIsRecent' /\ QueuesInOrder'
  BY <1>1, UnchangedBus DEF CoordinationInv
<1>6. Quiet'
  BY <1>1 DEF Quiet
<1>7. \A d \in Conns : conn'[d].pc = "subscribe" => d # c /\ conn'[d] = conn[d]
  BY <1>3
<1>8. TimesDiffer'
  <2>1. snap'.at <= clock'
    BY <1>1, <1>2 DEF CoordinationInv, TimesDiffer
  <2>2. ASSUME NEW d \in Conns PROVE conn'[d].at <= clock'
    <3>1. CASE d = c
      BY <1>3, <3>1
    <3>2. CASE d # c
      <4>1. conn'[d].at = conn[d].at /\ conn[d].at <= clock /\ conn[d].at \in Nat
        BY <1>2, <1>3, <3>2 DEF CoordinationInv, TimesDiffer, ConnType
      <4> QED
        BY <1>2, <4>1
    <3> QED
      BY <3>1, <3>2
  <2>3. ASSUME NEW i \in 1..Len(log) PROVE log[i].since <= clock'
    <3>1. log[i].since \in Nat /\ log[i].since <= clock
      BY <1>2, EntryTypes DEF CoordinationInv, TimesDiffer
    <3> QED
      BY <1>2, <3>1
  <2>4. \A i, j \in 1..Len(log) : log[i].since = log[j].since => i = j
    BY DEF CoordinationInv, TimesDiffer
  <2>5. \A d \in Conns : conn'[d].pc = "subscribe" =>
          /\ \A i \in 1..Len(log) : log[i].since # conn'[d].at
          /\ \A e \in Conns : conn'[e].pc = "subscribe" /\ conn'[e].at = conn'[d].at => e = d
    BY <1>7 DEF CoordinationInv, TimesDiffer
  <2> QED
    BY <1>1, <2>1, <2>2, <2>3, <2>4, <2>5 DEF TimesDiffer
<1>9. AskedBefore'
  <2>1. ASSUME NEW i \in 1..Len(ring) PROVE ring[i].at <= clock'
    <3>1. ring[i].at \in Nat /\ ring[i].at <= clock
      BY EventTypes DEF CoordinationInv, AskedBefore
    <3> QED
      BY <1>2, <3>1
  <2>2. \A d \in Conns : conn'[d].pc = "subscribe" =>
          /\ asked[conn'[d].agent] # Never
          /\ \A i \in 1..Len(ring) :
                ring[i].seq < asked[conn'[d].agent] => ring[i].at < conn'[d].at
    BY <1>7 DEF CoordinationInv, AskedBefore
  <2> QED
    BY <1>1, <2>1, <2>2 DEF CoordinationInv, AskedBefore
<1>10. AckedKept' /\ LogIsCell'
  BY <1>1 DEF CoordinationInv, AckedKept, LogIsCell
<1> QED
  BY <1>4, <1>5, <1>6, <1>8, <1>9, <1>10 DEF CoordinationInv

LEMMA TickAdvances ==
    ASSUME Types, Tick
    PROVE  clock' \in Nat /\ clock < clock' /\ clock <= clock' /\ clock' = clock + 1
BY DEF Types, Tick

LEMMA RestingType == Resting \in ConnType /\ Resting.pc = "idle" /\ Resting.at = 0
BY CoordinationConstants DEF Resting, ConnType

\* The requests that only take their time or return.
LEMMA ConnSteps ==
    ASSUME CoordinationInv, NEW c \in Conns,
           BeginWrite(c) \/ EndWrite(c) \/ BeginSnapshot(c) \/ NoSnapshot(c)
    PROVE  CoordinationInv'
<1>1. conn \in [Conns -> ConnType] /\ clock \in Nat /\ Types /\ conn[c].at <= clock
  BY DEF CoordinationInv, Types, ConnTimes, ConnType, TimesDiffer
<1>2. ASSUME NEW pc \in {"write", "done"}, Tick,
             conn' = [conn EXCEPT ![c] = [Resting EXCEPT !.pc = pc, !.at = clock']],
             status = "up",
             UNCHANGED <<status, subs, bus, log, snap, used, acked, late, asked>>
      PROVE  CoordinationInv'
  <2>1. PICK k : k = [Resting EXCEPT !.pc = pc, !.at = clock']
    OBVIOUS
  <2>2. k \in ConnType /\ k.pc = pc /\ k.at = clock'
    BY <1>1, <1>2, <2>1, TickAdvances, CoordinationConstants DEF Resting, ConnType
  <2>3. clock' \in Nat /\ clock <= clock'
    BY <1>1, <1>2, TickAdvances
  <2>4. conn' = [conn EXCEPT ![c] = k] /\ k.pc # "subscribe" /\ k.at <= clock'
    BY <1>2, <2>1, <2>2, <2>3
  <2> QED
    BY <1>2, <2>2, <2>3, <2>4, ConnStep
<1>3. CASE BeginWrite(c)
  BY <1>2, <1>3 DEF BeginWrite, At
<1>4. CASE BeginSnapshot(c)
  BY <1>2, <1>4 DEF BeginSnapshot, At
<1>5. CASE EndWrite(c)
  <2>1. PICK k : k = [conn[c] EXCEPT !.pc = "done"]
    OBVIOUS
  <2>2. k \in ConnType /\ k.pc = "done" /\ k.at = conn[c].at
    BY <1>1, <2>1 DEF ConnType
  <2>3. conn' = [conn EXCEPT ![c] = k]
    BY <1>5, <2>1 DEF EndWrite, Goto
  <2>4. clock' = clock /\ clock <= clock'
    BY <1>1, <1>5 DEF EndWrite
  <2> QED
    BY <1>1, <1>5, <2>2, <2>3, <2>4, ConnStep DEF EndWrite, At
<1>6. CASE NoSnapshot(c)
  <2>1. clock' = clock /\ clock <= clock' /\ Resting.at <= clock'
    BY <1>1, <1>6, RestingType DEF NoSnapshot
  <2>2. conn' = [conn EXCEPT ![c] = Resting]
    BY <1>6 DEF NoSnapshot, Return
  <2> QED
    BY <1>1, <1>6, <2>1, <2>2, RestingType, ConnStep DEF NoSnapshot, At
<1> QED
  BY <1>3, <1>4, <1>5, <1>6

-----------------------------------------------------------------------------
(* The steps of the bus.                                                   *)

LEMMA InvGivesBus ==
    ASSUME CoordinationInv
    PROVE  BusInv
BY DEF CoordinationInv, Types, BusInv

LEMMA DrainStep ==
    ASSUME CoordinationInv, NEW a \in Agents, DrainFor(a)
    PROVE  CoordinationInv'
<1>1. /\ status' = status /\ clock' = clock /\ subs' = subs /\ conn' = conn /\ log' = log
      /\ snap' = snap /\ used' = used /\ acked' = acked /\ late' = late /\ asked' = asked
      /\ ring' = ring /\ next' = next
  BY DEF DrainFor
<1>2. Types' /\ RingIsRecent' /\ Quiet' /\ TimesDiffer' /\ AskedBefore'
  BY <1>1 DEF CoordinationInv, Types, ConnTimes, RingIsRecent, Quiet, TimesDiffer, AskedBefore
<1>3. AckedKept' /\ LogIsCell'
  BY <1>1 DEF CoordinationInv, AckedKept, LogIsCell
<1>4. QueuesInOrder'
  BY InvGivesBus, DrainKeepsQueues
<1> QED
  BY <1>2, <1>3, <1>4 DEF CoordinationInv

\* The new event is the last of the ring, and what was there before is of the
\* old ring.
LEMMA PublishedRing ==
    ASSUME RingIsRecent, NEW c \in Conns, NEW n \in Names, Publish(c, n), ConnTimes
    PROVE  \A k \in 1..Len(ring') :
              \/ ring'[k].seq = next /\ ring'[k].at = conn[c].at
              \/ \E j \in 1..Len(ring) : ring'[k] = ring[j]
<1> DEFINE Events == [seq : Nat, name : Names, at : Nat]
<1>1. PICK e : e = [seq |-> next, name |-> n, at |-> conn[c].at]
  OBVIOUS
<1>2. e \in Events /\ e.seq = next /\ e.at = conn[c].at
  BY <1>1 DEF RingIsRecent, ConnTimes
<1>3. PICK old : old = Kept(ring)
  OBVIOUS
<1>4. ring' = Append(old, e)
  BY <1>1, <1>3 DEF Publish
<1>5. ring \in Seq(Events) /\ RingMax \in Nat \ {0}
  BY CoordinationConstants DEF RingIsRecent
<1> HIDE DEF Events
<1>6. old \in Seq(Events) /\ \A k \in 1..Len(old) : \E j \in 1..Len(ring) : old[k] = ring[j]
  <2>1. CASE Len(ring) = RingMax
    <3>1. ring # <<>> /\ old = Tail(ring)
      BY <1>3, <1>5, <2>1 DEF Kept
    <3>2. old \in Seq(Events)
          /\ \A k \in 1..Len(old) : old[k] = ring[k + 1] /\ k + 1 \in 1..Len(ring)
      BY <1>5, <3>1
    <3> QED
      BY <3>2
  <2>2. CASE Len(ring) # RingMax
    BY <1>3, <1>5, <2>2 DEF Kept
  <2> QED
    BY <2>1, <2>2
<1>7. /\ Len(ring') = Len(old) + 1 /\ Len(old) \in Nat
      /\ \A k \in 1..Len(old) : ring'[k] = old[k]
      /\ ring'[Len(old) + 1] = e
  BY <1>2, <1>4, <1>6
<1>8. \A k \in 1..Len(ring') : k \in 1..Len(old) \/ k = Len(old) + 1
  BY <1>7
<1> QED
  BY <1>2, <1>6, <1>7, <1>8

LEMMA PublishStep ==
    ASSUME CoordinationInv, NEW c \in Conns, NEW n \in Names, Publish(c, n)
    PROVE  CoordinationInv'
<1>1. /\ status' = status /\ clock' = clock /\ subs' = subs /\ conn' = conn /\ log' = log
      /\ snap' = snap /\ used' = used /\ acked' = acked /\ late' = late /\ asked' = asked
      /\ next' = next + 1 /\ status = "up"
  BY DEF Publish, At
<1>2. Types' /\ Quiet' /\ TimesDiffer'
  BY <1>1 DEF CoordinationInv, Types, ConnTimes, Quiet, TimesDiffer
<1>3. AckedKept' /\ LogIsCell'
  BY <1>1 DEF CoordinationInv, AckedKept, LogIsCell
<1>4. RingIsRecent' /\ QueuesInOrder'
  BY InvGivesBus, PublishKeepsBus
<1>5. /\ next \in Nat /\ asked \in [Agents -> Nat] /\ conn \in [Conns -> ConnType]
      /\ subs \in Seq(Sub) /\ AskedBefore
  BY DEF CoordinationInv, Types, RingIsRecent, ConnTimes, ConnType
<1>6. \A k \in 1..Len(ring') :
         \/ ring'[k].seq = next /\ ring'[k].at = conn[c].at
         \/ \E j \in 1..Len(ring) : ring'[k] = ring[j]
  BY PublishedRing DEF CoordinationInv, Types
<1>7. \A a \in Agents : asked[a] = Never \/ asked[a] <= next
  BY <1>5 DEF AskedBefore
<1>8. \A a \in Agents : asked[a] # Never => ~(next < asked[a])
  BY <1>5, <1>7
<1>9. \A a \in Agents : asked'[a] = Never \/ asked'[a] <= next'
  BY <1>1, <1>5, <1>7
<1>10. \A k \in 1..Len(ring') : ring'[k].at <= clock'
  BY <1>1, <1>5, <1>6 DEF CoordinationInv, AskedBefore, TimesDiffer
<1>11. ASSUME NEW i \in 1..Len(subs), NEW k \in 1..Len(ring'),
              ring'[k].seq < asked[subs[i].agent]
       PROVE  ring'[k].at < subs[i].since
  <2>1. subs[i].agent \in Agents /\ asked[subs[i].agent] # Never
    BY <1>5, EntryTypes DEF AskedBefore
  <2>2. ring'[k].seq # next
    BY <1>8, <1>11, <2>1
  <2> QED
    BY <1>1, <1>5, <1>6, <1>11, <2>2 DEF AskedBefore
<1>12. ASSUME NEW d \in Conns, conn[d].pc = "subscribe", NEW k \in 1..Len(ring'),
              ring'[k].seq < asked[conn[d].agent]
       PROVE  ring'[k].at < conn[d].at
  <2>1. conn[d].agent \in Agents /\ asked[conn[d].agent] # Never
    BY <1>5, <1>12 DEF AskedBefore, ConnType
  <2>2. ring'[k].seq # next
    BY <1>8, <1>12, <2>1
  <2> QED
    BY <1>5, <1>6, <1>12, <2>2 DEF AskedBefore
<1>13. AskedBefore'
  <2>1. /\ \A i \in 1..Len(subs') : asked'[subs'[i].agent] # Never
        /\ \A i \in 1..Len(log') : asked'[log'[i].agent] # Never
        /\ \A i \in 1..Len(snap'.subs) : asked'[snap'.subs[i].agent] # Never
        /\ \A d \in Conns : conn'[d].pc = "subscribe" => asked'[conn'[d].agent] # Never
    BY <1>1, <1>5 DEF AskedBefore
  <2>2. \A i \in 1..Len(subs') : \A k \in 1..Len(ring') :
           ring'[k].seq < asked'[subs'[i].agent] => ring'[k].at < subs'[i].since
    BY <1>1, <1>11
  <2>3. \A d \in Conns : conn'[d].pc = "subscribe" => \A k \in 1..Len(ring') :
           ring'[k].seq < asked'[conn'[d].agent] => ring'[k].at < conn'[d].at
    BY <1>1, <1>12
  <2> QED
    BY <1>9, <1>10, <2>1, <2>2, <2>3 DEF AskedBefore
<1> QED
  BY <1>2, <1>3, <1>4, <1>13 DEF CoordinationInv

LEMMA CrashStep ==
    ASSUME CoordinationInv, Crash
    PROVE  CoordinationInv'
<1>1. /\ status' = "down" /\ conn' = [c \in Conns |-> Resting]
      /\ ring' = <<>> /\ next' = 0 /\ pending' = {}
      /\ due' = [a \in Agents |-> {}] /\ handed' = [a \in Agents |-> <<>>]
      /\ asked' = [a \in Agents |-> IF asked[a] = Never THEN Never ELSE 0]
      /\ clock' = clock /\ subs' = subs /\ log' = log /\ snap' = snap /\ acked' = acked
      /\ late' = late /\ status = "up"
  BY DEF Crash
<1>2. used' \in [Counted -> Nat] /\ used'["kept"] = used["kept"]
  <2>1. used \in [Counted -> Nat]
    BY DEF CoordinationInv, Types
  <2>2. used' = [used EXCEPT !["crashes"] = @ + 1]
    BY DEF Crash, Spend
  <2> QED
    BY <2>1, <2>2 DEF Counted
<1>3. Never \in Nat /\ Never # 0 /\ MaxEvents \in Nat
  BY CoordinationConstants DEF Never
<1>4. asked \in [Agents -> Nat] /\ asked' \in [Agents -> Nat]
      /\ (\A a \in Agents : asked'[a] = Never \/ asked'[a] = 0)
      /\ (\A a \in Agents : asked[a] # Never => asked'[a] # Never)
  BY <1>1, <1>3 DEF CoordinationInv, Types
<1>5. \A c \in Conns : conn'[c] = Resting /\ conn'[c].pc # "subscribe" /\ conn'[c].at = 0
  BY <1>1, RestingType
<1>6. Types'
  <2>1. ConnTimes'
    BY <1>1, RestingType DEF ConnTimes, ConnType
  <2> QED
    BY <1>1, <1>2, <1>4, <2>1 DEF CoordinationInv, Types
<1>7. RingIsRecent'
  BY <1>1, <1>3 DEF RingIsRecent
<1>8. QueuesInOrder'
  <2>1. \A a \in Agents : /\ Got(a)' = {} /\ QueuedFor(a)' = {} /\ due'[a] = {}
                          /\ Len(handed'[a]) = 0
    BY <1>1 DEF Got, QueuedFor
  <2>2. handed' \in [Agents -> Seq(Nat)] /\ due' \in [Agents -> SUBSET Nat]
    BY <1>1
  <2> QED
    BY <2>1, <2>2 DEF QueuesInOrder
<1>9. Quiet'
  BY <1>1, <1>5 DEF Quiet
<1>10. TimesDiffer'
  <2>1. 0 <= clock
    BY DEF CoordinationInv, Types
  <2> QED
    BY <1>1, <1>5, <2>1 DEF CoordinationInv, TimesDiffer
<1>11. AskedBefore'
  <2>1. \A i \in 1..Len(subs) : asked'[subs[i].agent] # Never
    BY <1>4, EntryTypes DEF CoordinationInv, Types, AskedBefore
  <2>2. \A i \in 1..Len(log) : asked'[log[i].agent] # Never
    BY <1>4, EntryTypes DEF CoordinationInv, Types, AskedBefore
  <2>3. \A i \in 1..Len(snap.subs) : asked'[snap.subs[i].agent] # Never
    BY <1>4, EntryTypes DEF CoordinationInv, Types, AskedBefore
  <2>4. Len(ring') = 0 /\ \A a \in Agents : asked'[a] = Never \/ asked'[a] <= next'
    BY <1>1, <1>4
  <2>5. \A k \in 1..Len(ring') : FALSE
    BY <2>4
  <2> QED
    BY <1>1, <1>5, <2>1, <2>2, <2>3, <2>4, <2>5 DEF AskedBefore
<1>12. AckedKept' /\ LogIsCell'
  BY <1>1, <1>2 DEF CoordinationInv, AckedKept, LogIsCell
<1> QED
  BY <1>6, <1>7, <1>8, <1>9, <1>10, <1>11, <1>12 DEF CoordinationInv

-----------------------------------------------------------------------------
(* The steps of a subscription and of a snapshot.                          *)

LEMMA BeginSubscribeStep ==
    ASSUME CoordinationInv, NEW c \in Conns, NEW a \in Agents, NEW p \in Patterns,
           BeginSubscribe(c, a, p)
    PROVE  CoordinationInv'
<1>1. PICK k : k = [pc |-> "subscribe", agent |-> a, at |-> clock', pattern |-> p]
  OBVIOUS
<1>2. /\ status' = status /\ subs' = subs /\ log' = log /\ snap' = snap /\ used' = used
      /\ acked' = acked /\ late' = late /\ status = "up"
      /\ ring' = ring /\ next' = next /\ UNCHANGED bus /\ Tick
      /\ conn' = [conn EXCEPT ![c] = k]
      /\ asked' = [asked EXCEPT ![a] = IF asked[a] = Never THEN next ELSE asked[a]]
  BY <1>1 DEF BeginSubscribe, At, bus
<1>3. /\ conn \in [Conns -> ConnType] /\ clock \in Nat /\ snap.at \in Nat
      /\ log \in Seq(Sub) /\ subs \in Seq(Sub) /\ snap.subs \in Seq(Sub)
      /\ asked \in [Agents -> Nat] /\ next \in Nat /\ next <= MaxEvents
  BY DEF CoordinationInv, Types, ConnTimes, ConnType, RingIsRecent
<1>4. clock' \in Nat /\ clock < clock' /\ clock <= clock'
  BY <1>2, TickAdvances DEF CoordinationInv
<1>5. k \in ConnType /\ k.pc = "subscribe" /\ k.at = clock' /\ k.agent = a
  BY <1>1, <1>4, CoordinationConstants DEF ConnType
<1>6. conn' \in [Conns -> ConnType] /\ conn'[c] = k
      /\ \A d \in Conns : d # c => conn'[d] = conn[d]
  BY <1>2, <1>3, <1>5
<1>7. MaxEvents \in Nat /\ next # Never
  BY <1>3, CoordinationConstants DEF Never
<1>8. /\ asked' \in [Agents -> Nat] /\ asked'[a] # Never
      /\ \A b \in Agents : asked[b] # Never => asked'[b] = asked[b]
      /\ \A b \in Agents : asked'[b] = Never \/ asked'[b] <= next'
  BY <1>2, <1>3, <1>7 DEF CoordinationInv, AskedBefore
<1>9. Types'
  BY <1>2, <1>4, <1>6, <1>8 DEF CoordinationInv, Types, ConnTimes, ConnType
<1>10. RingIsRecent' /\ QueuesInOrder'
  BY <1>2, UnchangedBus DEF CoordinationInv
<1>11. Quiet'
  BY <1>2 DEF Quiet
<1>12. \A i \in 1..Len(log) : log[i].since \in Nat /\ log[i].since <= clock
  BY <1>3, EntryTypes DEF CoordinationInv, TimesDiffer
<1>13. \A d \in Conns : conn[d].at \in Nat /\ conn[d].at <= clock
  BY <1>3 DEF CoordinationInv, TimesDiffer, ConnType
<1>14. TimesDiffer'
  <2>1. snap'.at <= clock'
    BY <1>2, <1>3, <1>4 DEF CoordinationInv, TimesDiffer
  <2>2. ASSUME NEW d \in Conns PROVE conn'[d].at <= clock'
    <3>1. CASE d = c
      BY <1>4, <1>5, <1>6, <3>1
    <3>2. CASE d # c
      BY <1>3, <1>4, <1>6, <1>13, <3>2
    <3> QED
      BY <3>1, <3>2
  <2>3. \A i \in 1..Len(log) : log[i].since <= clock' /\ log[i].since # clock'
    BY <1>3, <1>4, <1>12
  <2>4. \A i, j \in 1..Len(log) : log[i].since = log[j].since => i = j
    BY DEF CoordinationInv, TimesDiffer
  <2>5. \A d \in Conns : conn[d].at # clock'
    BY <1>3, <1>4, <1>13
  <2>6. ASSUME NEW d \in Conns, conn'[d].pc = "subscribe"
        PROVE  /\ \A i \in 1..Len(log) : log[i].since # conn'[d].at
               /\ \A e \in Conns :
                     conn'[e].pc = "subscribe" /\ conn'[e].at = conn'[d].at => e = d
    <3>1. CASE d = c
      BY <1>5, <1>6, <2>3, <2>5, <3>1
    <3>2. CASE d # c
      <4>1. conn[d].pc = "subscribe" /\ conn'[d] = conn[d]
        BY <1>6, <2>6, <3>2
      <4> QED
        BY <1>5, <1>6, <2>5, <4>1 DEF CoordinationInv, TimesDiffer
    <3> QED
      BY <3>1, <3>2
  <2> QED
    BY <1>2, <2>1, <2>2, <2>3, <2>4, <2>6 DEF TimesDiffer
<1>15. AskedBefore'
  <2>1. \A i \in 1..Len(subs) : /\ asked'[subs[i].agent] # Never
                                /\ asked'[subs[i].agent] = asked[subs[i].agent]
    BY <1>3, <1>8, EntryTypes DEF CoordinationInv, AskedBefore
  <2>2. \A i \in 1..Len(log) : asked'[log[i].agent] # Never
    BY <1>3, <1>8, EntryTypes DEF CoordinationInv, AskedBefore
  <2>3. \A i \in 1..Len(snap.subs) : asked'[snap.subs[i].agent] # Never
    BY <1>3, <1>8, EntryTypes DEF CoordinationInv, AskedBefore
  <2>4. \A i \in 1..Len(ring) : ring[i].at <= clock' /\ ring[i].at < clock'
    BY <1>3, <1>4, EventTypes DEF CoordinationInv, AskedBefore
  <2>5. ASSUME NEW d \in Conns, conn'[d].pc = "subscribe"
        PROVE  /\ asked'[conn'[d].agent] # Never
               /\ \A i \in 1..Len(ring) :
                     ring[i].seq < asked'[conn'[d].agent] => ring[i].at < conn'[d].at
    <3>1. CASE d = c
      BY <1>5, <1>6, <1>8, <2>4, <3>1
    <3>2. CASE d # c
      <4>1. conn[d].pc = "subscribe" /\ conn'[d] = conn[d] /\ conn[d].agent \in Agents
        BY <1>3, <1>6, <2>5, <3>2 DEF ConnType
      <4>2. asked[conn[d].agent] # Never
        BY <4>1 DEF CoordinationInv, AskedBefore
      <4>3. asked'[conn[d].agent] = asked[conn[d].agent]
        BY <1>8, <4>1, <4>2
      <4> QED
        BY <4>1, <4>2, <4>3 DEF CoordinationInv, AskedBefore
    <3> QED
      BY <3>1, <3>2
  <2>6. \A i \in 1..Len(subs) : \A j \in 1..Len(ring) :
           ring[j].seq < asked'[subs[i].agent] => ring[j].at < subs[i].since
    BY <1>2, <2>1 DEF CoordinationInv, AskedBefore
  <2> QED
    BY <1>2, <1>8, <2>1, <2>2, <2>3, <2>4, <2>5, <2>6 DEF AskedBefore
<1>16. AckedKept' /\ LogIsCell'
  BY <1>2 DEF CoordinationInv, AckedKept, LogIsCell
<1> QED
  BY <1>9, <1>10, <1>11, <1>14, <1>15, <1>16 DEF CoordinationInv

\* What Spend does to the failed commits that the log kept.
LEMMA SpendCounts ==
    ASSUME used \in [Counted -> Nat], NEW k \in Counted, Spend(k)
    PROVE  /\ used' \in [Counted -> Nat]
           /\ k = "kept" => used'["kept"] # 0
           /\ k # "kept" => used'["kept"] = used["kept"]
<1>1. used' = [used EXCEPT ![k] = used[k] + 1]
  BY DEF Spend
<1>2. used[k] \in Nat /\ used[k] + 1 \in Nat /\ used[k] + 1 # 0
  OBVIOUS
<1> QED
  BY <1>1, <1>2 DEF Counted

LEMMA WriteSnapshotStep ==
    ASSUME CoordinationInv, NEW c \in Conns, WriteSnapshot(c)
    PROVE  CoordinationInv'
<1>1. /\ status' = status /\ clock' = clock /\ subs' = subs /\ log' = log
      /\ acked' = acked /\ late' = late /\ asked' = asked /\ status = "up"
      /\ ring' = ring /\ next' = next /\ UNCHANGED bus
      /\ conn' = [conn EXCEPT ![c] = Resting]
      /\ snap' = [at |-> conn[c].at, registry |-> registry, subs |-> subs]
  BY DEF WriteSnapshot, At, Return, bus
<1>2. snap'.at = conn[c].at /\ snap'.subs = subs
  BY <1>1
<1>3. /\ conn \in [Conns -> ConnType] /\ clock \in Nat /\ log \in Seq(Sub)
      /\ subs \in Seq(Sub) /\ used \in [Counted -> Nat]
  BY DEF CoordinationInv, Types, ConnTimes, ConnType
<1>4. used' \in [Counted -> Nat] /\ used'["kept"] = used["kept"]
  BY <1>3, SpendCounts DEF WriteSnapshot, Counted
<1>5. conn' \in [Conns -> ConnType] /\ conn'[c] = Resting
      /\ \A d \in Conns : d # c => conn'[d] = conn[d]
  BY <1>1, <1>3, RestingType
<1>6. Types'
  <2>1. conn[c].at \in Nat
    BY <1>3 DEF ConnType
  <2> QED
    BY <1>1, <1>2, <1>3, <1>4, <1>5, <2>1
       DEF CoordinationInv, Types, ConnTimes, ConnType
<1>7. RingIsRecent' /\ QueuesInOrder'
  BY <1>1, UnchangedBus DEF CoordinationInv
<1>8. Quiet'
  BY <1>1 DEF Quiet
<1>9. \A d \in Conns : conn'[d].pc = "subscribe" => conn'[d] = conn[d]
  BY <1>5, RestingType
<1>10. \A d \in Conns : conn'[d].at <= clock'
  <2> TAKE d \in Conns
  <2>1. CASE d = c
    BY <1>1, <1>3, <1>5, <2>1, RestingType
  <2>2. CASE d # c
    BY <1>1, <1>5, <2>2 DEF CoordinationInv, TimesDiffer
  <2> QED
    BY <2>1, <2>2
<1>11. TimesDiffer'
  <2>1. snap'.at <= clock'
    BY <1>1, <1>2 DEF CoordinationInv, TimesDiffer
  <2> QED
    BY <1>1, <1>9, <1>10, <2>1 DEF CoordinationInv, TimesDiffer
<1>12. AskedBefore'
  BY <1>1, <1>2, <1>9 DEF CoordinationInv, AskedBefore
<1>13. AckedKept'
  BY <1>1, <1>2 DEF CoordinationInv, AckedKept
<1>14. LogIsCell'
  <2> SUFFICES ASSUME ~late, used["kept"] = 0
               PROVE  /\ subs = log
                      /\ \A i \in 1..Len(log) : log[i].id = i
                      /\ \A i, j \in 1..Len(log) : i < j => log[i].since < log[j].since
    <3>1. Len(log) \in Nat /\ Len(log) <= Len(log)
      BY <1>3
    <3> QED
      BY <1>1, <1>2, <1>4, <3>1 DEF LogIsCell
  <2> QED
    BY <1>1 DEF CoordinationInv, LogIsCell
<1> QED
  BY <1>6, <1>7, <1>8, <1>11, <1>12, <1>13, <1>14 DEF CoordinationInv

LEMMA AppendedSub ==
    ASSUME NEW q \in Seq(Sub), NEW s \in Sub, NEW t, t = Append(q, s)
    PROVE  /\ t \in Seq(Sub) /\ Len(q) \in Nat /\ Len(t) = Len(q) + 1
           /\ \A i \in 1..Len(q) : i \in 1..Len(t) /\ t[i] = q[i]
           /\ Len(q) + 1 \in 1..Len(t) /\ t[Len(q) + 1] = s
           /\ \A i \in 1..Len(t) : \/ i \in 1..Len(q) /\ t[i] = q[i]
                                   \/ i = Len(q) + 1 /\ t[i] = s
<1>1. /\ t \in Seq(Sub) /\ Len(q) \in Nat /\ Len(t) = Len(q) + 1
      /\ \A i \in 1..Len(q) : t[i] = q[i]
      /\ t[Len(q) + 1] = s
  OBVIOUS
<1>2. /\ \A i \in 1..Len(q) : i \in 1..Len(t)
      /\ Len(q) + 1 \in 1..Len(t)
      /\ \A i \in 1..Len(t) : i \in 1..Len(q) \/ i = Len(q) + 1
  BY <1>1
<1>3. \A i \in 1..Len(q) : i \in 1..Len(t) /\ t[i] = q[i]
  BY <1>1, <1>2
<1>4. \A i \in 1..Len(t) : \/ i \in 1..Len(q) /\ t[i] = q[i]
                           \/ i = Len(q) + 1 /\ t[i] = s
  <2> TAKE i \in 1..Len(t)
  <2>1. CASE i \in 1..Len(q)
    <3>1. t[i] = q[i]
      BY ONLY <1>3, <2>1
    <3> QED
      BY ONLY <2>1, <3>1
  <2>2. CASE i = Len(q) + 1
    <3>1. t[i] = s
      BY <1>1, <2>2
    <3> QED
      BY <2>2, <3>1
  <2> QED
    BY <1>2, <2>1, <2>2
<1> QED
  BY <1>1, <1>2, <1>3, <1>4

\* handle_subscribe commits: the frame is in the log, and the cell has it
\* unless the append failed.
LEMMA CommitStep ==
    ASSUME CoordinationInv, NEW c \in Conns, At(c, "subscribe"),
           log' = Append(log, NextSub(c)),
           \/ /\ subs' = Append(subs, NextSub(c))
              /\ acked' = acked \cup {NextSub(c)}
              /\ used' = used
           \/ /\ Spend("kept") /\ subs' = subs /\ acked' = acked,
           NEW k \in ConnType, k.pc # "subscribe", k.at <= clock,
           conn' = [conn EXCEPT ![c] = k],
           late' = (late \/ /\ log' # log
                            /\ \/ NextSub(c).since <= snap.at
                               \/ \E f \in ToSet(log) : NextSub(c).since < f.since),
           UNCHANGED <<status, clock, bus, snap, asked>>
    PROVE  CoordinationInv'
<1>1. PICK s : s = NextSub(c)
  OBVIOUS
<1>2. /\ status' = status /\ clock' = clock /\ snap' = snap /\ asked' = asked /\ status = "up"
      /\ ring' = ring /\ next' = next /\ UNCHANGED bus /\ conn[c].pc = "subscribe"
  BY DEF At, bus
<1>3. /\ conn \in [Conns -> ConnType] /\ clock \in Nat /\ snap.at \in Nat
      /\ log \in Seq(Sub) /\ subs \in Seq(Sub) /\ snap.subs \in Seq(Sub)
      /\ asked \in [Agents -> Nat] /\ used \in [Counted -> Nat] /\ late \in BOOLEAN
  BY DEF CoordinationInv, Types, ConnTimes, ConnType
<1>4. /\ s \in Sub /\ s.since = conn[c].at /\ s.agent = conn[c].agent
      /\ s.id = Len(subs) + 1
  BY <1>1, <1>3 DEF NextSub, Sub, ConnType
<1>5. s.since \in Nat /\ s.agent \in Agents
  BY <1>4 DEF Sub
<1>6. conn' \in [Conns -> ConnType] /\ conn'[c] = k
      /\ \A d \in Conns : d # c => conn'[d] = conn[d]
  BY <1>3
<1>7. \A d \in Conns : conn'[d].pc = "subscribe" => d # c /\ conn'[d] = conn[d]
  BY <1>6
<1>8. /\ log' \in Seq(Sub) /\ Len(log) \in Nat /\ Len(log') = Len(log) + 1
      /\ \A i \in 1..Len(log) : i \in 1..Len(log') /\ log'[i] = log[i]
      /\ Len(log) + 1 \in 1..Len(log') /\ log'[Len(log) + 1] = s
      /\ \A i \in 1..Len(log') : \/ i \in 1..Len(log) /\ log'[i] = log[i]
                                 \/ i = Len(log) + 1 /\ log'[i] = s
  <2>1. log' = Append(log, s) /\ log \in Seq(Sub) /\ s \in Sub
    BY <1>1, <1>3, <1>4
  <2> QED
    BY ONLY <2>1, AppendedSub
<1>9. subs' = subs \/ subs' = Append(subs, s)
  BY <1>1
<1>10. /\ subs' \in Seq(Sub)
       /\ \A i \in 1..Len(subs) : i \in 1..Len(subs') /\ subs'[i] = subs[i]
       /\ \A i \in 1..Len(subs') : \/ i \in 1..Len(subs) /\ subs'[i] = subs[i]
                                   \/ subs'[i] = s
  <2>1. CASE subs' = subs
    BY <1>3, <2>1
  <2>2. CASE subs' = Append(subs, s)
    BY <1>3, <1>4, <2>2, AppendedSub
  <2> QED
    BY <1>9, <2>1, <2>2
<1>11. used' \in [Counted -> Nat]
  <2>1. "kept" \in Counted
    BY DEF Counted
  <2> QED
    BY <1>3, <2>1, SpendCounts
<1>12. late' \in BOOLEAN
  OBVIOUS
<1>13. ~late' => ~late /\ s.since > snap.at
                 /\ \A i \in 1..Len(log) : ~(s.since < log[i].since)
  <2>1. log' # log
    BY <1>8
  <2>2. \A i \in 1..Len(log) : log[i] \in ToSet(log)
    BY <1>3 DEF ToSet
  <2>3. ASSUME ~late'
        PROVE  ~late /\ ~(s.since <= snap.at) /\ ~\E f \in ToSet(log) : s.since < f.since
    BY <1>1, <2>1, <2>3
  <2>4. ~(s.since <= snap.at) => s.since > snap.at
    BY <1>3, <1>5
  <2> QED
    BY <2>2, <2>3, <2>4
<1>14. Types'
  BY <1>2, <1>3, <1>6, <1>8, <1>10, <1>11, <1>12
     DEF CoordinationInv, Types, ConnTimes, ConnType
<1>15. RingIsRecent' /\ QueuesInOrder' /\ Quiet'
  BY <1>2, UnchangedBus DEF CoordinationInv, Quiet
<1>16. /\ \A i \in 1..Len(log) : log[i].since # s.since
       /\ \A d \in Conns : d # c /\ conn[d].pc = "subscribe" => conn[d].at # s.since
       /\ s.since <= clock
  BY <1>2, <1>4 DEF CoordinationInv, TimesDiffer
<1>17. TimesDiffer'
  <2>1. snap'.at <= clock'
    BY <1>2 DEF CoordinationInv, TimesDiffer
  <2>2. ASSUME NEW d \in Conns PROVE conn'[d].at <= clock'
    <3>1. CASE d = c
      BY <1>2, <1>6, <3>1
    <3>2. CASE d # c
      BY <1>2, <1>6, <3>2 DEF CoordinationInv, TimesDiffer
    <3> QED
      BY <3>1, <3>2
  <2>3. \A i \in 1..Len(log') : log'[i].since <= clock'
    BY <1>2, <1>8, <1>16 DEF CoordinationInv, TimesDiffer
  <2>4. \A i, j \in 1..Len(log') : log'[i].since = log'[j].since => i = j
    BY <1>8, <1>16 DEF CoordinationInv, TimesDiffer
  <2>5. \A d \in Conns : conn'[d].pc = "subscribe" =>
          /\ \A i \in 1..Len(log') : log'[i].since # conn'[d].at
          /\ \A e \in Conns : conn'[e].pc = "subscribe" /\ conn'[e].at = conn'[d].at => e = d
    BY <1>7, <1>8, <1>16 DEF CoordinationInv, TimesDiffer
  <2> QED
    BY <2>1, <2>2, <2>3, <2>4, <2>5 DEF TimesDiffer
<1>18. AskedBefore'
  <2>1. asked[s.agent] # Never
        /\ \A i \in 1..Len(ring) : ring[i].seq < asked[s.agent] => ring[i].at < s.since
    BY <1>2, <1>4 DEF CoordinationInv, AskedBefore
  <2>2. \A i \in 1..Len(subs') : asked[subs'[i].agent] # Never
    BY <1>10, <2>1 DEF CoordinationInv, AskedBefore
  <2>3. \A i \in 1..Len(log') : asked[log'[i].agent] # Never
    BY <1>8, <2>1 DEF CoordinationInv, AskedBefore
  <2>4. \A i \in 1..Len(subs') : \A j \in 1..Len(ring) :
           ring[j].seq < asked[subs'[i].agent] => ring[j].at < subs'[i].since
    BY <1>2, <1>10, <2>1 DEF CoordinationInv, AskedBefore
  <2>5. \A d \in Conns : conn'[d].pc = "subscribe" =>
          /\ asked[conn'[d].agent] # Never
          /\ \A i \in 1..Len(ring) :
                ring[i].seq < asked[conn'[d].agent] => ring[i].at < conn'[d].at
    BY <1>7 DEF CoordinationInv, AskedBefore
  <2> QED
    BY <1>2, <2>2, <2>3, <2>4, <2>5 DEF CoordinationInv, AskedBefore
<1>19. AckedKept'
  <2> SUFFICES ASSUME ~late', NEW f \in acked'
               PROVE  /\ \E i \in 1..Len(subs') : subs'[i] = f
                      /\ \/ \E i \in 1..Len(snap.subs) : snap.subs[i] = f
                         \/ f.since > snap.at /\ \E i \in 1..Len(log') : log'[i] = f
    BY <1>2 DEF AckedKept
  <2>1. ~late /\ s.since > snap.at
    BY <1>13
  <2>2. CASE f \in acked
    <3>1. \E i \in 1..Len(subs) : subs[i] = f
      BY <1>2, <2>1, <2>2 DEF CoordinationInv, AckedKept
    <3>2. \/ \E i \in 1..Len(snap.subs) : snap.subs[i] = f
          \/ f.since > snap.at /\ \E i \in 1..Len(log) : log[i] = f
      BY <2>1, <2>2 DEF CoordinationInv, AckedKept
    <3> QED
      BY <1>8, <1>10, <3>1, <3>2
  <2>3. CASE f \notin acked
    <3>1. subs' = Append(subs, s) /\ f = s
      BY <1>1, <2>3
    <3>2. Len(subs) + 1 \in 1..Len(subs') /\ subs'[Len(subs) + 1] = s
      BY <1>3, <1>4, <3>1, AppendedSub
    <3> QED
      BY <1>8, <2>1, <3>1, <3>2
  <2> QED
    BY <2>2, <2>3
<1>20. LogIsCell'
  <2> SUFFICES ASSUME ~late', used'["kept"] = 0
               PROVE  LogIsCell'
    BY DEF LogIsCell
  <2>1. ~late /\ s.since > snap.at /\ \A i \in 1..Len(log) : ~(s.since < log[i].since)
    BY <1>13
  <2>2. subs' = Append(subs, s) /\ used' = used
    <3>1. "kept" \in Counted
      BY DEF Counted
    <3> QED
      BY <1>1, <1>3, <3>1, SpendCounts
  <2>3. subs = log /\ status # "refused"
        /\ (\A i \in 1..Len(log) : log[i].id = i)
        /\ (\A i, j \in 1..Len(log) : i < j => log[i].since < log[j].since)
        /\ Len(snap.subs) <= Len(log)
        /\ (\A i \in 1..Len(snap.subs) : snap.subs[i] = log[i])
        /\ (\A i \in 1..Len(log) : log[i].since <= snap.at => i <= Len(snap.subs))
    BY <1>2, <2>1, <2>2 DEF CoordinationInv, LogIsCell
  <2>4. subs' = log'
    BY <1>1, <2>2, <2>3
  <2>5. \A i \in 1..Len(log') : log'[i].id = i
    BY <1>4, <1>8, <2>3
  <2>6. \A i \in 1..Len(log) : log[i].since < s.since
    <3> TAKE i \in 1..Len(log)
    <3>1. log[i].since \in Nat /\ log[i].since # s.since /\ ~(s.since < log[i].since)
      BY <1>3, <1>16, <2>1, EntryTypes
    <3> QED
      BY <1>5, <3>1
  <2>7. \A i, j \in 1..Len(log') : i < j => log'[i].since < log'[j].since
    <3> SUFFICES ASSUME NEW i \in 1..Len(log'), NEW j \in 1..Len(log'), i < j
                 PROVE  log'[i].since < log'[j].since
      OBVIOUS
    <3>1. i \in 1..Len(log) /\ log'[i] = log[i]
      BY <1>8
    <3>2. CASE j \in 1..Len(log) /\ log'[j] = log[j]
      BY <2>3, <3>1, <3>2
    <3>3. CASE log'[j] = s
      BY <2>6, <3>1, <3>3
    <3> QED
      BY <1>8, <3>2, <3>3
  <2>8. Len(snap.subs) \in Nat /\ Len(snap.subs) <= Len(log')
    BY <1>3, <1>8, <2>3
  <2>9. ASSUME NEW i \in 1..Len(snap.subs) PROVE snap.subs[i] = log'[i]
    <3>1. i \in 1..Len(log)
      BY <1>8, <2>3, <2>8
    <3> QED
      BY <1>8, <2>3, <3>1
  <2>10. ASSUME NEW i \in 1..Len(log'), log'[i].since <= snap.at PROVE i <= Len(snap.subs)
    <3>1. CASE i \in 1..Len(log) /\ log'[i] = log[i]
      BY <2>3, <2>10, <3>1
    <3>2. CASE log'[i] = s
      BY <1>3, <1>5, <2>1, <2>10, <3>2
    <3> QED
      BY <1>8, <3>1, <3>2
  <2> QED
    BY <1>2, <2>3, <2>4, <2>5, <2>7, <2>8, <2>9, <2>10 DEF LogIsCell
<1> QED
  BY <1>14, <1>15, <1>17, <1>18, <1>19, <1>20 DEF CoordinationInv

LEMMA SubscribeStep ==
    ASSUME CoordinationInv, NEW c \in Conns, Subscribe(c)
    PROVE  CoordinationInv'
<1>1. /\ conn \in [Conns -> ConnType] /\ clock \in Nat /\ late \in BOOLEAN
      /\ conn[c].at <= clock /\ At(c, "subscribe") /\ status = "up"
      /\ UNCHANGED <<status, clock, bus, snap, asked>>
      /\ late' = (late \/ /\ log' # log
                          /\ \/ NextSub(c).since <= snap.at
                             \/ \E f \in ToSet(log) : NextSub(c).since < f.since)
  BY DEF CoordinationInv, Types, ConnTimes, ConnType, TimesDiffer, Subscribe, At
<1>2. Resting.at <= clock
  BY <1>1, RestingType
<1>3. CASE /\ log' = Append(log, NextSub(c)) /\ subs' = Append(subs, NextSub(c))
           /\ acked' = acked \cup {NextSub(c)} /\ Goto(c, "done") /\ used' = used
  <2>1. PICK k : k = [conn[c] EXCEPT !.pc = "done"]
    OBVIOUS
  <2>2. k \in ConnType /\ k.pc = "done" /\ k.at = conn[c].at
    BY <1>1, <2>1 DEF ConnType
  <2>3. conn' = [conn EXCEPT ![c] = k] /\ k.pc # "subscribe" /\ k.at <= clock
    BY <1>1, <1>3, <2>1, <2>2 DEF Goto
  <2> QED
    BY <1>1, <1>3, <2>2, <2>3, CommitStep
<1>4. CASE /\ Spend("kept") /\ log' = Append(log, NextSub(c)) /\ Return(c)
           /\ subs' = subs /\ acked' = acked
  <2>1. conn' = [conn EXCEPT ![c] = Resting] /\ Resting \in ConnType
        /\ Resting.pc # "subscribe"
    BY <1>4, RestingType DEF Return
  <2> QED
    BY <1>1, <1>2, <1>4, <2>1, CommitStep
<1>5. CASE Return(c) /\ log' = log /\ subs' = subs /\ acked' = acked /\ used' = used
  <2>1. conn' = [conn EXCEPT ![c] = Resting] /\ Resting \in ConnType
        /\ Resting.pc # "subscribe"
    BY <1>5, RestingType DEF Return
  <2>2. late' = late
    BY <1>1, <1>5
  <2>3. clock' \in Nat /\ clock <= clock' /\ Resting.at <= clock'
    BY <1>1, <1>2
  <2> QED
    BY <1>1, <1>5, <2>1, <2>2, <2>3, ConnStep
<1> QED
  BY <1>3, <1>4, <1>5 DEF Subscribe

-----------------------------------------------------------------------------
(* Recovery.                                                               *)

\* q holds the frames of the log that are later than the snapshot, in order.
Later(q) ==
    /\ q \in Seq(Sub)
    /\ \A k \in 1..Len(q) : q[k].since > snap.at /\ \E i \in 1..Len(log) : q[k] = log[i]
    /\ \A i \in 1..Len(log) : log[i].since > snap.at => \E k \in 1..Len(q) : q[k] = log[i]
    /\ \A k, m \in 1..Len(q) : k < m => q[k].since < q[m].since

LEMMA ReplayedIsLater ==
    ASSUME Types, TimesDiffer
    PROVE  Later(Replayed)
<1> DEFINE S == {s \in ToSet(log) : s.since > snap.at}
           key == [s \in S |-> s.since]
           n == clock + 1
           q == InOrder(S, key)
           m == Cardinality(S)
<1>1. log \in Seq(Sub) /\ clock \in Nat /\ n \in Nat /\ snap.at \in Nat
  BY DEF Types
<1>2. \A s \in S : s.since > snap.at /\ \E i \in 1..Len(log) : s = log[i]
  BY <1>1 DEF ToSet
<1>3. \A i \in 1..Len(log) : log[i].since > snap.at => log[i] \in S
  BY <1>1 DEF ToSet
<1>4. \A s \in S : s \in Sub /\ s.since \in Nat /\ s.since < n
  <2> TAKE s \in S
  <2>1. PICK i \in 1..Len(log) : s = log[i]
    BY <1>2
  <2>2. s \in Sub /\ s.since \in Nat /\ s.since <= clock
    BY <1>1, <2>1, EntryTypes DEF TimesDiffer
  <2> QED
    BY <1>1, <2>2
<1>5. key \in [S -> Nat] /\ \A s \in S : key[s] = s.since
  BY <1>4
<1>6. \A x, y \in S : key[x] = key[y] => x = y
  <2> SUFFICES ASSUME NEW x \in S, NEW y \in S, x.since = y.since PROVE x = y
    BY <1>5
  <2>1. PICK i \in 1..Len(log) : x = log[i]
    BY <1>2
  <2>2. PICK j \in 1..Len(log) : y = log[j]
    BY <1>2
  <2> QED
    BY <2>1, <2>2 DEF TimesDiffer
<1>7. \A s \in S : key[s] < n
  BY <1>4, <1>5
<1>8. Replayed = q
  BY DEF Replayed, ByTime
<1> HIDE DEF S, key, n
<1>9. m \in Nat /\ Lists(q, m, S, key)
  BY <1>1, <1>5, <1>6, <1>7, InOrderLists
<1> HIDE DEF q, m
<1>10. /\ q \in [1..m -> S]
       /\ \A x \in S : \E k \in 1..m : q[k] = x
       /\ \A k, j \in 1..m : k < j => key[q[k]] < key[q[j]]
  BY <1>9 DEF Lists
<1>11. q \in Seq(Sub) /\ Len(q) = m
  <2>1. q \in [1..m -> Sub] /\ m \in Nat
    BY <1>4, <1>9, <1>10
  <2> QED
    BY ONLY <2>1
<1>12. Later(q)
  <2>1. \A k \in 1..m : q[k] \in S /\ key[q[k]] = q[k].since
    BY <1>5, <1>10
  <2>2. \A k \in 1..m : q[k].since > snap.at /\ \E i \in 1..Len(log) : q[k] = log[i]
    BY <1>2, <2>1
  <2>3. \A i \in 1..Len(log) : log[i].since > snap.at => \E k \in 1..m : q[k] = log[i]
    BY <1>3, <1>10
  <2>4. \A k, j \in 1..m : k < j => q[k].since < q[j].since
    BY <1>10, <2>1
  <2> QED
    BY <1>11, <2>2, <2>3, <2>4 DEF Later
<1> QED
  BY <1>8, <1>12

\* When the log is the cell, i frames of it leave a part of the log that
\* has them.
Accepted(x, frames, i) ==
    /\ x.ok = TRUE
    /\ x.subs \in Seq(Sub)
    /\ Len(x.subs) <= Len(log)
    /\ Len(RestoredSubs) <= Len(x.subs)
    /\ \A k \in 1..Len(x.subs) : x.subs[k] = log[k]
    /\ \A k \in 1..i : frames[k].id <= Len(x.subs)

\* The next frame is either there or the next of the log: the one before it is
\* in the snapshot or was replayed before it.
LEMMA AcceptsNext ==
    ASSUME NEW frames, Types, LogIsCell, ~late, used["kept"] = 0, Later(frames),
           NEW i \in Nat, i + 1 <= Len(frames), NEW x, Accepted(x, frames, i)
    PROVE  Accepted(SubscribeWithId(x.subs, frames[i + 1]), frames, i + 1)
<1>1. PICK f : f = frames[i + 1]
  OBVIOUS
<1>2. /\ log \in Seq(Sub) /\ snap.subs \in Seq(Sub) /\ snap.at \in Nat
      /\ frames \in Seq(Sub) /\ Len(log) \in Nat /\ Len(snap.subs) \in Nat
      /\ Len(frames) \in Nat /\ RestoredSubs = snap.subs
  BY DEF Types, Later, RestoredSubs
<1>3. /\ \A k \in 1..Len(log) : log[k].id = k
      /\ \A k, m \in 1..Len(log) : k < m => log[k].since < log[m].since
      /\ \A k \in 1..Len(log) : log[k].since <= snap.at => k <= Len(snap.subs)
  BY DEF LogIsCell
<1>4. /\ x.subs \in Seq(Sub) /\ Len(x.subs) \in Nat
      /\ Len(x.subs) <= Len(log) /\ Len(snap.subs) <= Len(x.subs)
      /\ \A k \in 1..Len(x.subs) : x.subs[k] = log[k]
      /\ \A k \in 1..i : frames[k].id <= Len(x.subs)
  BY <1>2 DEF Accepted
<1>5. i + 1 \in 1..Len(frames)
  BY <1>2
<1>6. PICK k \in 1..Len(log) : f = log[k]
  BY <1>1, <1>5 DEF Later
<1>7. f \in Sub /\ f.id = k /\ f.since \in Nat
  BY <1>2, <1>3, <1>6, EntryTypes
<1>8. k <= Len(x.subs) + 1
  <2> SUFFICES ASSUME k > Len(x.subs) + 1 PROVE FALSE
    BY <1>4
  <2>1. k - 1 \in 1..Len(log) /\ k - 1 < k /\ k - 1 > Len(x.subs)
        /\ ~(k - 1 <= Len(snap.subs))
    BY <1>2, <1>4
  <2>2. PICK p : p = k - 1
    OBVIOUS
  <2>3. p \in 1..Len(log) /\ log[p].since < f.since /\ log[p].id = p
        /\ ~(log[p].since <= snap.at)
    BY <1>3, <1>6, <2>1, <2>2
  <2>4. log[p].since \in Nat /\ log[p].since > snap.at
    BY <1>2, <2>3, EntryTypes
  <2>5. PICK j \in 1..Len(frames) : frames[j] = log[p]
    BY <2>3, <2>4 DEF Later
  <2>6. ~(i + 1 < j) /\ j # i + 1
    <3>1. i + 1 < j => f.since < log[p].since
      BY <1>1, <1>5, <2>5 DEF Later
    <3>2. j = i + 1 => f.since = log[p].since
      BY <1>1, <2>5
    <3> QED
      BY <1>7, <2>3, <2>4, <3>1, <3>2
  <2>7. j \in 1..i
    BY <1>2, <2>6
  <2>8. p <= Len(x.subs)
    BY <1>4, <2>3, <2>5, <2>7
  <2> QED
    BY <1>2, <1>4, <2>1, <2>2, <2>8
<1>9. \A j \in 1..(i + 1) : j \in 1..i \/ j = i + 1
  OBVIOUS
<1>10. CASE k = Len(x.subs) + 1
  <2>1. PICK t : t = Append(x.subs, f)
    OBVIOUS
  <2>2. SubscribeWithId(x.subs, f) = [ok |-> TRUE, subs |-> t]
    BY <1>7, <1>10, <2>1 DEF SubscribeWithId
  <2>3. /\ t \in Seq(Sub) /\ Len(t) = Len(x.subs) + 1
        /\ \A j \in 1..Len(t) : \/ j \in 1..Len(x.subs) /\ t[j] = x.subs[j]
                                \/ j = Len(x.subs) + 1 /\ t[j] = f
    BY <1>4, <1>7, <2>1, AppendedSub
  <2>4. \A j \in 1..Len(t) : t[j] = log[j]
    BY <1>4, <1>6, <1>10, <2>3
  <2>5. Len(t) <= Len(log) /\ Len(snap.subs) <= Len(t)
    BY <1>2, <1>4, <1>10, <2>3
  <2>6. \A j \in 1..(i + 1) : frames[j].id <= Len(t)
    <3> TAKE j \in 1..(i + 1)
    <3>1. CASE j \in 1..i
      <4>1. j \in 1..Len(frames)
        BY <1>2, <3>1
      <4>2. frames[j].id \in Nat /\ frames[j].id <= Len(x.subs)
        BY <1>2, <1>4, <3>1, <4>1, EntryTypes
      <4> QED
        BY <1>4, <2>3, <4>2
    <3>2. CASE j = i + 1
      BY <1>1, <1>4, <1>7, <1>10, <2>3, <3>2
    <3> QED
      BY <1>9, <3>1, <3>2
  <2> QED
    BY <1>1, <1>2, <2>2, <2>3, <2>4, <2>5, <2>6 DEF Accepted
<1>11. CASE k <= Len(x.subs)
  <2>1. k \in 1..Len(x.subs) /\ x.subs[k] = f /\ k # Len(x.subs) + 1
    BY <1>4, <1>6, <1>11
  <2>2. SubscribeWithId(x.subs, f) = [ok |-> TRUE, subs |-> x.subs]
    BY <1>7, <1>11, <2>1 DEF SubscribeWithId
  <2>3. \A j \in 1..(i + 1) : frames[j].id <= Len(x.subs)
    BY <1>1, <1>4, <1>7, <1>9, <1>11
  <2> QED
    BY <1>1, <1>2, <1>4, <2>2, <2>3 DEF Accepted
<1>12. k <= Len(x.subs) \/ k = Len(x.subs) + 1
  <2>1. PICK l \in Nat : l = Len(x.subs)
    BY <1>4
  <2>2. k \in Nat /\ k <= l + 1
    BY <1>2, <1>8, <2>1
  <2> QED
    BY <2>1, <2>2
<1> QED
  BY <1>10, <1>11, <1>12

\* A log that is the cell is replayed into the same cell.
LEMMA ReplayingAccepts ==
    ASSUME NEW frames, Types, LogIsCell, ~late, used["kept"] = 0, Later(frames)
    PROVE  Replaying(frames).ok = TRUE /\ Replaying(frames).subs = log
<1>1. PICK n \in Nat : n = Len(frames)
  BY DEF Later
<1>2. PICK r : Replaying(frames) = r[n] /\ Replays(r, frames, n)
  BY <1>1, ReplayingUnfolds
<1> DEFINE N == {i \in Nat : i <= n => Accepted(r[i], frames, i)}
<1>3. /\ log \in Seq(Sub) /\ snap.subs \in Seq(Sub) /\ Len(log) \in Nat
      /\ Len(snap.subs) \in Nat /\ RestoredSubs = snap.subs /\ snap.at \in Nat
  BY DEF Types, RestoredSubs
<1>4. /\ \A k \in 1..Len(log) : log[k].id = k
      /\ \A k \in 1..Len(log) : log[k].since <= snap.at => k <= Len(snap.subs)
      /\ Len(snap.subs) <= Len(log)
      /\ \A k \in 1..Len(snap.subs) : snap.subs[k] = log[k]
  BY DEF LogIsCell
<1>5. 0 \in N
  <2>1. r[0].ok = TRUE /\ r[0].subs = snap.subs
    BY <1>2, <1>3 DEF Replays
  <2>2. \A k \in 1..0 : FALSE
    OBVIOUS
  <2>3. Accepted(r[0], frames, 0)
    BY <1>3, <1>4, <2>1, <2>2 DEF Accepted
  <2> QED
    BY <2>3
<1>6. ASSUME NEW i \in N PROVE i + 1 \in N
  <2> SUFFICES ASSUME i + 1 <= n PROVE Accepted(r[i + 1], frames, i + 1)
    OBVIOUS
  <2>1. i \in Nat /\ i <= n /\ i + 1 \in 1..n /\ (i + 1) - 1 = i
    OBVIOUS
  <2>2. Accepted(r[i], frames, i)
    BY <2>1
  <2>3. r[i + 1] = SubscribeWithId(r[i].subs, frames[i + 1])
    BY <1>2, <2>1, <2>2 DEF Replays, Accepted
  <2>4. Accepted(SubscribeWithId(r[i].subs, frames[i + 1]), frames, i + 1)
    BY <1>1, <2>1, <2>2, AcceptsNext
  <2> QED
    BY <2>3, <2>4
<1>7. N = Nat
  <2>1. N \in SUBSET Nat
    OBVIOUS
  <2> HIDE DEF N
  <2> QED
    BY <1>5, <1>6, <2>1, SetInduction
<1>8. Accepted(r[n], frames, n)
  <2>1. n \in N /\ n <= n
    BY <1>7
  <2> QED
    BY <2>1
<1>9. PICK t : t = r[n].subs
  OBVIOUS
<1>10. /\ r[n].ok = TRUE /\ t \in Seq(Sub) /\ Len(t) \in Nat
       /\ Len(t) <= Len(log) /\ Len(snap.subs) <= Len(t)
       /\ \A k \in 1..Len(t) : t[k] = log[k]
       /\ \A k \in 1..n : frames[k].id <= Len(t)
  BY <1>3, <1>8, <1>9 DEF Accepted
<1>11. ASSUME NEW k \in 1..Len(log) PROVE k <= Len(t)
  <2>1. CASE log[k].since <= snap.at
    BY <1>3, <1>4, <1>10, <2>1
  <2>2. CASE ~(log[k].since <= snap.at)
    <3>1. log[k].since > snap.at
      BY <1>3, <2>2, EntryTypes
    <3>2. PICK j \in 1..n : frames[j] = log[k]
      BY <1>1, <3>1 DEF Later
    <3> QED
      BY <1>4, <1>10, <3>2
  <2> QED
    BY <2>1, <2>2
<1>12. Len(t) = Len(log)
  <2>1. CASE Len(log) = 0
    BY <1>3, <1>10, <2>1
  <2>2. CASE Len(log) # 0
    <3>1. Len(log) \in 1..Len(log)
      BY <1>3, <2>2
    <3>2. Len(log) <= Len(t)
      BY <1>11, <3>1
    <3> QED
      BY <1>3, <1>10, <3>2
  <2> QED
    BY <2>1, <2>2
<1>13. t = log
  BY <1>3, <1>10, <1>12
<1> QED
  BY <1>2, <1>9, <1>10, <1>13

LEMMA RecoverStep ==
    ASSUME CoordinationInv, Recover
    PROVE  CoordinationInv'
<1>1. PICK q : q = Replayed
  OBVIOUS
<1>2. PICK end : end = Replaying(q)
  OBVIOUS
<1>3. /\ status = "down" /\ subs' = end.subs
      /\ status' = IF end.ok THEN "up" ELSE "refused"
      /\ clock' = IF q = <<>> THEN snap.at ELSE q[Len(q)].since
      /\ UNCHANGED bus /\ ring' = ring /\ next' = next /\ conn' = conn /\ log' = log
      /\ snap' = snap /\ used' = used /\ acked' = acked /\ late' = late /\ asked' = asked
  BY <1>1, <1>2 DEF Recover, bus
<1>4. Later(q)
  BY <1>1, ReplayedIsLater DEF CoordinationInv
<1>5. /\ q \in Seq(Sub) /\ Len(q) \in Nat /\ snap.at \in Nat /\ log \in Seq(Sub)
      /\ snap.subs \in Seq(Sub) /\ RestoredSubs = snap.subs /\ ring = <<>> /\ next = 0
      /\ \A c \in Conns : conn[c] = Resting
  BY <1>3, <1>4 DEF CoordinationInv, Types, Later, RestoredSubs, Quiet
<1>6. KeptBy(end, q, Len(q))
  BY <1>2, <1>5, ReplayingKeeps
<1>7. /\ subs' \in Seq(Sub)
      /\ \A k \in 1..Len(snap.subs) : \E j \in 1..Len(subs') : subs'[j] = snap.subs[k]
      /\ \A j \in 1..Len(subs') :
            \/ \E k \in 1..Len(snap.subs) : subs'[j] = snap.subs[k]
            \/ \E k \in 1..Len(q) : subs'[j] = q[k]
      /\ end.ok => \A k \in 1..Len(q) : \E j \in 1..Len(subs') : subs'[j] = q[k]
  BY <1>3, <1>5, <1>6 DEF KeptBy
<1>8. status' \in {"up", "refused"} /\ (status' = "up" => end.ok)
  BY <1>3
<1>9. \A k \in 1..Len(q) : q[k].since \in Nat /\ q[k].since > snap.at
  BY <1>4, <1>5, EntryTypes DEF Later
<1>10. clock' \in Nat /\ snap.at <= clock' /\ \A k \in 1..Len(q) : q[k].since <= clock'
  <2>1. CASE q = <<>>
    BY <1>3, <1>5, <2>1
  <2>2. CASE q # <<>>
    <3>1. Len(q) \in 1..Len(q) /\ clock' = q[Len(q)].since
      BY <1>3, <1>5, <2>2
    <3>2. clock' \in Nat /\ clock' > snap.at
      BY <1>9, <3>1
    <3>3. ASSUME NEW k \in 1..Len(q) PROVE q[k].since <= clock'
      <4>1. CASE k = Len(q)
        BY <3>1, <3>2, <4>1
      <4>2. CASE k # Len(q)
        <5>1. k < Len(q)
          BY <1>5, <4>2
        <5>2. q[k].since < clock'
          BY <1>4, <3>1, <5>1 DEF Later
        <5> QED
          BY <1>9, <3>2, <5>2
      <4> QED
        BY <4>1, <4>2
    <3> QED
      BY <1>5, <3>2, <3>3
  <2> QED
    BY <2>1, <2>2
<1>11. ASSUME NEW i \in 1..Len(log) PROVE log[i].since <= clock'
  <2>1. log[i].since \in Nat
    BY <1>5, EntryTypes
  <2>2. CASE log[i].since > snap.at
    BY <1>4, <1>10, <2>2 DEF Later
  <2>3. CASE ~(log[i].since > snap.at)
    BY <1>5, <1>10, <2>1, <2>3
  <2> QED
    BY <2>2, <2>3
<1>12. Types'
  BY <1>3, <1>7, <1>8, <1>10 DEF CoordinationInv, Types, ConnTimes
<1>13. RingIsRecent' /\ QueuesInOrder'
  BY <1>3, UnchangedBus DEF CoordinationInv
<1>14. Quiet'
  BY <1>3, <1>5 DEF Quiet
<1>15. TimesDiffer'
  <2>1. \A c \in Conns : conn'[c].at <= clock' /\ conn'[c].pc # "subscribe"
    BY <1>3, <1>5, <1>10, RestingType
  <2> QED
    BY <1>3, <1>10, <1>11, <2>1 DEF CoordinationInv, TimesDiffer
<1>16. AskedBefore'
  <2>1. Len(ring') = 0 /\ \A k \in 1..Len(ring') : FALSE
    BY <1>3, <1>5
  <2>2. \A c \in Conns : conn'[c].pc # "subscribe"
    BY <1>3, <1>5, RestingType
  <2>3. \A k \in 1..Len(q) : asked[q[k].agent] # Never
    BY <1>4 DEF Later, CoordinationInv, AskedBefore
  <2>4. \A k \in 1..Len(snap.subs) : asked[snap.subs[k].agent] # Never
    BY DEF CoordinationInv, AskedBefore
  <2>5. \A j \in 1..Len(subs') : asked[subs'[j].agent] # Never
    <3> TAKE j \in 1..Len(subs')
    <3>1. CASE \E k \in 1..Len(snap.subs) : subs'[j] = snap.subs[k]
      <4>1. PICK k \in 1..Len(snap.subs) : subs'[j] = snap.subs[k]
        BY <3>1
      <4> QED
        BY <2>4, <4>1
    <3>2. CASE \E k \in 1..Len(q) : subs'[j] = q[k]
      <4>1. PICK k \in 1..Len(q) : subs'[j] = q[k]
        BY <3>2
      <4> QED
        BY <2>3, <4>1
    <3> QED
      BY <1>7, <3>1, <3>2
  <2> QED
    BY <1>3, <2>1, <2>2, <2>5 DEF CoordinationInv, AskedBefore
<1>17. AckedKept'
  <2> SUFFICES ASSUME ~late
               PROVE  /\ status' = "up" =>
                            \A f \in acked : \E i \in 1..Len(subs') : subs'[i] = f
                      /\ \A f \in acked :
                            \/ \E i \in 1..Len(snap.subs) : snap.subs[i] = f
                            \/ f.since > snap.at /\ \E i \in 1..Len(log) : log[i] = f
    BY <1>3 DEF AckedKept
  <2>1. \A f \in acked :
           \/ \E i \in 1..Len(snap.subs) : snap.subs[i] = f
           \/ f.since > snap.at /\ \E i \in 1..Len(log) : log[i] = f
    BY DEF CoordinationInv, AckedKept
  <2>2. ASSUME status' = "up", NEW f \in acked
        PROVE  \E i \in 1..Len(subs') : subs'[i] = f
    <3>1. CASE \E i \in 1..Len(snap.subs) : snap.subs[i] = f
      BY <1>7, <3>1
    <3>2. CASE f.since > snap.at /\ \E i \in 1..Len(log) : log[i] = f
      <4>1. \E k \in 1..Len(q) : q[k] = f
        BY <1>4, <3>2 DEF Later
      <4> QED
        BY <1>7, <1>8, <2>2, <4>1
    <3> QED
      BY <2>1, <3>1, <3>2
  <2> QED
    BY <2>1, <2>2
<1>18. LogIsCell'
  <2> SUFFICES ASSUME ~late, used["kept"] = 0 PROVE LogIsCell'
    BY <1>3 DEF LogIsCell
  <2>1. end.ok = TRUE /\ end.subs = log
    BY <1>2, <1>4, ReplayingAccepts DEF CoordinationInv
  <2>2. status' = "up" /\ subs' = log'
    BY <1>3, <2>1
  <2> QED
    BY <1>3, <2>2 DEF CoordinationInv, LogIsCell
<1> QED
  BY <1>12, <1>13, <1>14, <1>15, <1>16, <1>17, <1>18 DEF CoordinationInv

-----------------------------------------------------------------------------
(* The theorems.                                                           *)

\* Every step of the connections, the bus, a crash and a recovery keeps the
\* parts of the invariant together.
THEOREM CoordinationInvHolds == Spec => []CoordinationInv
<1>1. Init => CoordinationInv
  BY InvInit
<1>2. ASSUME CoordinationInv, [Next]_vars PROVE CoordinationInv'
  <2>1. CASE UNCHANGED vars
    <3>1. /\ status' = status /\ clock' = clock /\ subs' = subs /\ conn' = conn
          /\ log' = log /\ snap' = snap /\ used' = used /\ acked' = acked /\ late' = late
          /\ asked' = asked /\ ring' = ring /\ next' = next /\ UNCHANGED bus
      BY <2>1 DEF vars, bus
    <3>2. Types' /\ Quiet' /\ TimesDiffer' /\ AskedBefore'
      BY <1>2, <3>1 DEF CoordinationInv, Types, ConnTimes, Quiet, TimesDiffer, AskedBefore
    <3>3. AckedKept' /\ LogIsCell'
      BY <1>2, <3>1 DEF CoordinationInv, AckedKept, LogIsCell
    <3>4. RingIsRecent' /\ QueuesInOrder'
      BY <1>2, <3>1, UnchangedBus DEF CoordinationInv
    <3> QED
      BY <3>2, <3>3, <3>4 DEF CoordinationInv
  <2>2. ASSUME NEW a \in Agents, DrainFor(a) PROVE CoordinationInv'
    BY <1>2, <2>2, DrainStep
  <2>3. ASSUME NEW c \in Conns, NEW a \in Agents, NEW p \in Patterns, BeginSubscribe(c, a, p)
        PROVE  CoordinationInv'
    BY <1>2, <2>3, BeginSubscribeStep
  <2>4. ASSUME NEW c \in Conns, Subscribe(c) PROVE CoordinationInv'
    BY <1>2, <2>4, SubscribeStep
  <2>5. ASSUME NEW c \in Conns, NEW n \in Names, Publish(c, n) PROVE CoordinationInv'
    BY <1>2, <2>5, PublishStep
  <2>6. ASSUME NEW c \in Conns,
               BeginWrite(c) \/ EndWrite(c) \/ BeginSnapshot(c) \/ NoSnapshot(c)
        PROVE  CoordinationInv'
    BY <1>2, <2>6, ConnSteps
  <2>7. ASSUME NEW c \in Conns, WriteSnapshot(c) PROVE CoordinationInv'
    BY <1>2, <2>7, WriteSnapshotStep
  <2>8. CASE Crash
    BY <1>2, <2>8, CrashStep
  <2>9. CASE Recover
    BY <1>2, <2>9, RecoverStep
  <2> QED
    BY <1>2, <2>1, <2>2, <2>3, <2>4, <2>5, <2>6, <2>7, <2>8, <2>9 DEF Next
<1> QED
  BY <1>1, <1>2, PTL DEF Spec

\* For any agents, connections and ring: an event queued for an agent is handed
\* to it once and in order, is still queued, or left the ring
\* (EventBus::publish, drain_for).
THEOREM QueuesAreAccounted == Spec => []DueIsAccounted
<1>1. CoordinationInv => DueIsAccounted
  <2> SUFFICES ASSUME CoordinationInv, NEW a \in Agents
               PROVE  /\ ToSet(handed[a]) \cup QueuedFor(a) \subseteq due[a]
                      /\ \A s \in due[a] \ (ToSet(handed[a]) \cup QueuedFor(a)) :
                            s < next - Len(ring)
                      /\ \A i, j \in DOMAIN handed[a] : i < j => handed[a][i] < handed[a][j]
    BY DEF DueIsAccounted
  <2>1. handed[a] \in Seq(Nat)
    BY DEF CoordinationInv, QueuesInOrder
  <2>2. DOMAIN handed[a] = 1..Len(handed[a]) /\ ToSet(handed[a]) = Got(a)
    BY <2>1 DEF ToSet, Got
  <2>3. /\ Got(a) \subseteq due[a] /\ QueuedFor(a) \subseteq due[a]
        /\ \A s \in due[a] : s \in Got(a) \/ s \in QueuedFor(a) \/ s < next - Len(ring)
        /\ \A i, j \in 1..Len(handed[a]) : i < j => handed[a][i] < handed[a][j]
    BY DEF CoordinationInv, QueuesInOrder
  <2> QED
    BY <2>2, <2>3
<1> QED
  BY <1>1, CoordinationInvHolds, PTL

\* A replay gives an agent no event from before it first asked for a
\* subscription, incidents for an operator apart (since_for, entitled_at): a
\* subscription is younger than every event its agent had not asked for.
THEOREM NothingEarlyIsReplayed == Spec => []NoEarlyReplay
<1>1. CoordinationInv => NoEarlyReplay
  <2> SUFFICES ASSUME CoordinationInv, status = "up", NEW a \in Agents,
                      NEW e \in SinceFor(a, 0)
               PROVE  \/ e.seq >= asked[a]
                      \/ registry.role[a] = "operator" /\ e.name \in Incidents
    BY DEF NoEarlyReplay
  <2>1. /\ e \in ToSet(ring)
        /\ \/ EntitledAt(a, e)
           \/ registry.role[a] = "operator" /\ e.name \in Incidents
    BY DEF SinceFor
  <2>2. subs \in Seq(Sub) /\ asked \in [Agents -> Nat]
        /\ DOMAIN subs = 1..Len(subs) /\ DOMAIN ring = 1..Len(ring)
    BY DEF CoordinationInv, Types, RingIsRecent
  <2>3. PICK k \in 1..Len(ring) : e = ring[k]
    BY <2>1, <2>2 DEF ToSet
  <2>4. e.seq \in Nat /\ e.at \in Nat
    BY <2>3, EventTypes DEF CoordinationInv
  <2>5. ASSUME EntitledAt(a, e) PROVE e.seq >= asked[a]
    <3>1. PICK i \in 1..Len(subs) : subs[i].agent = a /\ e.at >= subs[i].since
      BY <2>2, <2>5 DEF EntitledAt, ToSet
    <3>2. subs[i].since \in Nat
      BY <2>2, EntryTypes
    <3>3. ~(e.at < subs[i].since)
      BY <2>4, <3>1, <3>2
    <3>4. ~(e.seq < asked[a])
      BY <2>3, <3>1, <3>3 DEF CoordinationInv, AskedBefore
    <3> QED
      BY <2>2, <2>4, <3>4
  <2> QED
    BY <2>1, <2>5
<1> QED
  BY <1>1, CoordinationInvHolds, PTL

\* For any number of crashes and snapshots: while every subscription is
\* committed in the order of the logical times, whoever was told of one keeps
\* it whenever the node serves (handle_subscribe, recover).
THEOREM AckedStaySubscribed == Spec => []AckedSubscribed
<1>1. CoordinationInv => AckedSubscribed
  <2>1. CoordinationInv => DOMAIN subs = 1..Len(subs)
    BY DEF CoordinationInv, Types
  <2> QED
    BY <2>1 DEF CoordinationInv, AckedKept, AckedSubscribed, ToSet
<1> QED
  BY <1>1, CoordinationInvHolds, PTL

\* A log of subscriptions that were committed in the order of their times, none
\* of them after a failed append, is replayed without an error from any
\* snapshot (subscribe_with_id, replay_frame).
THEOREM ReplayAcceptsSubscriptions == Spec => []SubscriptionsAccepted
<1>1. CoordinationInv => SubscriptionsAccepted
  <2> SUFFICES ASSUME CoordinationInv, status = "refused", ~late
               PROVE  used["kept"] > 0
    BY DEF SubscriptionsAccepted
  <2>1. used["kept"] \in Nat
    BY DEF CoordinationInv, Types, Counted
  <2>2. used["kept"] # 0
    BY DEF CoordinationInv, LogIsCell
  <2> QED
    BY <2>1, <2>2
<1> QED
  BY <1>1, CoordinationInvHolds, PTL
=============================================================================
