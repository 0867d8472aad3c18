--------------------------- MODULE CustodyProofs ---------------------------
(***************************************************************************)
(* Proofs about Custody, for any contents of the CAS and any number of     *)
(* seals, audit records, disk errors and crashes.                          *)
(***************************************************************************)
EXTENDS Custody, FiniteSetTheorems, SequenceTheorems, TLAPS

-----------------------------------------------------------------------------
(* The inductive invariant.                                                *)

Events == {"other", "requested", "rotated"}
Entry == [event : Events, prev : Nat, seq : Nat, hash : Nat, end : {"whole", "open", "torn"}]
Rings == [active : Nat, keys : Seq(Nat)]
Payload == [what : (({"frame"} \X Nat) \cup ({"blob"} \X Blobs)), id : Nat, key : Nat]
Usage == [seals : Nat, crashes : Nat, disk : Nat, records : Nat]

\* Every variable has its type.
TypeOK ==
    /\ status \in {"up", "down", "refused"}
    /\ pc \in {"idle", "rotate", "record"}
    /\ ring \in Rings
    /\ keyring \in Rings
    /\ generated \in Nat
    /\ sealed \subseteq Payload
    /\ lines \in Seq(Entry)
    /\ buffer \in Seq(Entry)
    /\ synced \in 0..Len(lines)
    /\ head \in [prev : Nat, seq : Nat]
    /\ used \in Usage
    /\ acked \in Seq(Nat)
    /\ broken \in BOOLEAN
    /\ stranded \in BOOLEAN

\* The active key is the last one, and there is one.
LastIsActive(r) == r.active = Len(r.keys) /\ r.keys # <<>>

\* Rotations add to the ring that the last boot has read, and what is sealed is
\* sealed with a key of the ring in memory, or of the file when there is none.
RingsOK ==
    /\ LastIsActive(keyring)
    /\ status = "up" => LastIsActive(ring) /\ Len(keyring.keys) <= Len(ring.keys)
    /\ ~ stranded => \A s \in sealed : Unseals(IF status = "up" THEN ring ELSE keyring, s)

\* The requests to rotate among the first lines of a file.
Requested(file, n) == {i \in 1..n : file[i].event = "requested"}

\* Every key but the first has a request of its own, and so has the key that is
\* about to be made.
RequestsOK ==
    /\ status # "up" => pc = "idle" /\ Len(keyring.keys) - 1 <= Cardinality(Requested(lines, synced))
    /\ status = "up" /\ pc = "rotate" => Len(ring.keys) <= Cardinality(Requested(lines, synced))
    /\ status = "up" /\ pc # "rotate" => Len(ring.keys) - 1 <= Cardinality(Requested(lines, synced))

\* Hashes grow along a file and along its buffer, so none is there twice.
Growing(file) == \A i, j \in DOMAIN file : i < j => file[i].hash < file[j].hash

HashesOK ==
    /\ Growing(lines)
    /\ Growing(buffer)
    /\ \A i \in DOMAIN lines : lines[i].hash <= used.records
    /\ \A i \in DOMAIN buffer : buffer[i].hash <= used.records
    /\ \A i \in DOMAIN lines, j \in DOMAIN buffer : lines[i].hash < buffer[j].hash

\* Line j can be read, or it was written right behind a line that a crash cut.
Placed(file, hashes, j) ==
    \/ file[j].end = "whole"
    \/ /\ file[j].end = "torn"
       /\ j > 1
       /\ file[j - 1].end = "torn"
       /\ \A k \in DOMAIN hashes : hashes[k] # file[j - 1].hash

\* What was acknowledged is in the part of the file that is synced.
AckedSynced ==
    /\ \A i, j \in DOMAIN acked : i < j => acked[i] < acked[j]
    /\ \A i \in DOMAIN acked : acked[i] <= used.records
    /\ \A i \in DOMAIN acked : \E j \in 1..synced : lines[j].hash = acked[i] /\ Placed(lines, acked, j)

\* As long as nothing is broken nothing is buffered or unsynced either.
UnbrokenOK ==
    ~ broken =>
        /\ buffer = <<>>
        /\ synced = Len(lines)
        /\ \A i \in DOMAIN lines : lines[i].end = "whole"
        /\ Linked(lines)
        /\ status = "up" => head = Scan(lines)

CustodyInv ==
    TypeOK /\ RingsOK /\ RequestsOK /\ HashesOK /\ AckedSynced /\ UnbrokenOK

-----------------------------------------------------------------------------
(* Files.                                                                  *)

\* What tearing a line does not change.
Alike(x, y) == x.event = y.event /\ x.hash = y.hash

LEMMA TornEntry ==
    ASSUME NEW x \in Entry, NEW e \in {"whole", "open", "torn"}
    PROVE  /\ [x EXCEPT !.end = e] \in Entry
           /\ Alike([x EXCEPT !.end = e], x)
           /\ [x EXCEPT !.end = e].end = e
BY DEF Entry, Alike

\* A first part of a sequence, and two sequences joined.
LEMMA PrefixFacts ==
    ASSUME NEW S, NEW s \in Seq(S), NEW n \in 0..Len(s)
    PROVE  /\ SubSeq(s, 1, n) \in Seq(S)
           /\ Len(SubSeq(s, 1, n)) = n
           /\ \A i \in 1..n : SubSeq(s, 1, n)[i] = s[i]
BY SubSeqProperties

LEMMA ConcatFacts ==
    ASSUME NEW S, NEW s \in Seq(S), NEW t \in Seq(S)
    PROVE  /\ s \o t \in Seq(S)
           /\ Len(s \o t) = Len(s) + Len(t)
           /\ \A i \in 1..Len(s) : (s \o t)[i] = s[i]
           /\ \A i \in 1..Len(t) : (s \o t)[Len(s) + i] = t[i]
BY ConcatProperties

\* Hashes are numbers.
LEMMA HashType ==
    ASSUME NEW f \in Seq(Entry)
    PROVE  /\ DOMAIN f = 1..Len(f)
           /\ \A i \in 1..Len(f) : f[i] \in Entry /\ f[i].hash \in Nat
<1>1. \A x \in Entry : x.hash \in Nat
  BY DEF Entry
<1>2. QED
  BY <1>1

\* Text that is written behind a file: nothing is lost, nothing moves, and only a
\* line without its newline and the one behind it are torn.
LEMMA GlueAll ==
    ASSUME NEW f \in Seq(Entry), NEW n \in Seq(Entry)
    PROVE  /\ Glue(f, n) \in Seq(Entry)
           /\ Len(Glue(f, n)) = Len(f) + Len(n)
           /\ \A i \in 1..Len(f) : Alike(Glue(f, n)[i], f[i])
           /\ \A i \in 1..Len(n) : Alike(Glue(f, n)[Len(f) + i], n[i])
           /\ (n = <<>> \/ \A i \in 1..Len(f) : f[i].end # "open") => Glue(f, n) = f \o n
           /\ \A i \in 1..Len(f) : f[i].end # "open" => Glue(f, n)[i] = f[i]
           /\ n # <<>> =>
                \/ Glue(f, n)[Len(f) + Len(n)] = n[Len(n)]
                \/ /\ Len(n) = 1 /\ f # <<>> /\ f[Len(f)].end = "open"
                   /\ Glue(f, n)[Len(f)].end = "torn"
                   /\ Glue(f, n)[Len(f) + 1].end = "torn"
<1>1. CASE f = <<>> \/ n = <<>> \/ Last(f).end # "open"
  <2>1. Glue(f, n) = f \o n
    BY <1>1 DEF Glue
  <2>2. f \o n \in Seq(Entry) /\ Len(f \o n) = Len(f) + Len(n)
    OBVIOUS
  <2>3. \A i \in 1..Len(f) : (f \o n)[i] = f[i]
    OBVIOUS
  <2>4. \A i \in 1..Len(n) : (f \o n)[Len(f) + i] = n[i]
    OBVIOUS
  <2>5. n # <<>> => Len(n) \in 1..Len(n)
    OBVIOUS
  <2>6. QED
    BY <2>1, <2>2, <2>3, <2>4, <2>5 DEF Alike
<1>2. CASE f # <<>> /\ n # <<>> /\ Last(f).end = "open"
  <2> DEFINE a == Front(f)
             x == [Last(f) EXCEPT !.end = "torn"]
             y == [Head(n) EXCEPT !.end = "torn"]
             b == Tail(n)
             h == a \o <<x, y>>
             g == h \o b
  <2>1. Glue(f, n) = g
    BY <1>2 DEF Glue
  <2>2. Len(f) \in Nat \ {0} /\ Len(n) \in Nat \ {0}
    BY <1>2
  <2>3. a \in Seq(Entry) /\ Len(a) = Len(f) - 1 /\ \A i \in 1..Len(f) - 1 : a[i] = f[i]
    <3>1. a = SubSeq(f, 1, Len(f) - 1)
      BY DEF Front
    <3>2. Len(f) - 1 \in 0..Len(f)
      BY <2>2
    <3>3. QED
      BY <3>1, <3>2, PrefixFacts
  <2>4. b \in Seq(Entry) /\ Len(b) = Len(n) - 1 /\ \A i \in 1..Len(n) - 1 : b[i] = n[i + 1]
    BY <2>2
  <2>5. x \in Entry /\ Alike(x, f[Len(f)]) /\ f[Len(f)].end = "open" /\ x.end = "torn"
    <3>1. Last(f) = f[Len(f)] /\ f[Len(f)] \in Entry
      BY <2>2 DEF Last
    <3>2. x \in Entry /\ Alike(x, Last(f)) /\ x.end = "torn"
      BY <3>1, TornEntry
    <3>3. QED
      BY <1>2, <3>1, <3>2
  <2>6. y \in Entry /\ Alike(y, n[1]) /\ y.end = "torn"
    <3>1. Head(n) = n[1] /\ n[1] \in Entry
      BY <2>2
    <3>2. QED
      BY <3>1, TornEntry
  <2> HIDE DEF a, x, y, b
  <2>7. <<x, y>> \in Seq(Entry) /\ Len(<<x, y>>) = 2
    BY <2>5, <2>6
  <2>8. h \in Seq(Entry) /\ Len(h) = Len(f) + 1
    BY <2>2, <2>3, <2>7
  <2>9. /\ \A i \in 1..Len(f) - 1 : h[i] = f[i]
        /\ h[Len(f)] = x
        /\ h[Len(f) + 1] = y
    BY <2>2, <2>3, <2>7
  <2> HIDE DEF h
  <2>10. g \in Seq(Entry) /\ Len(g) = Len(f) + Len(n)
    <3>1. g \in Seq(Entry) /\ Len(g) = Len(h) + Len(b)
      BY <2>4, <2>8, ConcatFacts
    <3>2. QED
      BY <2>2, <2>4, <2>8, <3>1
  <2>11. /\ \A i \in 1..Len(f) + 1 : g[i] = h[i]
         /\ \A i \in 1..Len(n) - 1 : g[Len(f) + 1 + i] = b[i]
    BY <2>4, <2>8, ConcatFacts
  <2> HIDE DEF g
  <2>12. ASSUME NEW i \in 1..Len(f) PROVE Alike(g[i], f[i])
    <3>1. CASE i = Len(f)
      <4>1. g[i] = x
        BY <2>2, <2>9, <2>11, <3>1
      <4>2. QED
        BY <2>5, <3>1, <4>1
    <3>2. CASE i # Len(f)
      <4>1. i \in 1..Len(f) - 1 /\ i \in 1..Len(f) + 1
        BY <2>2, <3>2
      <4>2. QED
        BY <2>9, <2>11, <4>1 DEF Alike
    <3>3. QED
      BY <3>1, <3>2
  <2>13. ASSUME NEW i \in 1..Len(n) PROVE Alike(g[Len(f) + i], n[i])
    <3>1. CASE i = 1
      <4>1. g[Len(f) + i] = y
        BY <2>2, <2>9, <2>11, <3>1
      <4>2. QED
        BY <2>6, <3>1, <4>1
    <3>2. CASE i # 1
      <4>1. i - 1 \in 1..Len(n) - 1 /\ Len(f) + i = Len(f) + 1 + (i - 1)
        BY <2>2, <3>2
      <4>2. g[Len(f) + i] = b[i - 1]
        BY <2>11, <4>1
      <4>3. b[i - 1] = n[i]
        BY <2>4, <4>1
      <4>4. QED
        BY <4>2, <4>3 DEF Alike
    <3>3. QED
      BY <3>1, <3>2
  <2>14. ~ (n = <<>> \/ \A i \in 1..Len(f) : f[i].end # "open")
    BY <1>2, <2>2, <2>5
  <2>15. ASSUME NEW i \in 1..Len(f), f[i].end # "open" PROVE g[i] = f[i]
    <3>1. i \in 1..Len(f) - 1 /\ i \in 1..Len(f) + 1
      BY <2>2, <2>5, <2>15
    <3>2. QED
      BY <2>9, <2>11, <3>1
  <2>16. CASE Len(n) = 1
    <3>1. g[Len(f)] = x /\ g[Len(f) + 1] = y
      BY <2>2, <2>9, <2>11
    <3>2. QED
      BY <1>2, <2>1, <2>5, <2>6, <2>10, <2>12, <2>13, <2>14, <2>15, <2>16, <3>1
  <2>17. CASE Len(n) # 1
    <3>1. Len(n) - 1 \in 1..Len(n) - 1 /\ Len(f) + Len(n) = Len(f) + 1 + (Len(n) - 1)
      <4>1. \A c \in Nat \ {0}, d \in Nat \ {0, 1} :
                d - 1 \in 1..d - 1 /\ c + d = c + 1 + (d - 1)
        OBVIOUS
      <4>2. Len(n) \in Nat \ {0, 1}
        BY ONLY <2>2, <2>17
      <4>3. QED
        BY ONLY <2>2, <4>1, <4>2
    <3>2. g[Len(f) + 1 + (Len(n) - 1)] = b[Len(n) - 1]
      BY <2>11, <3>1
    <3>3. b[Len(n) - 1] = n[(Len(n) - 1) + 1] /\ (Len(n) - 1) + 1 = Len(n)
      BY <2>2, <2>4, <3>1
    <3>4. QED
      BY <2>1, <2>10, <2>12, <2>13, <2>14, <2>15, <3>1, <3>2, <3>3
  <2>18. QED
    BY <2>16, <2>17
<1>3. QED
  BY <1>1, <1>2

LEMMA GlueFacts ==
    ASSUME NEW f \in Seq(Entry), NEW n \in Seq(Entry)
    PROVE  /\ Glue(f, n) \in Seq(Entry)
           /\ Len(Glue(f, n)) = Len(f) + Len(n)
           /\ \A i \in 1..Len(f) : Alike(Glue(f, n)[i], f[i])
           /\ \A i \in 1..Len(n) : Alike(Glue(f, n)[Len(f) + i], n[i])
           /\ (n = <<>> \/ \A i \in 1..Len(f) : f[i].end # "open") => Glue(f, n) = f \o n
BY GlueAll

LEMMA GlueEnds ==
    ASSUME NEW f \in Seq(Entry), NEW n \in Seq(Entry)
    PROVE  /\ \A i \in 1..Len(f) : f[i].end # "open" => Glue(f, n)[i] = f[i]
           /\ n # <<>> =>
                \/ Glue(f, n)[Len(f) + Len(n)] = n[Len(n)]
                \/ /\ Len(n) = 1 /\ f # <<>> /\ f[Len(f)].end = "open"
                   /\ Glue(f, n)[Len(f)].end = "torn"
                   /\ Glue(f, n)[Len(f) + 1].end = "torn"
BY GlueAll

\* The bounds that a step uses up.
LEMMA UsageType ==
    ASSUME NEW u \in Usage
    PROVE  /\ u.records \in Nat /\ u.disk \in Nat /\ u.crashes \in Nat /\ u.seals \in Nat
           /\ [u EXCEPT !.records = @ + 1] \in Usage
           /\ [u EXCEPT !.records = @ + 1].records = u.records + 1
           /\ [u EXCEPT !.disk = @ + 1] \in Usage
           /\ [u EXCEPT !.disk = @ + 1].records = u.records
           /\ [u EXCEPT !.seals = @ + 1] \in Usage
           /\ [u EXCEPT !.seals = @ + 1].records = u.records
           /\ [u EXCEPT !.disk = @ + 1, !.records = @ + 1] \in Usage
           /\ [u EXCEPT !.disk = @ + 1, !.records = @ + 1].records = u.records + 1
           /\ [u EXCEPT !.crashes = @ + 1, !.records = @ + 1] \in Usage
           /\ [u EXCEPT !.crashes = @ + 1, !.records = @ + 1].records = u.records + 1
<1>1. u.records \in Nat /\ u.disk \in Nat /\ u.crashes \in Nat /\ u.seals \in Nat
  BY DEF Usage
<1>2. /\ [u EXCEPT !.records = @ + 1] \in Usage
      /\ [u EXCEPT !.records = @ + 1].records = u.records + 1
  BY <1>1 DEF Usage
<1>3. /\ [u EXCEPT !.disk = @ + 1] \in Usage
      /\ [u EXCEPT !.disk = @ + 1].records = u.records
  BY <1>1 DEF Usage
<1>4. /\ [u EXCEPT !.seals = @ + 1] \in Usage
      /\ [u EXCEPT !.seals = @ + 1].records = u.records
  BY <1>1 DEF Usage
<1>5. /\ [u EXCEPT !.disk = @ + 1, !.records = @ + 1] \in Usage
      /\ [u EXCEPT !.disk = @ + 1, !.records = @ + 1].records = u.records + 1
  <2>1. u.disk + 1 \in Nat /\ u.records + 1 \in Nat
    BY <1>1
  <2>2. [u EXCEPT !.disk = @ + 1, !.records = @ + 1] =
            [u EXCEPT !.disk = u.disk + 1, !.records = u.records + 1]
    BY DEF Usage
  <2>3. \A a, b \in Nat : /\ [u EXCEPT !.disk = a, !.records = b] \in Usage
                          /\ [u EXCEPT !.disk = a, !.records = b].records = b
    BY DEF Usage
  <2>4. QED
    BY <2>1, <2>2, <2>3
<1>6. /\ [u EXCEPT !.crashes = @ + 1, !.records = @ + 1] \in Usage
      /\ [u EXCEPT !.crashes = @ + 1, !.records = @ + 1].records = u.records + 1
  <2>1. u.crashes + 1 \in Nat /\ u.records + 1 \in Nat
    BY <1>1
  <2>2. [u EXCEPT !.crashes = @ + 1, !.records = @ + 1] =
            [u EXCEPT !.crashes = u.crashes + 1, !.records = u.records + 1]
    BY DEF Usage
  <2>3. \A a, b \in Nat : /\ [u EXCEPT !.crashes = a, !.records = b] \in Usage
                          /\ [u EXCEPT !.crashes = a, !.records = b].records = b
    BY DEF Usage
  <2>4. QED
    BY <2>1, <2>2, <2>3
<1>7. QED
  BY <1>1, <1>2, <1>3, <1>4, <1>5, <1>6

\* The record that an append writes.
LEMMA LineType ==
    ASSUME TypeOK, NEW e \in Events
    PROVE  /\ Line(e) \in Entry
           /\ Line(e).event = e
           /\ Line(e).hash = used.records + 1
           /\ Line(e).end = "whole"
           /\ Line(e).prev = head.prev /\ Line(e).seq = head.seq
BY DEF TypeOK, Line, Entry, Usage

\* Files that grow stay so when one is glued to the other.
LEMMA GlueGrowing ==
    ASSUME NEW f \in Seq(Entry), NEW n \in Seq(Entry), Growing(f), Growing(n), NEW k \in Nat,
           \A i \in 1..Len(f) : f[i].hash <= k,
           \A i \in 1..Len(n) : n[i].hash <= k,
           \A i \in 1..Len(f), j \in 1..Len(n) : f[i].hash < n[j].hash
    PROVE  /\ Growing(Glue(f, n))
           /\ \A i \in 1..Len(Glue(f, n)) : Glue(f, n)[i].hash <= k
<1> DEFINE g == Glue(f, n)
<1>1. g \in Seq(Entry) /\ Len(g) = Len(f) + Len(n)
  BY GlueFacts
<1>2. \A i \in 1..Len(f) : g[i].hash = f[i].hash
  BY GlueFacts DEF Alike
<1>3. \A i \in 1..Len(n) : g[Len(f) + i].hash = n[i].hash
  BY GlueFacts DEF Alike
<1> HIDE DEF g
<1>4. Len(f) \in Nat /\ Len(n) \in Nat /\ DOMAIN f = 1..Len(f) /\ DOMAIN n = 1..Len(n)
  OBVIOUS
<1>5. ASSUME NEW i \in 1..Len(g)
      PROVE  \/ i \in 1..Len(f) /\ g[i].hash = f[i].hash
             \/ \E j \in 1..Len(n) : i = Len(f) + j /\ g[i].hash = n[j].hash
  <2>1. CASE i <= Len(f)
    BY <1>2, <1>4, <2>1
  <2>2. CASE i > Len(f)
    <3>1. i - Len(f) \in 1..Len(n) /\ i = Len(f) + (i - Len(f))
      BY <1>1, <1>4, <2>2
    <3>2. QED
      BY <1>3, <3>1
  <2>3. QED
    BY <1>4, <2>1, <2>2
<1>6. ASSUME NEW i \in 1..Len(g), NEW j \in 1..Len(g), i < j
      PROVE  g[i].hash < g[j].hash
  <2>1. CASE j \in 1..Len(f)
    <3>1. i \in 1..Len(f)
      BY <1>4, <1>6, <2>1
    <3>2. QED
      BY <1>2, <1>4, <1>6, <2>1, <3>1 DEF Growing
  <2>2. CASE j \notin 1..Len(f)
    <3>1. PICK y \in 1..Len(n) : j = Len(f) + y /\ g[j].hash = n[y].hash
      BY <1>5, <2>2
    <3>2. CASE i \in 1..Len(f)
      BY <1>2, <3>1, <3>2
    <3>3. CASE i \notin 1..Len(f)
      <4>1. PICK x \in 1..Len(n) : i = Len(f) + x /\ g[i].hash = n[x].hash
        BY <1>5, <3>3
      <4>2. x < y
        BY <1>4, <1>6, <3>1, <4>1
      <4>3. QED
        BY <1>4, <3>1, <4>1, <4>2 DEF Growing
    <3>4. QED
      BY <3>2, <3>3
  <2>3. QED
    BY <2>1, <2>2
<1>7. Growing(g)
  BY <1>1, <1>6 DEF Growing
<1>8. \A i \in 1..Len(g) : g[i].hash <= k
  BY <1>5
<1>9. QED
  BY <1>7, <1>8 DEF g

\* Requests that were counted are counted in every longer file, and a new one
\* counts for one more.
LEMMA RequestsCounted ==
    ASSUME NEW f \in Seq(Entry), NEW g \in Seq(Entry), NEW n \in 0..Len(f), NEW m \in n..Len(g),
           \A i \in 1..n : Alike(g[i], f[i])
    PROVE  /\ Cardinality(Requested(f, n)) \in Nat /\ Cardinality(Requested(g, m)) \in Nat
           /\ Cardinality(Requested(f, n)) <= Cardinality(Requested(g, m))
           /\ n < m /\ g[m].event = "requested"
                => Cardinality(Requested(f, n)) + 1 <= Cardinality(Requested(g, m))
<1> DEFINE F == Requested(f, n)
           G == Requested(g, m)
<1>1. IsFiniteSet(1..m) /\ IsFiniteSet(1..n)
  BY FS_Interval
<1>2. F \subseteq 1..n /\ G \subseteq 1..m
  BY DEF Requested
<1>3. IsFiniteSet(F) /\ IsFiniteSet(G)
  BY <1>1, <1>2, FS_Subset
<1>4. F \subseteq G
  BY DEF Requested, Alike
<1>5. Cardinality(F) \in Nat /\ Cardinality(G) \in Nat
  BY <1>3, FS_CardinalityType
<1>6. Cardinality(F) <= Cardinality(G)
  BY <1>3, <1>4, FS_Subset
<1>7. ASSUME n < m, g[m].event = "requested"
      PROVE  Cardinality(F) + 1 <= Cardinality(G)
  <2>1. m \in G /\ m \notin F
    BY <1>2, <1>7 DEF Requested
  <2>2. F \cup {m} \subseteq G
    BY <1>4, <2>1
  <2>3. Cardinality(F \cup {m}) = Cardinality(F) + 1
    BY <1>3, <2>1, FS_AddElement
  <2>4. Cardinality(F \cup {m}) <= Cardinality(G)
    BY <1>3, <2>2, FS_Subset
  <2>5. QED
    BY <2>3, <2>4
<1>8. QED
  BY <1>5, <1>6, <1>7

-----------------------------------------------------------------------------
(* AuditChain.                                                             *)

\* The file after an append whose bytes have reached it.
LEMMA AppendedFile ==
    ASSUME TypeOK, HashesOK, NEW e \in Events
    PROVE  LET f == Glue(lines, Append(buffer, Line(e))) IN
           /\ f \in Seq(Entry)
           /\ Len(f) = Len(lines) + Len(buffer) + 1
           /\ \A i \in 1..Len(lines) : Alike(f[i], lines[i])
           /\ Alike(f[Len(f)], Line(e))
           /\ Growing(f)
           /\ \A i \in 1..Len(f) : f[i].hash <= used.records + 1
           /\ \A i \in 1..Len(lines) : lines[i].end # "open" => f[i] = lines[i]
           /\ \/ f[Len(f)].end = "whole"
              \/ /\ Len(f) - 1 \in 1..Len(lines) /\ lines[Len(f) - 1].end = "open"
                 /\ f[Len(f) - 1].end = "torn" /\ f[Len(f)].end = "torn"
<1> DEFINE n == Append(buffer, Line(e))
           f == Glue(lines, n)
<1>1. Line(e) \in Entry /\ Line(e).hash = used.records + 1
  BY LineType
<1>2. lines \in Seq(Entry) /\ buffer \in Seq(Entry) /\ used.records \in Nat
  BY DEF TypeOK, Usage
<1>3. /\ n \in Seq(Entry) /\ Len(n) = Len(buffer) + 1 /\ n[Len(n)] = Line(e)
      /\ \A i \in 1..Len(buffer) : n[i] = buffer[i]
  BY <1>1, <1>2
<1>4. \A i \in 1..Len(lines) : lines[i].hash <= used.records /\ lines[i].hash \in Nat
  BY <1>2, HashType DEF HashesOK
<1>5. \A i \in 1..Len(buffer) : buffer[i].hash <= used.records /\ buffer[i].hash \in Nat
  BY <1>2, HashType DEF HashesOK
<1>6. \A i \in 1..Len(lines), j \in 1..Len(buffer) : lines[i].hash < buffer[j].hash
  BY <1>2 DEF HashesOK
<1> HIDE DEF n
<1>7. \A i \in 1..Len(n) : i = Len(n) \/ i \in 1..Len(buffer)
  BY <1>2, <1>3
<1>8. \A i \in 1..Len(n) : n[i].hash <= used.records + 1
  BY <1>1, <1>2, <1>3, <1>5, <1>7
<1>9. \A i \in 1..Len(lines), j \in 1..Len(n) : lines[i].hash < n[j].hash
  BY <1>1, <1>2, <1>3, <1>4, <1>6, <1>7
<1>10. Growing(n)
  <2>1. SUFFICES ASSUME NEW i \in 1..Len(n), NEW j \in 1..Len(n), i < j
                 PROVE  n[i].hash < n[j].hash
    BY <1>3 DEF Growing
  <2>2. i \in 1..Len(buffer)
    BY <1>2, <1>3, <2>1
  <2>3. CASE j = Len(n)
    BY <1>1, <1>2, <1>3, <1>5, <2>2, <2>3
  <2>4. CASE j \in 1..Len(buffer)
    <3>1. buffer[i].hash < buffer[j].hash
      BY <1>2, <2>1, <2>2, <2>4 DEF HashesOK, Growing
    <3>2. QED
      BY <1>3, <2>2, <2>4, <3>1
  <2>5. QED
    BY <1>7, <2>3, <2>4
<1>11. used.records + 1 \in Nat /\ Growing(lines)
  BY <1>2 DEF HashesOK
<1>12. \A i \in 1..Len(lines) : lines[i].hash <= used.records + 1
  BY <1>2, <1>4
<1>13. Growing(f) /\ \A i \in 1..Len(f) : f[i].hash <= used.records + 1
  BY <1>2, <1>3, <1>8, <1>9, <1>10, <1>11, <1>12, GlueGrowing
<1>14. /\ f \in Seq(Entry) /\ Len(f) = Len(lines) + Len(n)
       /\ \A i \in 1..Len(lines) : Alike(f[i], lines[i])
       /\ \A i \in 1..Len(n) : Alike(f[Len(lines) + i], n[i])
       /\ \A i \in 1..Len(lines) : lines[i].end # "open" => f[i] = lines[i]
       /\ n # <<>> =>
            \/ f[Len(lines) + Len(n)] = n[Len(n)]
            \/ /\ Len(n) = 1 /\ lines # <<>> /\ lines[Len(lines)].end = "open"
               /\ f[Len(lines)].end = "torn" /\ f[Len(lines) + 1].end = "torn"
  <2>1. /\ Glue(lines, n) \in Seq(Entry)
        /\ Len(Glue(lines, n)) = Len(lines) + Len(n)
        /\ \A i \in 1..Len(lines) : Alike(Glue(lines, n)[i], lines[i])
        /\ \A i \in 1..Len(n) : Alike(Glue(lines, n)[Len(lines) + i], n[i])
    BY ONLY <1>2, <1>3, GlueFacts
  <2>2. /\ \A i \in 1..Len(lines) : lines[i].end # "open" => Glue(lines, n)[i] = lines[i]
        /\ n # <<>> =>
             \/ Glue(lines, n)[Len(lines) + Len(n)] = n[Len(n)]
             \/ /\ Len(n) = 1 /\ lines # <<>> /\ lines[Len(lines)].end = "open"
                /\ Glue(lines, n)[Len(lines)].end = "torn"
                /\ Glue(lines, n)[Len(lines) + 1].end = "torn"
    BY ONLY <1>2, <1>3, GlueEnds
  <2>3. QED
    BY ONLY <2>1, <2>2
<1> HIDE DEF f
<1>15. Len(n) \in 1..Len(n) /\ Len(f) = Len(lines) + Len(buffer) + 1
  BY <1>2, <1>3, <1>14
<1>16. Alike(f[Len(f)], Line(e))
  BY <1>3, <1>14, <1>15
<1>17. \/ f[Len(f)].end = "whole"
       \/ /\ Len(f) - 1 \in 1..Len(lines) /\ lines[Len(f) - 1].end = "open"
          /\ f[Len(f) - 1].end = "torn" /\ f[Len(f)].end = "torn"
  <2>1. n # <<>> /\ Line(e).end = "whole"
    BY <1>2, <1>3, LineType
  <2>2. CASE f[Len(lines) + Len(n)] = n[Len(n)]
    BY <1>3, <1>14, <2>1, <2>2
  <2>3. CASE /\ Len(n) = 1 /\ lines # <<>> /\ lines[Len(lines)].end = "open"
             /\ f[Len(lines)].end = "torn" /\ f[Len(lines) + 1].end = "torn"
    <3>1. Len(lines) \in 1..Len(lines) /\ Len(f) = Len(lines) + 1 /\ Len(f) - 1 = Len(lines)
      BY <1>2, <1>14, <2>3
    <3>2. QED
      BY <2>3, <3>1
  <2>4. QED
    BY <1>14, <2>1, <2>2, <2>3
<1>18. QED
  BY <1>13, <1>14, <1>15, <1>16, <1>17 DEF f, n

\* A record behind a whole chain whose head is in memory continues it.
LEMMA LinkedAppend ==
    ASSUME TypeOK, NEW e \in Events, Linked(lines), head = Scan(lines)
    PROVE  /\ Linked(Append(lines, Line(e)))
           /\ Scan(Append(lines, Line(e))) = [prev |-> Line(e).hash, seq |-> head.seq + 1]
<1> DEFINE f == Append(lines, Line(e))
           n == Len(lines)
<1>1. Line(e) \in Entry /\ Line(e).end = "whole"
      /\ Line(e).prev = head.prev /\ Line(e).seq = head.seq
  BY LineType
<1>2. lines \in Seq(Entry) /\ n \in Nat /\ DOMAIN lines = 1..n
  BY DEF TypeOK
<1>3. /\ Len(f) = n + 1 /\ DOMAIN f = 1..n + 1 /\ f[n + 1] = Line(e) /\ f # <<>>
      /\ \A i \in 1..n : f[i] = lines[i]
  BY <1>1, <1>2
<1>4. head.seq = n /\ head.prev = IF n = 0 THEN 0 ELSE lines[n].hash
  <2>1. CASE lines = <<>>
    BY <2>1 DEF Scan, Genesis
  <2>2. CASE lines # <<>>
    BY <1>2, <2>2 DEF Scan, Last
  <2>3. QED
    BY <2>1, <2>2
<1> HIDE DEF f
<1>5. ASSUME NEW i \in 1..n + 1
      PROVE  /\ f[i].end # "torn"
             /\ f[i].seq = i - 1
             /\ f[i].prev = IF i = 1 THEN 0 ELSE f[i - 1].hash
  <2>1. CASE i = n + 1
    <3>1. f[i].end = "whole" /\ f[i].seq = n /\ f[i].prev = head.prev
      BY <1>1, <1>3, <1>4, <2>1
    <3>2. n # 0 => f[i - 1] = lines[n]
      BY <1>2, <1>3, <2>1
    <3>3. QED
      BY <1>2, <1>4, <2>1, <3>1, <3>2
  <2>2. CASE i # n + 1
    <3>1. i \in 1..n /\ (i # 1 => i - 1 \in 1..n)
      BY <1>2, <2>2
    <3>2. f[i] = lines[i] /\ (i # 1 => f[i - 1] = lines[i - 1])
      BY <1>3, <3>1
    <3>3. QED
      BY <1>2, <3>1, <3>2 DEF Linked
  <2>3. QED
    BY <2>1, <2>2
<1>6. Linked(f)
  BY <1>3, <1>5 DEF Linked
<1>7. Scan(f) = [prev |-> Line(e).hash, seq |-> head.seq + 1]
  BY <1>3, <1>4 DEF Scan, Last
<1>8. QED
  BY <1>6, <1>7 DEF f

\* A line keeps its place when only lines without their newline change.
LEMMA PlacedKept ==
    ASSUME NEW n \in Nat, NEW j \in 1..n, Placed(lines, acked, j), acked' = acked,
           \A i \in 1..n : lines[i].end # "open" => lines'[i] = lines[i]
    PROVE  Placed(lines', acked', j)
<1>1. lines'[j] = lines[j]
  BY DEF Placed
<1>2. CASE lines[j].end = "whole"
  BY <1>1, <1>2 DEF Placed
<1>3. CASE lines[j].end # "whole"
  <2>1. j - 1 \in 1..n
    BY <1>3 DEF Placed
  <2>2. lines'[j - 1] = lines[j - 1]
    BY <1>3, <2>1 DEF Placed
  <2>3. QED
    BY <1>1, <1>3, <2>2 DEF Placed
<1>4. QED
  BY <1>2, <1>3 DEF Placed

\* What was acknowledged stays in the synced part when the file's first lines stay.
LEMMA KeptAcked ==
    ASSUME CustodyInv, acked' = acked, used'.records \in Nat, used.records <= used'.records,
           lines' \in Seq(Entry), synced' \in Nat, synced <= synced',
           \A i \in 1..synced : Alike(lines'[i], lines[i]),
           \A i \in 1..synced : lines[i].end # "open" => lines'[i] = lines[i]
    PROVE  AckedSynced'
<1>1. synced \in Nat /\ acked \in Seq(Nat) /\ used.records \in Nat /\ DOMAIN acked = 1..Len(acked)
  BY DEF CustodyInv, TypeOK, Usage
<1>2. \A i \in DOMAIN acked : acked[i] \in Nat /\ acked[i] <= used.records
  BY <1>1 DEF CustodyInv, AckedSynced
<1>3. ASSUME NEW i \in DOMAIN acked
      PROVE  \E j \in 1..synced' : lines'[j].hash = acked[i] /\ Placed(lines', acked', j)
  <2>1. PICK j \in 1..synced : lines[j].hash = acked[i] /\ Placed(lines, acked, j)
    BY DEF CustodyInv, AckedSynced
  <2>2. lines'[j].hash = acked[i] /\ j \in 1..synced'
    BY <1>1, <2>1 DEF Alike
  <2>3. Placed(lines', acked', j)
    BY <1>1, <2>1, PlacedKept
  <2>4. QED
    BY <2>2, <2>3
<1>4. \A i \in DOMAIN acked : acked[i] <= used'.records
  BY <1>1, <1>2
<1>5. \A i, j \in DOMAIN acked : i < j => acked[i] < acked[j]
  BY DEF CustodyInv, AckedSynced
<1>6. QED
  BY <1>3, <1>4, <1>5 DEF AckedSynced

\* What an append that returns Ok keeps, and the request it may be.
LEMMA AppendOkKeeps ==
    ASSUME CustodyInv, status = "up", NEW e \in Events, AppendOk(e)
    PROVE  /\ lines' \in Seq(Entry) /\ buffer' \in Seq(Entry) /\ synced' \in 0..Len(lines')
           /\ head' \in [prev : Nat, seq : Nat] /\ acked' \in Seq(Nat) /\ broken' \in BOOLEAN
           /\ used' \in Usage
           /\ HashesOK' /\ AckedSynced'
           /\ UnbrokenOK'
           /\ Cardinality(Requested(lines, synced)) \in Nat
           /\ Cardinality(Requested(lines', synced')) \in Nat
           /\ Cardinality(Requested(lines, synced)) + (IF e = "requested" THEN 1 ELSE 0)
                <= Cardinality(Requested(lines', synced'))
<1> DEFINE f == Glue(lines, Append(buffer, Line(e)))
<1>1. /\ lines \in Seq(Entry) /\ buffer \in Seq(Entry) /\ synced \in 0..Len(lines)
      /\ used \in Usage
      /\ acked \in Seq(Nat) /\ head \in [prev : Nat, seq : Nat] /\ TypeOK /\ HashesOK
  BY DEF CustodyInv, TypeOK
<1>2. Line(e) \in Entry /\ Line(e).event = e /\ Line(e).hash = used.records + 1
  BY <1>1, LineType
<1>3. /\ f \in Seq(Entry) /\ Len(f) = Len(lines) + Len(buffer) + 1
      /\ \A i \in 1..Len(lines) : Alike(f[i], lines[i])
      /\ Alike(f[Len(f)], Line(e))
      /\ Growing(f)
      /\ \A i \in 1..Len(f) : f[i].hash <= used.records + 1
      /\ \A i \in 1..Len(lines) : lines[i].end # "open" => f[i] = lines[i]
      /\ \/ f[Len(f)].end = "whole"
         \/ /\ Len(f) - 1 \in 1..Len(lines) /\ lines[Len(f) - 1].end = "open"
            /\ f[Len(f) - 1].end = "torn" /\ f[Len(f)].end = "torn"
  BY <1>1, AppendedFile
<1>4. /\ lines' = f /\ buffer' = <<>> /\ synced' = Len(f)
      /\ head' = [prev |-> Line(e).hash, seq |-> head.seq + 1]
      /\ acked' = Append(acked, Line(e).hash) /\ broken' = broken
      /\ used' = [used EXCEPT !.records = @ + 1]
  BY DEF AppendOk, Spend
<1> HIDE DEF f
<1>5. used' \in Usage /\ used'.records = used.records + 1 /\ used.records \in Nat
  BY <1>1, <1>4, UsageType
<1>6. Len(lines) \in Nat /\ Len(buffer) \in Nat /\ synced \in Nat /\ synced <= Len(lines)
      /\ Len(f) \in Nat /\ synced < Len(f)
  <2>1. Len(lines) \in Nat /\ Len(buffer) \in Nat /\ Len(f) \in Nat
    BY <1>1, <1>3
  <2>2. QED
    BY <1>1, <1>3, <2>1
<1>7. HashesOK'
  <2>1. DOMAIN buffer' = {} /\ DOMAIN lines' = 1..Len(f)
    BY <1>3, <1>4
  <2>2. Growing(lines')
    BY <1>3, <1>4 DEF Growing
  <2>3. Growing(buffer')
    BY <2>1 DEF Growing
  <2>4. \A i \in 1..Len(f) : lines'[i].hash <= used'.records
    BY <1>3, <1>4, <1>5
  <2>5. QED
    BY <2>1, <2>2, <2>3, <2>4 DEF HashesOK, Growing
<1>8. AckedSynced'
  <2> DEFINE n == Len(acked)
  <2>1. /\ Len(acked') = n + 1 /\ n \in Nat /\ acked'[n + 1] = used.records + 1
        /\ DOMAIN acked' = 1..n + 1 /\ DOMAIN acked = 1..n
        /\ \A i \in 1..n : acked'[i] = acked[i] /\ acked[i] \in Nat
    <3>1. acked' = Append(acked, used.records + 1) /\ used.records + 1 \in Nat
      BY <1>2, <1>4, <1>5
    <3>2. QED
      BY <1>1, <3>1
  <2>2. \A i \in 1..n + 1 : i = n + 1 \/ i \in 1..n
    BY <2>1
  <2>3. \A i \in 1..n : acked[i] <= used.records
    BY <2>1 DEF CustodyInv, AckedSynced
  <2>4. ASSUME NEW i \in 1..n + 1, NEW j \in 1..n + 1, i < j PROVE acked'[i] < acked'[j]
    <3>1. i \in 1..n
      BY <2>1, <2>4
    <3>2. CASE j = n + 1
      BY <1>5, <2>1, <2>3, <3>1, <3>2
    <3>3. CASE j \in 1..n
      <4>1. acked[i] < acked[j]
        BY <2>1, <2>4, <3>1, <3>3 DEF CustodyInv, AckedSynced
      <4>2. QED
        BY <2>1, <3>1, <3>3, <4>1
    <3>4. QED
      BY <2>2, <3>2, <3>3
  <2>5. \A i \in 1..n + 1 : acked'[i] <= used'.records
    BY <1>5, <2>1, <2>2, <2>3
  <2>6. ASSUME NEW i \in 1..n + 1
        PROVE  \E j \in 1..synced' : lines'[j].hash = acked'[i] /\ Placed(lines', acked', j)
    <3>1. CASE i = n + 1
      <4>1. f[Len(f)].hash = used.records + 1 /\ Len(f) \in 1..Len(f)
        BY <1>2, <1>3, <1>6 DEF Alike
      <4>2. Placed(lines', acked', Len(f))
        <5>1. CASE f[Len(f)].end = "whole"
          BY <1>4, <5>1 DEF Placed
        <5>2. CASE /\ Len(f) - 1 \in 1..Len(lines) /\ lines[Len(f) - 1].end = "open"
                   /\ f[Len(f) - 1].end = "torn" /\ f[Len(f)].end = "torn"
          <6> DEFINE m == Len(f) - 1
          <6>1. /\ m \in 1..Len(lines) /\ Len(f) > 1
                /\ f[m].hash = lines[m].hash /\ lines[m].hash \in Nat
                /\ lines[m].hash <= used.records
            BY <1>1, <1>3, <1>6, <5>2, HashType DEF Alike, HashesOK
          <6>2. ASSUME NEW k \in 1..n, acked[k] = lines[m].hash PROVE FALSE
            <7>1. PICK j \in 1..synced : lines[j].hash = acked[k] /\ Placed(lines, acked, j)
              BY <2>1 DEF CustodyInv, AckedSynced
            <7>2. j \in 1..Len(lines) /\ j \in Nat /\ m \in Nat
              BY <1>6, <6>1
            <7>3. j = m
              <8>1. /\ j < m => lines[j].hash < lines[m].hash
                    /\ m < j => lines[m].hash < lines[j].hash
                BY <1>1, <6>1, <7>2, HashType DEF HashesOK, Growing
              <8>2. QED
                BY <6>1, <6>2, <7>1, <7>2, <8>1
            <7>4. lines[m].end = "open"
              BY <5>2
            <7>5. QED
              BY <7>1, <7>3, <7>4 DEF Placed
          <6>3. \A k \in DOMAIN acked' : acked'[k] # lines'[m].hash
            <7>1. \A k \in 1..n : acked'[k] # f[m].hash
              BY <2>1, <6>1, <6>2
            <7>2. acked'[n + 1] # f[m].hash
              BY <1>5, <2>1, <6>1
            <7>3. QED
              BY <1>4, <2>1, <2>2, <7>1, <7>2
          <6>4. QED
            BY <1>4, <5>2, <6>1, <6>3 DEF Placed
        <5>3. QED
          BY <1>3, <5>1, <5>2
      <4>3. QED
        BY <1>4, <2>1, <3>1, <4>1, <4>2
    <3>2. CASE i \in 1..n
      <4>1. PICK j \in 1..synced : lines[j].hash = acked[i] /\ Placed(lines, acked, j)
        BY <2>1, <3>2 DEF CustodyInv, AckedSynced
      <4>2. j \in 1..Len(lines) /\ j \in 1..Len(f)
        BY <1>6
      <4>3. f[j].hash = acked[i]
        BY <1>3, <4>1, <4>2 DEF Alike
      <4>4. Placed(lines', acked', j)
        <5>1. lines'[j] = lines[j] /\ j \in 1..Len(lines)
          BY <1>3, <1>4, <4>1, <4>2 DEF Placed
        <5>2. CASE lines[j].end = "whole"
          BY <5>1, <5>2 DEF Placed
        <5>3. CASE lines[j].end # "whole"
          <6>1. /\ j - 1 \in 1..Len(lines) /\ j > 1 /\ lines[j - 1].end = "torn"
                /\ lines[j].end = "torn"
                /\ \A k \in DOMAIN acked : acked[k] # lines[j - 1].hash
            BY <1>6, <4>1, <4>2, <5>3 DEF Placed
          <6>2. lines'[j - 1] = lines[j - 1]
            BY <1>3, <1>4, <6>1
          <6>3. lines[j - 1].hash <= used.records /\ lines[j - 1].hash \in Nat
            BY <1>1, <6>1, HashType DEF HashesOK
          <6>4. \A k \in DOMAIN acked' : acked'[k] # lines'[j - 1].hash
            <7>1. \A k \in 1..n : acked'[k] # lines'[j - 1].hash
              BY <2>1, <6>1, <6>2
            <7>2. acked'[n + 1] # lines'[j - 1].hash
              BY <1>5, <2>1, <6>2, <6>3
            <7>3. QED
              BY <2>1, <2>2, <7>1, <7>2
          <6>5. QED
            BY <5>1, <5>3, <6>1, <6>2, <6>4 DEF Placed
        <5>4. QED
          BY <4>1, <5>2, <5>3 DEF Placed
      <4>5. QED
        BY <1>4, <2>1, <3>2, <4>2, <4>3, <4>4
    <3>3. QED
      BY <2>2, <3>1, <3>2
  <2>7. QED
    BY <2>1, <2>4, <2>5, <2>6 DEF AckedSynced
<1>9. ASSUME ~ broken
      PROVE  /\ buffer' = <<>>
             /\ synced' = Len(lines')
             /\ \A i \in DOMAIN lines' : lines'[i].end = "whole"
             /\ Linked(lines')
             /\ status' = "up" => head' = Scan(lines')
  <2>1. /\ buffer = <<>> /\ Linked(lines)
        /\ \A i \in 1..Len(lines) : lines[i].end = "whole"
        /\ status = "up" => head = Scan(lines)
    BY <1>1, <1>9, HashType DEF CustodyInv, UnbrokenOK
  <2>2. Append(buffer, Line(e)) = <<Line(e)>> /\ <<Line(e)>> \in Seq(Entry)
    BY <1>2, <2>1
  <2>3. f = Append(lines, Line(e))
    <3>1. f = lines \o <<Line(e)>>
      BY <1>1, <2>1, <2>2, GlueFacts DEF f
    <3>2. QED
      BY <1>1, <1>2, <3>1
  <2>4. \A i \in 1..Len(f) : f[i].end = "whole"
    BY <1>1, <1>2, <2>1, <2>3, LineType
  <2>5. Linked(f) /\ Scan(f) = head'
    BY <1>1, <1>4, <2>1, <2>3, LinkedAppend
  <2>6. QED
    BY <1>3, <1>4, <2>4, <2>5
<1>10. UnbrokenOK'
  BY <1>4, <1>9 DEF UnbrokenOK, Linked
<1>11. /\ Cardinality(Requested(lines, synced)) \in Nat
       /\ Cardinality(Requested(lines', synced')) \in Nat
       /\ Cardinality(Requested(lines, synced)) + (IF e = "requested" THEN 1 ELSE 0)
                <= Cardinality(Requested(lines', synced'))
  <2>1. \A i \in 1..synced : Alike(f[i], lines[i])
    BY <1>3, <1>6
  <2>2. f[Len(f)].event = e /\ Len(f) \in synced..Len(f)
    BY <1>2, <1>3, <1>6 DEF Alike
  <2>3. QED
    <3>1. /\ Cardinality(Requested(lines, synced)) \in Nat
          /\ Cardinality(Requested(f, Len(f))) \in Nat
          /\ Cardinality(Requested(lines, synced)) <= Cardinality(Requested(f, Len(f)))
          /\ f[Len(f)].event = "requested" =>
                Cardinality(Requested(lines, synced)) + 1 <= Cardinality(Requested(f, Len(f)))
      BY <1>1, <1>3, <1>6, <2>1, <2>2, RequestsCounted
    <3>2. QED
      BY <1>4, <2>2, <3>1
<1>12. /\ lines' \in Seq(Entry) /\ buffer' \in Seq(Entry) /\ synced' \in 0..Len(lines')
       /\ head' \in [prev : Nat, seq : Nat] /\ acked' \in Seq(Nat) /\ broken' \in BOOLEAN
  <2>1. Line(e).hash \in Nat /\ head.seq + 1 \in Nat
    BY <1>1, <1>2, <1>5
  <2>2. broken' \in BOOLEAN
    BY <1>1, <1>4 DEF TypeOK
  <2>3. acked' \in Seq(Nat)
    BY <1>1, <1>4, <2>1
  <2>4. head' \in [prev : Nat, seq : Nat]
    BY <1>4, <2>1
  <2>5. QED
    BY <1>3, <1>4, <1>6, <2>2, <2>3, <2>4
<1>13. QED
  BY <1>5, <1>7, <1>8, <1>10, <1>11, <1>12

\* What an append that returns Err keeps.
LEMMA AppendErrKeeps ==
    ASSUME CustodyInv, NEW e \in Events, AppendErr(e)
    PROVE  /\ lines' \in Seq(Entry) /\ buffer' \in Seq(Entry) /\ synced' \in 0..Len(lines')
           /\ head' \in [prev : Nat, seq : Nat] /\ acked' \in Seq(Nat) /\ broken' \in BOOLEAN
           /\ used' \in Usage
           /\ HashesOK' /\ AckedSynced' /\ UnbrokenOK'
           /\ Cardinality(Requested(lines, synced)) \in Nat
           /\ Cardinality(Requested(lines', synced')) \in Nat
           /\ Cardinality(Requested(lines, synced)) <= Cardinality(Requested(lines', synced'))
<1> DEFINE f == Glue(lines, Append(buffer, Line(e)))
<1>1. /\ lines \in Seq(Entry) /\ buffer \in Seq(Entry) /\ synced \in 0..Len(lines)
      /\ used \in Usage /\ acked \in Seq(Nat) /\ head \in [prev : Nat, seq : Nat]
      /\ TypeOK /\ HashesOK
  BY DEF CustodyInv, TypeOK
<1>2. Line(e) \in Entry /\ Line(e).hash = used.records + 1
  BY <1>1, LineType
<1>3. /\ f \in Seq(Entry) /\ Len(f) = Len(lines) + Len(buffer) + 1
      /\ \A i \in 1..Len(lines) : Alike(f[i], lines[i])
      /\ Growing(f)
      /\ \A i \in 1..Len(f) : f[i].hash <= used.records + 1
      /\ \A i \in 1..Len(lines) : lines[i].end # "open" => f[i] = lines[i]
  BY <1>1, AppendedFile
<1>4. /\ \/ lines' = lines /\ buffer' = Append(buffer, Line(e))
         \/ lines' = f /\ buffer' = <<>>
      /\ synced' = synced /\ head' = head /\ acked' = acked /\ broken' = TRUE
      /\ used' = [used EXCEPT !.disk = @ + 1, !.records = @ + 1]
  BY DEF AppendErr
<1> HIDE DEF f
<1>5. used' \in Usage /\ used'.records = used.records + 1 /\ used.records \in Nat
  BY <1>1, <1>4, UsageType
<1>6. Len(lines) \in Nat /\ Len(buffer) \in Nat /\ Len(f) \in Nat /\ synced \in Nat
      /\ synced <= Len(lines)
  BY <1>1, <1>3
<1>7. /\ lines' \in Seq(Entry) /\ Len(lines) <= Len(lines')
      /\ \A i \in 1..Len(lines) : Alike(lines'[i], lines[i])
      /\ \A i \in 1..Len(lines) : lines[i].end # "open" => lines'[i] = lines[i]
  BY <1>1, <1>3, <1>4, <1>6 DEF Alike
<1>8. HashesOK'
  <2>1. CASE lines' = f /\ buffer' = <<>>
    <3>1. DOMAIN buffer' = {} /\ DOMAIN lines' = 1..Len(f)
      BY <1>3, <2>1
    <3>2. Growing(lines') /\ Growing(buffer')
      BY <1>3, <2>1, <3>1 DEF Growing
    <3>3. \A i \in 1..Len(f) : lines'[i].hash <= used'.records
      BY <1>3, <1>5, <2>1
    <3>4. QED
      BY <3>1, <3>2, <3>3 DEF HashesOK, Growing
  <2>2. CASE lines' = lines /\ buffer' = Append(buffer, Line(e))
    <3> DEFINE n == Len(buffer)
    <3>1. /\ DOMAIN lines = 1..Len(lines) /\ DOMAIN buffer = 1..n /\ DOMAIN buffer' = 1..n + 1
          /\ \A i \in 1..n : buffer'[i] = buffer[i]
          /\ buffer'[n + 1] = Line(e)
      BY <1>1, <1>2, <2>2
    <3>2. /\ \A i \in 1..Len(lines) : lines[i].hash \in Nat /\ lines[i].hash <= used.records
          /\ \A i \in 1..n : buffer[i].hash \in Nat /\ buffer[i].hash <= used.records
      BY <1>1, HashType DEF HashesOK
    <3>3. \A i \in 1..n + 1 : i = n + 1 \/ i \in 1..n
      BY <1>6
    <3>4. ASSUME NEW i \in 1..n + 1, NEW j \in 1..n + 1, i < j
          PROVE  buffer'[i].hash < buffer'[j].hash
      <4>1. i \in 1..n
        BY <1>6, <3>4
      <4>2. CASE j = n + 1
        BY <1>2, <1>5, <3>1, <3>2, <4>1, <4>2
      <4>3. CASE j \in 1..n
        <5>1. buffer[i].hash < buffer[j].hash
          BY <1>1, <3>1, <3>4, <4>1, <4>3 DEF HashesOK, Growing
        <5>2. QED
          BY <3>1, <4>1, <4>3, <5>1
      <4>4. QED
        BY <3>3, <4>2, <4>3
    <3>5. \A i \in 1..n + 1 : buffer'[i].hash <= used'.records
      BY <1>2, <1>5, <3>1, <3>2, <3>3
    <3>6. \A i \in 1..Len(lines) : lines'[i].hash <= used'.records
      BY <1>5, <2>2, <3>2
    <3>7. \A i \in 1..Len(lines), j \in 1..n + 1 : lines'[i].hash < buffer'[j].hash
      <4>1. \A i \in 1..Len(lines), j \in 1..n : lines[i].hash < buffer[j].hash
        BY <1>1, <3>1 DEF HashesOK
      <4>2. \A i \in 1..Len(lines) : lines[i].hash < buffer'[n + 1].hash
        BY <1>2, <1>5, <3>1, <3>2
      <4>3. QED
        BY <2>2, <3>1, <3>3, <4>1, <4>2
    <3>8. Growing(lines)
      BY <1>1 DEF HashesOK
    <3>9. QED
      BY <2>2, <3>1, <3>4, <3>5, <3>6, <3>7, <3>8 DEF HashesOK, Growing
  <2>3. QED
    BY <1>4, <2>1, <2>2
<1>9. AckedSynced'
  BY <1>1, <1>4, <1>5, <1>6, <1>7, KeptAcked
<1>10. UnbrokenOK'
  BY <1>4 DEF UnbrokenOK
<1>11. /\ Cardinality(Requested(lines, synced)) \in Nat
       /\ Cardinality(Requested(lines', synced')) \in Nat
       /\ Cardinality(Requested(lines, synced)) <= Cardinality(Requested(lines', synced'))
  <2>1. synced \in synced..Len(lines') /\ \A i \in 1..synced : Alike(lines'[i], lines[i])
    BY <1>6, <1>7
  <2>2. QED
    BY <1>1, <1>4, <1>7, <2>1, RequestsCounted
<1>12. buffer' \in Seq(Entry) /\ synced' \in 0..Len(lines')
  <2>1. Append(buffer, Line(e)) \in Seq(Entry) /\ <<>> \in Seq(Entry)
    BY <1>1, <1>2
  <2>2. Len(lines') \in Nat
    BY <1>7
  <2>3. QED
    <3>1. buffer' \in Seq(Entry)
      BY <1>4, <2>1
    <3>2. synced' \in 0..Len(lines')
      BY <1>4, <1>6, <1>7, <2>2
    <3>3. QED
      BY <3>1, <3>2
<1>13. QED
  BY <1>1, <1>4, <1>5, <1>7, <1>8, <1>9, <1>10, <1>11, <1>12

-----------------------------------------------------------------------------
(* Crashes.                                                                *)

\* A file cut after n lines, or within the line after them.
Cut(file, n, r) ==
    \/ r = SubSeq(file, 1, n)
    \/ /\ n < Len(file)
       /\ \E end \in {"open", "torn"} :
            r = Append(SubSeq(file, 1, n), [file[n + 1] EXCEPT !.end = end])

\* A cut keeps a first part of the file; one within a line leaves a mark.
LEMMA CutFacts ==
    ASSUME NEW f \in Seq(Entry), NEW n \in 0..Len(f), NEW r, Cut(f, n, r)
    PROVE  /\ r \in Seq(Entry)
           /\ Len(r) \in n..Len(f)
           /\ \A i \in 1..Len(r) : Alike(r[i], f[i])
           /\ \A i \in 1..n : r[i] = f[i]
           /\ \/ r = SubSeq(f, 1, n)
              \/ \E i \in 1..Len(r) : r[i].end # "whole"
<1> DEFINE p == SubSeq(f, 1, n)
<1>1. p \in Seq(Entry) /\ Len(p) = n /\ \A i \in 1..n : p[i] = f[i]
  BY PrefixFacts
<1>2. CASE r = p
  BY <1>1, <1>2 DEF Alike
<1>3. ASSUME n < Len(f), NEW end \in {"open", "torn"},
             r = Append(p, [f[n + 1] EXCEPT !.end = end])
      PROVE  /\ r \in Seq(Entry)
             /\ Len(r) = n + 1
             /\ \A i \in 1..n + 1 : Alike(r[i], f[i])
             /\ \A i \in 1..n : r[i] = f[i]
             /\ r[n + 1].end # "whole"
  <2> DEFINE x == [f[n + 1] EXCEPT !.end = end]
  <2>1. n + 1 \in 1..Len(f) /\ f[n + 1] \in Entry
    BY <1>3
  <2>2. x \in Entry /\ Alike(x, f[n + 1]) /\ x.end = end
    BY <2>1, TornEntry
  <2> HIDE DEF x, p
  <2>3. r \in Seq(Entry) /\ Len(r) = n + 1 /\ r[n + 1] = x /\ \A i \in 1..n : r[i] = p[i]
    BY <1>1, <1>3, <2>2 DEF x
  <2>4. \A i \in 1..n + 1 : i = n + 1 \/ i \in 1..n
    OBVIOUS
  <2>5. \A i \in 1..n + 1 : Alike(r[i], f[i])
    BY <1>1, <2>2, <2>3, <2>4 DEF Alike
  <2>6. \A i \in 1..n : r[i] = f[i]
    BY <1>1, <2>3
  <2>7. QED
    BY <2>2, <2>3, <2>5, <2>6
<1>4. QED
  <2>1. CASE n < Len(f) /\ \E end \in {"open", "torn"} :
                r = Append(p, [f[n + 1] EXCEPT !.end = end])
    <3>1. /\ r \in Seq(Entry) /\ Len(r) = n + 1
          /\ \A i \in 1..n + 1 : Alike(r[i], f[i])
          /\ \A i \in 1..n : r[i] = f[i]
          /\ r[n + 1].end # "whole"
      BY <1>3, <2>1
    <3>2. n + 1 \in 1..n + 1 /\ n + 1 \in n..Len(f)
      BY <2>1
    <3>3. \E i \in 1..Len(r) : r[i].end # "whole"
      BY ONLY <3>1, <3>2
    <3>4. QED
      BY ONLY <3>1, <3>2, <3>3
  <2>2. QED
    BY <1>1, <1>2, <2>1 DEF Cut, Alike

\* The first lines of a chain are a chain.
LEMMA LinkedPrefix ==
    ASSUME NEW f \in Seq(Entry), Linked(f), NEW n \in 0..Len(f)
    PROVE  Linked(SubSeq(f, 1, n))
<1> DEFINE p == SubSeq(f, 1, n)
<1>1. p \in Seq(Entry) /\ Len(p) = n /\ \A i \in 1..n : p[i] = f[i]
  BY PrefixFacts
<1>2. DOMAIN p = 1..n /\ DOMAIN f = 1..Len(f)
  BY <1>1
<1> HIDE DEF p
<1>3. ASSUME NEW i \in 1..n
      PROVE  /\ p[i].end # "torn"
             /\ p[i].seq = i - 1
             /\ p[i].prev = IF i = 1 THEN 0 ELSE p[i - 1].hash
  <2>1. i \in 1..Len(f) /\ (i # 1 => i - 1 \in 1..n)
    OBVIOUS
  <2>2. p[i] = f[i] /\ (i # 1 => p[i - 1] = f[i - 1])
    BY <1>1, <2>1
  <2>3. QED
    BY <1>2, <2>1, <2>2 DEF Linked
<1>4. Linked(p)
  BY <1>2, <1>3 DEF Linked
<1>5. QED
  BY <1>4 DEF p

\* What a crash leaves: at least the synced lines, in order and not renumbered,
\* and a whole chain if nothing was broken before and nothing is torn now.
LEMMA RemainsFacts ==
    ASSUME CustodyInv, status = "up", NEW r \in Remains
    PROVE  /\ r \in Seq(Entry)
           /\ synced <= Len(r)
           /\ \A i \in 1..synced : Alike(r[i], lines[i])
           /\ \A i \in 1..synced : lines[i].end # "open" => r[i] = lines[i]
           /\ Growing(r)
           /\ \A i \in 1..Len(r) : r[i].hash <= used.records + 1
           /\ ~ broken /\ (\A i \in 1..Len(r) : r[i].end = "whole") => Linked(r)
<1>1. /\ lines \in Seq(Entry) /\ buffer \in Seq(Entry) /\ synced \in 0..Len(lines)
      /\ used.records \in Nat /\ TypeOK /\ HashesOK /\ pc \in {"idle", "rotate", "record"}
  BY DEF CustodyInv, TypeOK, Usage
<1> DEFINE F(b) == Glue(lines, buffer \o b)
<1>2. PICK b, n : /\ b = <<>> \/ \E e \in Events : b = <<Line(e)>>
                  /\ n \in synced..Len(F(b))
                  /\ Cut(F(b), n, r)
  <2>1. ASSUME NEW file, NEW n \in Int,
               r \in {SubSeq(file, 1, n)} \cup
                     {Append(SubSeq(file, 1, n), [file[n + 1] EXCEPT !.end = end]) :
                        end \in IF n = Len(file) THEN {} ELSE {"open", "torn"}},
               n <= Len(file), Len(file) \in Nat
        PROVE  Cut(file, n, r)
    <3>1. CASE r = SubSeq(file, 1, n)
      BY <3>1 DEF Cut
    <3>2. CASE r # SubSeq(file, 1, n)
      <4>1. PICK end \in IF n = Len(file) THEN {} ELSE {"open", "torn"} :
                r = Append(SubSeq(file, 1, n), [file[n + 1] EXCEPT !.end = end])
        BY <2>1, <3>2
      <4>2. n # Len(file) /\ end \in {"open", "torn"}
        BY <4>1
      <4>3. n < Len(file)
        BY <2>1, <4>2
      <4>4. QED
        BY <4>1, <4>2, <4>3 DEF Cut
    <3>3. QED
      BY <3>1, <3>2
  <2> DEFINE being == CASE pc = "idle" -> {<<>>, <<Line("other")>>, <<Line("requested")>>}
                        [] pc = "rotate" -> {<<>>}
                        [] pc = "record" -> {<<>>, <<Line("rotated")>>}
             upTo(file, n) ==
                {SubSeq(file, 1, n)} \cup
                {Append(SubSeq(file, 1, n), [file[n + 1] EXCEPT !.end = end]) :
                    end \in IF n = Len(file) THEN {} ELSE {"open", "torn"}}
  <2>2. Remains = UNION {UNION {upTo(F(b), n) : n \in synced..Len(F(b))} : b \in being}
    BY DEF Remains
  <2>3. PICK b \in being : r \in UNION {upTo(F(b), n) : n \in synced..Len(F(b))}
    BY <2>2
  <2>4. PICK n \in synced..Len(F(b)) : r \in upTo(F(b), n)
    BY <2>3
  <2>5. b = <<>> \/ \E e \in Events : b = <<Line(e)>>
    BY <1>1 DEF Events
  <2>6. F(b) \in Seq(Entry)
    <3>1. \A e \in Events : Line(e) \in Entry
      BY <1>1, LineType
    <3>2. b \in Seq(Entry)
      <4>1. \A x \in Entry : <<x>> \in Seq(Entry)
        OBVIOUS
      <4>2. <<>> \in Seq(Entry)
        OBVIOUS
      <4>3. QED
        BY <2>5, <3>1, <4>1, <4>2
    <3>3. buffer \o b \in Seq(Entry)
      BY <1>1, <3>2
    <3>4. QED
      BY <1>1, <3>3, GlueFacts
  <2>7. Len(F(b)) \in Nat /\ n \in Int /\ n <= Len(F(b))
    BY <1>1, <2>6
  <2> HIDE DEF F
  <2>8. QED
    BY <2>1, <2>4, <2>5, <2>7
<1> DEFINE w == buffer \o b
           f == Glue(lines, w)
<1>3. \A e \in Events : Line(e) \in Entry
  BY <1>1, LineType
<1>4. w \in Seq(Entry)
  <2>1. b \in Seq(Entry)
    <3>1. \A x \in Entry : <<x>> \in Seq(Entry)
      OBVIOUS
    <3>2. <<>> \in Seq(Entry)
      OBVIOUS
    <3>3. QED
      BY <1>2, <1>3, <3>1, <3>2
  <2>2. QED
    BY <1>1, <2>1
<1>5. /\ f \in Seq(Entry)
      /\ Len(f) = Len(lines) + Len(w)
      /\ \A i \in 1..Len(lines) : Alike(f[i], lines[i])
      /\ \A i \in 1..Len(lines) : lines[i].end # "open" => f[i] = lines[i]
  <2>1. /\ f \in Seq(Entry)
        /\ Len(f) = Len(lines) + Len(w)
        /\ \A i \in 1..Len(lines) : Alike(f[i], lines[i])
    BY <1>1, <1>4, GlueFacts
  <2>2. \A i \in 1..Len(lines) : lines[i].end # "open" => f[i] = lines[i]
    BY <1>1, <1>4, GlueEnds
  <2>3. QED
    BY <2>1, <2>2
<1>6. Growing(f) /\ \A i \in 1..Len(f) : f[i].hash <= used.records + 1
  <2>1. CASE b = <<>>
    <3>1. w = buffer
      BY <1>1, <2>1
    <3>2. /\ DOMAIN lines = 1..Len(lines) /\ DOMAIN buffer = 1..Len(buffer)
          /\ \A i \in 1..Len(lines) : lines[i].hash \in Nat
          /\ \A i \in 1..Len(buffer) : buffer[i].hash \in Nat
      BY <1>1, HashType
    <3>3. /\ \A i \in 1..Len(lines) : lines[i].hash <= used.records + 1
          /\ \A i \in 1..Len(buffer) : buffer[i].hash <= used.records + 1
          /\ \A i \in 1..Len(lines), j \in 1..Len(buffer) : lines[i].hash < buffer[j].hash
          /\ Growing(lines) /\ Growing(buffer) /\ used.records + 1 \in Nat
      <4>1. /\ \A i \in 1..Len(lines) : lines[i].hash <= used.records
            /\ \A i \in 1..Len(buffer) : buffer[i].hash <= used.records
            /\ \A i \in 1..Len(lines), j \in 1..Len(buffer) : lines[i].hash < buffer[j].hash
            /\ Growing(lines) /\ Growing(buffer) /\ used.records \in Nat
        BY <1>1, <3>2 DEF HashesOK
      <4>2. QED
        BY <3>2, <4>1
    <3>4. QED
      BY <1>1, <3>1, <3>3, GlueGrowing
  <2>2. ASSUME NEW e \in Events, b = <<Line(e)>>
        PROVE  Growing(f) /\ \A i \in 1..Len(f) : f[i].hash <= used.records + 1
    <3>1. w = Append(buffer, Line(e))
      BY <1>1, <1>3, <2>2
    <3>2. QED
      BY <1>1, <3>1, AppendedFile
  <2>3. QED
    BY <1>2, <2>1, <2>2
<1>7. n \in synced..Len(f) /\ Cut(f, n, r)
  BY <1>2
<1> HIDE DEF f, w, F
<1>8. synced \in Nat /\ Len(lines) \in Nat /\ Len(f) \in Nat /\ n \in 0..Len(f) /\ synced <= n
      /\ synced <= Len(lines)
  BY <1>1, <1>5, <1>7
<1>9. /\ r \in Seq(Entry)
      /\ Len(r) \in n..Len(f)
      /\ \A i \in 1..Len(r) : Alike(r[i], f[i])
      /\ \A i \in 1..n : r[i] = f[i]
      /\ r = SubSeq(f, 1, n) \/ \E i \in 1..Len(r) : r[i].end # "whole"
  BY ONLY <1>5, <1>7, <1>8, CutFacts, SMTT(30)
<1>10. synced <= Len(r)
  BY <1>8, <1>9
<1>11. \A i \in 1..Len(r) : i \in 1..Len(f) /\ r[i].hash = f[i].hash
  BY <1>8, <1>9 DEF Alike
<1>12. Growing(r) /\ \A i \in 1..Len(r) : r[i].hash <= used.records + 1
  <2>1. DOMAIN r = 1..Len(r) /\ DOMAIN f = 1..Len(f)
    BY <1>5, <1>9
  <2>2. QED
    BY <1>6, <1>11, <2>1 DEF Growing
<1>13. \A i \in 1..synced : Alike(r[i], lines[i])
  <2>1. \A i \in 1..synced : i \in 1..Len(lines) /\ i \in 1..Len(r)
    BY <1>8, <1>9
  <2>2. QED
    BY <1>5, <1>9, <2>1 DEF Alike
<1>14. ASSUME ~ broken, \A i \in 1..Len(r) : r[i].end = "whole"
       PROVE  Linked(r)
  <2>1. r = SubSeq(f, 1, n)
    BY <1>9, <1>14
  <2>2. /\ buffer = <<>> /\ Linked(lines) /\ head = Scan(lines)
        /\ \A i \in 1..Len(lines) : lines[i].end = "whole"
    BY <1>1, <1>14, HashType DEF CustodyInv, UnbrokenOK
  <2>3. f = lines \o b
    <3>1. w = b
      BY <1>2, <1>3, <2>2 DEF w
    <3>2. QED
      BY <1>1, <1>4, <2>2, <3>1, GlueFacts DEF f
  <2>4. Linked(f)
    <3>1. CASE b = <<>>
      BY <1>1, <2>2, <2>3, <3>1
    <3>2. ASSUME NEW e \in Events, b = <<Line(e)>> PROVE Linked(f)
      <4>1. f = Append(lines, Line(e))
        BY <1>1, <1>3, <2>3, <3>2
      <4>2. QED
        BY <1>1, <2>2, <4>1, LinkedAppend
    <3>3. QED
      BY <1>2, <3>1, <3>2
  <2>5. QED
    BY <1>5, <1>8, <2>1, <2>4, LinkedPrefix
<1>15. \A i \in 1..synced : lines[i].end # "open" => r[i] = lines[i]
  <2>1. \A i \in 1..synced : i \in 1..Len(lines) /\ i \in 1..n
    BY <1>8
  <2>2. QED
    BY <1>5, <1>9, <2>1
<1>16. QED
  BY <1>9, <1>10, <1>12, <1>13, <1>14, <1>15

-----------------------------------------------------------------------------
(* Kms.                                                                    *)

\* A rotation adds a key behind the others, so what could be unsealed still can.
LEMMA RotatedFacts ==
    ASSUME TypeOK, LastIsActive(ring)
    PROVE  /\ Rotated \in Rings
           /\ LastIsActive(Rotated)
           /\ Len(Rotated.keys) = Len(ring.keys) + 1
           /\ \A s \in sealed : Unseals(ring, s) => Unseals(Rotated, s)
<1> DEFINE q == ring.keys
           r == Append(q, generated + 1)
<1>1. q \in Seq(Nat) /\ generated + 1 \in Nat /\ Len(q) \in Nat
  BY DEF TypeOK, Rings
<1>2. /\ r \in Seq(Nat) /\ Len(r) = Len(q) + 1 /\ r # <<>> /\ DOMAIN r = 1..Len(q) + 1
      /\ DOMAIN q = 1..Len(q)
      /\ \A i \in 1..Len(q) : r[i] = q[i] /\ i \in 1..Len(q) + 1
  BY <1>1
<1>3. Rotated = [active |-> Len(q) + 1, keys |-> r]
  BY DEF Rotated
<1> HIDE DEF r
<1>4. Rotated \in Rings
  BY <1>1, <1>2, <1>3 DEF Rings
<1>5. LastIsActive(Rotated) /\ Len(Rotated.keys) = Len(ring.keys) + 1
  BY <1>2, <1>3 DEF LastIsActive
<1>6. ASSUME NEW s \in sealed, Unseals(ring, s) PROVE Unseals(Rotated, s)
  BY <1>2, <1>3, <1>6 DEF Unseals
<1>7. QED
  BY <1>4, <1>5, <1>6

\* What the active key seals can be unsealed.
LEMMA SealFacts ==
    ASSUME TypeOK, LastIsActive(ring), NEW w \in ({"frame"} \X Nat) \cup ({"blob"} \X Blobs)
    PROVE  Seal(w) \in Payload /\ Unseals(ring, Seal(w))
<1>1. ring.keys \in Seq(Nat) /\ ring.active \in DOMAIN ring.keys
  BY DEF TypeOK, Rings, LastIsActive
<1>2. ring.active \in Nat /\ ring.keys[ring.active] \in Nat
  BY <1>1
<1>3. Seal(w) = [what |-> w, id |-> ring.active, key |-> ring.keys[ring.active]]
  BY DEF Seal
<1>4. QED
  BY <1>1, <1>2, <1>3 DEF Payload, Unseals

-----------------------------------------------------------------------------
(* The invariant is inductive.                                             *)

\* It holds of a node that has just been provisioned.
LEMMA CustodyInvInit == Init => CustodyInv
<1> SUFFICES ASSUME Init PROVE CustodyInv
  OBVIOUS
<1> USE DEF Init
<1>1. <<1>> \in Seq(Nat) /\ Len(<<1>>) = 1 /\ <<1>> # <<>>
  OBVIOUS
<1>2. FirstRing \in Rings /\ LastIsActive(FirstRing) /\ Len(FirstRing.keys) = 1
  BY <1>1 DEF FirstRing, Rings, LastIsActive
<1>3. TypeOK
  <2>1. lines \in Seq(Entry) /\ buffer \in Seq(Entry) /\ acked \in Seq(Nat)
    OBVIOUS
  <2>2. synced \in 0..Len(lines)
    OBVIOUS
  <2>3. head \in [prev : Nat, seq : Nat] /\ used \in Usage
    BY DEF Genesis, Usage
  <2>4. status \in {"up", "down", "refused"} /\ pc \in {"idle", "rotate", "record"}
        /\ generated \in Nat /\ sealed \subseteq Payload /\ broken \in BOOLEAN
        /\ stranded \in BOOLEAN
    OBVIOUS
  <2>5. ring \in Rings /\ keyring \in Rings
    BY <1>2
  <2> QED
    BY <2>1, <2>2, <2>3, <2>4, <2>5 DEF TypeOK
<1>4. RingsOK
  BY <1>2 DEF RingsOK
<1>5. RequestsOK
  <2>1. Requested(lines, synced) = {}
    BY DEF Requested
  <2>2. Cardinality({}) = 0
    BY FS_EmptySet
  <2>3. Len(ring.keys) = 1 /\ Cardinality(Requested(lines, synced)) = 0
    BY <1>2, <2>1, <2>2
  <2>4. status = "up" /\ pc = "idle"
    OBVIOUS
  <2> HIDE DEF Init
  <2>5. QED
    BY <2>3, <2>4 DEF RequestsOK
<1>6. HashesOK /\ AckedSynced
  BY DEF HashesOK, AckedSynced, Growing
<1>7. UnbrokenOK
  BY DEF UnbrokenOK, Linked, Scan
<1>8. QED
  BY <1>3, <1>4, <1>5, <1>6, <1>7 DEF CustodyInv

\* An append, by whichever step, that leaves the keys and the ring alone.
LEMMA AppendStep ==
    ASSUME CustodyInv, status = "up", UNCHANGED <<status, keys>>, NEW e \in Events,
           pc' \in {"idle", "rotate", "record"},
           \/ AppendOk(e) /\ (pc # "rotate" /\ (pc' = "rotate" => e = "requested"))
           \/ AppendErr(e) /\ pc # "rotate" /\ pc' # "rotate"
    PROVE  CustodyInv'
<1> DEFINE c == Cardinality(Requested(lines, synced))
           d == Cardinality(Requested(lines', synced'))
<1>1. /\ lines' \in Seq(Entry) /\ buffer' \in Seq(Entry) /\ synced' \in 0..Len(lines')
      /\ head' \in [prev : Nat, seq : Nat] /\ acked' \in Seq(Nat) /\ broken' \in BOOLEAN
      /\ used' \in Usage
      /\ HashesOK' /\ AckedSynced' /\ UnbrokenOK'
      /\ c \in Nat /\ d \in Nat /\ c <= d
      /\ pc' = "rotate" => c + 1 <= d
  <2>1. CASE AppendOk(e)
    <3>1. c \in Nat /\ d \in Nat /\ c + (IF e = "requested" THEN 1 ELSE 0) <= d
      BY <2>1, AppendOkKeeps
    <3>2. c <= d /\ (e = "requested" => c + 1 <= d)
      BY <3>1
    <3>3. pc' = "rotate" => e = "requested"
      OBVIOUS
    <3> HIDE DEF c, d
    <3>4. QED
      BY <2>1, <3>1, <3>2, <3>3, AppendOkKeeps
  <2>2. CASE AppendErr(e) /\ pc' # "rotate"
    BY <2>2, AppendErrKeeps
  <2>3. QED
    BY <2>1, <2>2
<1> HIDE DEF c, d
<1>2. TypeOK'
  BY <1>1 DEF CustodyInv, TypeOK, keys
<1>3. RingsOK'
  BY DEF CustodyInv, RingsOK, keys, LastIsActive, Unseals
<1>4. RequestsOK'
  <2>1. Len(ring.keys) - 1 <= c /\ Len(ring.keys) \in Nat
    BY DEF CustodyInv, RequestsOK, TypeOK, Rings, c
  <2>2. ring' = ring /\ keyring' = keyring /\ status' = "up"
    BY DEF keys
  <2>3. QED
    BY <1>1, <2>1, <2>2 DEF RequestsOK, d
<1>5. QED
  BY <1>1, <1>2, <1>3, <1>4 DEF CustodyInv

\* Steps that leave the chain alone.
LEMMA KeyStep ==
    ASSUME CustodyInv, UNCHANGED audit, used'.records = used.records, status' = status
    PROVE  /\ HashesOK' /\ AckedSynced' /\ UnbrokenOK'
           /\ Cardinality(Requested(lines', synced')) = Cardinality(Requested(lines, synced))
<1>1. HashesOK'
  BY DEF CustodyInv, HashesOK, Growing, audit
<1>2. AckedSynced'
  BY DEF CustodyInv, AckedSynced, Placed, audit
<1>3. UnbrokenOK'
  BY DEF CustodyInv, UnbrokenOK, Linked, Scan, audit
<1>4. QED
  BY <1>1, <1>2, <1>3 DEF audit

\* Every step of the keyring and of the chain keeps the invariant.
LEMMA CustodyInvNext == CustodyInv /\ [Next]_vars => CustodyInv'
<1> SUFFICES ASSUME CustodyInv, [Next]_vars PROVE CustodyInv'
  OBVIOUS
<1>0. /\ TypeOK /\ RingsOK /\ RequestsOK
      /\ Len(ring.keys) \in Nat /\ Len(keyring.keys) \in Nat
      /\ Cardinality(Requested(lines, synced)) \in Nat
  <2>1. TypeOK /\ RingsOK /\ RequestsOK /\ ring.keys \in Seq(Nat) /\ keyring.keys \in Seq(Nat)
        /\ lines \in Seq(Entry) /\ synced \in 0..Len(lines)
    BY DEF CustodyInv, TypeOK, Rings
  <2>2. synced \in synced..Len(lines) /\ \A i \in 1..synced : Alike(lines[i], lines[i])
    BY <2>1 DEF Alike
  <2>3. QED
    BY <2>1, <2>2, RequestsCounted
<1>1. ASSUME status = "up", pc = "idle", UNCHANGED <<status, pc, ring, keyring, generated, stranded, audit>>,
             used' \in Usage, used'.records = used.records,
             NEW w \in ({"frame"} \X Nat) \cup ({"blob"} \X Blobs),
             sealed' = sealed \cup {Seal(w)}
      PROVE  CustodyInv'
  <2>1. LastIsActive(ring)
    BY <1>0, <1>1 DEF RingsOK
  <2>2. Seal(w) \in Payload /\ Unseals(ring, Seal(w))
    BY <1>0, <1>1, <2>1, SealFacts
  <2>3. /\ HashesOK' /\ AckedSynced' /\ UnbrokenOK'
        /\ Cardinality(Requested(lines', synced')) = Cardinality(Requested(lines, synced))
    BY <1>1, KeyStep
  <2>4. TypeOK'
    BY <1>0, <1>1, <2>2 DEF TypeOK, audit
  <2>5. RingsOK'
    BY <1>0, <1>1, <2>2 DEF RingsOK, LastIsActive, Unseals
  <2>6. RequestsOK'
    BY <1>0, <1>1, <2>3 DEF RequestsOK
  <2>7. QED
    BY <2>3, <2>4, <2>5, <2>6 DEF CustodyInv
<1>2. CASE WriteSealed
  <2>1. used \in Usage /\ used' = [used EXCEPT !.seals = @ + 1]
    BY <1>0, <1>2 DEF WriteSealed, Spend, TypeOK
  <2>2. used' \in Usage /\ used'.records = used.records /\ used.seals \in Nat
    BY <2>1, UsageType
  <2>3. used.seals + 1 \in Nat
    BY <2>2
  <2>4. QED
    BY <1>1, <1>2, <2>2, <2>3 DEF WriteSealed
<1>3. ASSUME NEW b \in Blobs, PutBlob(b) PROVE CustodyInv'
  <2>1. used' = used /\ used \in Usage
    BY <1>0, <1>3 DEF PutBlob, TypeOK
  <2>2. QED
    BY <1>1, <1>3, <2>1 DEF PutBlob
<1>4. CASE AuditEvent
  BY <1>4, AppendStep DEF AuditEvent, Events
<1>5. CASE RequestRotation
  BY <1>5, AppendStep DEF RequestRotation, Events
<1>6. CASE RecordRotation
  BY <1>6, AppendStep DEF RecordRotation, Events
<1>7. CASE Rotate
  <2>1. LastIsActive(ring) /\ Len(keyring.keys) <= Len(ring.keys) /\ status = "up" /\ pc = "rotate"
    BY <1>0, <1>7 DEF RingsOK, Rotate
  <2>2. /\ Rotated \in Rings /\ LastIsActive(Rotated)
        /\ Len(Rotated.keys) = Len(ring.keys) + 1
        /\ \A s \in sealed : Unseals(ring, s) => Unseals(Rotated, s)
    BY <1>0, <2>1, RotatedFacts
  <2>3. /\ status' = status /\ ring' = Rotated /\ sealed' = sealed /\ stranded' = stranded
        /\ UNCHANGED audit /\ generated' = generated + 1
        /\ keyring' \in {keyring, Rotated} /\ pc' \in {"idle", "record"}
        /\ used' = used \/ used' = [used EXCEPT !.disk = @ + 1]
    BY <1>7 DEF Rotate, Spend
  <2>4. used \in Usage
    BY <1>0 DEF TypeOK
  <2>5. used' \in Usage /\ used'.records = used.records
    BY <2>3, <2>4, UsageType
  <2>6. /\ HashesOK' /\ AckedSynced' /\ UnbrokenOK'
        /\ Cardinality(Requested(lines', synced')) = Cardinality(Requested(lines, synced))
    BY <2>3, <2>5, KeyStep
  <2>7. TypeOK'
    <3>1. /\ status' \in {"up", "down", "refused"} /\ pc' \in {"idle", "rotate", "record"}
          /\ ring' \in Rings /\ keyring' \in Rings /\ generated' \in Nat
          /\ sealed' \subseteq Payload
      <4>1. /\ status \in {"up", "down", "refused"} /\ keyring \in Rings /\ generated \in Nat
            /\ sealed \subseteq Payload
        BY <1>0 DEF TypeOK
      <4> QED
        BY ONLY <2>2, <2>3, <4>1
    <3>2. stranded' \in BOOLEAN /\ broken' \in BOOLEAN
      BY <1>0, <2>3, Zenon DEF TypeOK, audit
    <3>3. /\ lines' \in Seq(Entry) /\ buffer' \in Seq(Entry) /\ synced' \in 0..Len(lines')
          /\ head' \in [prev : Nat, seq : Nat] /\ acked' \in Seq(Nat)
      BY <1>0, <2>3 DEF TypeOK, audit
    <3> QED
      BY ONLY <2>5, <3>1, <3>2, <3>3 DEF TypeOK
  <2>8. RingsOK'
    <3>1. LastIsActive(keyring) /\ (~ stranded => \A s \in sealed : Unseals(ring, s))
      BY <1>0, <2>1 DEF RingsOK
    <3>2. LastIsActive(ring)' /\ LastIsActive(keyring)'
      BY <2>2, <2>3, <3>1 DEF LastIsActive
    <3>3. Len(keyring'.keys) <= Len(ring'.keys)
      BY <1>0, <2>1, <2>2, <2>3
    <3>4. ~ stranded' => \A s \in sealed' : Unseals(ring', s)
      BY <2>2, <2>3, <3>1
    <3>5. QED
      BY <2>1, <2>3, <3>2, <3>3, <3>4 DEF RingsOK
  <2>9. RequestsOK'
    <3>1. Len(ring.keys) <= Cardinality(Requested(lines, synced))
      BY <1>0, <2>1 DEF RequestsOK
    <3>2. Len(ring'.keys) - 1 <= Cardinality(Requested(lines', synced'))
      BY <1>0, <2>2, <2>3, <2>6, <3>1
    <3>3. QED
      BY <2>1, <2>3, <3>2 DEF RequestsOK
  <2>10. QED
    BY <2>6, <2>7, <2>8, <2>9 DEF CustodyInv
<1>8. CASE Crash
  <2>1. /\ status = "up" /\ status' = "down" /\ pc' = "idle" /\ buffer' = <<>>
        /\ lines' \in Remains /\ synced' = Len(lines') /\ ring' = NoRing /\ head' = Genesis
        /\ broken' = (broken \/ \E i \in DOMAIN lines' : lines'[i].end # "whole")
        /\ stranded' = (stranded \/ ring # keyring)
        /\ used' = [used EXCEPT !.crashes = @ + 1, !.records = @ + 1]
        /\ UNCHANGED <<keyring, generated, sealed, acked>>
    BY <1>8 DEF Crash
  <2>2. /\ lines' \in Seq(Entry) /\ synced <= Len(lines')
        /\ \A i \in 1..synced : Alike(lines'[i], lines[i])
        /\ \A i \in 1..synced : lines[i].end # "open" => lines'[i] = lines[i]
        /\ Growing(lines')
        /\ \A i \in 1..Len(lines') : lines'[i].hash <= used.records + 1
        /\ ~ broken /\ (\A i \in 1..Len(lines') : lines'[i].end = "whole") => Linked(lines')
    BY <2>1, RemainsFacts
  <2>3. used \in Usage /\ synced \in Nat /\ synced <= Len(lines) /\ lines \in Seq(Entry)
        /\ synced \in 0..Len(lines)
    BY <1>0 DEF TypeOK
  <2>4. used' \in Usage /\ used'.records = used.records + 1 /\ used.records \in Nat
    BY <2>1, <2>3, UsageType
  <2>5. /\ Len(lines') \in Nat /\ DOMAIN lines' = 1..Len(lines') /\ DOMAIN buffer' = {}
        /\ buffer' \in Seq(Entry)
    BY <2>1, <2>2
  <2>6. TypeOK'
    <3>1. NoRing \in Rings /\ Genesis \in [prev : Nat, seq : Nat]
      BY DEF NoRing, Rings, Genesis
    <3>2. broken' \in BOOLEAN /\ stranded' \in BOOLEAN
      BY <2>1
    <3>3. synced' \in 0..Len(lines')
      BY <2>1, <2>5
    <3>4. QED
      BY <1>0, <2>1, <2>2, <2>4, <2>5, <3>1, <3>2, <3>3 DEF TypeOK
  <2>7. RingsOK'
    <3>1. LastIsActive(keyring) /\ (~ stranded => \A s \in sealed : Unseals(ring, s))
      BY <1>0, <2>1 DEF RingsOK
    <3>2. ~ stranded' => ~ stranded /\ ring = keyring
      BY <2>1
    <3>3. QED
      BY <2>1, <3>1, <3>2 DEF RingsOK, LastIsActive, Unseals
  <2>8. RequestsOK'
    <3>1. Len(keyring.keys) - 1 <= Cardinality(Requested(lines, synced))
      <4>1. Len(ring.keys) - 1 <= Cardinality(Requested(lines, synced))
        BY <1>0, <2>1 DEF RequestsOK
      <4>2. Len(keyring.keys) <= Len(ring.keys)
        BY <1>0, <2>1 DEF RingsOK
      <4>3. QED
        BY <1>0, <4>1, <4>2
    <3>2. synced' \in synced..Len(lines')
      BY <2>1, <2>2, <2>3, <2>5
    <3>3. /\ Cardinality(Requested(lines', synced')) \in Nat
          /\ Cardinality(Requested(lines, synced)) <= Cardinality(Requested(lines', synced'))
      BY <2>2, <2>3, <3>2, RequestsCounted
    <3>4. Len(keyring'.keys) - 1 <= Cardinality(Requested(lines', synced'))
      BY <1>0, <2>1, <3>1, <3>3
    <3>5. QED
      BY <2>1, <3>4 DEF RequestsOK
  <2>9. HashesOK'
    BY <2>2, <2>4, <2>5 DEF HashesOK, Growing
  <2>10. AckedSynced'
    <3>1. synced' \in Nat /\ synced <= synced' /\ used.records <= used'.records
          /\ used'.records \in Nat /\ acked' = acked
      BY <2>1, <2>2, <2>4, <2>5
    <3>2. QED
      BY <2>2, <3>1, KeptAcked
  <2>11. UnbrokenOK'
    BY <2>1, <2>2, <2>5 DEF UnbrokenOK, Linked
  <2>12. QED
    BY <2>6, <2>7, <2>8, <2>9, <2>10, <2>11 DEF CustodyInv
<1>9. CASE Boot
  <2>1. /\ status = "down" /\ status' \in {"up", "refused"} /\ ring' = keyring
        /\ head' = Scan(lines)
        /\ UNCHANGED <<pc, keyring, generated, sealed, stranded, lines, buffer, synced, acked,
                       broken, used>>
    BY <1>9 DEF Boot
  <2>2. TypeOK'
    <3>1. Scan(lines) \in [prev : Nat, seq : Nat]
      <4>1. CASE lines = <<>>
        BY <4>1 DEF Scan, Genesis
      <4>2. CASE lines # <<>>
        <5>1. lines \in Seq(Entry) /\ Len(lines) \in 1..Len(lines) /\ Len(lines) \in Nat
          BY <1>0, <4>2 DEF TypeOK
        <5>2. lines[Len(lines)].hash \in Nat
          BY <5>1, HashType
        <5>3. QED
          BY <4>2, <5>1, <5>2 DEF Scan, Last
      <4>3. QED
        BY <4>1, <4>2
    <3>2. QED
      BY <1>0, <2>1, <3>1 DEF TypeOK
  <2>3. RingsOK'
    BY <1>0, <2>1 DEF RingsOK, LastIsActive, Unseals
  <2>4. RequestsOK'
    BY <1>0, <2>1 DEF RequestsOK, Requested
  <2>5. HashesOK' /\ AckedSynced'
    BY <2>1 DEF CustodyInv, HashesOK, AckedSynced, Placed, Growing
  <2>6. UnbrokenOK'
    BY <2>1 DEF CustodyInv, UnbrokenOK, Linked, Scan
  <2>7. QED
    BY <2>2, <2>3, <2>4, <2>5, <2>6 DEF CustodyInv
<1>10. CASE UNCHANGED vars
  <2>1. UNCHANGED audit /\ UNCHANGED <<status, pc, ring, keyring, generated, sealed, stranded, used>>
    BY <1>10 DEF vars, keys
  <2>2. /\ HashesOK' /\ AckedSynced' /\ UnbrokenOK'
        /\ Cardinality(Requested(lines', synced')) = Cardinality(Requested(lines, synced))
    BY <2>1, KeyStep
  <2>3. TypeOK'
    BY <1>0, <2>1 DEF TypeOK, audit
  <2>4. RingsOK'
    BY <1>0, <2>1 DEF RingsOK, LastIsActive, Unseals
  <2>5. RequestsOK'
    BY <1>0, <2>1, <2>2 DEF RequestsOK
  <2>6. QED
    BY <2>2, <2>3, <2>4, <2>5 DEF CustodyInv
<1>11. QED
  BY <1>2, <1>3, <1>4, <1>5, <1>6, <1>7, <1>8, <1>9, <1>10 DEF Next

\* The invariant holds in every state of a node, however it is interrupted.
THEOREM CustodyInvHolds == Spec => []CustodyInv
<1>1. Init => CustodyInv
  BY CustodyInvInit
<1>2. CustodyInv /\ [Next]_vars => CustodyInv'
  BY CustodyInvNext
<1>3. QED
  BY <1>1, <1>2, PTL DEF Spec

-----------------------------------------------------------------------------
(* What it shows.                                                          *)

\* Kms::rotate and the crashes around it leave nothing on disk that the keyring
\* on disk cannot open, but for rotations that were lost before they were saved.
THEOREM SealedStaysReadable == Spec => []SealedReadable
<1>1. CustodyInv => SealedReadable
  BY DEF CustodyInv, RingsOK, SealedReadable
<1>2. QED
  BY <1>1, CustodyInvHolds, PTL

\* AuditChain::append: a record whose append has returned is never lost, moved or
\* doubled, by any number of failed appends, crashes and boots, and stays on a line
\* of its own unless it was written right behind a line that a crash cut.
THEOREM AckedStaysOnDisk == Spec => []AckedOnDisk
<1>1. CustodyInv => AckedOnDisk
  <2> SUFFICES ASSUME CustodyInv PROVE AckedOnDisk
    OBVIOUS
  <2>1. /\ lines \in Seq(Entry) /\ acked \in Seq(Nat) /\ synced <= Len(lines)
        /\ synced \in Nat /\ Len(lines) \in Nat
        /\ DOMAIN lines = 1..Len(lines) /\ DOMAIN acked = 1..Len(acked)
        /\ \A i \in DOMAIN lines : lines[i].hash \in Nat
    BY HashType DEF CustodyInv, TypeOK
  <2>2. \A i \in DOMAIN acked : \E j \in DOMAIN lines :
            lines[j].hash = acked[i] /\ (lines[j].end = "torn" => BehindCut(j))
    <3>1. 1..synced \subseteq DOMAIN lines
      BY <2>1
    <3>2. QED
      BY <3>1 DEF CustodyInv, AckedSynced, Placed, BehindCut
  <2>3. ASSUME NEW i \in DOMAIN acked, NEW k \in DOMAIN acked,
               NEW j \in DOMAIN lines, NEW l \in DOMAIN lines,
               lines[j].hash = acked[i], lines[l].hash = acked[k]
        PROVE  i < k <=> j < l
    <3>1. /\ i < k => acked[i] < acked[k]
          /\ k < i => acked[k] < acked[i]
      BY DEF CustodyInv, AckedSynced
    <3>2. /\ j < l => lines[j].hash < lines[l].hash
          /\ l < j => lines[l].hash < lines[j].hash
      BY DEF CustodyInv, HashesOK, Growing
    <3>3. i \in Nat /\ k \in Nat /\ j \in Nat /\ l \in Nat
          /\ lines[j].hash \in Nat /\ lines[l].hash \in Nat
      BY <2>1
    <3>4. QED
      BY <2>3, <3>1, <3>2, <3>3
  <2>4. QED
    BY <2>2, <2>3 DEF AckedOnDisk
<1>2. QED
  BY <1>1, CustodyInvHolds, PTL

\* The "kms rotate" verb leaves a request in the audit chain for every key that
\* is in the keyring on disk, wherever a disk error or a crash stops it.
THEOREM RotationsAreVisible == Spec => []RotationVisible
<1>1. CustodyInv => RotationVisible
  <2> SUFFICES ASSUME CustodyInv PROVE RotationVisible
    OBVIOUS
  <2>1. /\ lines \in Seq(Entry) /\ synced \in 0..Len(lines) /\ Len(lines) \in Nat
        /\ Len(keyring.keys) \in Nat /\ Len(ring.keys) \in Nat
    BY DEF CustodyInv, TypeOK, Rings
  <2>2. Len(lines) \in synced..Len(lines) /\ \A i \in 1..synced : Alike(lines[i], lines[i])
    BY <2>1 DEF Alike
  <2>3. /\ Cardinality(Requested(lines, synced)) \in Nat
        /\ Cardinality(Requested(lines, Len(lines))) \in Nat
        /\ Cardinality(Requested(lines, synced)) <= Cardinality(Requested(lines, Len(lines)))
    BY <2>1, <2>2, RequestsCounted
  <2>4. Len(keyring.keys) - 1 <= Cardinality(Requested(lines, synced))
    <3>1. CASE status = "up"
      <4>1. Len(ring.keys) - 1 <= Cardinality(Requested(lines, synced))
        BY <2>1, <2>3, <3>1 DEF CustodyInv, RequestsOK
      <4>2. Len(keyring.keys) <= Len(ring.keys)
        BY <3>1 DEF CustodyInv, RingsOK
      <4>3. QED
        BY <2>1, <2>3, <4>1, <4>2
    <3>2. CASE status # "up"
      BY <3>2 DEF CustodyInv, RequestsOK
    <3>3. QED
      BY <3>1, <3>2
  <2>5. Requested(lines, Len(lines)) = {i \in DOMAIN lines : lines[i].event = "requested"}
    BY <2>1 DEF Requested
  <2>6. Len(keyring.keys) - 1 <= Cardinality(Requested(lines, Len(lines)))
    BY <2>1, <2>3, <2>4
  <2>7. QED
    BY <2>5, <2>6 DEF RotationVisible
<1>2. QED
  BY <1>1, CustodyInvHolds, PTL

\* AuditChain's scan accepts its own file, and the head in memory is the one that
\* the scan finds, until an append fails or a crash tears a line.
THEOREM ChainStaysVerifiable == Spec => []ChainVerifies
<1>1. CustodyInv => ChainVerifies
  BY DEF CustodyInv, UnbrokenOK, ChainVerifies
<1>2. QED
  BY <1>1, CustodyInvHolds, PTL

=============================================================================
