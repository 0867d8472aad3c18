-------------------------- MODULE WalStreamProofs --------------------------
(***************************************************************************)
(* What holds of a WAL stream for any number of writers, frames, faults    *)
(* and crashes, and any channel, batch and epoch size.                     *)
(***************************************************************************)
EXTENDS WalStream, SequenceTheorems, TLAPS

-----------------------------------------------------------------------------
(* Facts about the operators of the specification.                         *)

LEMMA ConcatEntries ==
    ASSUME NEW S, NEW s \in Seq(S), NEW t \in Seq(S)
    PROVE  /\ s \o t \in Seq(S)
           /\ Len(s \o t) = Len(s) + Len(t)
           /\ \A i \in 1 .. Len(s) : (s \o t)[i] = s[i]
           /\ \A i \in 1 .. Len(t) : (s \o t)[Len(s) + i] = t[i]
  BY ConcatProperties

LEMMA CutFileEntries ==
    ASSUME NEW s \in Seq(Entry), NEW n \in 0 .. Len(s), NEW torn \in BOOLEAN
    PROVE  /\ CutFile(s, n, torn) \in Seq(Entry)
           /\ n <= Len(CutFile(s, n, torn))
           /\ \A i \in 1 .. n : CutFile(s, n, torn)[i] = s[i]
<1> DEFINE p == SubSeq(s, 1, n)
           q == IF torn /\ n < Len(s) THEN <<Torn>> ELSE <<>>
<1>1. p \in Seq(Entry) /\ Len(p) = n /\ \A i \in 1 .. n : p[i] = s[i]
  BY SubSeqProperties
<1>2. q \in Seq(Entry)
  BY DEF Entry
<1> HIDE DEF p, q
<1>3. p \o q \in Seq(Entry) /\ n <= Len(p \o q) /\ \A i \in 1 .. n : (p \o q)[i] = p[i]
  BY <1>1, <1>2, ConcatEntries
<1>4. CutFile(s, n, torn) = p \o q
  BY DEF CutFile, p, q
<1> QED
  BY <1>1, <1>3, <1>4

\* A file found by a crash holds what was synced, and entries only.
LEMMA InFlightEntries ==
    ASSUME TypeOK, NEW e \in 1 .. Epoch
    PROVE  /\ InFlight(e) \in Seq(Entry)
           /\ synced[e] \in 0 .. Len(InFlight(e))
           /\ \A i \in 1 .. synced[e] : InFlight(e)[i] = disk[e][i]
<1>1. /\ disk[e] \in Seq(Entry)
      /\ synced[e] \in Nat
      /\ synced[e] <= Len(disk[e])
      /\ buf \in Seq(Entry)
  BY DEF TypeOK, Epoch, Entry
<1>2. CASE InFlight(e) = disk[e]
  BY <1>1, <1>2
<1>3. CASE InFlight(e) = disk[e] \o buf
  BY <1>1, <1>3, ConcatEntries
<1> QED
  BY <1>2, <1>3 DEF InFlight

\* What a crash leaves of an epoch holds what was synced, and entries only.
LEMMA SurvivorEntries ==
    ASSUME TypeOK, NEW e \in 1 .. Epoch, NEW s \in Survivors(e)
    PROVE  /\ s \in Seq(Entry)
           /\ synced[e] <= Len(s)
           /\ \A i \in 1 .. synced[e] : s[i] = disk[e][i]
<1>1. PICK n \in synced[e] .. Len(InFlight(e)), torn \in BOOLEAN :
            s = CutFile(InFlight(e), n, torn)
  BY DEF Survivors
<1>2. /\ InFlight(e) \in Seq(Entry)
      /\ synced[e] \in 0 .. Len(InFlight(e))
      /\ \A i \in 1 .. synced[e] : InFlight(e)[i] = disk[e][i]
  BY InFlightEntries
<1>3. n \in 0 .. Len(InFlight(e))
  BY <1>2
<1>4. /\ s \in Seq(Entry)
      /\ n <= Len(s)
      /\ \A i \in 1 .. n : s[i] = InFlight(e)[i]
  BY <1>1, <1>2, <1>3, CutFileEntries
<1>5. Len(s) \in Nat
  BY <1>4
<1> QED
  BY <1>2, <1>3, <1>4, <1>5

-----------------------------------------------------------------------------
(* Type correctness.                                                       *)

\* What is known of the files, and of the current one.
LEMMA FilesTyped ==
    ASSUME TypeOK
    PROVE  /\ disk \in Seq(Seq(Entry)) /\ Len(disk) \in Nat
           /\ Epoch \in Nat /\ Epoch = Len(disk) /\ Epoch \in 1 .. Len(disk)
           /\ File = disk[Epoch] /\ File \in Seq(Entry) /\ Len(File) \in Nat
           /\ synced \in Seq(Nat) /\ Len(synced) = Len(disk)
           /\ \A e \in 1 .. Len(disk) : synced[e] <= Len(disk[e])
<1>1. /\ disk \in Seq(Seq(Entry)) /\ Len(disk) >= 1
      /\ synced \in Seq(Nat) /\ Len(synced) = Len(disk)
      /\ \A e \in 1 .. Len(disk) : synced[e] <= Len(disk[e])
  BY DEF TypeOK
<1>2. /\ Len(disk) \in Nat /\ Epoch \in Nat /\ Epoch = Len(disk) /\ Epoch \in 1 .. Len(disk)
      /\ File = disk[Epoch]
  BY ONLY <1>1 DEF Epoch, File
<1>3. File \in Seq(Entry) /\ Len(File) \in Nat
  BY ONLY <1>1, <1>2
<1> QED
  BY <1>1, <1>2, <1>3

\* The first waiter is the first of the list.
LEMMA FirstPending ==
    ASSUME TypeOK, pending # <<>>
    PROVE  1 \in 1 .. Len(pending) /\ Head(pending) = pending[1]
<1>1. pending \in Seq(PendingAck)
  BY DEF TypeOK
<1> QED
  BY ONLY <1>1, pending # <<>>

\* The files after a write, failed or not: the current epoch is extended.
LEMMA ExtendedFile ==
    ASSUME TypeOK, NEW t \in Seq(Entry), disk' = [disk EXCEPT ![Epoch] = File \o t],
           synced' = synced
    PROVE  /\ disk' \in Seq(Seq(Entry))
           /\ Len(disk') = Len(disk)
           /\ \A e \in 1 .. Len(disk') : synced'[e] <= Len(disk'[e])
           /\ \A e \in 1 .. Len(disk) : \A i \in 1 .. Len(disk[e]) :
                 i \in 1 .. Len(disk'[e]) /\ disk'[e][i] = disk[e][i]
<1>1. /\ Epoch \in 1 .. Len(disk)
      /\ File \in Seq(Entry)
      /\ Len(synced) = Len(disk)
      /\ \A e \in 1 .. Len(disk) : /\ disk[e] \in Seq(Entry)
                                   /\ synced[e] \in Nat
                                   /\ synced[e] <= Len(disk[e])
  BY DEF TypeOK, Epoch, File
<1>2. /\ File \o t \in Seq(Entry)
      /\ Len(File \o t) = Len(File) + Len(t)
      /\ \A i \in 1 .. Len(File) : (File \o t)[i] = File[i]
  BY <1>1, ConcatEntries
<1>3. Len(t) \in Nat /\ Len(File) \in Nat
  BY <1>1
<1>4. disk' \in Seq(Seq(Entry)) /\ Len(disk') = Len(disk)
  BY <1>1, <1>2 DEF TypeOK
<1>5. \A e \in 1 .. Len(disk) :
         disk'[e] = IF e = Epoch THEN File \o t ELSE disk[e]
  BY <1>1 DEF TypeOK
<1>6. \A e \in 1 .. Len(disk) : Len(disk'[e]) >= Len(disk[e])
  BY <1>1, <1>2, <1>3, <1>5 DEF File
<1>7. \A e \in 1 .. Len(disk') : synced'[e] <= Len(disk'[e])
  <2> TAKE e \in 1 .. Len(disk')
  <2>1. e \in 1 .. Len(disk)
    BY <1>4
  <2>2. Len(disk'[e]) \in Nat /\ Len(disk[e]) \in Nat
    BY <2>1, <1>1, <1>4
  <2> QED
    BY <2>1, <2>2, <1>1, <1>6
<1>8. ASSUME NEW e \in 1 .. Len(disk), NEW i \in 1 .. Len(disk[e])
      PROVE  i \in 1 .. Len(disk'[e]) /\ disk'[e][i] = disk[e][i]
  BY <1>1, <1>2, <1>3, <1>5 DEF File
<1> QED
  BY <1>4, <1>7, <1>8

\* A failed write extends the current epoch as well.
LEMMA WriteFailExtends ==
    ASSUME TypeOK, WriteFail
    PROVE  \E t \in Seq(Entry) : disk' = [disk EXCEPT ![Epoch] = File \o t]
<1>1. PICK n \in 0 .. Len(buf) - 1, torn \in BOOLEAN :
          disk' = [disk EXCEPT ![Epoch] = PartialWrite(n, torn)]
  BY DEF WriteFail
<1> DEFINE p == SubSeq(buf, 1, n)
           q == IF torn THEN <<Torn>> ELSE <<>>
<1>2. p \in Seq(Entry)
  BY SubSeqProperties DEF TypeOK, Entry
<1>3. q \in Seq(Entry)
  <2>1. CASE torn
    BY <2>1 DEF Entry
  <2>2. CASE ~torn
    BY <2>2
  <2> QED
    BY <2>1, <2>2
<1>4. File \in Seq(Entry)
  BY DEF TypeOK, File, Epoch
<1>5. PartialWrite(n, torn) = (File \o p) \o q
  BY DEF PartialWrite
<1> HIDE DEF p, q
<1>6. (File \o p) \o q = File \o (p \o q)
  BY <1>2, <1>3, <1>4, ConcatAssociative
<1>7. p \o q \in Seq(Entry)
  BY <1>2, <1>3, ConcatEntries
<1> QED
  BY <1>1, <1>5, <1>6, <1>7

\* Putting a message of the channel into the batch keeps its types.
LEMMA HandleMsgTypes ==
    ASSUME TypeOK, NEW m \in Message, HandleMsg(m)
    PROVE  /\ buf' \in Seq(Frames)
           /\ pending' \in Seq(PendingAck)
           /\ shut' \in BOOLEAN
           /\ force' \in BOOLEAN
<1>1. buf' \in Seq(Frames)
  BY DEF TypeOK, HandleMsg
<1>2. offset + Len(buf') \in Nat
  BY <1>1 DEF TypeOK
<1>3. [w |-> m.w, r |-> m.r, end |-> offset + Len(buf')] \in PendingAck
  BY <1>2 DEF PendingAck, Message
<1>4. pending' \in Seq(PendingAck)
  BY <1>3 DEF TypeOK, HandleMsg
<1> QED
  BY <1>1, <1>4 DEF HandleMsg

\* One more fault keeps the type of the fault counters.
LEMMA SpendTypes ==
    ASSUME TypeOK, NEW k \in FaultKinds, Spend(k)
    PROVE  faults' \in [FaultKinds -> Nat]
  BY DEF TypeOK, Spend

LEMMA TypeInit == ASSUME Init PROVE TypeOK
<1>1. disk \in Seq(Seq(Entry)) /\ Len(disk) = 1 /\ Len(disk[1]) = 0
  BY DEF Init
<1>2. synced \in Seq(Nat) /\ Len(synced) = 1 /\ synced[1] = 0
  BY DEF Init
<1>3. \A e \in 1 .. Len(disk) : synced[e] <= Len(disk[e])
  BY <1>1, <1>2
<1>4. /\ chan \in Seq(Message)
      /\ wpc \in [Writers -> {"idle", "send", "wait"}]
      /\ req \in [Writers -> Requests]
      /\ issued \subseteq Frames
  BY DEF Init, Requests
<1>5. /\ fpc \in FlusherPc
      /\ buf \in Seq(Frames)
      /\ pending \in Seq(PendingAck)
      /\ offset \in Nat
      /\ result \in {"ok", "err"}
  BY DEF Init, FlusherPc
<1>6. shut \in BOOLEAN /\ force \in BOOLEAN
  BY Zenon DEF Init
<1>7. acks \subseteq Position /\ faults \in [FaultKinds -> Nat]
  BY DEF Init
<1> QED
  BY <1>1, <1>2, <1>3, <1>4, <1>5, <1>6, <1>7 DEF TypeOK

LEMMA TypeStep == ASSUME TypeOK, [Next]_vars PROVE TypeOK'
<1> USE DEF files, flusher, clients
<1>1. ASSUME NEW w \in Writers, NEW f \in Frames, BeginAppend(w, f) PROVE TypeOK'
  BY <1>1 DEF TypeOK, BeginAppend, Requests
<1>2. ASSUME NEW w \in Writers, BeginSync(w) PROVE TypeOK'
  <2>1. faults' \in [FaultKinds -> Nat]
    BY <1>2, SpendTypes DEF BeginSync, FaultKinds
  <2> QED
    BY <1>2, <2>1 DEF TypeOK, BeginSync, Requests
<1>3. ASSUME NEW w \in Writers, BeginClose(w) PROVE TypeOK'
  <2>1. faults' \in [FaultKinds -> Nat]
    BY <1>3, SpendTypes DEF BeginClose, FaultKinds
  <2> QED
    BY <1>3, <2>1 DEF TypeOK, BeginClose, Requests
<1>4. ASSUME NEW w \in Writers, Send(w) PROVE TypeOK'
  <2>1. [w |-> w, r |-> req[w]] \in Message
    BY DEF TypeOK, Message
  <2> QED
    BY <1>4, <2>1 DEF TypeOK, Send
<1>5. ASSUME NEW w \in Writers, FlusherGone(w) PROVE TypeOK'
  BY <1>5 DEF TypeOK, FlusherGone
<1>6. CASE Recv
  <2>1. Head(chan) \in Message /\ Tail(chan) \in Seq(Message)
    BY <1>6 DEF TypeOK, Recv
  <2>2. /\ buf' \in Seq(Frames)
        /\ pending' \in Seq(PendingAck)
        /\ shut' \in BOOLEAN
        /\ force' \in BOOLEAN
    BY <1>6, <2>1, HandleMsgTypes DEF Recv
  <2> QED
    BY <1>6, <2>1, <2>2 DEF TypeOK, Recv, FlusherPc
<1>7. CASE Gather
  <2>1. Head(chan) \in Message /\ Tail(chan) \in Seq(Message)
    BY <1>7 DEF TypeOK, Gather
  <2>2. /\ buf' \in Seq(Frames)
        /\ pending' \in Seq(PendingAck)
        /\ shut' \in BOOLEAN
        /\ force' \in BOOLEAN
    BY <1>7, <2>1, HandleMsgTypes DEF Gather
  <2> QED
    BY <1>7, <2>1, <2>2 DEF TypeOK, Gather, FlusherPc
<1>8. CASE GatherEnd
  BY <1>8 DEF TypeOK, GatherEnd, FlusherPc
<1>9. CASE Write
  <2>1. buf \in Seq(Entry) /\ disk' = [disk EXCEPT ![Epoch] = File \o buf] /\ synced' = synced
    BY <1>9 DEF TypeOK, Write, Entry, File
  <2>2. /\ disk' \in Seq(Seq(Entry))
        /\ Len(disk') = Len(disk)
        /\ \A e \in 1 .. Len(disk') : synced'[e] <= Len(disk'[e])
    BY <2>1, ExtendedFile
  <2>3. offset' \in Nat /\ buf' \in Seq(Frames) /\ fpc' \in FlusherPc
    <3>1. offset \in Nat /\ buf \in Seq(Frames)
      BY DEF TypeOK
    <3>2. offset' = offset + Len(buf) /\ buf' = <<>> /\ fpc' = "sync"
      BY <1>9 DEF Write
    <3> QED
      BY ONLY <3>1, <3>2 DEF FlusherPc
  <2>4. UNCHANGED <<synced, chan, wpc, req, issued, pending, shut, force, result, acks, faults>>
    BY <1>9 DEF Write
  <2> QED
    BY <2>2, <2>3, <2>4 DEF TypeOK
<1>10. CASE WriteFail
  <2>1. synced' = synced
    BY <1>10 DEF WriteFail
  <2>2. /\ disk' \in Seq(Seq(Entry))
        /\ Len(disk') = Len(disk)
        /\ \A e \in 1 .. Len(disk') : synced'[e] <= Len(disk'[e])
    BY <1>10, <2>1, WriteFailExtends, ExtendedFile
  <2>3. faults' \in [FaultKinds -> Nat]
    BY <1>10, SpendTypes DEF WriteFail, FaultKinds
  <2> QED
    BY <1>10, <2>2, <2>3 DEF TypeOK, WriteFail, FlusherPc
<1>11. CASE Sync
  <2>1. Epoch \in 1 .. Len(disk) /\ Len(File) \in Nat
    BY DEF TypeOK, Epoch, File
  <2>2. synced' \in Seq(Nat) /\ Len(synced') = Len(synced)
    BY <1>11, <2>1 DEF TypeOK, Sync
  <2>3. \A e \in 1 .. Len(disk) : synced'[e] <= Len(disk[e])
    BY <1>11, <2>1 DEF TypeOK, Sync, File
  <2> QED
    BY <1>11, <2>2, <2>3 DEF TypeOK, Sync, FlusherPc
<1>12. CASE SyncFail
  <2>1. faults' \in [FaultKinds -> Nat]
    BY <1>12, SpendTypes DEF SyncFail, FaultKinds
  <2> QED
    BY <1>12, <2>1 DEF TypeOK, SyncFail, FlusherPc
<1>13. CASE Ack
  <2>1. Head(pending) \in PendingAck /\ Tail(pending) \in Seq(PendingAck)
    BY <1>13 DEF TypeOK, Ack
  <2>2. Epoch \in Nat
    BY FilesTyped
  <2>3. acks' \subseteq Position
    <3>1. PICK p : p = Head(pending)
      OBVIOUS
    <3>2. PICK a : a = [f |-> p.r, epoch |-> Epoch, end |-> p.end]
      OBVIOUS
    <3>3. acks' = acks \/ (p.r \in Frames /\ acks' = acks \cup {a})
      BY <1>13, <3>1, <3>2 DEF Ack
    <3>4. p.r \in Frames => a \in Position
      BY <2>1, <2>2, <3>1, <3>2 DEF Position, PendingAck
    <3>5. acks \subseteq Position
      BY DEF TypeOK
    <3> QED
      BY ONLY <3>3, <3>4, <3>5
  <2>4. wpc' \in [Writers -> {"idle", "send", "wait"}]
    BY <1>13, <2>1 DEF TypeOK, Ack, PendingAck
  <2> QED
    BY <1>13, <2>1, <2>3, <2>4 DEF TypeOK, Ack
<1>14. CASE KeepEpoch
  BY <1>14 DEF TypeOK, KeepEpoch, NextBatch, FlusherPc
<1>15. CASE Roll
  <2>1. /\ disk' \in Seq(Seq(Entry))
        /\ Len(disk') = Len(disk) + 1
        /\ \A e \in 1 .. Len(disk) : disk'[e] = disk[e]
        /\ disk'[Len(disk) + 1] = <<>>
    BY <1>15 DEF TypeOK, Roll
  <2>2. /\ synced' \in Seq(Nat)
        /\ Len(synced') = Len(synced) + 1
        /\ \A e \in 1 .. Len(synced) : synced'[e] = synced[e]
        /\ synced'[Len(synced) + 1] = 0
    BY <1>15 DEF TypeOK, Roll
  <2>3. ASSUME NEW e \in 1 .. Len(disk') PROVE synced'[e] <= Len(disk'[e])
    <3>1. CASE e \in 1 .. Len(disk)
      BY <3>1, <2>1, <2>2 DEF TypeOK
    <3>2. CASE e = Len(disk) + 1
      <4>1. Len(disk'[e]) = 0 /\ synced'[e] = 0
        BY <3>2, <2>1, <2>2 DEF TypeOK
      <4> QED
        BY <4>1
    <3> QED
      BY <3>1, <3>2, <2>1 DEF TypeOK
  <2> QED
    BY <1>15, <2>1, <2>2, <2>3 DEF TypeOK, Roll, NextBatch, FlusherPc
<1>16. CASE RollFail
  <2>1. faults' \in [FaultKinds -> Nat]
    BY <1>16, SpendTypes DEF RollFail, FaultKinds
  <2> QED
    BY <1>16, <2>1 DEF TypeOK, RollFail, FlusherPc
<1>17. CASE Close
  <2>1. /\ Epoch \in 1 .. Len(disk) /\ Len(File) \in Nat /\ File = disk[Epoch]
        /\ synced \in Seq(Nat) /\ Len(synced) = Len(disk) /\ Len(disk) \in Nat
        /\ \A e \in 1 .. Len(disk) : synced[e] <= Len(disk[e])
    BY FilesTyped
  <2>2. CASE synced' = [synced EXCEPT ![Epoch] = Len(File)] /\ UNCHANGED faults
    <3>1. PICK m \in Nat : m = Len(File)
      BY <2>1
    <3>2. synced' = [synced EXCEPT ![Epoch] = m]
      BY <2>2, <3>1
    <3>3. synced' \in Seq(Nat) /\ Len(synced') = Len(synced)
      BY ONLY <2>1, <3>1, <3>2
    <3>4. \A e \in 1 .. Len(disk) : synced'[e] = IF e = Epoch THEN m ELSE synced[e]
      BY ONLY <2>1, <3>2
    <3>5. \A e \in 1 .. Len(disk) : synced'[e] <= Len(disk[e])
      BY ONLY <2>1, <3>1, <3>4
    <3> QED
      BY <1>17, <2>2, <3>3, <3>5 DEF TypeOK, Close, FlusherPc
  <2>3. CASE Spend("sync") /\ UNCHANGED synced
    <3>1. faults' \in [FaultKinds -> Nat]
      BY <2>3, SpendTypes DEF FaultKinds
    <3> QED
      BY <1>17, <2>3, <3>1 DEF TypeOK, Close, FlusherPc
  <2> QED
    BY <1>17, <2>2, <2>3 DEF Close
<1>18. CASE Crash
  <2>1. PICK d \in [1 .. Epoch -> UNION {Survivors(e) : e \in 1 .. Epoch}] :
            disk' = d /\ \A e \in 1 .. Epoch : d[e] \in Survivors(e)
    BY <1>18 DEF Crash
  <2>2. \A e \in 1 .. Epoch : d[e] \in Seq(Entry) /\ synced[e] <= Len(d[e])
    BY <2>1, SurvivorEntries
  <2>3. Epoch \in Nat /\ Epoch = Len(disk)
    BY DEF TypeOK, Epoch
  <2>4. d \in Seq(Seq(Entry)) /\ Len(d) = Epoch
    <3>1. DOMAIN d = 1 .. Epoch /\ d = [e \in 1 .. Epoch |-> d[e]]
      BY <2>1
    <3> QED
      BY ONLY <2>2, <2>3, <3>1
  <2>5. faults' \in [FaultKinds -> Nat]
    BY <1>18, SpendTypes DEF Crash, FaultKinds
  <2>6. synced' = synced
    BY <1>18 DEF Crash, ProcessEnds
  <2>7. /\ disk' \in Seq(Seq(Entry))
        /\ Len(disk') = Len(disk)
        /\ \A e \in 1 .. Len(disk') : synced'[e] <= Len(disk'[e])
    BY <2>1, <2>2, <2>3, <2>4, <2>6
  <2>8. /\ chan' \in Seq(Message)
        /\ wpc' \in [Writers -> {"idle", "send", "wait"}]
        /\ fpc' \in FlusherPc
        /\ buf' \in Seq(Frames)
        /\ pending' \in Seq(PendingAck)
    BY <1>18 DEF Crash, ProcessEnds, FlusherPc
  <2>9. shut' \in BOOLEAN /\ force' \in BOOLEAN
    BY <1>18, Zenon DEF Crash, ProcessEnds
  <2> QED
    BY <1>18, <2>5, <2>6, <2>7, <2>8, <2>9 DEF TypeOK, Crash, ProcessEnds
<1>19. CASE Exit
  <2>1. shut' \in BOOLEAN /\ force' \in BOOLEAN
    BY <1>19, Zenon DEF Exit, ProcessEnds
  <2> QED
    BY <1>19, <2>1 DEF TypeOK, Exit, ProcessEnds, FlusherPc
<1>20. CASE Reopen
  <2>1. Len(File) \in Nat
    BY DEF TypeOK, Epoch, File
  <2> QED
    BY <1>20, <2>1 DEF TypeOK, Reopen, FlusherPc
<1>21. CASE UNCHANGED vars
  BY <1>21 DEF TypeOK, vars
<1> QED
  BY <1>1, <1>2, <1>3, <1>4, <1>5, <1>6, <1>7, <1>8, <1>9, <1>10, <1>11, <1>12,
     <1>13, <1>14, <1>15, <1>16, <1>17, <1>18, <1>19, <1>20, <1>21
     DEF Next, Begin, FlusherStep

\* The stream never leaves its types, and the sync mark of an epoch never
\* passes the end of its file, whatever fails (flusher_loop, wal.rs:252-346).
THEOREM TypeCorrect == Spec => []TypeOK
<1>1. Init => TypeOK
  BY TypeInit
<1>2. TypeOK /\ [Next]_vars => TypeOK'
  BY TypeStep
<1> QED
  BY <1>1, <1>2, PTL DEF Spec

-----------------------------------------------------------------------------
(* The durable part of the files.                                          *)

\* A step that leaves the files alone, or only raises sync marks, keeps it.
LEMMA SameDiskKeepsDurable ==
    ASSUME TypeOK, disk' = disk, \A e \in 1 .. Len(disk) : synced[e] <= synced'[e]
    PROVE  DurablePartKept
<1>1. \A e \in 1 .. Len(disk) : Len(disk[e]) \in Nat /\ synced[e] \in Nat
                                /\ synced[e] <= Len(disk[e])
  <2>1. /\ disk \in Seq(Seq(Entry)) /\ synced \in Seq(Nat) /\ Len(synced) = Len(disk)
        /\ \A e \in 1 .. Len(disk) : synced[e] <= Len(disk[e])
    BY FilesTyped
  <2> QED
    BY ONLY <2>1
<1> QED
  BY <1>1 DEF TypeOK, DurablePartKept

\* So does a step that extends the current epoch.
LEMMA ExtendedFileKeepsDurable ==
    ASSUME TypeOK, NEW t \in Seq(Entry), disk' = [disk EXCEPT ![Epoch] = File \o t],
           synced' = synced
    PROVE  DurablePartKept
<1>1. /\ Len(disk') = Len(disk)
      /\ \A e \in 1 .. Len(disk) : \A i \in 1 .. Len(disk[e]) :
            i \in 1 .. Len(disk'[e]) /\ disk'[e][i] = disk[e][i]
  BY ExtendedFile
<1>2. \A e \in 1 .. Len(disk) : Len(disk[e]) \in Nat /\ synced[e] \in Nat
                                /\ synced[e] <= Len(disk[e])
  <2>1. /\ disk \in Seq(Seq(Entry)) /\ synced \in Seq(Nat) /\ Len(synced) = Len(disk)
        /\ \A e \in 1 .. Len(disk) : synced[e] <= Len(disk[e])
    BY FilesTyped
  <2> QED
    BY ONLY <2>1
<1>3. ASSUME NEW e \in 1 .. Len(disk), NEW i \in 1 .. synced[e]
      PROVE  i <= Len(disk'[e]) /\ disk'[e][i] = disk[e][i]
  <2>1. i \in 1 .. Len(disk[e])
    BY <1>2
  <2>2. i \in 1 .. Len(disk'[e]) /\ disk'[e][i] = disk[e][i]
    BY <1>1, <2>1
  <2>3. disk' \in Seq(Seq(Entry))
    BY ExtendedFile
  <2>4. Len(disk'[e]) \in Nat
    BY <1>1, <2>3
  <2> QED
    BY <2>2, <2>4
<1>4. Len(disk) \in Nat
  BY DEF TypeOK
<1> QED
  BY <1>1, <1>2, <1>3, <1>4 DEF DurablePartKept

LEMMA DurableStep == ASSUME TypeOK, [Next]_vars PROVE DurablePartKept
<1> USE DEF files, flusher, clients
<1>1. \A e \in 1 .. Len(disk) : synced[e] \in Nat
  BY DEF TypeOK
<1>2. CASE UNCHANGED files
  BY <1>1, <1>2, SameDiskKeepsDurable
<1>3. CASE Write
  <2>1. buf \in Seq(Entry) /\ disk' = [disk EXCEPT ![Epoch] = File \o buf] /\ synced' = synced
    BY <1>3 DEF TypeOK, Write, Entry, File
  <2> QED
    BY <2>1, ExtendedFileKeepsDurable
<1>4. CASE WriteFail
  <2>1. synced' = synced
    BY <1>4 DEF WriteFail
  <2> QED
    BY <1>4, <2>1, WriteFailExtends, ExtendedFileKeepsDurable
<1>5. CASE disk' = disk /\ synced' = [synced EXCEPT ![Epoch] = Len(File)]
  <2>1. \A e \in 1 .. Len(disk) : synced[e] <= synced'[e]
    BY <1>1, <1>5 DEF TypeOK, Epoch, File
  <2> QED
    BY <1>5, <2>1, SameDiskKeepsDurable
<1>6. CASE Roll
  <2>1. /\ Len(disk') = Len(disk) + 1
        /\ \A e \in 1 .. Len(disk) : disk'[e] = disk[e]
        /\ \A e \in 1 .. Len(disk) : synced'[e] = synced[e]
    BY <1>6 DEF TypeOK, Roll
  <2>2. \A e \in 1 .. Len(disk) : Len(disk[e]) \in Nat /\ synced[e] <= Len(disk[e])
    BY DEF TypeOK
  <2>3. Len(disk) \in Nat
    BY DEF TypeOK
  <2> QED
    BY <1>1, <2>1, <2>2, <2>3 DEF DurablePartKept
<1>7. CASE Crash
  <2>1. PICK d \in [1 .. Epoch -> UNION {Survivors(e) : e \in 1 .. Epoch}] :
            disk' = d /\ \A e \in 1 .. Epoch : d[e] \in Survivors(e)
    BY <1>7 DEF Crash
  <2>2. \A e \in 1 .. Epoch : /\ d[e] \in Seq(Entry)
                              /\ synced[e] <= Len(d[e])
                              /\ \A i \in 1 .. synced[e] : d[e][i] = disk[e][i]
    BY <2>1, SurvivorEntries
  <2>3. Epoch \in Nat /\ Epoch = Len(disk)
    BY DEF TypeOK, Epoch
  <2>4. Len(d) = Epoch
    BY <2>1, <2>2, <2>3
  <2>5. synced' = synced
    BY <1>7 DEF Crash, ProcessEnds
  <2>6. \A e \in 1 .. Epoch : Len(d[e]) \in Nat
    BY <2>2
  <2>7. ASSUME NEW e \in 1 .. Len(disk)
        PROVE  /\ e <= Len(disk') /\ synced[e] <= synced'[e]
               /\ \A i \in 1 .. synced[e] : i <= Len(disk'[e]) /\ disk'[e][i] = disk[e][i]
    <3>1. e \in 1 .. Epoch /\ e <= Len(disk') /\ disk'[e] = d[e]
      BY <2>1, <2>3, <2>4
    <3>4. synced \in Seq(Nat) /\ Len(synced) = Len(disk)
      BY DEF TypeOK
    <3>5. synced[e] \in Nat
      BY ONLY <3>4, e \in 1 .. Len(disk)
    <3>2. synced[e] \in Nat /\ synced[e] <= Len(d[e]) /\ Len(d[e]) \in Nat
      BY ONLY <2>2, <2>6, <3>1, <3>5
    <3>3. \A i \in 1 .. synced[e] : d[e][i] = disk[e][i]
      BY <2>2, <3>1
    <3> QED
      BY <2>5, <3>1, <3>2, <3>3
  <2> QED
    BY <2>7 DEF DurablePartKept
<1> QED
  BY <1>2, <1>3, <1>4, <1>5, <1>6, <1>7
     DEF Next, vars, Begin, BeginAppend, BeginSync, BeginClose, Send, FlusherGone,
         FlusherStep, Recv, Gather, GatherEnd, Sync, SyncFail, Ack, KeepEpoch,
         RollFail, Close, Exit, ProcessEnds, Reopen

\* No step of the flusher, no failure and no crash removes or changes an entry
\* that sync_data has made durable: the files are opened for append only
\* (open_epoch, wal.rs:220-227).
THEOREM DurablePartIsAppendOnly == Spec => DurableIsAppendOnly
<1>1. TypeOK /\ [Next]_vars => [DurablePartKept]_vars
  BY DurableStep
<1> QED
  BY <1>1, TypeCorrect, PTL DEF Spec, DurableIsAppendOnly

-----------------------------------------------------------------------------
(* Acknowledged frames.                                                    *)

\* Frame f is one of the entries of s.
In(f, s) == \E i \in 1 .. Len(s) : s[i] = f

\* Where a frame that waits for its acknowledgement is: in the buffer until
\* the batch is written, in the file until it is synced, and in the durable
\* part of the file once the result of the batch is Ok.  Outside a batch
\* nobody waits.
PendingTracked ==
    /\ fpc \notin {"gather", "write", "sync", "ack"} => pending = <<>>
    /\ \A k \in 1 .. Len(pending) : pending[k].r \in Frames =>
          /\ fpc \in {"gather", "write"} => In(pending[k].r, buf)
          /\ fpc = "sync" => In(pending[k].r, File)
          /\ fpc = "ack" /\ result = "ok" => DurableIn(pending[k].r, Epoch)

\* The inductive invariant behind AckedDurable.
AckInv == TypeOK /\ PendingTracked /\ AckedDurable

\* A durable frame stays durable.
LEMMA DurableStays ==
    ASSUME TypeOK, TypeOK', DurablePartKept, NEW f, NEW e \in 1 .. Len(disk),
           DurableIn(f, e)
    PROVE  e \in 1 .. Len(disk') /\ DurableIn(f, e)'
<1>1. PICK i \in 1 .. synced[e] : disk[e][i] = f
  BY DEF DurableIn
<1>2. /\ e <= Len(disk')
      /\ synced[e] <= synced'[e]
      /\ disk'[e][i] = f
  BY <1>1 DEF DurablePartKept
<1>3. synced[e] \in Nat
  <2>1. synced \in Seq(Nat) /\ Len(synced) = Len(disk)
    BY DEF TypeOK
  <2> QED
    BY <2>1
<1>4. e \in 1 .. Len(disk')
  BY <1>2 DEF TypeOK
<1>5. synced'[e] \in Nat
  <2>1. synced' \in Seq(Nat) /\ Len(synced') = Len(disk')
    BY DEF TypeOK
  <2> QED
    BY <1>4, <2>1
<1>6. i \in 1 .. synced'[e]
  BY <1>2, <1>3, <1>5
<1> QED
  BY <1>2, <1>4, <1>6 DEF DurableIn

\* Every frame of a batch being gathered is in the buffer.
LEMMA HandleMsgTracks ==
    ASSUME AckInv, NEW m \in Message, HandleMsg(m), fpc \in {"recv", "gather"}
    PROVE  \A k \in 1 .. Len(pending') :
              pending'[k].r \in Frames => In(pending'[k].r, buf')
<1>1. \A k \in 1 .. Len(pending) :
         pending[k].r \in Frames => In(pending[k].r, buf)
  BY DEF AckInv, PendingTracked
<1>2. buf \in Seq(Frames)
  BY DEF AckInv, TypeOK
<1>3. ASSUME m.r \in Frames
      PROVE  /\ Len(buf') = Len(buf) + 1
             /\ buf'[Len(buf) + 1] = m.r
             /\ \A i \in 1 .. Len(buf) : buf'[i] = buf[i]
  <2>1. buf' = Append(buf, m.r)
    BY <1>3 DEF HandleMsg
  <2> QED
    BY <1>2, <1>3, <2>1
<1>4. ASSUME m.r \notin Frames PROVE buf' = buf
  BY <1>4 DEF HandleMsg
<1>5. ASSUME m.r \in Frames PROVE In(m.r, buf')
  <2>1. Len(buf) + 1 \in 1 .. Len(buf')
    BY <1>2, <1>3, <1>5
  <2> QED
    BY <1>3, <1>5, <2>1 DEF In
<1>6. ASSUME NEW f, In(f, buf) PROVE In(f, buf')
  <2>1. CASE m.r \notin Frames
    BY <1>4, <1>6, <2>1
  <2>2. CASE m.r \in Frames
    <3>1. PICK i \in 1 .. Len(buf) : buf[i] = f
      BY <1>6 DEF In
    <3>2. i \in 1 .. Len(buf') /\ buf'[i] = f
      BY <1>2, <1>3, <2>2, <3>1
    <3> QED
      BY <3>2 DEF In
  <2> QED
    BY <2>1, <2>2
<1>7. CASE pending' = pending
  BY <1>1, <1>6, <1>7
<1>8. CASE pending' = Append(pending, [w |-> m.w, r |-> m.r,
                                       end |-> offset + Len(buf')])
  <2> TAKE k \in 1 .. Len(pending')
  <2>1. pending \in Seq(PendingAck)
    BY DEF AckInv, TypeOK
  <2>2. CASE k \in 1 .. Len(pending)
    <3>1. pending'[k] = pending[k]
      BY <1>8, <2>1, <2>2
    <3> QED
      BY <1>1, <1>6, <2>2, <3>1
  <2>3. CASE k = Len(pending) + 1
    <3>1. pending'[k].r = m.r
      BY <1>8, <2>1, <2>3
    <3> QED
      BY <1>5, <3>1
  <2> QED
    BY <1>8, <2>1, <2>2, <2>3
<1> QED
  BY <1>7, <1>8 DEF HandleMsg

LEMMA TrackedStep == ASSUME AckInv, TypeOK', [Next]_vars PROVE PendingTracked'
<1> USE DEF files, flusher, clients
<1> USE DEF AckInv
<1>1. CASE UNCHANGED <<files, flusher, fpc>>
  BY <1>1 DEF PendingTracked, In, DurableIn, File, Epoch
<1>2. CASE pending' = <<>>
  BY <1>2 DEF PendingTracked
<1>3. CASE Recv \/ Gather
  <2>1. chan # <<>> /\ HandleMsg(Head(chan)) /\ fpc \in {"recv", "gather"}
    BY <1>3 DEF Recv, Gather
  <2>2. Head(chan) \in Message
    <3>1. chan \in Seq(Message)
      BY DEF TypeOK
    <3> QED
      BY ONLY <2>1, <3>1
  <2>3. \A k \in 1 .. Len(pending') :
           pending'[k].r \in Frames => In(pending'[k].r, buf')
    BY <2>1, <2>2, HandleMsgTracks
  <2>4. fpc' \in {"write", "gather"}
    BY <1>3 DEF Recv, Gather
  <2>5. \A k \in 1 .. Len(pending') :
           pending'[k].r \in Frames => In(pending[k].r, buf)'
    BY <2>3 DEF In
  <2> QED
    BY <2>4, <2>5 DEF PendingTracked
<1>4. CASE GatherEnd
  BY <1>4 DEF GatherEnd, PendingTracked, In
<1>5. CASE Write
  <2>1. /\ fpc' = "sync"
        /\ pending' = pending
        /\ disk' = [disk EXCEPT ![Epoch] = File \o buf]
    BY <1>5 DEF Write, File
  <2>14. disk \in Seq(Seq(Entry)) /\ Len(disk) >= 1 /\ buf \in Seq(Frames)
    BY DEF TypeOK
  <2>2. /\ File \in Seq(Entry)
        /\ buf \in Seq(Entry)
        /\ Epoch \in 1 .. Len(disk)
    <3>1. Epoch \in 1 .. Len(disk)
      BY ONLY <2>14 DEF Epoch
    <3>2. File \in Seq(Entry)
      BY ONLY <2>14, <3>1 DEF File
    <3>3. buf \in Seq(Entry)
      BY ONLY <2>14 DEF Entry
    <3> QED
      BY <3>1, <3>2, <3>3
  <2>15. Len(disk') = Len(disk) /\ disk'[Epoch] = File \o buf
    BY ONLY <2>1, <2>2, <2>14
  <2>3. File' = File \o buf
    BY ONLY <2>15 DEF File, Epoch
  <2>4. ASSUME NEW f, In(f, buf) PROVE In(f, File)'
    <3>1. PICK i \in 1 .. Len(buf) : buf[i] = f
      BY <2>4 DEF In
    <3>2. /\ Len(File \o buf) = Len(File) + Len(buf)
          /\ (File \o buf)[Len(File) + i] = f
      BY <2>2, <3>1, ConcatEntries
    <3>3. Len(File) + i \in 1 .. Len(File')
      BY <2>2, <2>3, <3>2
    <3> QED
      BY <2>3, <3>2, <3>3 DEF In
  <2>5. \A k \in 1 .. Len(pending) :
           pending[k].r \in Frames => In(pending[k].r, buf)
    BY <1>5 DEF Write, PendingTracked
  <2> QED
    BY <2>1, <2>4, <2>5 DEF PendingTracked
<1>6. CASE WriteFail \/ SyncFail
  <2>1. fpc' = "ack" /\ result' = "err"
    BY <1>6 DEF WriteFail, SyncFail
  <2> QED
    BY <2>1 DEF PendingTracked
<1>7. CASE Sync
  <2>1. /\ fpc' = "ack"
        /\ pending' = pending
        /\ disk' = disk
        /\ synced' = [synced EXCEPT ![Epoch] = Len(File)]
    BY <1>7 DEF Sync
  <2>2. Epoch' = Epoch /\ Epoch \in 1 .. Len(synced)
    BY <2>1 DEF TypeOK, Epoch
  <2>3. synced'[Epoch] = Len(File)
    BY <2>1, <2>2 DEF TypeOK
  <2>4. ASSUME NEW f, In(f, File) PROVE DurableIn(f, Epoch)'
    BY <2>1, <2>2, <2>3, <2>4 DEF In, DurableIn, File
  <2>5. \A k \in 1 .. Len(pending) :
           pending[k].r \in Frames => In(pending[k].r, File)
    BY <1>7 DEF Sync, PendingTracked
  <2> QED
    BY <2>1, <2>4, <2>5 DEF PendingTracked
<1>8. CASE Ack
  <2>1. /\ fpc' = "ack" /\ fpc = "ack"
        /\ result' = result
        /\ UNCHANGED files
        /\ pending # <<>>
        /\ pending' = Tail(pending)
    BY <1>8 DEF Ack
  <2>2. /\ Len(pending') = Len(pending) - 1
        /\ \A k \in 1 .. Len(pending') : pending'[k] = pending[k + 1]
    BY <2>1 DEF TypeOK
  <2>3. ASSUME NEW k \in 1 .. Len(pending'), pending'[k].r \in Frames, result' = "ok"
        PROVE  DurableIn(pending[k].r, Epoch)'
    <3>1. k + 1 \in 1 .. Len(pending) /\ pending'[k] = pending[k + 1]
      BY <2>2 DEF TypeOK
    <3>2. DurableIn(pending[k + 1].r, Epoch)
      BY <2>1, <2>3, <3>1 DEF PendingTracked
    <3> QED
      BY <2>1, <3>1, <3>2 DEF DurableIn, Epoch
  <2> QED
    BY <2>1, <2>3 DEF PendingTracked
<1>9. CASE KeepEpoch \/ Roll \/ RollFail
  BY <1>2, <1>9 DEF KeepEpoch, Roll, RollFail
<1>10. CASE Close
  BY <1>10 DEF Close, PendingTracked
<1>11. CASE Reopen
  BY <1>2, <1>11 DEF Reopen, PendingTracked
<1>12. CASE Crash \/ Exit
  BY <1>2, <1>12 DEF Crash, Exit, ProcessEnds
<1> QED
  BY <1>1, <1>2, <1>3, <1>4, <1>5, <1>6, <1>7, <1>8, <1>9, <1>10, <1>11, <1>12
     DEF Next, vars, Begin, BeginAppend, BeginSync, BeginClose, Send, FlusherGone,
         FlusherStep

\* A step adds to the acknowledged frames at most the one the flusher
\* acknowledges, and that one is durable.
LEMMA AckedStep == ASSUME AckInv, TypeOK', [Next]_vars PROVE AckedDurable'
<1> USE DEF files, flusher, clients
<1>1. DurablePartKept
  BY DurableStep DEF AckInv
<1>2. ASSUME NEW f, NEW e \in 1 .. Len(disk), DurableIn(f, e)
      PROVE  \E d \in 1 .. Len(disk') : DurableIn(f, d)'
  BY <1>1, <1>2, DurableStays DEF AckInv
<1>3. ASSUME NEW a \in acks
      PROVE  \E d \in 1 .. Len(disk') : DurableIn(a.f, d)'
  BY <1>2, <1>3 DEF AckInv, AckedDurable
<1>4. ASSUME NEW a \in acks', a \notin acks
      PROVE  \E d \in 1 .. Len(disk') : DurableIn(a.f, d)'
  <2>1. Ack
    BY <1>4 DEF Next, vars, Begin, BeginAppend, BeginSync, BeginClose, Send,
                FlusherGone, FlusherStep, Recv, Gather, GatherEnd, Write, WriteFail,
                Sync, SyncFail, KeepEpoch, Roll, RollFail, Close, Crash, Exit,
                ProcessEnds, Reopen
  <2>2. /\ fpc = "ack" /\ result = "ok"
        /\ pending # <<>>
        /\ Head(pending).r \in Frames
        /\ a.f = Head(pending).r
    BY <1>4, <2>1 DEF Ack
  <2>3. 1 \in 1 .. Len(pending) /\ Head(pending) = pending[1]
    BY <2>2, FirstPending DEF AckInv
  <2>4. DurableIn(a.f, Epoch) /\ Epoch \in 1 .. Len(disk)
    BY <2>2, <2>3, FilesTyped DEF AckInv, PendingTracked
  <2> QED
    BY <1>2, <2>4
<1>5. \A a \in acks' : \E d \in 1 .. Len(disk') : DurableIn(a.f, d)'
  BY <1>3, <1>4
<1> QED
  BY <1>5 DEF AckedDurable

\* WalWriter::append answers Ok only for a frame that is in the synced part of
\* an epoch file, and the frame never leaves it: for any number of writers,
\* frames, failed writes, failed syncs, rollovers, crashes and reopenings.
THEOREM AcksAreDurable == Spec => []AckedDurable
<1>1. Init => AckInv
  <2>1. Init => PendingTracked /\ AckedDurable
    BY DEF Init, PendingTracked, AckedDurable
  <2> QED
    BY <2>1, TypeInit DEF AckInv
<1>2. AckInv /\ [Next]_vars => AckInv'
  <2> SUFFICES ASSUME AckInv, [Next]_vars PROVE AckInv'
    OBVIOUS
  <2>1. TypeOK'
    BY TypeStep DEF AckInv
  <2> QED
    BY <2>1, TrackedStep, AckedStep DEF AckInv
<1>3. AckInv => AckedDurable
  BY DEF AckInv
<1> QED
  BY <1>1, <1>2, <1>3, PTL DEF Spec
-----------------------------------------------------------------------------
(* Refinement: a stream implements StableLog.                              *)

LEMMA SeqGrows ==
    ASSUME NEW S, NEW T, S \subseteq T, NEW s \in Seq(S)
    PROVE  s \in Seq(T)
  OBVIOUS

\* Nothing is in the channel, the buffer or the files that no writer asked
\* for.
OnlyIssued ==
    /\ \A w \in Writers : req[w] \in issued \cup {SyncReq, CloseReq}
    /\ \A k \in 1 .. Len(chan) : chan[k].r \in issued \cup {SyncReq, CloseReq}
    /\ buf \in Seq(issued)
    /\ \A e \in 1 .. Len(disk) : disk[e] \in Seq(issued \cup {Torn})

\* The inductive invariant behind the refinement.
RefineInv == AckInv /\ OnlyIssued

LEMMA IssuedConcat ==
    ASSUME NEW s \in Seq(issued \cup {Torn}), NEW t \in Seq(issued \cup {Torn})
    PROVE  s \o t \in Seq(issued \cup {Torn})
  BY ConcatEntries

\* A prefix of issued frames, perhaps with a fragment behind it.
LEMMA IssuedPrefix ==
    ASSUME NEW s \in Seq(issued \cup {Torn}), NEW n \in 0 .. Len(s),
           NEW b \in BOOLEAN
    PROVE  SubSeq(s, 1, n) \o (IF b THEN <<Torn>> ELSE <<>>)
              \in Seq(issued \cup {Torn})
<1>1. SubSeq(s, 1, n) \in Seq(issued \cup {Torn})
  BY SubSeqProperties
<1>2. (IF b THEN <<Torn>> ELSE <<>>) \in Seq(issued \cup {Torn})
  <2>1. CASE b
    BY <2>1
  <2>2. CASE ~b
    BY <2>2
  <2> QED
    BY <2>1, <2>2
<1> QED
  BY <1>1, <1>2, IssuedConcat
\* What a crash leaves of an epoch was issued as well.
LEMMA SurvivorIssued ==
    ASSUME TypeOK, OnlyIssued, NEW e \in 1 .. Epoch, NEW s \in Survivors(e)
    PROVE  s \in Seq(issued \cup {Torn})
<1>1. PICK n \in synced[e] .. Len(InFlight(e)), torn \in BOOLEAN :
            s = CutFile(InFlight(e), n, torn)
  BY DEF Survivors
<1>2. synced[e] \in 0 .. Len(InFlight(e))
  BY InFlightEntries
<1>3. InFlight(e) \in Seq(issued \cup {Torn})
  <2>1. disk[e] \in Seq(issued \cup {Torn})
    BY DEF OnlyIssued, Epoch
  <2>2. buf \in Seq(issued \cup {Torn})
    BY SeqGrows DEF OnlyIssued
  <2> QED
    BY <2>1, <2>2, IssuedConcat DEF InFlight
<1>4. n \in 0 .. Len(InFlight(e))
  BY <1>2
<1>5. (torn /\ n < Len(InFlight(e))) \in BOOLEAN
  OBVIOUS
<1> QED
  BY <1>1, <1>3, <1>4, <1>5, IssuedPrefix DEF CutFile

\* A message joins the batch: the buffer still holds issued frames only.
LEMMA HandleMsgIssued ==
    ASSUME TypeOK, OnlyIssued, chan # <<>>, HandleMsg(Head(chan)),
           chan' = Tail(chan), UNCHANGED <<disk, req, issued>>
    PROVE  OnlyIssued'
<1>1. Head(chan) = chan[1] /\ 1 \in 1 .. Len(chan)
  BY DEF TypeOK
<1>2. Head(chan).r \in issued \cup {SyncReq, CloseReq}
  BY <1>1 DEF OnlyIssued
<1>3. buf' \in Seq(issued)
  <2>1. CASE Head(chan).r \in Frames
    <3>1. Head(chan).r \in issued
      BY <1>2, <2>1, FramesAreNotMarkers
    <3>2. buf' = Append(buf, Head(chan).r)
      BY <2>1 DEF HandleMsg
    <3> QED
      BY <3>1, <3>2 DEF OnlyIssued
  <2>2. CASE Head(chan).r \notin Frames
    BY <2>2 DEF HandleMsg, OnlyIssued
  <2> QED
    BY <2>1, <2>2
<1>4. \A k \in 1 .. Len(chan') : chan'[k].r \in issued \cup {SyncReq, CloseReq}
  <2>1. \A k \in 1 .. Len(chan') : chan'[k] = chan[k + 1] /\ k + 1 \in 1 .. Len(chan)
    BY DEF TypeOK
  <2> QED
    BY <2>1 DEF OnlyIssued
<1> QED
  BY <1>3, <1>4 DEF OnlyIssued

\* The current file is extended by something issued.
LEMMA ExtendedIssued ==
    ASSUME TypeOK, OnlyIssued, NEW t \in Seq(issued \cup {Torn}),
           disk' = [disk EXCEPT ![Epoch] = File \o t], issued' = issued
    PROVE  \A e \in 1 .. Len(disk') : disk'[e] \in Seq(issued' \cup {Torn})
<1>1. Epoch \in 1 .. Len(disk) /\ File \in Seq(issued \cup {Torn})
  BY DEF TypeOK, OnlyIssued, Epoch, File
<1>2. File \o t \in Seq(issued \cup {Torn})
  BY <1>1, IssuedConcat
<1>3. Len(disk') = Len(disk)
  BY <1>1, FilesTyped
<1>4. \A e \in 1 .. Len(disk) : disk'[e] = IF e = Epoch THEN File \o t ELSE disk[e]
  <2>1. PICK c : c = File \o t
    OBVIOUS
  <2>2. disk' = [disk EXCEPT ![Epoch] = c] /\ disk \in Seq(Seq(Entry))
    BY <2>1, FilesTyped
  <2>3. \A e \in 1 .. Len(disk) : disk'[e] = IF e = Epoch THEN c ELSE disk[e]
    BY ONLY <1>1, <2>2
  <2> QED
    BY <2>1, <2>3
<1> QED
  BY <1>2, <1>3, <1>4 DEF OnlyIssued

LEMMA OnlyIssuedInit == ASSUME Init PROVE OnlyIssued
<1>1. disk = << <<>> >> /\ Len(disk) = 1 /\ disk[1] = <<>>
  BY DEF Init
<1>2. <<>> \in Seq(issued) /\ <<>> \in Seq(issued \cup {Torn})
  OBVIOUS
<1>3. \A e \in 1 .. Len(disk) : disk[e] = <<>>
  BY <1>1
<1>4. chan = <<>> /\ buf = <<>> /\ req = [w \in Writers |-> SyncReq]
  BY DEF Init
<1>5. \A k \in 1 .. Len(chan) : FALSE
  BY <1>4
<1>6. \A w \in Writers : req[w] = SyncReq
  BY <1>4
<1> QED
  BY <1>2, <1>3, <1>4, <1>5, <1>6 DEF OnlyIssued

LEMMA OnlyIssuedStep == ASSUME TypeOK, OnlyIssued, [Next]_vars PROVE OnlyIssued'
<1> USE DEF files, flusher, clients
<1>1. CASE UNCHANGED <<disk, chan, req, issued, buf>>
  BY <1>1 DEF OnlyIssued
<1>2. ASSUME NEW w \in Writers, NEW f \in Frames, BeginAppend(w, f)
      PROVE  OnlyIssued'
  <2>1. /\ issued \subseteq issued' /\ f \in issued'
        /\ UNCHANGED <<disk, chan, buf>>
        /\ req' = [req EXCEPT ![w] = f]
    BY <1>2 DEF BeginAppend
  <2>2. \A v \in Writers : req'[v] \in issued' \cup {SyncReq, CloseReq}
    BY <2>1 DEF OnlyIssued, TypeOK
  <2>3. \A k \in 1 .. Len(chan') : chan'[k].r \in issued' \cup {SyncReq, CloseReq}
    BY <2>1 DEF OnlyIssued
  <2>4. buf' \in Seq(issued')
    BY <2>1, SeqGrows DEF OnlyIssued
  <2>5. issued \cup {Torn} \subseteq issued' \cup {Torn}
    BY <2>1
  <2>6. \A e \in 1 .. Len(disk') : disk'[e] \in Seq(issued' \cup {Torn})
    BY <2>1, <2>5, SeqGrows DEF OnlyIssued
  <2> QED
    BY <2>2, <2>3, <2>4, <2>6 DEF OnlyIssued
<1>3. ASSUME NEW w \in Writers, BeginSync(w) \/ BeginClose(w)
      PROVE  OnlyIssued'
  BY <1>3 DEF BeginSync, BeginClose, OnlyIssued, TypeOK
<1>4. ASSUME NEW w \in Writers, Send(w)
      PROVE  OnlyIssued'
  <2>1. /\ chan' = Append(chan, [w |-> w, r |-> req[w]])
        /\ UNCHANGED <<disk, req, issued, buf>>
    BY <1>4 DEF Send
  <2>2. /\ Len(chan') = Len(chan) + 1
        /\ \A k \in 1 .. Len(chan) : chan'[k] = chan[k]
        /\ chan'[Len(chan) + 1] = [w |-> w, r |-> req[w]]
    BY <2>1 DEF TypeOK
  <2>3. Len(chan) \in Nat
    BY DEF TypeOK
  <2>4. \A k \in 1 .. Len(chan') : k \in 1 .. Len(chan) \/ k = Len(chan) + 1
    BY <2>2, <2>3
  <2> QED
    BY <2>1, <2>2, <2>4 DEF OnlyIssued
<1>5. CASE Recv \/ Gather
  BY <1>5, HandleMsgIssued DEF Recv, Gather
<1>6. CASE Write
  <2>1. buf \in Seq(issued \cup {Torn})
    BY SeqGrows DEF OnlyIssued
  <2>2. disk' = [disk EXCEPT ![Epoch] = File \o buf] /\ UNCHANGED <<chan, req, issued>>
    BY <1>6 DEF Write, TypeOK, File
  <2>3. \A e \in 1 .. Len(disk') : disk'[e] \in Seq(issued' \cup {Torn})
    BY <2>1, <2>2, ExtendedIssued
  <2>4. buf' \in Seq(issued')
    BY <1>6 DEF Write
  <2> QED
    BY <2>2, <2>3, <2>4 DEF OnlyIssued
<1>7. CASE WriteFail
  <2>1. PICK n \in 0 .. Len(buf) - 1, torn \in BOOLEAN :
            disk' = [disk EXCEPT ![Epoch] = PartialWrite(n, torn)]
    BY <1>7 DEF WriteFail
  <2> DEFINE p == SubSeq(buf, 1, n)
             q == IF torn THEN <<Torn>> ELSE <<>>
             t == p \o q
  <2>2. buf \in Seq(issued \cup {Torn}) /\ n \in 0 .. Len(buf)
    BY SeqGrows DEF OnlyIssued
  <2>3. t \in Seq(issued \cup {Torn})
    BY <2>2, IssuedPrefix
  <2>4. PartialWrite(n, torn) = File \o t
    <3>1. p \in Seq(issued \cup {Torn})
      BY <2>2, SubSeqProperties
    <3>2. q \in Seq(issued \cup {Torn})
      <4>1. CASE torn
        BY <4>1
      <4>2. CASE ~torn
        BY <4>2
      <4> QED
        BY <4>1, <4>2
    <3>3. File \in Seq(issued \cup {Torn})
      BY DEF TypeOK, OnlyIssued, File, Epoch
    <3>4. PartialWrite(n, torn) = (File \o p) \o q
      BY DEF PartialWrite
    <3> HIDE DEF p, q
    <3>5. (File \o p) \o q = File \o (p \o q)
      BY <3>1, <3>2, <3>3, ConcatAssociative
    <3> QED
      BY <3>4, <3>5
  <2>5. disk' = [disk EXCEPT ![Epoch] = File \o t] /\ UNCHANGED <<chan, req, issued, buf>>
    BY <1>7, <2>1, <2>4 DEF WriteFail
  <2> HIDE DEF t
  <2>6. \A e \in 1 .. Len(disk') : disk'[e] \in Seq(issued' \cup {Torn})
    BY <2>3, <2>5, ExtendedIssued
  <2> QED
    BY <2>5, <2>6 DEF OnlyIssued
<1>8. CASE Roll
  <2>1. /\ Len(disk') = Len(disk) + 1
        /\ \A e \in 1 .. Len(disk) : disk'[e] = disk[e]
        /\ disk'[Len(disk) + 1] = <<>>
        /\ UNCHANGED <<chan, req, issued, buf>>
    BY <1>8 DEF Roll, TypeOK
  <2>2. Len(disk) \in Nat
    BY DEF TypeOK
  <2>3. \A e \in 1 .. Len(disk') : e \in 1 .. Len(disk) \/ e = Len(disk) + 1
    BY <2>1, <2>2
  <2>4. <<>> \in Seq(issued \cup {Torn})
    OBVIOUS
  <2>5. \A e \in 1 .. Len(disk') : disk'[e] \in Seq(issued' \cup {Torn})
    BY <2>1, <2>3, <2>4 DEF OnlyIssued
  <2> QED
    BY <2>1, <2>5 DEF OnlyIssued
<1>9. CASE RollFail \/ Close
  BY <1>9 DEF RollFail, Close, OnlyIssued
<1>10. CASE Crash
  <2>1. PICK d \in [1 .. Epoch -> UNION {Survivors(e) : e \in 1 .. Epoch}] :
            disk' = d /\ \A e \in 1 .. Epoch : d[e] \in Survivors(e)
    BY <1>10 DEF Crash
  <2>2. \A e \in 1 .. Epoch : d[e] \in Seq(issued \cup {Torn})
    BY <2>1, SurvivorIssued
  <2>3. Epoch \in Nat
    BY DEF TypeOK, Epoch
  <2>4. Len(d) = Epoch
    BY <2>1, <2>2, <2>3
  <2>5. chan' = <<>> /\ buf' = <<>> /\ UNCHANGED <<req, issued>>
    BY <1>10 DEF Crash, ProcessEnds
  <2> QED
    BY <2>1, <2>2, <2>4, <2>5 DEF OnlyIssued
<1>11. CASE Exit
  BY <1>11 DEF Exit, ProcessEnds, OnlyIssued
<1> QED
  BY <1>1, <1>2, <1>3, <1>4, <1>5, <1>6, <1>7, <1>8, <1>9, <1>10, <1>11
     DEF Next, vars, Begin, FlusherGone, FlusherStep, GatherEnd, Sync, SyncFail,
         Ack, KeepEpoch, Reopen

\* How one step changes what the callers see.
LEMMA RefineStep ==
    ASSUME RefineInv, TypeOK', [Next]_vars
    PROVE  [SL!Next]_<<issued, StableFrames, ReturnedFrames>>
<1> USE DEF files, flusher, clients
<1>1. DurablePartKept
  BY DurableStep DEF RefineInv, AckInv
<1>2. StableFrames \subseteq StableFrames'
  <2> SUFFICES ASSUME NEW f \in StableFrames PROVE f \in StableFrames'
    OBVIOUS
  <2>1. f \in Frames /\ \E e \in 1 .. Len(disk) : DurableIn(f, e)
    BY DEF StableFrames
  <2>2. \E e \in 1 .. Len(disk') : DurableIn(f, e)'
    BY <1>1, <2>1, DurableStays DEF RefineInv, AckInv
  <2> QED
    BY <2>1, <2>2 DEF StableFrames
\* The files are as durable as before: nothing settles.
<1>3. CASE disk' = disk /\ synced' = synced
  <2>1. StableFrames' = StableFrames
    BY <1>3 DEF StableFrames, DurableIn
  <2>2. CASE UNCHANGED <<issued, acks>>
    BY <2>1, <2>2 DEF ReturnedFrames
  <2>3. ASSUME NEW w \in Writers, NEW f \in Frames, BeginAppend(w, f)
        PROVE  SL!Next
    <3>1. SL!Ask(f)
      BY <2>1, <2>3 DEF BeginAppend, SL!Ask, ReturnedFrames
    <3> QED
      BY <3>1 DEF SL!Next
  <2>4. CASE Ack /\ acks' # acks
    <3> DEFINE p == Head(pending)
               a == [f |-> p.r, epoch |-> Epoch, end |-> p.end]
    <3>1. /\ result = "ok" /\ p.r \in Frames /\ fpc = "ack" /\ pending # <<>>
          /\ acks' = acks \cup {a}
          /\ issued' = issued
      BY <2>4 DEF Ack
    <3>2. 1 \in 1 .. Len(pending) /\ p = pending[1]
      BY <3>1, FirstPending DEF RefineInv, AckInv
    <3>3. DurableIn(p.r, Epoch) /\ Epoch \in 1 .. Len(disk)
      BY <3>1, <3>2, FilesTyped DEF RefineInv, AckInv, PendingTracked
    <3>4. p.r \in StableFrames
      BY <3>1, <3>3 DEF StableFrames
    <3>5. a.f = p.r
      OBVIOUS
    <3> HIDE DEF p, a
    <3>6. ReturnedFrames' = ReturnedFrames \cup {p.r}
      BY <3>1, <3>5 DEF ReturnedFrames
    <3>7. CASE p.r \in ReturnedFrames
      BY <2>1, <3>1, <3>6, <3>7
    <3>8. CASE p.r \notin ReturnedFrames
      <4>1. SL!Return(p.r)
        BY <2>1, <3>1, <3>4, <3>6, <3>8 DEF SL!Return
      <4> QED
        BY <3>1, <4>1 DEF SL!Next
    <3> QED
      BY <3>7, <3>8
  <2> QED
    BY <1>3, <2>2, <2>3, <2>4
       DEF Next, vars, Begin, BeginSync, BeginClose, Send, FlusherGone, FlusherStep,
           Recv, Gather, GatherEnd, Write, WriteFail, Sync, SyncFail, Ack, KeepEpoch,
           Roll, RollFail, Close, Crash, Exit, ProcessEnds, Reopen
\* The files or their sync marks change: no call begins or returns.
<1>4. CASE ~(disk' = disk /\ synced' = synced)
  <2>1. issued' = issued /\ acks' = acks
    BY <1>4 DEF Next, vars, Begin, BeginAppend, BeginSync, BeginClose, Send,
           FlusherGone, FlusherStep, Recv, Gather, GatherEnd, Write, WriteFail,
           Sync, SyncFail, Ack, KeepEpoch, Roll, RollFail, Close, Crash, Exit,
           ProcessEnds, Reopen
  <2>2. ReturnedFrames' = ReturnedFrames
    BY <2>1 DEF ReturnedFrames
  <2>3. OnlyIssued'
    BY OnlyIssuedStep DEF RefineInv, AckInv
  <2>4. StableFrames' \subseteq issued
    <3> SUFFICES ASSUME NEW f \in StableFrames' PROVE f \in issued
      OBVIOUS
    <3>1. f \in Frames
      BY DEF StableFrames
    <3>2. PICK e \in 1 .. Len(disk') : \E j \in 1 .. synced'[e] : disk'[e][j] = f
      BY DEF StableFrames, DurableIn
    <3>3. PICK i \in 1 .. synced'[e] : disk'[e][i] = f
      BY <3>2
    <3>4. disk'[e] \in Seq(issued \cup {Torn})
      BY <2>1, <2>3, <3>2 DEF OnlyIssued
    <3>5. synced'[e] \in Nat /\ synced'[e] <= Len(disk'[e])
      <4>1. /\ synced' \in Seq(Nat) /\ Len(synced') = Len(disk')
            /\ \A d \in 1 .. Len(disk') : synced'[d] <= Len(disk'[d])
        BY DEF TypeOK
      <4> QED
        BY ONLY <3>2, <4>1
    <3>6. i \in 1 .. Len(disk'[e])
      BY <3>3, <3>4, <3>5
    <3> QED
      BY <3>1, <3>3, <3>4, <3>6, FramesAreNotMarkers
  <2> DEFINE batch == StableFrames' \ StableFrames
  <2>5. CASE batch = {}
    BY <1>2, <2>1, <2>2, <2>5
  <2>6. CASE batch # {}
    <3>1. StableFrames' = StableFrames \cup batch
      BY <1>2
    <3>2. batch \subseteq issued \ StableFrames
      BY <2>4
    <3>3. batch \in SUBSET Frames
      BY DEF StableFrames
    <3> HIDE DEF batch
    <3>4. SL!Settle(batch)
      BY <2>1, <2>2, <2>6, <3>1, <3>2 DEF SL!Settle
    <3> QED
      BY <3>3, <3>4 DEF SL!Next
  <2> QED
    BY <2>5, <2>6
<1> QED
  BY <1>3, <1>4

\* A WAL stream implements StableLog, the promise WalWriter::append makes its
\* callers (wal.rs:178): for any number of writers, frames, faults, crashes and
\* reopenings, frames settle only when asked for, stay settled, and are returned
\* only once settled.
THEOREM StreamImplementsLog == Spec => ImplementsStableLog
<1>1. Init => RefineInv
  <2>1. Init => PendingTracked /\ AckedDurable
    BY DEF Init, PendingTracked, AckedDurable
  <2> QED
    BY <2>1, OnlyIssuedInit, TypeInit DEF RefineInv, AckInv
<1>2. RefineInv /\ [Next]_vars => RefineInv'
  <2> SUFFICES ASSUME RefineInv, [Next]_vars PROVE RefineInv'
    OBVIOUS
  <2>1. TypeOK'
    BY TypeStep DEF RefineInv, AckInv
  <2> QED
    BY <2>1, TrackedStep, AckedStep, OnlyIssuedStep DEF RefineInv, AckInv
<1>3. Init => SL!Init
  BY DEF Init, SL!Init, StableFrames, DurableIn, ReturnedFrames
<1>4. RefineInv /\ RefineInv' /\ [Next]_vars => [SL!Next]_<<issued, StableFrames, ReturnedFrames>>
  BY RefineStep DEF RefineInv, AckInv
<1> QED
  BY <1>1, <1>2, <1>3, <1>4, PTL DEF Spec, ImplementsStableLog, SL!Spec, SL!logvars

-----------------------------------------------------------------------------
(* No frame twice.  A frame is with its sender, in the channel, in the     *)
(* buffer or in the files, and in one place only, until a write fails and  *)
(* leaves a part of the buffer in the file.                                *)

Sending(w, f) == wpc[w] = "send" /\ req[w] = f
Queued(f) == \E k \in 1 .. Len(chan) : chan[k].r = f
Somewhere(f, d) == \E e \in 1 .. Len(d) : In(f, d[e])

DistinctIn(d) ==
    \A a, b \in 1 .. Len(d) : \A i \in 1 .. Len(d[a]), j \in 1 .. Len(d[b]) :
        d[a][i] = d[b][j] /\ d[a][i] # Torn => a = b /\ i = j

OnePlace ==
    /\ \A f \in Frames : \A w, v \in Writers : Sending(w, f) /\ Sending(v, f) => w = v
    /\ \A f \in Frames : \A w \in Writers :
          Sending(w, f) => ~Queued(f) /\ ~In(f, buf) /\ ~Somewhere(f, disk)
    /\ \A f \in Frames : Queued(f) => ~In(f, buf) /\ ~Somewhere(f, disk)
    /\ \A f \in Frames : In(f, buf) => ~Somewhere(f, disk)

OnceEach ==
    /\ \A j, k \in 1 .. Len(chan) :
          chan[j].r = chan[k].r /\ chan[j].r \in Frames => j = k
    /\ \A j, k \in 1 .. Len(buf) : buf[j] = buf[k] => j = k
    /\ DistinctIn(disk)

OnceInv == faults["write"] = 0 => OnePlace /\ OnceEach

LEMMA SameDistinct ==
    ASSUME NEW x, NEW d, DistinctIn(d), Len(x) = Len(d),
           \A e \in 1 .. Len(d) : x[e] = d[e]
    PROVE  DistinctIn(x)
  BY DEF DistinctIn

\* A crash cuts files, and may leave fragments.
LEMMA CutDistinct ==
    ASSUME NEW c, NEW d, DistinctIn(d), Len(c) = Len(d),
           \A e \in 1 .. Len(d) : \A i \in 1 .. Len(c[e]) :
              c[e][i] = Torn \/ (i \in 1 .. Len(d[e]) /\ c[e][i] = d[e][i])
    PROVE  /\ DistinctIn(c)
           /\ \A f \in Frames : Somewhere(f, c) => Somewhere(f, d)
<1>1. DistinctIn(c)
  <2>1. ASSUME NEW a \in 1 .. Len(c), NEW b \in 1 .. Len(c),
               NEW i \in 1 .. Len(c[a]), NEW j \in 1 .. Len(c[b]),
               c[a][i] = c[b][j], c[a][i] # Torn
        PROVE  a = b /\ i = j
    <3>1. a \in 1 .. Len(d) /\ b \in 1 .. Len(d)
      OBVIOUS
    <3>2. i \in 1 .. Len(d[a]) /\ c[a][i] = d[a][i]
      BY <2>1, <3>1
    <3>3. j \in 1 .. Len(d[b]) /\ c[b][j] = d[b][j]
      BY <2>1, <3>1
    <3>4. d[a][i] = d[b][j] /\ d[a][i] # Torn
      BY <2>1, <3>2, <3>3
    <3> QED
      BY <3>1, <3>2, <3>3, <3>4 DEF DistinctIn
  <2> QED
    BY ONLY <2>1 DEF DistinctIn
<1>2. \A f \in Frames : Somewhere(f, c) => Somewhere(f, d)
  BY FramesAreNotMarkers DEF Somewhere, In
<1> QED
  BY <1>1, <1>2

\* A write moves the buffer to the end of the current file.
LEMMA WrittenDistinct ==
    ASSUME TypeOK, OnePlace, OnceEach, NEW d, d = [disk EXCEPT ![Epoch] = File \o buf]
    PROVE  /\ Len(d) = Len(disk) /\ d[Epoch] = File \o buf
           /\ \A e \in 1 .. Len(disk) \ {Epoch} : d[e] = disk[e]
           /\ DistinctIn(d)
           /\ \A f \in Frames : Somewhere(f, d) => Somewhere(f, disk) \/ In(f, buf)
<1>1. /\ disk \in Seq(Seq(Entry)) /\ Epoch \in 1 .. Len(disk)
      /\ File \in Seq(Entry) /\ buf \in Seq(Entry)
      /\ \A j \in 1 .. Len(buf) : buf[j] \in Frames
      /\ Len(File) \in Nat /\ Len(buf) \in Nat
  BY DEF TypeOK, Epoch, File, Entry
<1>2. /\ Len(File \o buf) = Len(File) + Len(buf)
      /\ \A i \in 1 .. Len(File) : (File \o buf)[i] = File[i]
      /\ \A i \in 1 .. Len(buf) : (File \o buf)[Len(File) + i] = buf[i]
  BY <1>1, ConcatEntries
<1>3. /\ Len(d) = Len(disk) /\ d[Epoch] = File \o buf
      /\ \A e \in 1 .. Len(disk) \ {Epoch} : d[e] = disk[e]
  BY <1>1
\* An entry is an old one, or one of the buffer.
<1>4. ASSUME NEW e \in 1 .. Len(disk), NEW i \in 1 .. Len(d[e])
      PROVE  \/ i \in 1 .. Len(disk[e]) /\ d[e][i] = disk[e][i]
             \/ /\ e = Epoch /\ i - Len(File) \in 1 .. Len(buf)
                /\ d[e][i] = buf[i - Len(File)]
  <2>1. CASE e # Epoch
    BY <1>3, <2>1
  <2>2. CASE e = Epoch /\ i <= Len(File)
    BY <1>1, <1>2, <1>3, <2>2 DEF File
  <2>3. CASE e = Epoch /\ i > Len(File)
    <3>1. i - Len(File) \in 1 .. Len(buf) /\ i = Len(File) + (i - Len(File))
      BY <1>1, <1>2, <1>3, <2>3
    <3>2. d[e][i] = buf[i - Len(File)]
      BY <1>2, <1>3, <2>3, <3>1
    <3> QED
      BY <2>3, <3>1, <3>2
  <2> QED
    BY <1>1, <2>1, <2>2, <2>3
<1>5. \A k \in 1 .. Len(buf) : \A e \in 1 .. Len(disk) : \A i \in 1 .. Len(disk[e]) :
         buf[k] # disk[e][i]
  BY <1>1 DEF OnePlace, Somewhere, In
<1>6. ASSUME NEW a \in 1 .. Len(disk), NEW b \in 1 .. Len(disk),
             NEW i \in 1 .. Len(d[a]), NEW j \in 1 .. Len(d[b]),
             d[a][i] = d[b][j], d[a][i] # Torn
      PROVE  a = b /\ i = j
  <2>1. CASE i \in 1 .. Len(disk[a]) /\ d[a][i] = disk[a][i]
    <3>1. \/ j \in 1 .. Len(disk[b]) /\ d[b][j] = disk[b][j]
          \/ /\ b = Epoch /\ j - Len(File) \in 1 .. Len(buf)
             /\ d[b][j] = buf[j - Len(File)]
      BY <1>4
    <3>2. ASSUME j - Len(File) \in 1 .. Len(buf), d[b][j] = buf[j - Len(File)]
          PROVE  FALSE
      BY <1>5, <1>6, <2>1, <3>2
    <3> QED
      BY <1>6, <2>1, <3>1, <3>2 DEF OnceEach, DistinctIn
  <2>2. CASE /\ a = Epoch /\ i - Len(File) \in 1 .. Len(buf)
             /\ d[a][i] = buf[i - Len(File)]
    <3>4. \/ j \in 1 .. Len(disk[b]) /\ d[b][j] = disk[b][j]
          \/ /\ b = Epoch /\ j - Len(File) \in 1 .. Len(buf)
             /\ d[b][j] = buf[j - Len(File)]
      BY <1>4
    <3>5. ASSUME j \in 1 .. Len(disk[b]), d[b][j] = disk[b][j]
          PROVE  FALSE
      BY <1>5, <1>6, <2>2, <3>5
    <3>1. /\ b = Epoch /\ j - Len(File) \in 1 .. Len(buf)
          /\ d[b][j] = buf[j - Len(File)]
      BY <3>4, <3>5
    <3>2. i - Len(File) = j - Len(File)
      BY <1>6, <2>2, <3>1 DEF OnceEach
    <3>3. i \in Int /\ j \in Int
      OBVIOUS
    <3> QED
      BY <1>1, <2>2, <3>1, <3>2, <3>3
  <2> QED
    BY <1>4, <2>1, <2>2
<1>7. DistinctIn(d)
  BY <1>3, <1>6 DEF DistinctIn
<1>8. \A f \in Frames : Somewhere(f, d) => Somewhere(f, disk) \/ In(f, buf)
  BY <1>3, <1>4 DEF Somewhere, In
<1> QED
  BY <1>3, <1>7, <1>8

\* Places only empty.
LEMMA PlacesShrink ==
    ASSUME OnePlace,
           \A f \in Frames : /\ \A w \in Writers : Sending(w, f)' => Sending(w, f)
                             /\ Queued(f)' => Queued(f)
                             /\ In(f, buf') => In(f, buf)
                             /\ Somewhere(f, disk') => Somewhere(f, disk)
    PROVE  OnePlace'
<1>1. \A f : (In(f, buf))' <=> In(f, buf')
  BY DEF In
<1>2. \A f : (Somewhere(f, disk))' <=> Somewhere(f, disk')
  BY DEF Somewhere, In
<1> QED
  BY <1>1, <1>2 DEF OnePlace

\* A fault budget is never given back.
LEMMA SpendGrows ==
    ASSUME TypeOK, NEW k \in FaultKinds, Spend(k)
    PROVE  faults'["write"] = 0 => faults["write"] = 0 /\ k # "write"
<1>1. "write" \in FaultKinds /\ faults \in [FaultKinds -> Nat]
  BY DEF FaultKinds, TypeOK
<1>2. faults' = [faults EXCEPT ![k] = faults[k] + 1] /\ faults[k] \in Nat
  BY <1>1 DEF Spend
<1> QED
  BY <1>1, <1>2

\* A frame nobody has asked for yet is nowhere.
LEMMA UnissuedNowhere ==
    ASSUME TypeOK, OnlyIssued, NEW f \in Frames, f \notin issued
    PROVE  /\ \A w \in Writers : ~Sending(w, f)
           /\ ~Queued(f) /\ ~In(f, buf) /\ ~Somewhere(f, disk)
<1>1. f # SyncReq /\ f # CloseReq /\ f # Torn
  BY FramesAreNotMarkers
<1>2. (\A w \in Writers : ~Sending(w, f)) /\ ~Queued(f)
  BY <1>1 DEF OnlyIssued, Sending, Queued
<1>3. ~In(f, buf)
  <2>1. \A k \in 1 .. Len(buf) : buf[k] \in issued
    BY DEF OnlyIssued
  <2> QED
    BY <2>1 DEF In
<1>4. ~Somewhere(f, disk)
  <2>1. ASSUME NEW e \in 1 .. Len(disk), NEW i \in 1 .. Len(disk[e])
        PROVE  disk[e][i] \in issued \cup {Torn}
    BY <2>1 DEF OnlyIssued
  <2> QED
    BY <1>1, <2>1 DEF Somewhere, In
<1> QED
  BY <1>2, <1>3, <1>4

\* A message goes from the channel to the buffer.
LEMMA HandleMsgOnce ==
    ASSUME TypeOK, OnePlace, OnceEach, chan # <<>>, HandleMsg(Head(chan)),
           chan' = Tail(chan), UNCHANGED <<disk, wpc, req>>
    PROVE  OnePlace' /\ OnceEach'
<1> DEFINE m == chan[1].r
<1>1. /\ Head(chan) = chan[1] /\ 1 \in 1 .. Len(chan) /\ chan[1] \in Message
      /\ \A k \in 1 .. Len(chan') : chan'[k] = chan[k + 1] /\ k + 1 \in 1 .. Len(chan)
  BY DEF TypeOK
<1>2. \A f \in Frames : Queued(f)' => Queued(f) /\ f # m
  <2> SUFFICES ASSUME NEW f \in Frames, Queued(f)'
               PROVE  Queued(f) /\ f # m
    OBVIOUS
  <2>1. PICK k \in 1 .. Len(chan') : chan'[k].r = f
    BY DEF Queued
  <2>2. chan[k + 1].r = f /\ k + 1 \in 1 .. Len(chan) /\ k + 1 # 1
    BY <1>1, <2>1
  <2> QED
    BY <1>1, <2>2 DEF Queued, OnceEach
<1>3. \A j, k \in 1 .. Len(chan') :
         chan'[j].r = chan'[k].r /\ chan'[j].r \in Frames => j = k
  <2> SUFFICES ASSUME NEW j \in 1 .. Len(chan'), NEW k \in 1 .. Len(chan'),
                      chan'[j].r = chan'[k].r, chan'[j].r \in Frames
               PROVE  j = k
    OBVIOUS
  <2>1. j + 1 = k + 1
    BY <1>1 DEF OnceEach
  <2>2. j \in Int /\ k \in Int
    OBVIOUS
  <2> QED
    BY <2>1, <2>2
<1>4. \A w \in Writers : \A f : Sending(w, f)' <=> Sending(w, f)
  BY DEF Sending
<1>5. CASE m \notin Frames
  <2>1. buf' = buf
    BY <1>1, <1>5 DEF HandleMsg
  <2>2. OnePlace'
    BY <1>2, <1>4, <2>1, PlacesShrink
  <2> QED
    BY <1>3, <2>1, <2>2 DEF OnceEach, DistinctIn
<1>6. CASE m \in Frames
  <2>1. buf' = Append(buf, m) /\ buf \in Seq(Frames) /\ Len(buf) \in Nat
    BY <1>1, <1>6 DEF HandleMsg, TypeOK
  <2>2. Queued(m)
    BY <1>1 DEF Queued
  <2> HIDE DEF m
  <2>3. /\ Len(buf') = Len(buf) + 1
        /\ \A k \in 1 .. Len(buf) : buf'[k] = buf[k]
        /\ buf'[Len(buf) + 1] = m
    BY <1>6, <2>1
  <2>4. \A k \in 1 .. Len(buf') : k \in 1 .. Len(buf) \/ k = Len(buf) + 1
    BY <2>1, <2>3
  <2>5. \A f : In(f, buf)' => In(f, buf) \/ f = m
    BY <2>3, <2>4 DEF In
  <2>6. ~In(m, buf) /\ ~Somewhere(m, disk) /\ \A w \in Writers : ~Sending(w, m)
    BY <1>6, <2>2 DEF OnePlace
  <2>7. \A f : Somewhere(f, disk)' <=> Somewhere(f, disk)
    BY DEF Somewhere, In
  <2>8. OnePlace'
    BY <1>2, <1>4, <2>5, <2>6, <2>7 DEF OnePlace
  <2>9. \A j, k \in 1 .. Len(buf') : buf'[j] = buf'[k] => j = k
    BY <2>3, <2>4, <2>6 DEF In, OnceEach
  <2> QED
    BY <1>3, <2>8, <2>9 DEF OnceEach, DistinctIn
<1> QED
  BY <1>5, <1>6

\* What a crash leaves of the files, a write_all under way included.
LEMMA CrashDistinct ==
    ASSUME TypeOK, OnePlace, OnceEach,
           NEW d \in [1 .. Epoch -> UNION {Survivors(e) : e \in 1 .. Epoch}],
           \A e \in 1 .. Epoch : d[e] \in Survivors(e)
    PROVE  DistinctIn(d)
<1> DEFINE full == [e \in 1 .. Epoch |-> InFlight(e)]
<1>1. Epoch \in Nat /\ Epoch = Len(disk) /\ Epoch \in 1 .. Epoch
  BY DEF TypeOK, Epoch
<1>2. \A e \in 1 .. Epoch : d[e] \in Seq(Entry)
  BY SurvivorEntries
<1>3. Len(d) = Epoch
  BY <1>1, <1>2
<1>4. Len(full) = Epoch /\ \A e \in 1 .. Epoch : full[e] = InFlight(e)
  <2>1. \A e \in 1 .. Epoch : InFlight(e) \in Seq(Entry)
    BY InFlightEntries
  <2> QED
    BY <1>1, <2>1
<1> HIDE DEF full
<1>5. DistinctIn(full)
  <2>1. CASE fpc = "write"
    <3>1. PICK x : x = [disk EXCEPT ![Epoch] = File \o buf]
      OBVIOUS
    <3>2. /\ Len(x) = Len(disk) /\ x[Epoch] = File \o buf
          /\ \A e \in 1 .. Len(disk) \ {Epoch} : x[e] = disk[e]
          /\ DistinctIn(x)
      BY <3>1, WrittenDistinct
    <3>3. \A e \in 1 .. Epoch : full[e] = x[e]
      BY <1>1, <1>4, <2>1, <3>2 DEF InFlight, File
    <3> QED
      BY <1>1, <1>4, <3>2, <3>3, SameDistinct
  <2>2. CASE fpc # "write"
    <3>1. \A e \in 1 .. Epoch : full[e] = disk[e]
      BY <1>4, <2>2 DEF InFlight
    <3> QED
      BY <1>1, <1>4, <3>1, SameDistinct DEF OnceEach
  <2> QED
    BY <2>1, <2>2
<1>6. ASSUME NEW e \in 1 .. Epoch, NEW i \in 1 .. Len(d[e])
      PROVE  d[e][i] = Torn \/ (i \in 1 .. Len(full[e]) /\ d[e][i] = full[e][i])
  <2>1. PICK n \in synced[e] .. Len(InFlight(e)), torn \in BOOLEAN :
              d[e] = CutFile(InFlight(e), n, torn)
    BY DEF Survivors
  <2>2. InFlight(e) \in Seq(Entry) /\ synced[e] \in 0 .. Len(InFlight(e))
    BY InFlightEntries
  <2>3. n \in 0 .. Len(InFlight(e)) /\ n \in Nat
    BY <2>2
  <2> DEFINE p == SubSeq(InFlight(e), 1, n)
             q == IF torn /\ n < Len(InFlight(e)) THEN <<Torn>> ELSE <<>>
  <2>4. p \in Seq(Entry) /\ Len(p) = n /\ \A k \in 1 .. n : p[k] = InFlight(e)[k]
    <3>1. PICK x : x = InFlight(e) /\ x \in Seq(Entry) /\ n \in 0 .. Len(x)
      BY <2>2, <2>3
    <3>2. PICK y : y = SubSeq(x, 1, n)
      OBVIOUS
    <3>3. y \in Seq(Entry) /\ Len(y) = n /\ \A k \in 1 .. n : y[k] = x[k]
      BY ONLY <2>3, <3>1, <3>2, SubSeqProperties
    <3> QED
      BY <3>1, <3>2, <3>3
  <2>5. q \in Seq(Entry) /\ \A k \in 1 .. Len(q) : q[k] = Torn
    <3>1. q = <<Torn>> \/ q = <<>>
      OBVIOUS
    <3> HIDE DEF q
    <3>2. CASE q = <<Torn>>
      BY <3>2 DEF Entry
    <3>3. CASE q = <<>>
      BY <3>3
    <3> QED
      BY <3>1, <3>2, <3>3
  <2>6. d[e] = p \o q
    BY <2>1 DEF CutFile
  <2> HIDE DEF p, q
  <2>7. /\ Len(p \o q) = n + Len(q)
        /\ \A k \in 1 .. n : (p \o q)[k] = p[k]
        /\ \A k \in 1 .. Len(q) : (p \o q)[n + k] = q[k]
    <3>1. /\ Len(p \o q) = Len(p) + Len(q)
          /\ \A k \in 1 .. Len(p) : (p \o q)[k] = p[k]
          /\ \A k \in 1 .. Len(q) : (p \o q)[Len(p) + k] = q[k]
      <4>1. p \in Seq(Entry) /\ q \in Seq(Entry)
        BY <2>4, <2>5
      <4> QED
        BY ONLY <4>1, ConcatEntries
    <3> QED
      BY <2>4, <3>1
  <2>8. Len(q) \in Nat
    BY <2>5
  <2>9. CASE i <= n
    <3>1. i \in 1 .. n /\ i \in 1 .. Len(full[e])
      BY <1>4, <2>2, <2>3, <2>9
    <3> QED
      BY <1>4, <2>4, <2>6, <2>7, <3>1
  <2>10. CASE i > n
    <3>1. i - n \in 1 .. Len(q) /\ i = n + (i - n)
      BY <2>3, <2>6, <2>7, <2>8, <2>10
    <3> QED
      BY <2>5, <2>6, <2>7, <3>1
  <2> QED
    BY <2>3, <2>9, <2>10
<1> QED
  BY <1>3, <1>4, <1>5, <1>6, CutDistinct

LEMMA OnceStep ==
    ASSUME TypeOK, OnlyIssued, OnceInv, [Next]_vars PROVE OnceInv'
<1> USE DEF files, flusher, clients
<1> SUFFICES ASSUME faults'["write"] = 0 PROVE OnePlace' /\ OnceEach'
  BY DEF OnceInv
<1>1. faults["write"] = 0 /\ ~WriteFail
  <2>1. ASSUME NEW k \in FaultKinds, Spend(k) PROVE faults["write"] = 0 /\ k # "write"
    BY <2>1, SpendGrows
  <2>2. CASE faults' = faults
    <3>1. ~WriteFail
      BY <2>1 DEF WriteFail, FaultKinds
    <3> QED
      BY <2>2, <3>1
  <2>3. CASE \E k \in FaultKinds : Spend(k)
    <3>1. ~WriteFail
      BY <2>1 DEF WriteFail, FaultKinds
    <3> QED
      BY <2>1, <2>3, <3>1
  <2>4. {"sync_call", "close_call", "crash", "write", "sync", "open"} = FaultKinds
    BY DEF FaultKinds
  <2> QED
    BY <2>2, <2>3, <2>4 DEF Next, vars, Begin, BeginAppend, BeginSync, BeginClose,
       Send, FlusherGone, FlusherStep, Recv, Gather, GatherEnd, Write, WriteFail,
       Sync, SyncFail, Ack, KeepEpoch, Roll, RollFail, Close, Crash, Exit, Reopen
<1>2. OnePlace /\ OnceEach
  BY <1>1 DEF OnceInv
\* The sender alone changes, and does not send a frame afterwards.
<1>3. ASSUME NEW w \in Writers, UNCHANGED <<disk, chan, buf>>,
             \A v \in Writers : \A f \in Frames : Sending(v, f)' => Sending(v, f)
      PROVE  OnePlace' /\ OnceEach'
  <2>1. OnePlace'
    BY <1>2, <1>3, PlacesShrink DEF Queued
  <2>2. OnceEach
    BY <1>2
  <2>3. OnceEach'
    BY <1>3, <2>2 DEF OnceEach, DistinctIn
  <2> QED
    BY <2>1, <2>3
<1>4. CASE UNCHANGED <<disk, chan, buf, wpc, req>>
  <2>1. OnePlace'
    BY <1>2, <1>4, PlacesShrink DEF Queued, Sending
  <2> QED
    BY <1>2, <1>4, <2>1 DEF OnceEach, DistinctIn
<1>5. ASSUME NEW w \in Writers, NEW f \in Frames, BeginAppend(w, f)
      PROVE  OnePlace' /\ OnceEach'
  <2>1. /\ UNCHANGED <<disk, chan, buf>> /\ f \notin issued
        /\ wpc' = [wpc EXCEPT ![w] = "send"] /\ req' = [req EXCEPT ![w] = f]
    BY <1>5 DEF BeginAppend
  <2>2. /\ \A v \in Writers : ~Sending(v, f)
        /\ ~Queued(f) /\ ~In(f, buf) /\ ~Somewhere(f, disk)
    BY <2>1, UnissuedNowhere
  <2>3. \A v \in Writers : \A g \in Frames :
           Sending(v, g)' => (v = w /\ g = f) \/ (v # w /\ Sending(v, g))
    BY <2>1 DEF Sending, TypeOK
  <2>4. \A g : (Queued(g)' <=> Queued(g)) /\ (In(g, buf)' <=> In(g, buf))
               /\ (Somewhere(g, disk)' <=> Somewhere(g, disk))
    BY <2>1 DEF Queued, In, Somewhere
  <2>5. OnePlace'
    BY <1>2, <2>2, <2>3, <2>4 DEF OnePlace
  <2> QED
    BY <1>2, <2>1, <2>5 DEF OnceEach, DistinctIn
<1>6. ASSUME NEW w \in Writers, BeginSync(w) \/ BeginClose(w) \/ FlusherGone(w)
      PROVE  OnePlace' /\ OnceEach'
  <2>1. \A v \in Writers : \A f \in Frames : Sending(v, f)' => Sending(v, f)
    BY <1>6, FramesAreNotMarkers DEF BeginSync, BeginClose, FlusherGone, Sending, TypeOK
  <2>2. UNCHANGED <<disk, chan, buf>>
    BY <1>6 DEF BeginSync, BeginClose, FlusherGone
  <2> QED
    BY <1>3, <2>1, <2>2
<1>7. ASSUME NEW w \in Writers, Send(w) PROVE OnePlace' /\ OnceEach'
  <2>1. /\ chan' = Append(chan, [w |-> w, r |-> req[w]]) /\ wpc[w] = "send"
        /\ wpc' = [wpc EXCEPT ![w] = "wait"] /\ UNCHANGED <<disk, buf, req>>
    BY <1>7 DEF Send
  <2>2. /\ Len(chan') = Len(chan) + 1
        /\ \A k \in 1 .. Len(chan) : chan'[k] = chan[k]
        /\ chan'[Len(chan) + 1] = [w |-> w, r |-> req[w]]
    BY <2>1 DEF TypeOK
  <2>3. Len(chan) \in Nat
    BY DEF TypeOK
  <2>4. \A k \in 1 .. Len(chan') : k \in 1 .. Len(chan) \/ k = Len(chan) + 1
    BY <2>2, <2>3
  <2>5. \A f : Queued(f)' => Queued(f) \/ f = req[w]
    BY <2>2, <2>4 DEF Queued
  <2>6. Sending(w, req[w])
    BY <2>1 DEF Sending
  <2>7. \A v \in Writers : \A f : Sending(v, f)' => v # w /\ Sending(v, f)
    BY <2>1 DEF Sending, TypeOK
  <2>8. \A g : (In(g, buf)' <=> In(g, buf)) /\ (Somewhere(g, disk)' <=> Somewhere(g, disk))
    BY <2>1 DEF In, Somewhere
  <2>9. OnePlace'
    BY <1>2, <2>5, <2>6, <2>7, <2>8 DEF OnePlace
  <2>10. \A j, k \in 1 .. Len(chan') :
            chan'[j].r = chan'[k].r /\ chan'[j].r \in Frames => j = k
    <3>1. req[w] \in Frames => \A k \in 1 .. Len(chan) : chan[k].r # req[w]
      BY <1>2, <2>6 DEF OnePlace, Queued
    <3>2. \A k \in 1 .. Len(chan) : chan'[k].r = chan[k].r
      BY <2>2
    <3>3. chan'[Len(chan) + 1].r = req[w]
      BY <2>2
    <3> QED
      BY <1>2, <2>4, <3>1, <3>2, <3>3 DEF OnceEach
  <2> QED
    BY <1>2, <2>1, <2>9, <2>10 DEF OnceEach, DistinctIn
<1>8. CASE Recv \/ Gather
  <2>1. /\ chan # <<>> /\ HandleMsg(Head(chan)) /\ chan' = Tail(chan)
        /\ UNCHANGED <<disk, wpc, req>>
    BY <1>8 DEF Recv, Gather
  <2> QED
    BY <1>2, <2>1, HandleMsgOnce
<1>9. CASE Write
  <2>1. /\ disk' = [disk EXCEPT ![Epoch] = File \o buf] /\ buf' = <<>>
        /\ UNCHANGED <<chan, wpc, req>>
    BY <1>9 DEF Write, TypeOK, File
  <2>2. PICK x : x = disk'
    OBVIOUS
  <2>3. /\ DistinctIn(x)
        /\ \A f \in Frames : Somewhere(f, x) => Somewhere(f, disk) \/ In(f, buf)
    BY <1>2, <2>1, <2>2, WrittenDistinct
  <2>4. \A f : Somewhere(f, disk)' <=> Somewhere(f, x)
    BY <2>2 DEF Somewhere, In
  <2>5. \A f : ~In(f, buf)'
    BY <2>1 DEF In
  <2>6. /\ \A f : Queued(f)' <=> Queued(f)
        /\ \A w \in Writers : \A f : Sending(w, f)' <=> Sending(w, f)
    BY <2>1 DEF Queued, Sending
  <2>7. OnePlace'
    BY <1>2, <2>3, <2>4, <2>5, <2>6 DEF OnePlace
  <2>8. DistinctIn(disk)'
    BY <2>2, <2>3 DEF DistinctIn
  <2> QED
    BY <1>2, <2>1, <2>7, <2>8 DEF OnceEach
<1>10. CASE Roll
  <2>1. /\ Len(disk') = Len(disk) + 1
        /\ \A e \in 1 .. Len(disk) : disk'[e] = disk[e]
        /\ disk'[Len(disk) + 1] = <<>>
        /\ UNCHANGED <<chan, wpc, req, buf>>
    BY <1>10 DEF Roll, TypeOK
  <2>2. Len(disk) \in Nat
    BY DEF TypeOK
  <2>3. \A e \in 1 .. Len(disk') : e \in 1 .. Len(disk) \/ Len(disk'[e]) = 0
    BY <2>1, <2>2
  <2>4. \A f : Somewhere(f, disk') => Somewhere(f, disk)
    BY <2>1, <2>3 DEF Somewhere, In
  <2>5. OnePlace'
    BY <1>2, <2>1, <2>4, PlacesShrink DEF Queued, Sending
  <2>6. DistinctIn(disk)'
    <3> SUFFICES ASSUME NEW a \in 1 .. Len(disk'), NEW b \in 1 .. Len(disk'),
                        NEW i \in 1 .. Len(disk'[a]), NEW j \in 1 .. Len(disk'[b]),
                        disk'[a][i] = disk'[b][j], disk'[a][i] # Torn
                 PROVE  a = b /\ i = j
      BY DEF DistinctIn
    <3>1. a \in 1 .. Len(disk) /\ b \in 1 .. Len(disk)
      BY <2>3
    <3>2. disk'[a] = disk[a] /\ disk'[b] = disk[b]
      BY <2>1, <3>1
    <3> QED
      BY <1>2, <3>1, <3>2 DEF OnceEach, DistinctIn
  <2> QED
    BY <1>2, <2>1, <2>5, <2>6 DEF OnceEach
<1>11. CASE RollFail \/ Close
  <2>1. chan' = <<>> /\ UNCHANGED <<disk, buf, wpc, req>>
    BY <1>11 DEF RollFail, Close
  <2>2. OnePlace'
    BY <1>2, <2>1, PlacesShrink DEF Queued, Sending
  <2> QED
    BY <1>2, <2>1, <2>2 DEF OnceEach, DistinctIn
<1>12. CASE Ack
  <2>1. UNCHANGED <<disk, chan, buf, req>>
        /\ \E w : wpc' = [wpc EXCEPT ![w] = "idle"]
    BY <1>12 DEF Ack
  <2>2. \A v \in Writers : \A f \in Frames : Sending(v, f)' => Sending(v, f)
    BY <2>1 DEF Sending, TypeOK
  <2>3. OnePlace'
    BY <1>2, <2>1, <2>2, PlacesShrink DEF Queued
  <2> QED
    BY <1>2, <2>1, <2>3 DEF OnceEach, DistinctIn
\* The end of a process leaves nothing outside the files.
<1>13. ASSUME ProcessEnds PROVE OnePlace'
  <2>1. chan' = <<>> /\ buf' = <<>> /\ wpc' = [w \in Writers |-> "idle"]
    BY <1>13 DEF ProcessEnds
  <2> QED
    BY <2>1 DEF OnePlace, Queued, In, Sending
<1>14. CASE Crash
  <2>1. PICK d \in [1 .. Epoch -> UNION {Survivors(e) : e \in 1 .. Epoch}] :
            disk' = d /\ \A e \in 1 .. Epoch : d[e] \in Survivors(e)
    BY <1>14 DEF Crash
  <2>2. DistinctIn(d)
    BY <1>2, <2>1, CrashDistinct
  <2>5. disk' = d
    BY <2>1
  <2>3. DistinctIn(disk)'
    BY ONLY <2>2, <2>5 DEF DistinctIn
  <2>4. chan' = <<>> /\ buf' = <<>> /\ ProcessEnds
    BY <1>14 DEF Crash, ProcessEnds
  <2> QED
    BY <1>13, <2>3, <2>4 DEF OnceEach
<1>15. CASE Exit
  <2>1. chan' = <<>> /\ buf' = <<>> /\ disk' = disk /\ ProcessEnds
    BY <1>15 DEF Exit, ProcessEnds
  <2> QED
    BY <1>2, <1>13, <2>1 DEF OnceEach, DistinctIn
<1> QED
  BY <1>1, <1>4, <1>5, <1>6, <1>7, <1>8, <1>9, <1>10, <1>11, <1>12, <1>14, <1>15
     DEF Next, vars, Begin, FlusherStep, GatherEnd, Sync, SyncFail, KeepEpoch, Reopen

LEMMA OnceInit == ASSUME Init PROVE OnceInv
<1>1. Len(disk) = 1 /\ disk[1] = <<>> /\ chan = <<>> /\ buf = <<>>
  BY DEF Init
<1> QED
  BY <1>1 DEF Init, OnceInv, OnePlace, OnceEach, DistinctIn, Sending, Queued, In, Somewhere

\* As long as no write has failed, a frame is in the files at most once: a
\* batch whose sync fails is not written again, nor is one that a crash or a
\* rollover meets half way (buf.clear, wal.rs:315).
THEOREM FramesAreWrittenOnce == Spec => []NoDuplicateFrames
<1> DEFINE Inv == TypeOK /\ OnlyIssued /\ OnceInv
<1>1. Init => Inv
  BY TypeInit, OnlyIssuedInit, OnceInit
<1>2. Inv /\ [Next]_vars => Inv'
  BY TypeStep, OnlyIssuedStep, OnceStep
<1>3. Inv => NoDuplicateFrames
  BY DEF OnceInv, OnceEach, DistinctIn, NoDuplicateFrames
<1> HIDE DEF Inv
<1> QED
  BY <1>1, <1>2, <1>3, PTL DEF Spec

-----------------------------------------------------------------------------
(* What a crash leaves readable.  As long as no write and no sync has      *)
(* failed, every file but the last is synced to its end, so a crash tears  *)
(* the last one only; the acknowledged frames are in its synced part, and  *)
(* since no frame is in the files twice, that is where replay finds them.  *)

NoFailure == faults["write"] = 0 /\ faults["sync"] = 0

ClosedSynced ==
    NoFailure =>
        /\ \A e \in 1 .. Len(disk) - 1 : synced[e] = Len(disk[e])
        /\ fpc = "ack" => synced[Len(disk)] = Len(disk[Len(disk)])

\* The inductive invariant behind CrashKeepsAckedReadable.
ReadableInv == RefineInv /\ OnceInv /\ ClosedSynced

\* The budget of a failure is not given back, and a failed write or sync has
\* used some of it.
LEMMA NoFailureBefore ==
    ASSUME TypeOK, [Next]_vars, NoFailure'
    PROVE  NoFailure /\ ~WriteFail /\ ~SyncFail
<1> USE DEF files, flusher, clients
<1>1. {"sync_call", "close_call", "crash", "write", "sync", "open"} = FaultKinds
      /\ faults \in [FaultKinds -> Nat]
  BY DEF FaultKinds, TypeOK
<1>2. ASSUME NEW k \in FaultKinds, Spend(k)
      PROVE  NoFailure /\ k \notin {"write", "sync"}
  <2>1. faults' = [faults EXCEPT ![k] = faults[k] + 1] /\ faults[k] \in Nat
    BY <1>1, <1>2 DEF Spend
  <2>2. faults'["write"] = 0 /\ faults'["sync"] = 0
    BY DEF NoFailure
  <2> QED
    BY <1>1, <2>1, <2>2 DEF NoFailure
<1>3. ~WriteFail /\ ~SyncFail
  BY <1>1, <1>2 DEF WriteFail, SyncFail
<1>4. CASE faults' = faults
  BY <1>3, <1>4 DEF NoFailure
<1>5. CASE \E k \in FaultKinds : Spend(k)
  BY <1>2, <1>3, <1>5
<1> QED
  BY <1>1, <1>4, <1>5 DEF Next, vars, Begin, BeginAppend, BeginSync, BeginClose,
     Send, FlusherGone, FlusherStep, Recv, Gather, GatherEnd, Write, WriteFail,
     Sync, SyncFail, Ack, KeepEpoch, Roll, RollFail, Close, Crash, Exit, Reopen

\* A crash leaves a file that was synced to its end as it was.
LEMMA SyncedSurvives ==
    ASSUME TypeOK, NEW e \in 1 .. Len(disk) - 1, synced[e] = Len(disk[e]),
           NEW s \in Survivors(e)
    PROVE  s = disk[e]
<1>1. Len(disk) \in Nat /\ e \in 1 .. Epoch /\ e # Epoch
  BY DEF TypeOK, Epoch
<1>2. InFlight(e) = disk[e]
  BY <1>1 DEF InFlight
<1>3. PICK n \in synced[e] .. Len(disk[e]), torn \in BOOLEAN :
            s = CutFile(disk[e], n, torn)
  BY <1>2 DEF Survivors
<1>4. disk[e] \in Seq(Entry) /\ Len(disk[e]) \in Nat
  BY <1>1 DEF TypeOK, Epoch
<1>5. n = Len(disk[e]) /\ ~(n < Len(disk[e]))
  BY <1>3, <1>4
<1>6. s = SubSeq(disk[e], 1, Len(disk[e])) \o <<>>
  BY <1>3, <1>5 DEF CutFile
<1>7. SubSeq(disk[e], 1, Len(disk[e])) = disk[e]
  BY <1>4, SubSeqProperties
<1> QED
  BY <1>4, <1>6, <1>7

LEMMA ClosedStep ==
    ASSUME TypeOK, TypeOK', ClosedSynced, [Next]_vars PROVE ClosedSynced'
<1> USE DEF files, flusher, clients
<1> SUFFICES ASSUME NoFailure'
             PROVE  /\ \A e \in 1 .. Len(disk') - 1 : synced'[e] = Len(disk'[e])
                    /\ fpc' = "ack" => synced'[Len(disk')] = Len(disk'[Len(disk')])
  BY DEF ClosedSynced
<1>1. ~WriteFail /\ ~SyncFail
  BY NoFailureBefore
<1>2. /\ \A e \in 1 .. Len(disk) - 1 : synced[e] = Len(disk[e])
      /\ fpc = "ack" => synced[Len(disk)] = Len(disk[Len(disk)])
  BY NoFailureBefore DEF ClosedSynced
<1>3. /\ disk \in Seq(Seq(Entry)) /\ Len(disk) \in Nat /\ Len(disk) \in 1 .. Len(disk)
      /\ synced \in Seq(Nat) /\ Len(synced) = Len(disk)
  BY DEF TypeOK
<1>4. CASE disk' = disk /\ synced' = synced /\ (fpc' = "ack" => fpc = "ack")
  BY <1>2, <1>4
<1>5. CASE Write
  <2>1. disk' = [disk EXCEPT ![Epoch] = File \o buf] /\ synced' = synced /\ fpc' = "sync"
    BY <1>5 DEF Write, File
  <2>2. Len(disk') = Len(disk) /\ \A e \in 1 .. Len(disk) - 1 : disk'[e] = disk[e]
    BY <1>3, <2>1 DEF Epoch
  <2> QED
    BY <1>2, <2>1, <2>2
<1>6. CASE Sync
  <2>1. disk' = disk /\ synced' = [synced EXCEPT ![Epoch] = Len(File)]
    BY <1>6 DEF Sync
  <2>2. /\ \A e \in 1 .. Len(disk) - 1 : synced'[e] = synced[e]
        /\ synced'[Len(disk)] = Len(disk[Len(disk)])
    BY <1>3, <2>1 DEF Epoch, File
  <2> QED
    BY <1>2, <2>1, <2>2
<1>7. CASE Roll
  <2>1. disk' = Append(disk, <<>>) /\ synced' = Append(synced, 0) /\ fpc = "ack"
    BY <1>7 DEF Roll
  <2>2. /\ Len(disk') = Len(disk) + 1
        /\ \A e \in 1 .. Len(disk) : disk'[e] = disk[e]
    BY <1>3, <2>1
  <2>3. \A e \in 1 .. Len(disk) : synced'[e] = synced[e]
    BY <1>3, <2>1
  <2>4. \A e \in 1 .. Len(disk) : e \in 1 .. Len(disk) - 1 \/ e = Len(disk)
    BY <1>3
  <2>5. \A e \in 1 .. Len(disk') - 1 : e \in 1 .. Len(disk)
    BY <1>3, <2>2
  <2>6. fpc' # "ack"
    BY <1>7 DEF Roll, NextBatch
  <2> QED
    BY <1>2, <2>1, <2>2, <2>3, <2>4, <2>5, <2>6
<1>8. CASE Close
  <2>1. disk' = disk /\ fpc' = "gone"
    BY <1>8 DEF Close
  <2>2. \A e \in 1 .. Len(disk) - 1 : synced'[e] = synced[e]
    BY <1>3, <1>8 DEF Close, Epoch
  <2> QED
    BY <1>2, <2>1, <2>2
<1>9. CASE Crash
  <2>1. /\ \A e \in 1 .. Epoch : disk'[e] \in Survivors(e)
        /\ disk' \in [1 .. Epoch -> UNION {Survivors(e) : e \in 1 .. Epoch}]
        /\ synced' = synced /\ fpc' = "down"
    BY <1>9 DEF Crash, ProcessEnds
  <2>2. Len(disk') = Len(disk)
    BY <1>3, <2>1 DEF TypeOK, Epoch
  <2>3. \A e \in 1 .. Len(disk) - 1 : disk'[e] = disk[e]
    BY <1>2, <1>3, <2>1, SyncedSurvives DEF Epoch
  <2> QED
    BY <1>2, <2>1, <2>2, <2>3
<1> QED
  BY <1>1, <1>4, <1>5, <1>6, <1>7, <1>8, <1>9
     DEF Next, vars, Begin, BeginAppend, BeginSync, BeginClose, Send, FlusherGone,
         FlusherStep, Recv, Gather, GatherEnd, Ack, KeepEpoch, NextBatch, RollFail,
         Exit, ProcessEnds, Reopen

\* The crash itself.
LEMMA CrashReadable ==
    ASSUME ReadableInv, NoFailure, AckedReplayable, Crash, TypeOK'
    PROVE  AckedReplayable'
<1>1. /\ TypeOK /\ AckedDurable /\ OnePlace /\ OnceEach
      /\ \A e \in 1 .. Len(disk) - 1 : synced[e] = Len(disk[e])
  BY DEF ReadableInv, RefineInv, AckInv, OnceInv, ClosedSynced, NoFailure
<1>2. /\ disk \in Seq(Seq(Entry)) /\ Len(disk) \in Nat /\ Len(disk) \in 1 .. Len(disk)
      /\ Epoch = Len(disk)
  BY <1>1 DEF TypeOK, Epoch
<1>3. /\ \A e \in 1 .. Len(disk) : disk'[e] \in Survivors(e)
      /\ disk' \in [1 .. Len(disk) -> UNION {Survivors(e) : e \in 1 .. Epoch}]
      /\ acks' = acks
  BY <1>2 DEF Crash, ProcessEnds
<1>4. Len(disk') = Len(disk) /\ Epoch' = Epoch
  BY <1>2, <1>3 DEF TypeOK, Epoch
<1>5. \A e \in 1 .. Len(disk) - 1 : disk'[e] = disk[e]
  BY <1>1, <1>2, <1>3, SyncedSurvives
<1> SUFFICES ASSUME NEW a \in acks PROVE a.f \in Replayed'
  BY <1>3 DEF AckedReplayable
<1>6. ReplayAccepts /\ a.f \in UNION {ReplayFile(disk[e]) : e \in 1 .. Epoch}
  BY DEF AckedReplayable, Replayed
<1>7. ReplayAccepts'
  <2>1. \A x \in 1 .. Len(disk) - 1 : \A k \in 1 .. Len(disk[x]) : disk[x][k] # Torn
    BY <1>2, <1>6 DEF ReplayAccepts
  <2>2. \A x \in 1 .. Len(disk) - 1 : \A k \in 1 .. Len(disk'[x]) : disk'[x][k] # Torn
    BY <1>5, <2>1
  <2>3. Epoch' = Len(disk)
    BY <1>2, <1>4
  <2> QED
    BY <2>2, <2>3 DEF ReplayAccepts
<1>19. PICK e \in 1 .. Epoch : a.f \in ReplayFile(disk[e])
  BY <1>6
<1>8. PICK i \in 1 .. Len(disk[e]) :
          disk[e][i] = a.f /\ \A k \in 1 .. i : disk[e][k] # Torn
  BY <1>19 DEF ReplayFile
<1>20. PICK b \in 1 .. Len(disk) : DurableIn(a.f, b)
  BY <1>1 DEF AckedDurable
<1>9. PICK j \in 1 .. synced[b] : disk[b][j] = a.f
  BY <1>20 DEF DurableIn
<1>10. synced[b] \in Nat /\ synced[b] <= Len(disk[b]) /\ Len(disk[b]) \in Nat
  <2>1. synced \in Seq(Nat) /\ Len(synced) = Len(disk) /\ synced[b] <= Len(disk[b])
    BY <1>1 DEF TypeOK
  <2> QED
    BY <1>2, <2>1
<1>11. j \in 1 .. Len(disk[b]) /\ j \in Nat
  BY <1>10
<1>12. a.f # Torn
  <2>1. i \in 1 .. i
    OBVIOUS
  <2> QED
    BY <1>8, <2>1
<1>13. e = b /\ i = j
  <2>1. e \in 1 .. Len(disk) /\ disk[e][i] = disk[b][j] /\ disk[e][i] # Torn
    BY <1>2, <1>8, <1>9, <1>12
  <2>2. DistinctIn(disk)
    BY <1>1 DEF OnceEach
  <2> QED
    BY ONLY <1>8, <1>11, <2>1, <2>2, b \in 1 .. Len(disk), i \in 1 .. Len(disk[e])
       DEF DistinctIn
<1>14. /\ disk'[b] \in Seq(Entry) /\ synced[b] <= Len(disk'[b])
       /\ \A k \in 1 .. synced[b] : disk'[b][k] = disk[b][k]
  BY <1>1, <1>2, <1>3, SurvivorEntries
<1>15. j \in 1 .. Len(disk'[b]) /\ disk'[b][j] = a.f
  <2>1. Len(disk'[b]) \in Nat
    BY <1>14
  <2> QED
    BY <1>9, <1>10, <1>11, <1>14, <2>1
<1>16. \A k \in 1 .. j : disk'[b][k] # Torn
  BY <1>8, <1>10, <1>11, <1>13, <1>14
<1>17. a.f \in ReplayFile(disk'[b])
  BY <1>15, <1>16 DEF ReplayFile
<1>18. (UNION {ReplayFile(disk[x]) : x \in 1 .. Epoch})'
          = UNION {ReplayFile(disk'[x]) : x \in 1 .. Epoch'}
  BY DEF ReplayFile
<1> QED
  BY <1>2, <1>4, <1>7, <1>17, <1>18 DEF Replayed

\* As long as no write and no sync has failed, neither a crash nor an orderly
\* end of the process takes an acknowledged frame out of what replay_dir
\* returns (wal.rs:375-377).
THEOREM CrashLeavesAckedReadable == Spec => CrashKeepsAckedReadable
<1>1. Init => ReadableInv
  <2> SUFFICES ASSUME Init PROVE ReadableInv
    OBVIOUS
  <2>1. Len(disk) = 1 /\ fpc = "recv" /\ acks = {} /\ pending = <<>>
    BY DEF Init
  <2>2. ClosedSynced
    BY <2>1 DEF ClosedSynced
  <2>3. PendingTracked /\ AckedDurable
    BY <2>1 DEF PendingTracked, AckedDurable
  <2> QED
    BY <2>2, <2>3, TypeInit, OnlyIssuedInit, OnceInit DEF ReadableInv, RefineInv, AckInv
<1>2. ReadableInv /\ [Next]_vars => ReadableInv' /\ TypeOK'
  <2> SUFFICES ASSUME ReadableInv, [Next]_vars PROVE ReadableInv' /\ TypeOK'
    OBVIOUS
  <2>1. TypeOK'
    BY TypeStep DEF ReadableInv, RefineInv, AckInv
  <2> QED
    BY <2>1, TrackedStep, AckedStep, OnlyIssuedStep, OnceStep, ClosedStep
       DEF ReadableInv, RefineInv, AckInv
<1>3. ReadableInv /\ TypeOK' /\ [Next]_vars
        => [fpc' = "down" /\ faults["write"] = 0 /\ faults["sync"] = 0 /\ AckedReplayable
               => AckedReplayable']_vars
  <2> SUFFICES ASSUME ReadableInv, TypeOK', Next, fpc' = "down", NoFailure, AckedReplayable
               PROVE  AckedReplayable' \/ UNCHANGED vars
    BY DEF NoFailure
  <2>3. ASSUME disk' = disk, acks' = acks PROVE AckedReplayable'
    <3>1. Replayed' = Replayed
      <4>1. Epoch' = Epoch
        BY <2>3 DEF Epoch
      <4>2. ReplayAccepts' <=> ReplayAccepts
        BY <2>3, <4>1 DEF ReplayAccepts
      <4>3. (UNION {ReplayFile(disk[x]) : x \in 1 .. Epoch})'
              = UNION {ReplayFile(disk[x]) : x \in 1 .. Epoch}
        BY <2>3, <4>1 DEF ReplayFile
      <4> QED
        BY <4>2, <4>3 DEF Replayed
    <3> QED
      BY <2>3, <3>1 DEF AckedReplayable
  <2>1. CASE Crash
    BY <2>1, CrashReadable
  <2>2. CASE Exit
    <3>1. disk' = disk /\ acks' = acks
      BY <2>2 DEF Exit, ProcessEnds
    <3> QED
      BY <2>3, <3>1
  <2>4. fpc \in {"down"} \/ Crash \/ Exit
    BY DEF Next, Begin, BeginAppend, BeginSync, BeginClose, Send, FlusherGone,
       FlusherStep, Recv, Gather, GatherEnd, Write, WriteFail, Sync, SyncFail, Ack,
       KeepEpoch, NextBatch, Roll, RollFail, Close, Reopen
  <2>5. CASE fpc = "down"
    BY <2>3, <2>5 DEF Next, Begin, BeginAppend, BeginSync, BeginClose, Send, FlusherGone,
       FlusherStep, Recv, Gather, GatherEnd, Write, WriteFail, Sync, SyncFail, Ack,
       KeepEpoch, NextBatch, Roll, RollFail, Close, Reopen, Crash, Exit
  <2> QED
    BY <2>1, <2>2, <2>4, <2>5
<1> QED
  BY <1>1, <1>2, <1>3, PTL DEF Spec, CrashKeepsAckedReadable
=============================================================================
