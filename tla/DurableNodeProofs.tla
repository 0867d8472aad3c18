------------------------- MODULE DurableNodeProofs -------------------------
(***************************************************************************)
(* Proofs about DurableNode, for any number of connection threads, any     *)
(* bounds and any snapshot policy:                                         *)
(*                                                                         *)
(*   TypeCorrect           every variable keeps its type;                  *)
(*   BarrierIsExclusive    the barrier is held by the thread inside a      *)
(*                         transaction, and by no other;                   *)
(*   CommittedAreAudited   a commit frame is preceded by its audit record; *)
(*   ManifestIsLoadable    the manifest names a snapshot file that exists; *)
(*   VisibleAreCommitted   the cells and the snapshot files hold committed *)
(*                         transactions only;                              *)
(*   FailedAreInvisible    a transaction given up with an error has no     *)
(*                         effect.                                         *)
(*                                                                         *)
(* And, for a node that serves one connection at a time (Solo; with two    *)
(* node_lost_write refutes the first):                                     *)
(*                                                                         *)
(*   AnsweredStaysVisible  an answered write survives every restart unless *)
(*                         its commit was written behind a fragment;       *)
(*   RecoveryIsAccepted    no boot is refused for its log unless an append *)
(*                         has failed or something was written behind a    *)
(*                         fragment;                                       *)
(*   CellsMatchLog         under the same condition, the cells are what    *)
(*                         the commits of the log made.                    *)
(***************************************************************************)
EXTENDS DurableNode, NaturalsInduction, WellFoundedInduction, TLAPS

-----------------------------------------------------------------------------
(* The operators on the cells.                                             *)

LEMMA NoTxType == NoTx \in Tx
  BY ShardsExist DEF NoTx, Tx, TxKinds, Kinds

LEMMA EmptyMemType == EmptyMem \in Mem /\ Visible(EmptyMem) = {}
<1>1. EmptyMem \in Mem
  BY NoTxType DEF EmptyMem, Mem
<1>2. Visible(EmptyMem) = {}
  BY DEF EmptyMem, Visible
<1> QED
  BY <1>1, <1>2

\* Every transaction is of one of six kinds.
LEMMA TxCases ==
    ASSUME NEW t \in Tx
    PROVE  t.kind \in {"fact", "supersede", "event", "note", "absorb", "curate"}
  BY DEF Tx, TxKinds, Kinds

\* What Apply makes of each kind.
LEMMA ApplyCases ==
    ASSUME NEW m \in Mem, NEW t \in Tx
    PROVE  \/ Apply(m, t) = m
           \/ Apply(m, t) = [m EXCEPT !.facts = @ \cup {t}]
           \/ Apply(m, t) = [m EXCEPT !.edges = @ \cup {t}]
           \/ Apply(m, t) = [m EXCEPT !.timeline = Append(@, t)]
           \/ Apply(m, t) = [m EXCEPT !.pad = t]
           \/ Apply(m, t) = [m EXCEPT !.quarantine = @ \cup {t}, !.nextSeq = @ + 1]
           \/ Apply(m, t) = [m EXCEPT !.curated = @ \cup {t}]
  BY TxCases DEF Apply

LEMMA ApplyType == ASSUME NEW m \in Mem, NEW t \in Tx PROVE Apply(m, t) \in Mem
<1>1. CASE Apply(m, t) = m
  BY <1>1
<1>2. CASE Apply(m, t) = [m EXCEPT !.facts = @ \cup {t}]
  BY <1>2 DEF Mem
<1>3. CASE Apply(m, t) = [m EXCEPT !.edges = @ \cup {t}]
  BY <1>3 DEF Mem
<1>4. CASE Apply(m, t) = [m EXCEPT !.timeline = Append(@, t)]
  <2>1. Append(m.timeline, t) \in Seq(Tx)
    BY DEF Mem
  <2> QED
    BY <1>4, <2>1 DEF Mem
<1>5. CASE Apply(m, t) = [m EXCEPT !.pad = t]
  BY <1>5 DEF Mem
<1>6. CASE Apply(m, t) = [m EXCEPT !.quarantine = @ \cup {t}, !.nextSeq = @ + 1]
  <2>1. m.nextSeq + 1 \in Nat /\ m.quarantine \cup {t} \in SUBSET Tx
    BY DEF Mem
  <2> QED
    BY <1>6, <2>1 DEF Mem
<1>7. CASE Apply(m, t) = [m EXCEPT !.curated = @ \cup {t}]
  BY <1>7 DEF Mem
<1> QED
  BY <1>1, <1>2, <1>3, <1>4, <1>5, <1>6, <1>7, ApplyCases

\* Applying a transaction makes nothing else visible.
LEMMA ApplyVisible ==
    ASSUME NEW m \in Mem, NEW t \in Tx
    PROVE  Visible(Apply(m, t)) \subseteq Visible(m) \cup {t}
<1>1. CASE Apply(m, t) = m
  BY <1>1
<1>2. CASE Apply(m, t) = [m EXCEPT !.facts = @ \cup {t}]
  BY <1>2 DEF Mem, Visible
<1>3. CASE Apply(m, t) = [m EXCEPT !.edges = @ \cup {t}]
  BY <1>3 DEF Mem, Visible
<1>4. CASE Apply(m, t) = [m EXCEPT !.timeline = Append(@, t)]
  <2> DEFINE n == Apply(m, t)
  <2>1. /\ n.facts = m.facts /\ n.edges = m.edges /\ n.quarantine = m.quarantine
        /\ n.curated = m.curated /\ n.pad = m.pad
        /\ n.timeline = Append(m.timeline, t)
    BY <1>4 DEF Mem
  <2>2. m.timeline \in Seq(Tx)
    BY DEF Mem
  <2>3. \A i \in 1 .. Len(n.timeline) :
           n.timeline[i] = t \/ \E j \in 1 .. Len(m.timeline) : n.timeline[i] = m.timeline[j]
    BY <2>1, <2>2
  <2> HIDE DEF n
  <2>4. Visible(n) \subseteq Visible(m) \cup {t}
    BY <2>1, <2>3 DEF Visible
  <2> QED
    BY <2>4 DEF n
<1>5. CASE Apply(m, t) = [m EXCEPT !.pad = t]
  BY <1>5 DEF Mem, Visible
<1>6. CASE Apply(m, t) = [m EXCEPT !.quarantine = @ \cup {t}, !.nextSeq = @ + 1]
  BY <1>6 DEF Mem, Visible
<1>7. CASE Apply(m, t) = [m EXCEPT !.curated = @ \cup {t}]
  BY <1>7 DEF Mem, Visible
<1> QED
  BY <1>1, <1>2, <1>3, <1>4, <1>5, <1>6, <1>7, ApplyCases

\* An append to the WAL commits the transaction of a commit frame, and
\* forgets none.
LEMMA AppendCommits ==
    ASSUME TypeOK, NEW t \in Tx, NEW op \in {"prepare", "commit"},
           wal' = Append(wal, Frame(op, t))
    PROVE  /\ Committed \subseteq Committed'
           /\ Committed' \subseteq Committed \cup {t}
           /\ op = "prepare" => Committed' = Committed
           /\ op = "commit" => t \in Committed'
<1>1. /\ Len(wal') = Len(wal) + 1
      /\ \A i \in 1 .. Len(wal) : wal'[i] = wal[i]
      /\ wal'[Len(wal) + 1] = Frame(op, t)
      /\ Len(wal) \in Nat
  BY DEF TypeOK
<1>2. Frame(op, t).op = op /\ Frame(op, t).tx = t
  BY DEF Frame
<1> QED
  BY <1>1, <1>2 DEF Committed
-----------------------------------------------------------------------------
(* What one step can do to each variable.                                  *)

\* The variables of the control.
LEMMA ControlEffects ==
    ASSUME [Next]_vars
    PROVE  /\ status' \in {status, "up", "down", "recovering", "refused", "unverified"}
           /\ shuttingDown' \in {shuttingDown, TRUE, FALSE}
           /\ \/ clock' \in {clock, clock + 1, 0, manifest.at}
              \/ \E i \in 1 .. Len(wal) : clock' = wal[i].tx.at
           /\ \/ snapAt' = snapAt
              \/ \E c \in Clients, n \in {clock, clock'} : snapAt' = [snapAt EXCEPT ![c] = n]
           /\ guard' \in {guard, Free} \cup Clients
           /\ autoLock' \in {autoLock, Free} \cup Clients
           /\ watermark' \in {watermark, 0} \/ \E c \in Clients : watermark' = snapAt[c]
           /\ walFrames' \in {walFrames, walFrames + 1, 0}
           /\ requests' \in {requests, requests + 1}
           /\ todo' \subseteq todo \cup (1 .. Len(wal))
           /\ \/ faults' = faults
              \/ \E k \in FaultKinds : faults' = [faults EXCEPT ![k] = @ + 1]
<1> USE DEF locks, stream, files, recovery, history, policy, Next, vars, ClientStep,
            RecoveryStep, AwaitFrame, Receive, Acquire, Reject, Prepare, AppendWal,
            WriteFrame, Audit, Commit, AppendFails, AuditFails, AnswerError,
            ApplyTx, AnswerOk, Curate, MaybeSnapshot, BeginShutdown, Capture,
            WriteSnapshot, SaveManifest, Report, ReportFails, CleanManifest,
            SaveFails, Crash, Exit, ProcessEnds, TearFrame, RecoverBegin,
            BootOutcome, ReplayFrame, RecoverEnd, BootRecorded, BootRecordFails
<1>1. status' \in {status, "up", "down", "recovering", "refused", "unverified"}
  BY ZenonT(60)
<1>2. shuttingDown' \in {shuttingDown, TRUE, FALSE}
  BY ZenonT(60)
<1>3. \/ clock' \in {clock, clock + 1, 0, manifest.at}
      \/ \E i \in 1 .. Len(wal) : clock' = wal[i].tx.at
  BY ZenonT(60) DEF AdvanceTo
<1>4. \/ snapAt' = snapAt
      \/ \E c \in Clients, n \in {clock, clock'} : snapAt' = [snapAt EXCEPT ![c] = n]
  BY ZenonT(60)
<1>5. guard' \in {guard, Free} \cup Clients
  BY ZenonT(60)
<1>6. autoLock' \in {autoLock, Free} \cup Clients
  BY ZenonT(60) DEF ReleaseAuto
<1>7. watermark' \in {watermark, 0} \/ \E c \in Clients : watermark' = snapAt[c]
  BY ZenonT(60)
<1>8. walFrames' \in {walFrames, walFrames + 1, 0}
  BY ZenonT(60)
<1>9. requests' \in {requests, requests + 1}
  BY ZenonT(60)
<1>10. todo' \subseteq todo \cup (1 .. Len(wal))
  BY ZenonT(60)
<1>11. \/ faults' = faults
       \/ \E k \in FaultKinds : faults' = [faults EXCEPT ![k] = @ + 1]
  BY ZenonT(60) DEF Spend, FaultKinds
<1> HIDE DEF Next
<1> QED
  BY <1>1, <1>2, <1>3, <1>4, <1>5, <1>6, <1>7, <1>8, <1>9, <1>10, <1>11

\* The cells, the files and the transactions.
LEMMA DataEffects ==
    ASSUME [Next]_vars
    PROVE  /\ \/ mem' \in {mem, manifest.snap.mem}
              \/ \E c \in Clients : pc[c] = "apply" /\ mem' = Apply(mem, tx[c])
              \/ \E i \in 1 .. Len(wal) :
                    wal[i].op = "commit" /\ mem' = Apply(mem, wal[i].tx)
           /\ \/ captured' = captured
              \/ \E c \in Clients : captured' = [captured EXCEPT ![c] = mem]
           /\ \/ snaps' = snaps
              \/ \E c \in Clients : snaps' = snaps \cup {Snapshot(c)}
           /\ \/ nodeManifest' \in {nodeManifest, FreshManifest}
              \/ \E c \in Clients : pc[c] = "manifest" /\ NameSnapshot(c)
              \/ \E c \in Clients : MarkClean(c)
           /\ manifest' \in {manifest, nodeManifest'}
           /\ \/ wal' = wal
              \/ \E c \in Clients : \/ wal' = Append(wal, Frame("prepare", tx[c]))
                                    \/ /\ pc[c] = "commit"
                                       /\ wal' = Append(wal, Frame("commit", tx[c]))
           /\ audited' = audited \/ \E c \in Clients : audited' = audited \cup {tx[c]}
           /\ failed' = failed \/ \E c \in Clients : failed' = failed \cup {tx[c]}
           /\ \/ prepared' \subseteq prepared
              \/ \E i \in 1 .. Len(wal) : prepared' = prepared \cup {wal[i].tx}
           /\ answered' \subseteq answered \cup Committed
<1> USE DEF locks, stream, files, recovery, history, policy, Next, vars, ClientStep,
            RecoveryStep, AwaitFrame, Receive, Acquire, Reject, Prepare, AppendWal,
            WriteFrame, Audit, Commit, AppendFails, AuditFails, AnswerError,
            ApplyTx, AnswerOk, Curate, MaybeSnapshot, BeginShutdown, Capture,
            WriteSnapshot, SaveManifest, Report, ReportFails, CleanManifest,
            SaveFails, Crash, Exit, ProcessEnds, TearFrame, RecoverBegin,
            BootOutcome, ReplayFrame, RecoverEnd, BootRecorded, BootRecordFails
<1>1. \/ mem' \in {mem, manifest.snap.mem}
      \/ \E c \in Clients : pc[c] = "apply" /\ mem' = Apply(mem, tx[c])
      \/ \E i \in 1 .. Len(wal) : wal[i].op = "commit" /\ mem' = Apply(mem, wal[i].tx)
  BY ZenonT(60)
<1>2. captured' = captured \/ \E c \in Clients : captured' = [captured EXCEPT ![c] = mem]
  BY ZenonT(60)
<1>3. snaps' = snaps \/ \E c \in Clients : snaps' = snaps \cup {Snapshot(c)}
  BY ZenonT(60)
<1>4. \/ nodeManifest' \in {nodeManifest, FreshManifest}
      \/ \E c \in Clients : pc[c] = "manifest" /\ NameSnapshot(c)
      \/ \E c \in Clients : MarkClean(c)
  BY ZenonT(60)
<1>5. manifest' \in {manifest, nodeManifest'}
  BY ZenonT(60)
<1>6. \/ wal' = wal
      \/ \E c \in Clients : \/ wal' = Append(wal, Frame("prepare", tx[c]))
                            \/ /\ pc[c] = "commit"
                               /\ wal' = Append(wal, Frame("commit", tx[c]))
  BY ZenonT(60)
<1>7. audited' = audited \/ \E c \in Clients : audited' = audited \cup {tx[c]}
  BY ZenonT(60)
<1>8. failed' = failed \/ \E c \in Clients : failed' = failed \cup {tx[c]}
  BY ZenonT(60)
<1>9. \/ prepared' \subseteq prepared
      \/ \E i \in 1 .. Len(wal) : prepared' = prepared \cup {wal[i].tx}
  BY ZenonT(60)
<1>10. answered' \subseteq answered \cup Committed
  BY ZenonT(60)
<1> HIDE DEF Next
<1> QED
  BY <1>1, <1>2, <1>3, <1>4, <1>5, <1>6, <1>7, <1>8, <1>9, <1>10

\* The streams and the audit chain: a frame goes behind the fragment of its
\* stream, a fragment is never mended, and a whole stream may get one.
LEMMA StreamEffects ==
    ASSUME [Next]_vars
    PROVE  /\ hidden' \in {hidden, hidden \cup {Len(wal) + 1}}
           /\ \/ \E S : tail' \in Rolled(S)
              \/ tail' = tail
              \/ \E c \in Clients : /\ tail[tx[c].shard] = "whole"
                                   /\ tail' = [tail EXCEPT ![tx[c].shard] = "torn"]
           /\ chain' \in {chain} \cup Chains
<1> USE DEF locks, stream, files, recovery, history, policy, Next, vars, ClientStep,
            RecoveryStep, AwaitFrame, Receive, Acquire, Reject, Prepare, AppendWal,
            Audit, Commit, AppendFails, AuditFails, AnswerError,
            ApplyTx, AnswerOk, Curate, MaybeSnapshot, BeginShutdown, Capture,
            WriteSnapshot, SaveManifest, Report, ReportFails, CleanManifest,
            SaveFails, Crash, Exit, ProcessEnds, TearFrame, RecoverBegin,
            BootOutcome, ReplayFrame, RecoverEnd, BootRecorded, BootRecordFails
<1>1. hidden' \in {hidden, hidden \cup {Len(wal) + 1}}
  BY ZenonT(60) DEF WriteFrame
<1>2. \/ \E S : tail' \in Rolled(S)
      \/ tail' = tail
      \/ \E c \in Clients : /\ tail[tx[c].shard] = "whole"
                           /\ tail' = [tail EXCEPT ![tx[c].shard] = "torn"]
  BY ZenonT(60) DEF WriteFrame
<1>3. chain' \in {chain} \cup Chains
  BY ZenonT(60) DEF WriteFrame, RecordAudit, DoubtAudit, Chains
<1> HIDE DEF Next
<1> QED
  BY <1>1, <1>2, <1>3

\* Where a thread can be after a step, and what it then has done.
LEMMA PcEffects ==
    ASSUME TypeOK, [Next]_vars, NEW c \in Clients
    PROVE  /\ pc' \in [Clients -> ClientPc]
           /\ pc'[c] = "commit" => \/ pc[c] = "commit" /\ tx'[c] = tx[c]
                                   \/ pc[c] = "audit" /\ Audit(c)
           /\ pc'[c] = "apply" => \/ pc[c] = "apply" /\ tx'[c] = tx[c]
                                  \/ pc[c] = "commit" /\ Commit(c)
           /\ pc'[c] = "manifest" => \/ /\ pc[c] = "manifest"
                                        /\ snapAt'[c] = snapAt[c]
                                        /\ captured'[c] = captured[c]
                                     \/ pc[c] = "file" /\ WriteSnapshot(c)
           /\ pc'[c] = "guard" => \/ pc[c] = "guard" /\ verb'[c] = verb[c]
                                  \/ \E v \in Verbs \cap Kinds : verb'[c] = v
<1> USE DEF locks, stream, files, recovery, history, policy, vars
<1>1. /\ pc \in [Clients -> ClientPc]
      /\ tx \in [Clients -> Tx]
      /\ verb \in [Clients -> Kinds \cup AdminVerbs]
      /\ snapAt \in [Clients -> Nat]
      /\ captured \in [Clients -> Mem]
  BY DEF TypeOK
<1>2. \/ pc' = pc
      \/ pc' = [d \in Clients |-> "idle"]
      \/ \E d \in Clients, q \in ClientPc : pc' = [pc EXCEPT ![d] = q]
  BY ZenonT(60)
     DEF ClientPc, Next, ClientStep, RecoveryStep, AwaitFrame, Receive, Acquire,
         Reject, Prepare, AppendWal, WriteFrame, Audit, Commit, AppendFails,
         AuditFails, AnswerError, ApplyTx, AnswerOk, Curate, MaybeSnapshot,
         BeginShutdown, Capture, WriteSnapshot, SaveManifest, Report, ReportFails,
         CleanManifest, SaveFails, Crash, Exit, ProcessEnds, TearFrame,
         RecoverBegin, BootOutcome, ReplayFrame, RecoverEnd, BootRecorded,
         BootRecordFails
<1>3. pc' \in [Clients -> ClientPc]
  BY <1>1, <1>2 DEF ClientPc
<1> DEFINE Own(d) == \/ AwaitFrame(d)
                     \/ \E v \in Verbs : Receive(d, v)
                     \/ ClientStep(d)
           Same == /\ pc'[c] = pc[c]
                   /\ tx'[c] = tx[c]
                   /\ verb'[c] = verb[c]
                   /\ snapAt'[c] = snapAt[c]
                   /\ captured'[c] = captured[c]
<1>4. ASSUME NEW d \in Clients \ {c}, Own(d) PROVE Same
  BY <1>1, <1>4
     DEF ClientStep, AwaitFrame, Receive, Acquire, Reject, Prepare, AppendWal,
         WriteFrame, Audit, Commit, AppendFails, TearFrame, AuditFails, AnswerError,
         ApplyTx, AnswerOk, Curate, MaybeSnapshot, BeginShutdown, Capture,
         WriteSnapshot, SaveManifest, Report, ReportFails, CleanManifest, SaveFails
<1>5. ASSUME Own(c)
      PROVE  /\ pc'[c] = "commit" => pc[c] = "audit" /\ Audit(c)
             /\ pc'[c] = "apply" => pc[c] = "commit" /\ Commit(c)
             /\ pc'[c] = "manifest" => pc[c] = "file" /\ WriteSnapshot(c)
             /\ pc'[c] = "guard" => \E v \in Verbs \cap Kinds : verb'[c] = v
  <2>1. CASE AwaitFrame(c)
    BY <1>1, <2>1 DEF AwaitFrame
  <2>2. ASSUME NEW v \in Verbs, Receive(c, v)
        PROVE  /\ pc'[c] \notin {"commit", "apply", "manifest"}
               /\ pc'[c] = "guard" => v \in Kinds /\ verb'[c] = v
    BY <1>1, <2>2, VerbsKnown DEF Receive, AdminVerbs
  <2>3. CASE Audit(c) \/ Commit(c) \/ WriteSnapshot(c)
    BY <1>1, <2>3 DEF Audit, Commit, AppendWal, WriteFrame, WriteSnapshot
  <2>4. CASE Acquire(c) \/ Reject(c) \/ Prepare(c) \/ AppendFails(c) \/ AuditFails(c)
    BY <1>1, <2>4 DEF Acquire, Reject, Prepare, AppendWal, WriteFrame, AppendFails,
                      TearFrame, AuditFails, AnswerError
  <2>5. CASE ApplyTx(c) \/ Curate(c) \/ MaybeSnapshot(c) \/ BeginShutdown(c) \/ Capture(c)
    BY <1>1, <2>5 DEF ApplyTx, AnswerOk, Curate, MaybeSnapshot, BeginShutdown, Capture
  <2>6. CASE \/ SaveManifest(c) \/ Report(c) \/ ReportFails(c) \/ CleanManifest(c)
             \/ SaveFails(c)
    BY <1>1, <2>6
       DEF SaveManifest, Report, AnswerOk, ReportFails, CleanManifest, SaveFails
  <2> QED
    BY <1>5, <2>1, <2>2, <2>3, <2>4, <2>5, <2>6 DEF ClientStep
<1>6. CASE Crash \/ Exit
  <2>1. pc'[c] = "idle"
    BY <1>6 DEF Crash, Exit, ProcessEnds, TearFrame
  <2> QED
    BY <1>3, <2>1
<1>7. CASE RecoveryStep \/ UNCHANGED vars
  <2>1. Same
    BY <1>7 DEF RecoveryStep, RecoverBegin, BootOutcome, ReplayFrame, RecoverEnd,
                BootRecorded, BootRecordFails
  <2> QED
    BY <1>3, <2>1
<1>8. Crash \/ Exit \/ RecoveryStep \/ UNCHANGED vars \/ \E d \in Clients : Own(d)
  BY DEF Next
<1> HIDE DEF Own
<1> QED
  BY <1>3, <1>4, <1>5, <1>6, <1>7, <1>8

-----------------------------------------------------------------------------
(* Types.                                                                  *)

LEMMA FreshManifestType == FreshManifest \in Manifest
  BY EmptyMemType DEF FreshManifest, NoSnapshot, Manifest, SnapshotFile

LEMMA TypeInit == ASSUME Init PROVE TypeOK
<1>1. nodeManifest \in Manifest /\ manifest \in Manifest
  BY FreshManifestType DEF Init
<1>2. mem \in Mem /\ captured \in [Clients -> Mem] /\ tx \in [Clients -> Tx]
  BY NoTxType, EmptyMemType DEF Init
<1>3. shuttingDown \in BOOLEAN
  BY Zenon DEF Init
<1>4. /\ hidden \subseteq Nat
      /\ tail \in [Shards -> Tails]
      /\ chain \in Chains
  BY DEF Init, Tails, Chains
<1> QED
  BY <1>1, <1>2, <1>3, <1>4 DEF Init, TypeOK, Kinds, ClientPc

\* What the frames of the WAL hold.
LEMMA WalTxs ==
    ASSUME TypeOK
    PROVE  /\ \A i \in 1 .. Len(wal) : wal[i].tx \in Tx /\ wal[i].tx.at \in Nat
           /\ Committed \subseteq Tx
<1>1. wal \in Seq(WalFrame)
  BY DEF TypeOK
<1>2. \A i \in 1 .. Len(wal) : wal[i] \in WalFrame
  BY <1>1
<1>3. \A i \in 1 .. Len(wal) : wal[i].tx \in Tx
  BY <1>2 DEF WalFrame
<1>4. \A t \in Tx : t.at \in Nat
  BY DEF Tx
<1> QED
  BY <1>3, <1>4 DEF Committed

\* The Boolean flag.
LEMMA FlagTypes ==
    ASSUME TypeOK, [Next]_vars
    PROVE  shuttingDown' \in BOOLEAN
<1>1. shuttingDown \in BOOLEAN
  BY DEF TypeOK
<1>2. shuttingDown' \in {shuttingDown, TRUE, FALSE}
  BY ControlEffects
<1> QED
  BY <1>1, <1>2, Zenon

\* The transaction a thread builds: Receive, Acquire and Curate.
LEMMA TxTypes == ASSUME TypeOK, [Next]_vars PROVE tx' \in [Clients -> Tx]
<1>1. ASSUME NEW c \in Clients, NEW v \in Verbs, Receive(c, v)
      PROVE  tx' \in [Clients -> Tx]
  <2>1. requests' \in Nat /\ clock' \in Nat
    BY <1>1 DEF Receive, TypeOK
  <2>2. [NoTx EXCEPT !.id = requests', !.at = clock'] \in Tx
    BY <2>1, NoTxType DEF Tx
  <2> QED
    BY <1>1, <2>2 DEF Receive, TypeOK
<1>2. ASSUME NEW c \in Clients, Acquire(c) PROVE tx' \in [Clients -> Tx]
  <2>1. FactIds(mem) \cup {0} \subseteq Nat /\ mem.nextSeq \in Nat
    <3>1. mem \in Mem
      BY DEF TypeOK
    <3>2. mem.facts \subseteq Tx /\ mem.nextSeq \in Nat
      BY <3>1 DEF Mem
    <3>3. \A t \in Tx : t.id \in Nat
      BY DEF Tx
    <3> QED
      BY <3>2, <3>3 DEF FactIds
  <2>2. PICK old, new \in Nat, s \in Shards :
           tx' = [tx EXCEPT ![c] =
                    [@ EXCEPT !.kind = verb[c], !.old = old, !.new = new, !.shard = s,
                              !.qseq = IF verb[c] = "absorb" THEN mem.nextSeq ELSE 0]]
    BY <1>2, <2>1 DEF Acquire
  <2>3. verb[c] \in TxKinds
    BY <1>2 DEF Acquire, TypeOK, TxKinds
  <2>4. tx \in [Clients -> Tx] /\ tx[c] \in Tx /\ mem.nextSeq \in Nat
    BY <2>1 DEF TypeOK
  <2>5. PICK q \in Nat : q = IF verb[c] = "absorb" THEN mem.nextSeq ELSE 0
    BY <2>4
  <2>6. [tx[c] EXCEPT !.kind = verb[c], !.old = old, !.new = new, !.shard = s,
                      !.qseq = q] \in Tx
    BY <2>3, <2>4 DEF Tx
  <2> QED
    BY <2>2, <2>4, <2>5, <2>6
<1>3. ASSUME NEW c \in Clients, Curate(c) PROVE tx' \in [Clients -> Tx]
  <2>1. clock' \in Nat /\ tx[c].id \in Nat
    <3>1. tx[c] \in Tx /\ clock \in Nat
      BY DEF TypeOK
    <3>2. tx[c].id \in Nat
      BY <3>1 DEF Tx
    <3> QED
      BY <1>3, <3>1, <3>2 DEF Curate
  <2>2. \A s \in Shards :
           [NoTx EXCEPT !.id = tx[c].id, !.at = clock', !.kind = "curate", !.shard = s]
              \in Tx
    BY <2>1, NoTxType DEF Tx, TxKinds
  <2> QED
    BY <1>3, <2>2 DEF Curate, TypeOK
<1>4. CASE tx' = tx
  BY <1>4 DEF TypeOK
<1> QED
  BY <1>1, <1>2, <1>3, <1>4
     DEF Next, vars, AwaitFrame, ClientStep, Reject, Prepare, Audit, Commit,
         AppendFails, WriteFrame, AuditFails, ApplyTx, MaybeSnapshot, BeginShutdown,
         Capture, WriteSnapshot, SaveManifest, Report, ReportFails, CleanManifest,
         SaveFails, Crash, Exit, ProcessEnds, TearFrame, RecoveryStep, RecoverBegin,
         BootOutcome, ReplayFrame, RecoverEnd, BootRecorded, BootRecordFails

\* The streams, the audit chain and the manifest.
LEMMA FileTypes ==
    ASSUME TypeOK, [Next]_vars
    PROVE  /\ wal' \in Seq(WalFrame)
           /\ hidden' \subseteq Nat
           /\ tail' \in [Shards -> Tails]
           /\ chain' \in Chains
           /\ nodeManifest' \in Manifest
           /\ manifest' \in Manifest
<1>1. /\ wal \in Seq(WalFrame)
      /\ nodeManifest \in Manifest
      /\ manifest \in Manifest
      /\ tx \in [Clients -> Tx]
      /\ snapAt \in [Clients -> Nat]
      /\ captured \in [Clients -> Mem]
  BY DEF TypeOK
<1>2. \A c \in Clients, op \in {"prepare", "commit"} : Frame(op, tx[c]) \in WalFrame
  BY <1>1 DEF Frame, WalFrame
<1>3. \/ wal' = wal
      \/ \E c \in Clients : \/ wal' = Append(wal, Frame("prepare", tx[c]))
                            \/ /\ pc[c] = "commit"
                               /\ wal' = Append(wal, Frame("commit", tx[c]))
  BY DataEffects
<1>4. wal' \in Seq(WalFrame)
  <2>1. wal' = wal \/ \E f \in WalFrame : wal' = Append(wal, f)
    BY <1>2, <1>3
  <2>2. wal \in Seq(WalFrame)
    BY DEF TypeOK
  <2>3. ASSUME NEW f \in WalFrame PROVE Append(wal, f) \in Seq(WalFrame)
    BY <2>2
  <2> QED
    BY <2>1, <2>2, <2>3
<1>5. ASSUME NEW c \in Clients, NameSnapshot(c) PROVE nodeManifest' \in Manifest
  <2>1. snapAt[c] \in Nat /\ Snapshot(c) \in SnapshotFile
    BY <1>1 DEF Snapshot, SnapshotFile
  <2> QED
    BY <1>1, <1>5, <2>1 DEF NameSnapshot, Manifest
<1>6. ASSUME NEW c \in Clients, MarkClean(c) PROVE nodeManifest' \in Manifest
  <2>1. snapAt[c] \in Nat
    BY <1>1
  <2> QED
    BY <1>1, <1>6, <2>1 DEF MarkClean, Manifest
<1>7. nodeManifest' \in Manifest
  BY <1>1, <1>5, <1>6, DataEffects, FreshManifestType
<1>8. manifest' \in Manifest
  BY <1>1, <1>7, DataEffects
<1>9. hidden' \subseteq Nat
  <2>1. hidden \subseteq Nat /\ Len(wal) + 1 \in Nat
    BY DEF TypeOK
  <2> QED
    BY <2>1, StreamEffects
<1>10. tail' \in [Shards -> Tails]
  <2>1. tail \in [Shards -> Tails]
    BY DEF TypeOK
  <2>2. \A S : Rolled(S) \subseteq [Shards -> Tails]
    BY DEF Rolled
  <2> QED
    BY <2>1, <2>2, StreamEffects DEF Tails
<1>11. chain' \in Chains
  BY StreamEffects DEF TypeOK
<1> QED
  BY <1>4, <1>7, <1>8, <1>9, <1>10, <1>11

\* The cells, captured and in snapshot files.
LEMMA MemTypes ==
    ASSUME TypeOK, [Next]_vars
    PROVE  /\ mem' \in Mem
           /\ captured' \in [Clients -> Mem]
           /\ snaps' \subseteq SnapshotFile
<1>1. /\ mem \in Mem
      /\ captured \in [Clients -> Mem]
      /\ snapAt \in [Clients -> Nat]
      /\ snaps \subseteq SnapshotFile
      /\ manifest \in Manifest
      /\ tx \in [Clients -> Tx]
  BY DEF TypeOK
<1>2. manifest.snap.mem \in Mem
  BY <1>1 DEF Manifest, SnapshotFile
<1>3. mem' \in {mem, manifest.snap.mem} \/ \E t \in Tx : mem' = Apply(mem, t)
  BY <1>1, DataEffects, WalTxs
<1>4. mem' \in Mem
  BY <1>1, <1>2, <1>3, ApplyType
<1>5. captured' \in [Clients -> Mem]
  BY <1>1, DataEffects
<1>6. \A c \in Clients : Snapshot(c) \in SnapshotFile
  BY <1>1 DEF Snapshot, SnapshotFile
<1>7. snaps' \subseteq SnapshotFile
  BY <1>1, <1>6, DataEffects
<1> QED
  BY <1>4, <1>5, <1>7

\* The sets of transactions.
LEMMA TxSetTypes ==
    ASSUME TypeOK, [Next]_vars
    PROVE  /\ audited' \subseteq Tx
           /\ prepared' \subseteq Tx
           /\ answered' \subseteq Tx
           /\ failed' \subseteq Tx
<1>1. /\ tx \in [Clients -> Tx]
      /\ audited \subseteq Tx
      /\ prepared \subseteq Tx
      /\ answered \subseteq Tx
      /\ failed \subseteq Tx
  BY DEF TypeOK
<1>2. audited' \subseteq Tx /\ failed' \subseteq Tx
  BY <1>1, DataEffects
<1>3. prepared' \subseteq Tx
  BY <1>1, DataEffects, WalTxs
<1>4. answered' \subseteq Tx
  BY <1>1, DataEffects, WalTxs
<1> QED
  BY <1>2, <1>3, <1>4

\* The numbers, the locks and the control.
LEMMA ControlTypes ==
    ASSUME TypeOK, [Next]_vars
    PROVE  /\ status' \in {"up", "down", "recovering", "refused", "unverified"}
           /\ clock' \in Nat
           /\ pc' \in [Clients -> ClientPc]
           /\ verb' \in [Clients -> Kinds \cup AdminVerbs]
           /\ \A c \in Clients : pc'[c] = "guard" => verb'[c] \in Kinds
           /\ snapAt' \in [Clients -> Nat]
           /\ guard' \in Clients \cup {Free}
           /\ autoLock' \in Clients \cup {Free}
           /\ watermark' \in Nat
           /\ walFrames' \in Nat
           /\ todo' \subseteq Nat
           /\ requests' \in Nat
           /\ faults' \in [FaultKinds -> Nat]
<1>1. /\ status \in {"up", "down", "recovering", "refused", "unverified"}
      /\ clock \in Nat
      /\ pc \in [Clients -> ClientPc]
      /\ verb \in [Clients -> Kinds \cup AdminVerbs]
      /\ \A c \in Clients : pc[c] = "guard" => verb[c] \in Kinds
      /\ snapAt \in [Clients -> Nat]
      /\ guard \in Clients \cup {Free}
      /\ autoLock \in Clients \cup {Free}
      /\ watermark \in Nat
      /\ walFrames \in Nat
      /\ todo \subseteq Nat
      /\ requests \in Nat
      /\ faults \in [FaultKinds -> Nat]
      /\ Len(wal) \in Nat
      /\ manifest \in Manifest
  BY DEF TypeOK
<1>2. clock' \in Nat
  <2>1. manifest.at \in Nat
    BY <1>1 DEF Manifest
  <2>2. clock + 1 \in Nat
    BY <1>1
  <2>3. \/ clock' \in {clock, clock + 1, 0, manifest.at}
        \/ \E i \in 1 .. Len(wal) : clock' = wal[i].tx.at
    BY ControlEffects
  <2> QED
    BY <1>1, <2>1, <2>2, <2>3, WalTxs
<1>3. pc' \in [Clients -> ClientPc]
  <2>1. CASE Clients = {}
    <3>1. pc' = pc \/ pc' = [c \in Clients |-> "idle"]
      BY <2>1 DEF Next, vars, ClientStep, Crash, Exit, ProcessEnds, TearFrame,
                  RecoveryStep, RecoverBegin, BootOutcome, ReplayFrame, RecoverEnd,
                  BootRecorded, BootRecordFails
    <3> QED
      BY <1>1, <2>1, <3>1
  <2>2. CASE Clients # {}
    BY <2>2, PcEffects
  <2> QED
    BY <2>1, <2>2
<1>4. verb' \in [Clients -> Kinds \cup AdminVerbs]
  <2>1. verb' = verb \/ \E c \in Clients, v \in Verbs : verb' = [verb EXCEPT ![c] = v]
    BY ZenonT(60) DEF locks, stream, files, recovery, history, policy, Next, vars,
                      AwaitFrame, Receive, ClientStep, Acquire, Reject, Prepare,
                      Audit, Commit, AppendFails, WriteFrame, AuditFails, ApplyTx,
                      Curate, MaybeSnapshot, BeginShutdown, Capture, WriteSnapshot,
                      SaveManifest, Report, ReportFails, CleanManifest, SaveFails,
                      Crash, Exit, ProcessEnds, TearFrame, RecoveryStep,
                      RecoverBegin, BootOutcome, ReplayFrame, RecoverEnd,
                      BootRecorded, BootRecordFails
  <2> QED
    BY <1>1, <2>1, VerbsKnown
<1>5. \A c \in Clients : pc'[c] = "guard" => verb'[c] \in Kinds
  BY <1>1, PcEffects
<1>6. snapAt' \in [Clients -> Nat]
  <2>1. \/ snapAt' = snapAt
        \/ \E c \in Clients, n \in {clock, clock'} : snapAt' = [snapAt EXCEPT ![c] = n]
    BY ControlEffects
  <2> QED
    BY <1>1, <1>2, <2>1
<1>7. watermark' \in Nat
  <2>1. watermark' \in {watermark, 0} \/ \E c \in Clients : watermark' = snapAt[c]
    BY ControlEffects
  <2> QED
    BY <1>1, <2>1
<1>8. walFrames' \in Nat /\ requests' \in Nat
  <2>1. walFrames + 1 \in Nat /\ requests + 1 \in Nat
    BY <1>1
  <2>2. /\ walFrames' \in {walFrames, walFrames + 1, 0}
        /\ requests' \in {requests, requests + 1}
    BY ControlEffects
  <2> QED
    BY <1>1, <2>1, <2>2
<1>9. todo' \subseteq Nat
  <2>1. todo' \subseteq todo \cup (1 .. Len(wal))
    BY ControlEffects
  <2> QED
    BY <1>1, <2>1
<1>10. faults' \in [FaultKinds -> Nat]
  <2>1. \/ faults' = faults
        \/ \E k \in FaultKinds : faults' = [faults EXCEPT ![k] = @ + 1]
    BY ControlEffects
  <2> QED
    BY <1>1, <2>1
<1>11. status' \in {"up", "down", "recovering", "refused", "unverified"}
  BY <1>1, ControlEffects
<1>12. guard' \in Clients \cup {Free} /\ autoLock' \in Clients \cup {Free}
  BY <1>1, ControlEffects
<1> QED
  BY <1>2, <1>3, <1>4, <1>5, <1>6, <1>7, <1>8, <1>9, <1>10, <1>11, <1>12

LEMMA TypeStep == ASSUME TypeOK, [Next]_vars PROVE TypeOK'
  BY FlagTypes, TxTypes, FileTypes, MemTypes, TxSetTypes, ControlTypes DEF TypeOK

\* Every variable keeps its type: whatever requests, failures, crashes and
\* recoveries happen, the state of a node is one its fields can hold.
THEOREM TypeCorrect == Spec => []TypeOK
<1>1. TypeOK /\ [Next]_vars => TypeOK'
  BY TypeStep
<1> QED
  BY <1>1, TypeInit, PTL DEF Spec

-----------------------------------------------------------------------------
(* The barrier.                                                            *)

LEMMA BarrierStep ==
    ASSUME TypeOK, BarrierHeldInTransaction, [Next]_vars
    PROVE  BarrierHeldInTransaction'
<1> USE DEF locks, stream, files, recovery, history, policy
<1>1. pc \in [Clients -> ClientPc] /\ guard \in Clients \cup {Free}
  BY DEF TypeOK
<1>2. CASE Crash \/ Exit
  <2>1. guard' = Free /\ \A c \in Clients : pc'[c] = "idle"
    BY <1>2 DEF Crash, Exit, ProcessEnds, TearFrame
  <2> QED
    BY <2>1, FreeIsNoClient DEF BarrierHeldInTransaction, InTransaction
<1>3. CASE RecoveryStep \/ UNCHANGED vars
  <2>1. guard' = guard /\ pc' = pc
    BY <1>3 DEF RecoveryStep, RecoverBegin, BootOutcome, ReplayFrame, RecoverEnd,
                BootRecorded, BootRecordFails, vars
  <2> QED
    BY <2>1 DEF BarrierHeldInTransaction
<1>4. ASSUME NEW c \in Clients, NEW q,
             pc' = [pc EXCEPT ![c] = q], guard' = guard,
             pc[c] \in InTransaction <=> q \in InTransaction
      PROVE  BarrierHeldInTransaction'
  BY <1>1, <1>4 DEF BarrierHeldInTransaction
<1>5. ASSUME NEW c \in Clients, NEW q,
             pc' = [pc EXCEPT ![c] = q], guard' = Free,
             pc[c] \in InTransaction, q \notin InTransaction
      PROVE  BarrierHeldInTransaction'
  BY <1>1, <1>5, FreeIsNoClient DEF BarrierHeldInTransaction
<1>6. ASSUME NEW c \in Clients,
             pc' = [pc EXCEPT ![c] = "prepare"], guard = Free, guard' = c
      PROVE  BarrierHeldInTransaction'
  BY <1>1, <1>6, FreeIsNoClient DEF BarrierHeldInTransaction, InTransaction
<1>7. ASSUME NEW c \in Clients, AwaitFrame(c) PROVE BarrierHeldInTransaction'
  BY <1>4, <1>7 DEF AwaitFrame, InTransaction
<1>8. ASSUME NEW c \in Clients, NEW v \in Verbs, Receive(c, v)
      PROVE  BarrierHeldInTransaction'
  <2>1. PICK q \in {"capture", "shutdown", "guard"} : pc' = [pc EXCEPT ![c] = q]
    BY <1>8 DEF Receive
  <2> QED
    BY <1>4, <1>8, <2>1 DEF Receive, InTransaction
<1>9. ASSUME NEW c \in Clients, Acquire(c) PROVE BarrierHeldInTransaction'
  BY <1>6, <1>9 DEF Acquire
<1>10. ASSUME NEW c \in Clients, Reject(c) PROVE BarrierHeldInTransaction'
  BY <1>4, <1>10 DEF Reject, InTransaction
<1>11. ASSUME NEW c \in Clients, Prepare(c) \/ Audit(c) \/ Commit(c) \/ Curate(c)
       PROVE  BarrierHeldInTransaction'
  BY <1>4, <1>11 DEF Prepare, AppendWal, WriteFrame, Audit, Commit, Curate,
                     InTransaction
<1>12. ASSUME NEW c \in Clients, AppendFails(c) \/ AuditFails(c)
       PROVE  BarrierHeldInTransaction'
  BY <1>5, <1>12 DEF AppendFails, TearFrame, WriteFrame, AuditFails, AnswerError,
                     InTransaction
<1>13. ASSUME NEW c \in Clients, ApplyTx(c) PROVE BarrierHeldInTransaction'
  BY <1>4, <1>5, <1>13 DEF ApplyTx, AnswerOk, InTransaction
<1>14. ASSUME NEW c \in Clients,
              MaybeSnapshot(c) \/ BeginShutdown(c) \/ Capture(c) \/ WriteSnapshot(c)
       PROVE  BarrierHeldInTransaction'
  BY <1>4, <1>14
     DEF MaybeSnapshot, AnswerOk, BeginShutdown, Capture, WriteSnapshot, InTransaction
<1>15. ASSUME NEW c \in Clients,
              SaveManifest(c) \/ Report(c) \/ ReportFails(c) \/ CleanManifest(c)
       PROVE  BarrierHeldInTransaction'
  BY <1>4, <1>15
     DEF SaveManifest, Report, AnswerOk, ReportFails, CleanManifest, InTransaction
<1>16. ASSUME NEW c \in Clients, SaveFails(c) PROVE BarrierHeldInTransaction'
  BY <1>4, <1>16 DEF SaveFails, InTransaction
<1> QED
  BY <1>2, <1>3, <1>7, <1>8, <1>9, <1>10, <1>11, <1>12, <1>13, <1>14, <1>15, <1>16
     DEF Next, ClientStep

\* The mutation barrier is held by the one thread that is between Prepare and
\* the end of its transaction, and by nobody else: transactions of the router
\* never interleave, for any number of connection threads.
THEOREM BarrierIsExclusive == Spec => []BarrierHeldInTransaction
<1>1. Init => BarrierHeldInTransaction
  BY FreeIsNoClient DEF Init, BarrierHeldInTransaction, InTransaction
<1>2. TypeOK /\ BarrierHeldInTransaction /\ [Next]_vars => BarrierHeldInTransaction'
  BY BarrierStep
<1> QED
  BY <1>1, <1>2, TypeCorrect, PTL DEF Spec

-----------------------------------------------------------------------------
(* The commit and its audit record.                                        *)

\* A thread about to append its commit frame has its audit record.
AuditedBeforeCommit == \A c \in Clients : pc[c] = "commit" => tx[c] \in audited

AuditInv == TypeOK /\ CommittedIsAudited /\ AuditedBeforeCommit

\* No step removes a commit; the only one that a step can add is that of a
\* thread at its commit.
LEMMA CommitEffects ==
    ASSUME TypeOK, [Next]_vars
    PROVE  /\ Committed \subseteq Committed'
           /\ \A t \in Committed' \ Committed :
                 \E c \in Clients : pc[c] = "commit" /\ t = tx[c]
<1>1. CASE wal' = wal
  BY <1>1 DEF Committed
<1>2. ASSUME NEW c \in Clients, wal' = Append(wal, Frame("prepare", tx[c]))
      PROVE  Committed' = Committed
  BY <1>2, AppendCommits DEF TypeOK
<1>3. ASSUME NEW c \in Clients, pc[c] = "commit",
             wal' = Append(wal, Frame("commit", tx[c]))
      PROVE  Committed \subseteq Committed' /\ Committed' \subseteq Committed \cup {tx[c]}
  BY <1>3, AppendCommits DEF TypeOK
<1>4. \/ wal' = wal
      \/ \E c \in Clients : \/ wal' = Append(wal, Frame("prepare", tx[c]))
                            \/ /\ pc[c] = "commit"
                               /\ wal' = Append(wal, Frame("commit", tx[c]))
  BY DataEffects
<1> QED
  BY <1>1, <1>2, <1>3, <1>4

\* Every committed transaction has its mandatory audit record: no interleaving
\* of requests, failed append, failed audit or crash produces a commit frame
\* for an unaudited change (durable_transaction_with_audits).
THEOREM CommittedAreAudited == Spec => []CommittedIsAudited
<1>1. Init => AuditInv
  <2>1. Init => CommittedIsAudited /\ AuditedBeforeCommit
    BY DEF Init, CommittedIsAudited, Committed, AuditedBeforeCommit
  <2> QED
    BY <2>1, TypeInit DEF AuditInv
<1>2. AuditInv /\ [Next]_vars => AuditInv'
  <2> SUFFICES ASSUME AuditInv, [Next]_vars PROVE AuditInv'
    OBVIOUS
  <2>1. TypeOK /\ TypeOK'
    BY TypeStep DEF AuditInv
  <2>2. audited \subseteq audited'
    BY DataEffects
  <2>3. CommittedIsAudited'
    BY <2>1, <2>2, CommitEffects DEF AuditInv, CommittedIsAudited, AuditedBeforeCommit
  <2>4. ASSUME NEW c \in Clients, pc'[c] = "commit" PROVE tx'[c] \in audited'
    <3>1. CASE pc[c] = "commit" /\ tx'[c] = tx[c]
      BY <2>2, <3>1 DEF AuditInv, AuditedBeforeCommit
    <3>2. CASE Audit(c)
      BY <3>2 DEF Audit
    <3> QED
      BY <2>1, <2>4, <3>1, <3>2, PcEffects
  <2>5. AuditedBeforeCommit'
    BY <2>4 DEF AuditedBeforeCommit
  <2> QED
    BY <2>1, <2>3, <2>5 DEF AuditInv
<1>3. AuditInv => CommittedIsAudited
  BY DEF AuditInv
<1> QED
  BY <1>1, <1>2, <1>3, PTL DEF Spec

-----------------------------------------------------------------------------
(* The manifest and the snapshot it names.                                 *)

\* The manifest in memory names a file too, and a thread about to name its
\* snapshot has written it.
SnapshotWritten ==
    /\ nodeManifest.snap \in snaps \cup {NoSnapshot}
    /\ \A c \in Clients : pc[c] = "manifest" => Snapshot(c) \in snaps

ManifestInv == TypeOK /\ ManifestNamesSnapshot /\ SnapshotWritten

\* A crash between any two steps of a snapshot, or a failed write, never leaves
\* a manifest that names a file which is not there: the boot can load it
\* (snapshots.write before manifest.save in write_snapshot_internal).
THEOREM ManifestIsLoadable == Spec => []ManifestNamesSnapshot
<1>1. Init => ManifestInv
  <2>1. Init => ManifestNamesSnapshot /\ SnapshotWritten
    BY DEF Init, ManifestNamesSnapshot, SnapshotWritten, FreshManifest
  <2> QED
    BY <2>1, TypeInit DEF ManifestInv
<1>2. ManifestInv /\ [Next]_vars => ManifestInv'
  <2> SUFFICES ASSUME ManifestInv, [Next]_vars PROVE ManifestInv'
    OBVIOUS
  <2>1. TypeOK /\ TypeOK'
    BY TypeStep DEF ManifestInv
  <2>2. snaps \subseteq snaps'
    BY DataEffects
  <2>3. nodeManifest \in Manifest
    BY <2>1 DEF TypeOK
  <2>4. nodeManifest'.snap \in snaps' \cup {NoSnapshot}
    <3>1. CASE nodeManifest' = nodeManifest
      BY <2>2, <3>1 DEF ManifestInv, SnapshotWritten
    <3>2. CASE nodeManifest' = FreshManifest
      BY <3>2 DEF FreshManifest
    <3>3. ASSUME NEW c \in Clients, pc[c] = "manifest", NameSnapshot(c)
          PROVE  nodeManifest'.snap \in snaps'
      <4>1. nodeManifest'.snap = Snapshot(c)
        BY <2>3, <3>3 DEF NameSnapshot, Manifest
      <4> QED
        BY <2>2, <3>3, <4>1 DEF ManifestInv, SnapshotWritten
    <3>4. ASSUME NEW c \in Clients, MarkClean(c)
          PROVE  nodeManifest'.snap = nodeManifest.snap
      BY <2>3, <3>4 DEF MarkClean, Manifest
    <3>5. \/ nodeManifest' \in {nodeManifest, FreshManifest}
          \/ \E c \in Clients : pc[c] = "manifest" /\ NameSnapshot(c)
          \/ \E c \in Clients : MarkClean(c)
      BY DataEffects
    <3> QED
      BY <2>2, <3>1, <3>2, <3>3, <3>4, <3>5 DEF ManifestInv, SnapshotWritten
  <2>5. ManifestNamesSnapshot'
    <3>1. manifest' \in {manifest, nodeManifest'}
      BY DataEffects
    <3> QED
      BY <2>2, <2>4, <3>1 DEF ManifestInv, ManifestNamesSnapshot
  <2>6. ASSUME NEW c \in Clients, pc'[c] = "manifest" PROVE Snapshot(c)' \in snaps'
    <3>1. CASE /\ pc[c] = "manifest"
               /\ snapAt'[c] = snapAt[c]
               /\ captured'[c] = captured[c]
      BY <2>2, <3>1 DEF ManifestInv, SnapshotWritten, Snapshot
    <3>2. CASE WriteSnapshot(c)
      BY <3>2 DEF WriteSnapshot, Snapshot
    <3> QED
      BY <2>1, <2>6, <3>1, <3>2, PcEffects
  <2>7. SnapshotWritten'
    BY <2>4, <2>6 DEF SnapshotWritten
  <2> QED
    BY <2>1, <2>5, <2>7 DEF ManifestInv
<1>3. ManifestInv => ManifestNamesSnapshot
  BY DEF ManifestInv
<1> QED
  BY <1>1, <1>2, <1>3, PTL DEF Spec

-----------------------------------------------------------------------------
(* State never runs ahead of the log.                                      *)

\* What a thread captured for a snapshot is committed, and a thread about to
\* apply its transaction has committed it.
CommittedBeforeApply ==
    /\ \A c \in Clients : pc[c] = "apply" => tx[c] \in Committed
    /\ \A c \in Clients : Visible(captured[c]) \subseteq Committed

VisibleInv == TypeOK /\ ManifestNamesSnapshot /\ CommittedBeforeApply /\ VisibleIsCommitted

LEMMA VisibleStep ==
    ASSUME VisibleInv, [Next]_vars
    PROVE  CommittedBeforeApply' /\ VisibleIsCommitted'
<1>1. TypeOK /\ TypeOK'
  BY TypeStep DEF VisibleInv
<1>2. Committed \subseteq Committed'
  BY <1>1, CommitEffects
<1>3. /\ mem \in Mem
      /\ captured \in [Clients -> Mem]
      /\ tx \in [Clients -> Tx]
  BY <1>1 DEF TypeOK
<1>4. Visible(manifest.snap.mem) \subseteq Committed
  <2>1. CASE manifest.snap \in snaps
    BY <2>1 DEF VisibleInv, VisibleIsCommitted
  <2>2. CASE manifest.snap = NoSnapshot
    BY <2>2, EmptyMemType DEF NoSnapshot
  <2> QED
    BY <2>1, <2>2 DEF VisibleInv, ManifestNamesSnapshot
<1>5. ASSUME NEW t \in Tx, t \in Committed, mem' = Apply(mem, t)
      PROVE  Visible(mem') \subseteq Committed
  BY <1>3, <1>5, ApplyVisible DEF VisibleInv, VisibleIsCommitted
<1>6. Visible(mem') \subseteq Committed
  <2>1. \/ mem' \in {mem, manifest.snap.mem}
        \/ \E c \in Clients : pc[c] = "apply" /\ mem' = Apply(mem, tx[c])
        \/ \E i \in 1 .. Len(wal) : wal[i].op = "commit" /\ mem' = Apply(mem, wal[i].tx)
    BY DataEffects
  <2>2. CASE mem' \in {mem, manifest.snap.mem}
    BY <1>4, <2>2 DEF VisibleInv, VisibleIsCommitted
  <2>3. ASSUME NEW c \in Clients, pc[c] = "apply", mem' = Apply(mem, tx[c])
        PROVE  Visible(mem') \subseteq Committed
    BY <1>3, <1>5, <2>3 DEF VisibleInv, CommittedBeforeApply
  <2>4. ASSUME NEW i \in 1 .. Len(wal), wal[i].op = "commit", mem' = Apply(mem, wal[i].tx)
        PROVE  Visible(mem') \subseteq Committed
    <3>1. wal[i].tx \in Committed
      BY <2>4 DEF Committed
    <3> QED
      BY <1>1, <1>5, <2>4, <3>1, WalTxs
  <2> QED
    BY <2>1, <2>2, <2>3, <2>4
<1>7. \A c \in Clients : Visible(captured'[c]) \subseteq Committed
  <2>1. captured' = captured \/ \E c \in Clients : captured' = [captured EXCEPT ![c] = mem]
    BY DataEffects
  <2>2. \A c \in Clients : captured'[c] = captured[c] \/ captured'[c] = mem
    BY <1>3, <2>1
  <2> QED
    BY <2>2 DEF VisibleInv, CommittedBeforeApply, VisibleIsCommitted
<1>8. \A s \in snaps' : Visible(s.mem) \subseteq Committed
  <2>1. snaps' = snaps \/ \E c \in Clients : snaps' = snaps \cup {Snapshot(c)}
    BY DataEffects
  <2>2. \A c \in Clients : Snapshot(c).mem = captured[c]
    BY DEF Snapshot
  <2> QED
    BY <2>1, <2>2 DEF VisibleInv, CommittedBeforeApply, VisibleIsCommitted
<1>9. ASSUME NEW c \in Clients, pc'[c] = "apply" PROVE tx'[c] \in Committed'
  <2>1. CASE pc[c] = "apply" /\ tx'[c] = tx[c]
    BY <1>2, <2>1 DEF VisibleInv, CommittedBeforeApply
  <2>2. CASE Commit(c)
    <3>1. tx'[c] = tx[c] /\ wal' = Append(wal, Frame("commit", tx[c]))
      BY <2>2 DEF Commit, AppendWal, WriteFrame
    <3> QED
      BY <1>1, <1>3, <3>1, AppendCommits
  <2> QED
    BY <1>1, <1>9, <2>1, <2>2, PcEffects
<1>10. CommittedBeforeApply'
  BY <1>2, <1>7, <1>9 DEF CommittedBeforeApply, Visible
<1>11. VisibleIsCommitted'
  BY <1>2, <1>6, <1>8 DEF VisibleIsCommitted, Visible
<1> QED
  BY <1>10, <1>11

\* Whatever a reader can see in the cells, and whatever any snapshot file
\* holds, is the effect of a transaction whose commit frame is in the WAL: for
\* any number of threads, failures, crashes and recoveries.
THEOREM VisibleAreCommitted == Spec => []VisibleIsCommitted
<1>1. Init => VisibleInv
  <2>1. Init => ManifestNamesSnapshot
    BY DEF Init, ManifestNamesSnapshot, FreshManifest
  <2>2. Init => CommittedBeforeApply /\ VisibleIsCommitted
    BY EmptyMemType DEF Init, CommittedBeforeApply, VisibleIsCommitted
  <2> QED
    BY <2>1, <2>2, TypeInit DEF VisibleInv
<1>2. VisibleInv /\ [Next]_vars /\ ManifestNamesSnapshot' => VisibleInv'
  <2> SUFFICES ASSUME VisibleInv, [Next]_vars, ManifestNamesSnapshot' PROVE VisibleInv'
    OBVIOUS
  <2>1. TypeOK'
    BY TypeStep DEF VisibleInv
  <2> QED
    BY <2>1, VisibleStep DEF VisibleInv
<1>3. VisibleInv => VisibleIsCommitted
  BY DEF VisibleInv
<1> QED
  BY <1>1, <1>2, <1>3, ManifestIsLoadable, PTL DEF Spec

-----------------------------------------------------------------------------
(* A transaction given up is never committed.                              *)

Settled == Committed \cup failed

\* The steps before a commit frame is in the WAL, and those after.
Early == {"guard", "prepare", "audit", "commit"}
Late == {"apply", "curate"}

\* The id of a request names its transactions: no other thread has it, and
\* within the request the write and the curator output differ in their kind.
\* So nothing settled is the transaction a thread is still to commit.
KeysOK ==
    /\ \A t \in Settled : t.id <= requests
    /\ \A c \in Clients : tx[c].id <= requests
    /\ \A c, d \in Clients : c # d /\ {pc[c], pc[d]} \cap {"idle", "read"} = {}
                               => tx[c].id # tx[d].id
    /\ \A c \in Clients : \A t \in Settled :
          pc[c] \in Early /\ t.id = tx[c].id => tx[c].kind = "curate" /\ t.kind # "curate"
    /\ \A c \in Clients : \A t \in Settled :
          pc[c] \in Late /\ t.id = tx[c].id /\ t.kind = "curate" => tx[c].kind = "curate"
    /\ \A c \in Clients : pc[c] = "curate" => tx[c].kind = "fact"
    /\ \A c \in Clients : pc[c] = "guard" => tx[c].kind = "note"

GivenUpInv == TypeOK /\ KeysOK /\ failed \cap Committed = {}

LEMMA KeyTypes ==
    ASSUME TypeOK
    PROVE  /\ requests \in Nat
           /\ tx \in [Clients -> Tx] /\ pc \in [Clients -> ClientPc]
           /\ \A c \in Clients : tx[c] \in Tx /\ tx[c].id \in Nat
           /\ \A t \in Settled : t \in Tx /\ t.id \in Nat
<1>1. Committed \subseteq Tx
  BY WalTxs
<1>2. failed \subseteq Tx /\ tx \in [Clients -> Tx]
  BY DEF TypeOK
<1>3. \A t \in Tx : t.id \in Nat
  BY DEF Tx
<1> QED
  BY <1>1, <1>2, <1>3 DEF TypeOK, Settled

\* A step that settles nothing and builds no transaction.
LEMMA KeysMove ==
    ASSUME KeysOK, tx' = tx, requests' = requests,
           Committed' = Committed, failed' = failed,
           \A c \in Clients :
              /\ pc'[c] \in Early => pc[c] \in Early
              /\ pc'[c] \in Late => pc[c] \in Late
              /\ pc'[c] = "guard" => pc[c] = "guard"
              /\ pc'[c] = "curate" => tx[c].kind = "fact"
              /\ pc'[c] \notin {"idle", "read"} => pc[c] \notin {"idle", "read"}
    PROVE  KeysOK'
<1>1. Settled' = Settled
  BY DEF Settled
<1> QED
  BY <1>1 DEF KeysOK

\* A thread between guard and commit whose transaction is settled.
LEMMA KeysSettle ==
    ASSUME TypeOK, KeysOK, NEW c \in Clients, pc[c] \in Early,
           tx' = tx, requests' = requests,
           NEW q \in {"idle", "apply"}, pc' = [pc EXCEPT ![c] = q],
           Settled' \subseteq Settled \cup {tx[c]}
    PROVE  KeysOK'
<1>1. pc \in [Clients -> ClientPc]
  BY KeyTypes
<1>2. /\ pc'[c] = q
      /\ \A d \in Clients \ {c} : pc'[d] = pc[d]
  BY <1>1
<1>3. \A d \in Clients \ {c} : pc[d] \notin {"idle", "read"} => tx[d].id # tx[c].id
  BY DEF KeysOK, Early
<1>4. \A t \in Settled' : t.id <= requests'
  BY DEF KeysOK
<1>5. \A d \in Clients : tx'[d].id <= requests'
  BY DEF KeysOK
<1>6. \A d, e \in Clients : d # e /\ {pc'[d], pc'[e]} \cap {"idle", "read"} = {}
                             => tx'[d].id # tx'[e].id
  BY <1>2 DEF KeysOK, Early
<1>7. ASSUME NEW d \in Clients, NEW t \in Settled', pc'[d] \in Early, t.id = tx'[d].id
      PROVE  tx'[d].kind = "curate" /\ t.kind # "curate"
  <2>1. d # c
    BY <1>2, <1>7 DEF Early
  <2> QED
    BY <1>2, <1>3, <1>7, <2>1 DEF KeysOK, Early
<1>8. ASSUME NEW d \in Clients, NEW t \in Settled', pc'[d] \in Late,
             t.id = tx'[d].id, t.kind = "curate"
      PROVE  tx'[d].kind = "curate"
  <2>1. CASE d = c
    BY <1>8, <2>1 DEF KeysOK
  <2>2. CASE d # c
    BY <1>2, <1>3, <1>8, <2>2 DEF KeysOK, Late
  <2> QED
    BY <2>1, <2>2
<1>9. \A d \in Clients : pc'[d] = "curate" => tx'[d].kind = "fact"
  BY <1>2 DEF KeysOK
<1>10. \A d \in Clients : pc'[d] = "guard" => tx'[d].kind = "note"
  BY <1>2 DEF KeysOK
<1> QED
  BY <1>4, <1>5, <1>6, <1>7, <1>8, <1>9, <1>10 DEF KeysOK

\* Receive: the id of a new request is new.
LEMMA KeysReceive ==
    ASSUME TypeOK, KeysOK, NEW c \in Clients, NEW v \in Verbs, Receive(c, v)
    PROVE  KeysOK'
<1> USE DEF locks, stream, files, recovery, history, policy
<1>1. /\ requests \in Nat
      /\ tx \in [Clients -> Tx] /\ pc \in [Clients -> ClientPc]
      /\ \A d \in Clients : tx[d].id \in Nat
      /\ \A t \in Settled : t.id \in Nat
  BY KeyTypes
<1>2. requests' = requests + 1 /\ Settled' = Settled
  BY DEF Receive, Settled, Committed
<1>3. tx' = [tx EXCEPT ![c] = [NoTx EXCEPT !.id = requests', !.at = clock']]
  BY DEF Receive
<1>4. /\ tx'[c].id = requests + 1 /\ tx'[c].kind = "note"
      /\ \A d \in Clients \ {c} : tx'[d] = tx[d]
  BY <1>1, <1>2, <1>3 DEF NoTx
<1>5. PICK q \in {"capture", "shutdown", "guard"} : pc' = [pc EXCEPT ![c] = q]
  BY DEF Receive
<1>6. pc'[c] \in {"capture", "shutdown", "guard"} /\ \A d \in Clients \ {c} : pc'[d] = pc[d]
  BY <1>1, <1>5
<1>7. \A t \in Settled' : t.id <= requests' /\ t.id # tx'[c].id
  BY <1>1, <1>2, <1>4 DEF KeysOK
<1>8. \A d \in Clients : tx'[d].id <= requests' /\ (d # c => tx'[d].id # tx'[c].id)
  BY <1>1, <1>2, <1>4 DEF KeysOK
<1>9. \A d, e \in Clients : d # e /\ {pc'[d], pc'[e]} \cap {"idle", "read"} = {}
                             => tx'[d].id # tx'[e].id
  BY <1>4, <1>6, <1>8 DEF KeysOK
<1>10. \A d \in Clients : \A t \in Settled' :
          pc'[d] \in Early /\ t.id = tx'[d].id => tx'[d].kind = "curate" /\ t.kind # "curate"
  BY <1>2, <1>4, <1>6, <1>7 DEF KeysOK
<1>11. \A d \in Clients : \A t \in Settled' :
          pc'[d] \in Late /\ t.id = tx'[d].id /\ t.kind = "curate" => tx'[d].kind = "curate"
  BY <1>2, <1>4, <1>6, <1>7 DEF KeysOK
<1>12. \A d \in Clients : /\ pc'[d] = "curate" => tx'[d].kind = "fact"
                          /\ pc'[d] = "guard" => tx'[d].kind = "note"
  BY <1>4, <1>6 DEF KeysOK
<1> QED
  BY <1>7, <1>8, <1>9, <1>10, <1>11, <1>12 DEF KeysOK

\* Acquire and Curate keep the id and go on to Prepare.
LEMMA KeysBuild ==
    ASSUME TypeOK, KeysOK, NEW c \in Clients, NEW u \in Tx,
           u.id = tx[c].id, tx' = [tx EXCEPT ![c] = u],
           pc' = [pc EXCEPT ![c] = "prepare"], requests' = requests,
           Committed' = Committed, failed' = failed,
           \/ pc[c] = "guard"
           \/ pc[c] = "curate" /\ u.kind = "curate"
    PROVE  KeysOK'
<1>1. /\ tx \in [Clients -> Tx] /\ pc \in [Clients -> ClientPc]
  BY KeyTypes
<1>2. Settled' = Settled
  BY DEF Settled
<1>3. /\ tx'[c] = u /\ pc'[c] = "prepare"
      /\ \A d \in Clients \ {c} : tx'[d] = tx[d] /\ pc'[d] = pc[d]
  BY <1>1
<1>4. \A d \in Clients : tx'[d].id = tx[d].id
  BY <1>3
<1>5. \A d, e \in Clients : d # e /\ {pc'[d], pc'[e]} \cap {"idle", "read"} = {}
                             => tx'[d].id # tx'[e].id
  BY <1>3, <1>4 DEF KeysOK
<1>6. \A t \in Settled : t.id = u.id => u.kind = "curate" /\ t.kind # "curate"
  <2>1. CASE pc[c] = "guard"
    <3>1. tx[c].kind = "note" /\ pc[c] \in Early
      BY <2>1 DEF KeysOK, Early
    <3>2. \A t \in Settled : t.id = tx[c].id => tx[c].kind = "curate"
      BY <3>1 DEF KeysOK
    <3> QED
      BY <3>1, <3>2
  <2>2. CASE pc[c] = "curate" /\ u.kind = "curate"
    <3>1. tx[c].kind = "fact" /\ pc[c] \in Late
      BY <2>2 DEF KeysOK, Late
    <3>2. \A t \in Settled : t.id = tx[c].id /\ t.kind = "curate" => tx[c].kind = "curate"
      BY <3>1 DEF KeysOK
    <3> QED
      BY <2>2, <3>1, <3>2
  <2> QED
    BY <2>1, <2>2
<1>7. \A d \in Clients : \A t \in Settled' :
          pc'[d] \in Early /\ t.id = tx'[d].id => tx'[d].kind = "curate" /\ t.kind # "curate"
  BY <1>2, <1>3, <1>6 DEF KeysOK
<1>8. \A d \in Clients : \A t \in Settled' :
          pc'[d] \in Late /\ t.id = tx'[d].id /\ t.kind = "curate" => tx'[d].kind = "curate"
  BY <1>2, <1>3 DEF KeysOK, Late
<1>9. \A d \in Clients : pc'[d] = "curate" => tx'[d].kind = "fact"
  BY <1>3 DEF KeysOK
<1>10. \A d \in Clients : pc'[d] = "guard" => tx'[d].kind = "note"
  BY <1>3 DEF KeysOK
<1>11. \A t \in Settled' : t.id <= requests'
  BY <1>2 DEF KeysOK
<1>12. \A d \in Clients : tx'[d].id <= requests'
  BY <1>4 DEF KeysOK
<1> QED
  BY ONLY <1>5, <1>7, <1>8, <1>9, <1>10, <1>11, <1>12 DEF KeysOK

\* Every other step settles nothing and builds nothing.
LEMMA KeysStep ==
    ASSUME TypeOK, TypeOK', KeysOK, failed \cap Committed = {}, [Next]_vars
    PROVE  KeysOK' /\ failed' \cap Committed' = {}
<1> USE DEF locks, stream, files, recovery, history, policy
<1> DEFINE Goal == KeysOK' /\ failed' \cap Committed' = {}
<1>1. /\ tx \in [Clients -> Tx] /\ pc \in [Clients -> ClientPc]
  BY KeyTypes
<1>2. ASSUME tx' = tx, requests' = requests, wal' = wal, failed' = failed,
             \/ pc' = [c \in Clients |-> "idle"]
             \/ pc' = pc
             \/ \E c \in Clients, q \in ClientPc :
                   /\ pc' = [pc EXCEPT ![c] = q]
                   /\ q \in Early => pc[c] \in Early /\ q # "guard"
                   /\ q \in Late => pc[c] \in Late /\ tx[c].kind = "fact"
                   /\ q \notin {"idle", "read"} => pc[c] \notin {"idle", "read"}
      PROVE  Goal
  <2>1. Committed' = Committed
    BY <1>2 DEF Committed
  <2>2. CASE pc' = [c \in Clients |-> "idle"] \/ pc' = pc
    <3>1. \A c \in Clients : pc'[c] = pc[c] \/ pc'[c] = "idle"
      BY <2>2
    <3>2. KeysOK'
      BY <1>2, <2>1, <3>1, KeysMove DEF KeysOK, Early, Late
    <3> QED
      BY <1>2, <2>1, <3>2
  <2>3. ASSUME NEW c \in Clients, NEW q \in ClientPc, pc' = [pc EXCEPT ![c] = q],
               q \in Early => pc[c] \in Early /\ q # "guard",
               q \in Late => pc[c] \in Late /\ tx[c].kind = "fact",
               q \notin {"idle", "read"} => pc[c] \notin {"idle", "read"}
        PROVE  Goal
    <3>1. pc'[c] = q /\ \A d \in Clients \ {c} : pc'[d] = pc[d]
      BY <1>1, <2>3
    <3>2. \A d \in Clients :
            /\ pc'[d] \in Early => pc[d] \in Early
            /\ pc'[d] \in Late => pc[d] \in Late
            /\ pc'[d] = "guard" => pc[d] = "guard"
            /\ pc'[d] = "curate" => tx[d].kind = "fact"
            /\ pc'[d] \notin {"idle", "read"} => pc[d] \notin {"idle", "read"}
      BY <2>3, <3>1 DEF KeysOK, Early, Late
    <3>3. KeysOK'
      BY <1>2, <2>1, <3>2, KeysMove
    <3> QED
      BY <1>2, <2>1, <3>3
  <2> QED
    BY <1>2, <2>2, <2>3
<1>3. ASSUME NEW c \in Clients, pc[c] \in Early, tx[c] \in Settled PROVE FALSE
  BY <1>3 DEF KeysOK
<1>4. ASSUME NEW c \in Clients, AuditFails(c) \/ AppendFails(c) PROVE Goal
  <2>1. /\ tx' = tx /\ requests' = requests /\ pc' = [pc EXCEPT ![c] = "idle"]
        /\ pc[c] \in Early
        /\ failed' = IF pc[c] = "commit" THEN failed ELSE failed \cup {tx[c]}
        /\ \/ wal' = wal
           \/ pc[c] \in {"prepare", "commit"} /\ wal' = Append(wal, Frame(pc[c], tx[c]))
    BY <1>4 DEF AuditFails, AppendFails, TearFrame, WriteFrame, AnswerError, Early
  <2>2. /\ Committed' \subseteq Committed \cup {tx[c]}
        /\ pc[c] # "commit" => Committed' = Committed
    <3>1. CASE wal' = wal
      BY <3>1 DEF Committed
    <3>2. CASE pc[c] = "prepare" /\ wal' = Append(wal, Frame("prepare", tx[c]))
      BY <1>1, <3>2, AppendCommits
    <3>3. CASE pc[c] = "commit" /\ wal' = Append(wal, Frame("commit", tx[c]))
      BY <1>1, <3>3, AppendCommits
    <3> QED
      BY <2>1, <3>1, <3>2, <3>3
  <2>3. KeysOK'
    BY <2>1, <2>2, KeysSettle DEF Settled
  <2>4. failed' \cap Committed' = {}
    BY <1>3, <2>1, <2>2 DEF Settled
  <2> QED
    BY <2>3, <2>4
<1>5. ASSUME NEW c \in Clients, Commit(c) PROVE Goal
  <2>1. /\ tx' = tx /\ requests' = requests /\ pc' = [pc EXCEPT ![c] = "apply"]
        /\ pc[c] \in Early /\ failed' = failed
        /\ wal' = Append(wal, Frame("commit", tx[c]))
    BY <1>5 DEF Commit, AppendWal, WriteFrame, Early
  <2>2. Committed' \subseteq Committed \cup {tx[c]}
    BY <1>1, <2>1, AppendCommits
  <2>3. KeysOK'
    BY <2>1, <2>2, KeysSettle DEF Settled
  <2>4. failed' \cap Committed' = {}
    BY <1>3, <2>1, <2>2 DEF Settled
  <2> QED
    BY <2>3, <2>4
<1>6. ASSUME NEW c \in Clients, Prepare(c) PROVE Goal
  <2>1. /\ tx' = tx /\ requests' = requests /\ pc' = [pc EXCEPT ![c] = "audit"]
        /\ pc[c] = "prepare" /\ failed' = failed
        /\ wal' = Append(wal, Frame("prepare", tx[c]))
    BY <1>6 DEF Prepare, AppendWal, WriteFrame
  <2>2. Committed' = Committed
    BY <1>1, <2>1, AppendCommits
  <2>3. pc'[c] = "audit" /\ \A d \in Clients \ {c} : pc'[d] = pc[d]
    BY <1>1, <2>1
  <2>4. KeysOK'
    BY <2>1, <2>2, <2>3, KeysMove DEF KeysOK, Early, Late
  <2> QED
    BY <2>1, <2>2, <2>4
<1>7. ASSUME NEW c \in Clients, NEW v \in Verbs, Receive(c, v) PROVE Goal
  <2>1. failed' = failed /\ Committed' = Committed
    BY <1>7 DEF Receive, Committed
  <2> QED
    BY <1>7, <2>1, KeysReceive
<1>8. ASSUME NEW c \in Clients, Acquire(c) \/ Curate(c) PROVE Goal
  <2>0. /\ failed' = failed /\ wal' = wal /\ requests' = requests
        /\ pc' = [pc EXCEPT ![c] = "prepare"]
    BY <1>8 DEF Acquire, Curate
  <2>1. Committed' = Committed
    BY <2>0 DEF Committed
  <2>2. tx' \in [Clients -> Tx] /\ tx'[c] \in Tx
    BY DEF TypeOK
  <2>3. tx' = [tx EXCEPT ![c] = tx'[c]]
    BY <1>1, <1>8, <2>2 DEF Acquire, Curate
  <2>4. tx[c] \in Tx
    BY <1>1
  <2>5. CASE Acquire(c)
    <3>1. tx'[c].id = tx[c].id
      BY <1>1, <2>4, <2>5 DEF Acquire, Tx
    <3>2. KeysOK'
      BY <2>0, <2>1, <2>2, <2>3, <2>5, <3>1, KeysBuild DEF Acquire
    <3> QED
      BY <2>0, <2>1, <3>2
  <2>6. CASE Curate(c)
    <3>1. tx'[c].id = tx[c].id /\ tx'[c].kind = "curate"
      BY <1>1, <2>6 DEF Curate, NoTx
    <3>2. KeysOK'
      BY <2>0, <2>1, <2>2, <2>3, <2>6, <3>1, KeysBuild DEF Curate
    <3> QED
      BY <2>0, <2>1, <3>2
  <2> QED
    BY <1>8, <2>5, <2>6
<1> HIDE DEF Goal
<1>9. ASSUME NEW c \in Clients, AwaitFrame(c) \/ Reject(c) \/ Audit(c) \/ ApplyTx(c)
      PROVE  Goal
  BY <1>2, <1>9
     DEF AwaitFrame, Reject, Audit, ApplyTx, AnswerOk, ClientPc, Early, Late
<1>10. ASSUME NEW c \in Clients,
              MaybeSnapshot(c) \/ BeginShutdown(c) \/ Capture(c) \/ WriteSnapshot(c)
       PROVE  Goal
  BY <1>2, <1>10
     DEF MaybeSnapshot, AnswerOk, BeginShutdown, Capture, WriteSnapshot, ClientPc,
         Early, Late
<1>11. ASSUME NEW c \in Clients, \/ SaveManifest(c) \/ Report(c) \/ ReportFails(c)
                                 \/ CleanManifest(c) \/ SaveFails(c)
       PROVE  Goal
  BY <1>2, <1>11
     DEF SaveManifest, Report, AnswerOk, ReportFails, CleanManifest, SaveFails,
         ClientPc, Early, Late
<1>12. ASSUME Crash \/ Exit PROVE Goal
  BY <1>2, <1>12 DEF Crash, Exit, ProcessEnds, TearFrame
<1>13. ASSUME RecoveryStep \/ UNCHANGED vars PROVE Goal
  <2>1. tx' = tx /\ requests' = requests /\ wal' = wal /\ failed' = failed /\ pc' = pc
    BY <1>13 DEF RecoveryStep, RecoverBegin, BootOutcome, ReplayFrame, RecoverEnd,
                 BootRecorded, BootRecordFails, vars
  <2> QED
    BY <1>2, <2>1
<1>14. ASSUME NEW c \in Clients, ClientStep(c) PROVE Goal
  BY <1>4, <1>5, <1>6, <1>8, <1>9, <1>10, <1>11, <1>14 DEF ClientStep
<1>15. Goal
  BY <1>7, <1>9, <1>12, <1>13, <1>14 DEF Next
<1> QED
  BY <1>15 DEF Goal

\* A request answered with an error before its commit frame was handed to the
\* WAL has no effect, live or after any number of crashes and recoveries: its
\* transaction is never committed, and only what is committed is visible
\* (durable_transaction_with_audits, replay_stream).
THEOREM FailedAreInvisible == Spec => []FailedNeverVisible
<1>1. Init => GivenUpInv
  <2>1. ASSUME Init PROVE KeysOK /\ failed \cap Committed = {}
    <3>1. Settled = {} /\ failed = {}
      BY <2>1 DEF Init, Settled, Committed
    <3>2. \A c \in Clients : pc[c] = "idle" /\ tx[c].id <= requests
      BY <2>1 DEF Init, NoTx
    <3>3. KeysOK
      BY <3>1, <3>2 DEF KeysOK, Early, Late
    <3> QED
      BY <3>1, <3>3
  <2> QED
    BY <2>1, TypeInit DEF GivenUpInv
<1>2. GivenUpInv /\ [Next]_vars => GivenUpInv'
  <2> SUFFICES ASSUME GivenUpInv, [Next]_vars PROVE GivenUpInv'
    OBVIOUS
  <2>1. TypeOK'
    BY TypeStep DEF GivenUpInv
  <2> QED
    BY <2>1, KeysStep DEF GivenUpInv
<1>3. GivenUpInv /\ VisibleIsCommitted => FailedNeverVisible
  BY DEF GivenUpInv, VisibleIsCommitted, FailedNeverVisible
<1> QED
  BY <1>1, <1>2, <1>3, VisibleAreCommitted, PTL DEF Spec


-----------------------------------------------------------------------------
(* One connection thread: what is answered is there.                       *)

\* One thread serves every request, one after the other.
Solo == \A c, d \in Clients : c = d

\* What the cells keep for good: all but the scratchpad note.
Kept(m) ==
    m.facts \cup m.edges \cup m.quarantine \cup m.curated
    \cup {m.timeline[i] : i \in 1 .. Len(m.timeline)}

\* A boot from the snapshot s brings t back: s holds it, or its frames are
\* replayed.
BroughtBack(s, t) == t.at > s.at \/ t \in Kept(s.mem)

Busy(c) == pc[c] \notin {"idle", "read"}
Building == {"guard", "prepare", "audit", "commit", "apply"}

\* What has been answered, and what the request of c has committed, unless the
\* commit is behind a fragment.
Promised == {t \in answered : t.kind # "note" /\ ~Hidden(t)}
Pending(c) == {t \in Committed : t.id = tx[c].id /\ t.kind # "note" /\ ~Hidden(t)}

\* The times of the thread, of the clock and of the manifest.
TimesOK ==
    /\ status # "up" => \A c \in Clients : pc[c] = "idle"
    /\ manifest.snap.at <= manifest.at
    /\ status = "up" => manifest.snap.at <= clock
    /\ \A c \in Clients : Busy(c) => snapAt[c] <= clock
    /\ \A c \in Clients : pc[c] \in {"report", "clean"} =>
          nodeManifest.snap = manifest.snap /\ manifest.snap.at = snapAt[c]
    /\ \A c \in Clients : pc[c] \in Building => tx[c].at > manifest.snap.at

IdsOK ==
    /\ answered \subseteq Committed
    /\ \A t \in Committed : t.id <= requests
    /\ \A c \in Clients : tx[c].id <= requests
    /\ hidden \subseteq 1 .. Len(wal)

\* Nothing promised, or about to be, is lost by a crash at this point.
PromisesOK ==
    /\ \A t \in Promised : BroughtBack(manifest.snap, t)
    /\ \A c \in Clients : Busy(c) => \A t \in Pending(c) :
          /\ BroughtBack(manifest.snap, t)
          /\ t \in Kept(mem) \/ (pc[c] = "apply" /\ t = tx[c])
    /\ \A c \in Clients : pc[c] \in {"file", "manifest"} =>
          Promised \cup Pending(c) \subseteq Kept(captured[c])
    /\ status = "up" => Promised \subseteq Kept(mem)
    /\ status = "recovering" => \A t \in Promised :
          t \in Kept(mem) \/ \E i \in todo : i \in 1 .. Len(wal) /\ wal[i] = Frame("commit", t)

AnswerInv == TypeOK /\ TimesOK /\ IdsOK /\ PromisesOK

\* Applying a transaction keeps it, and forgets nothing that was kept.
LEMMA ApplyKeeps ==
    ASSUME NEW m \in Mem, NEW t \in Tx
    PROVE  /\ Kept(m) \subseteq Kept(Apply(m, t))
           /\ t.kind # "note" => t \in Kept(Apply(m, t))
<1> DEFINE n == Apply(m, t)
<1>1. CASE t.kind = "event"
  <2>1. /\ n.facts = m.facts /\ n.edges = m.edges /\ n.quarantine = m.quarantine
        /\ n.curated = m.curated /\ n.timeline = Append(m.timeline, t)
    BY <1>1 DEF Mem, Apply
  <2>2. m.timeline \in Seq(Tx)
    BY DEF Mem
  <2>3. /\ \A i \in 1 .. Len(m.timeline) :
              i \in 1 .. Len(n.timeline) /\ n.timeline[i] = m.timeline[i]
        /\ Len(n.timeline) \in 1 .. Len(n.timeline) /\ n.timeline[Len(n.timeline)] = t
    BY <2>1, <2>2
  <2> HIDE DEF n
  <2>4. \A x : (\E i \in 1 .. Len(n.timeline) : n.timeline[i] = x) => x \in Kept(n)
    BY DEF Kept
  <2>5. ASSUME NEW x \in Kept(m) PROVE x \in Kept(n)
    <3>1. CASE \E i \in 1 .. Len(m.timeline) : m.timeline[i] = x
      BY <2>3, <2>4, <3>1
    <3>2. CASE x \in m.facts \cup m.edges \cup m.quarantine \cup m.curated
      BY <2>1, <3>2 DEF Kept
    <3> QED
      BY <2>5, <3>1, <3>2 DEF Kept
  <2> QED
    BY <2>3, <2>4, <2>5 DEF n
<1>2. CASE t.kind = "fact"
  <2>1. n = [m EXCEPT !.facts = @ \cup {t}]
    BY <1>2 DEF Apply
  <2> QED
    BY <2>1 DEF Mem, Kept
<1>3. CASE t.kind = "supersede"
  <2>1. n = [m EXCEPT !.edges = @ \cup {t}]
    BY <1>3 DEF Apply
  <2> QED
    BY <2>1 DEF Mem, Kept
<1>4. CASE t.kind = "note"
  <2>1. n = [m EXCEPT !.pad = t]
    BY <1>4 DEF Apply
  <2> QED
    BY <1>4, <2>1 DEF Mem, Kept
<1>5. CASE t.kind = "absorb"
  <2>1. n = IF t \in m.quarantine THEN m
            ELSE [m EXCEPT !.quarantine = @ \cup {t}, !.nextSeq = @ + 1]
    BY <1>5 DEF Apply
  <2> QED
    BY <2>1 DEF Mem, Kept
<1>6. CASE t.kind = "curate"
  <2>1. n = [m EXCEPT !.curated = @ \cup {t}]
    BY <1>6 DEF Apply
  <2> QED
    BY <2>1 DEF Mem, Kept
<1> QED
  BY <1>1, <1>2, <1>3, <1>4, <1>5, <1>6, TxCases

\* A frame behind a fragment hides its own transaction, if it commits it, and
\* no other.
LEMMA AppendHides ==
    ASSUME TypeOK, NEW t \in Tx, NEW op \in {"prepare", "commit"},
           wal' = Append(wal, Frame(op, t)), hidden \subseteq 1 .. Len(wal),
           hidden' \in {hidden, hidden \cup {Len(wal) + 1}}
    PROVE  /\ hidden' \subseteq 1 .. Len(wal')
           /\ \A u : Hidden(u) => Hidden(u)'
           /\ op = "prepare" => \A u : Hidden(u)' <=> Hidden(u)
<1>1. /\ Len(wal') = Len(wal) + 1
      /\ \A i \in 1 .. Len(wal) : wal'[i] = wal[i]
      /\ wal'[Len(wal) + 1] = Frame(op, t)
      /\ Len(wal) \in Nat
  BY DEF TypeOK
<1>2. hidden' \subseteq 1 .. Len(wal')
  BY <1>1
<1>3. ASSUME NEW u, Hidden(u) PROVE Hidden(u)'
  <2>1. PICK i \in hidden : wal[i] = Frame("commit", u)
    BY <1>3 DEF Hidden
  <2>2. i \in hidden' /\ wal'[i] = Frame("commit", u)
    BY <1>1, <2>1
  <2> QED
    BY <2>2 DEF Hidden
<1>4. ASSUME op = "prepare", NEW u, Hidden(u)' PROVE Hidden(u)
  <2>1. PICK i \in hidden' : wal'[i] = Frame("commit", u)
    BY <1>4 DEF Hidden
  <2>2. Frame("prepare", t) # Frame("commit", u)
    BY DEF Frame
  <2>3. i \in hidden /\ wal[i] = Frame("commit", u)
    BY <1>1, <1>4, <2>1, <2>2
  <2> QED
    BY <2>3 DEF Hidden
<1> QED
  BY <1>2, <1>3, <1>4

\* Nothing is appended.
LEMMA SameLog ==
    ASSUME wal' = wal, hidden' = hidden
    PROVE  Committed' = Committed /\ \A u : Hidden(u)' <=> Hidden(u)
  BY DEF Committed, Hidden

LEMMA AnswerInit == ASSUME Init PROVE AnswerInv
<1>1. TypeOK
  BY TypeInit
<1>2. manifest.at = 0 /\ manifest.snap.at = 0
  BY DEF Init, FreshManifest, NoSnapshot
<1>3. wal = <<>> /\ Committed = {}
  BY DEF Init, Committed
<1>4. hidden = {} /\ \A c \in Clients : tx[c].id <= requests
  BY DEF Init, NoTx
<1> QED
  BY <1>1, <1>2, <1>3, <1>4
     DEF Init, AnswerInv, TimesOK, IdsOK, PromisesOK, Busy, Building, Promised, Pending

\* A step of the thread that commits and answers nothing.
LEMMA AnswerMove ==
    ASSUME Solo, AnswerInv, TypeOK', NEW c \in Clients,
           status = "up", status' = "up", answered' = answered, Committed' = Committed,
           hidden' \subseteq 1 .. Len(wal'), \A u : Hidden(u)' <=> Hidden(u), mem' = mem,
           manifest' = manifest, captured' = captured, requests' = requests,
           clock' >= clock, pc[c] = "apply" => ~ Busy(c)', pc'[c] # "apply",
           tx'[c].id = tx[c].id, Busy(c)' => Busy(c) /\ snapAt'[c] <= clock',
           pc'[c] \in Building => tx'[c].at > manifest.snap.at,
           pc'[c] \in {"file", "manifest"} => pc[c] \in {"file", "manifest"},
           pc'[c] \in {"report", "clean"} =>
              /\ pc[c] \in {"report", "clean"}
              /\ nodeManifest' = nodeManifest /\ snapAt'[c] = snapAt[c]
    PROVE  AnswerInv'
<1>1. \A d \in Clients : d = c
  BY DEF Solo
<1>2. Promised' = Promised
  BY DEF Promised
<1>3. Busy(c)' => Pending(c)' = Pending(c)
  BY DEF Pending
<1>4. clock \in Nat /\ clock' \in Nat /\ manifest.snap.at \in Nat
  BY DEF AnswerInv, TypeOK, Manifest, SnapshotFile
<1>5. TimesOK'
  BY <1>1, <1>4 DEF AnswerInv, TimesOK
<1>6. IdsOK'
  BY <1>1 DEF AnswerInv, IdsOK
<1>7. /\ \A t \in Promised : BroughtBack(manifest.snap, t) /\ t \in Kept(mem)
      /\ Busy(c)' => \A t \in Pending(c) : BroughtBack(manifest.snap, t) /\ t \in Kept(mem)
      /\ pc'[c] \in {"file", "manifest"} => Promised \cup Pending(c) \subseteq Kept(captured[c])
  BY DEF AnswerInv, PromisesOK
<1>8. PromisesOK'
  <2>1. \A t \in Promised' : BroughtBack(manifest'.snap, t)
    BY <1>2, <1>7
  <2>2. Busy(c)' => \A t \in Pending(c)' : BroughtBack(manifest'.snap, t) /\ t \in Kept(mem')
    BY <1>3, <1>7
  <2>3. pc'[c] \in {"file", "manifest"} => Promised' \cup Pending(c)' \subseteq Kept(captured'[c])
    BY <1>2, <1>3, <1>7 DEF Busy
  <2>4. Promised' \subseteq Kept(mem')
    BY <1>2, <1>7
  <2> QED
    BY <1>1, <2>1, <2>2, <2>3, <2>4 DEF PromisesOK
<1> QED
  BY <1>5, <1>6, <1>8 DEF AnswerInv

\* A step that answers the request.
LEMMA AnswerGiven ==
    ASSUME Solo, AnswerInv, TypeOK', NEW c \in Clients, Busy(c),
           status = "up", status' = "up", wal' = wal, hidden' = hidden,
           requests' = requests, clock' = clock, tx' = tx, pc'[c] = "idle",
           answered' = answered \cup {t \in Committed : t.id = tx[c].id},
           manifest'.snap = manifest.snap, manifest'.snap.at <= manifest'.at,
           Kept(mem) \subseteq Kept(mem'),
           pc[c] = "apply" /\ tx[c].kind # "note" => tx[c] \in Kept(mem')
    PROVE  AnswerInv'
<1>1. \A d \in Clients : d = c
  BY DEF Solo
<1>2. Promised' = Promised \cup Pending(c)
  BY SameLog DEF Promised, Pending
<1>5. TimesOK'
  BY <1>1 DEF AnswerInv, TimesOK, Busy, Building
<1>6. IdsOK'
  BY SameLog DEF AnswerInv, IdsOK
<1>7. /\ \A t \in Promised : BroughtBack(manifest.snap, t) /\ t \in Kept(mem)
      /\ \A t \in Pending(c) : BroughtBack(manifest.snap, t)
                               /\ (t \in Kept(mem) \/ (pc[c] = "apply" /\ t = tx[c]))
  BY DEF AnswerInv, PromisesOK
<1>8. \A t \in Pending(c) : t.kind # "note"
  BY DEF Pending
<1>9. \A t \in Promised' : BroughtBack(manifest'.snap, t) /\ t \in Kept(mem')
  BY <1>2, <1>7, <1>8
<1>10. PromisesOK'
  BY <1>1, <1>9 DEF PromisesOK, Busy
<1> QED
  BY <1>5, <1>6, <1>10 DEF AnswerInv

\* A step that ends the process, or a boot that goes on.
LEMMA AnswerOff ==
    ASSUME AnswerInv, TypeOK', status' # "up", \A c \in Clients : pc'[c] = "idle",
           answered' = answered, wal' = wal, hidden' = hidden, manifest' = manifest,
           requests' = requests, tx' = tx, status' = "recovering" => \A t \in Promised :
              \/ t \in Kept(mem')
              \/ \E i \in todo' : i \in 1 .. Len(wal) /\ wal[i] = Frame("commit", t)
    PROVE  AnswerInv'
<1>1. Promised' = Promised /\ Committed' = Committed
  BY SameLog DEF Promised
<1>2. TimesOK'
  BY DEF AnswerInv, TimesOK, Busy, Building
<1>3. IdsOK'
  BY <1>1 DEF AnswerInv, IdsOK
<1>4. PromisesOK'
  BY <1>1 DEF AnswerInv, PromisesOK, Busy
<1> QED
  BY <1>2, <1>3, <1>4 DEF AnswerInv

LEMMA SoloTypes ==
    ASSUME TypeOK
    PROVE  /\ pc \in [Clients -> ClientPc] /\ tx \in [Clients -> Tx]
           /\ snapAt \in [Clients -> Nat] /\ captured \in [Clients -> Mem]
           /\ clock \in Nat /\ requests \in Nat /\ mem \in Mem
           /\ manifest \in Manifest /\ manifest.snap.at \in Nat
           /\ nodeManifest \in Manifest
  BY DEF TypeOK, Manifest, SnapshotFile

\* The steps of the thread that commit and answer nothing.
LEMMA AnswerMoves ==
    ASSUME Solo, AnswerInv, TypeOK', NEW c \in Clients,
           \/ AwaitFrame(c) \/ Acquire(c) \/ Reject(c) \/ Prepare(c) \/ Audit(c)
           \/ AuditFails(c) \/ Curate(c) \/ BeginShutdown(c) \/ WriteSnapshot(c)
           \/ ReportFails(c) \/ SaveFails(c)
    PROVE  AnswerInv'
<1> USE DEF locks, stream, files, recovery, history, policy
<1>1. /\ pc \in [Clients -> ClientPc] /\ tx \in [Clients -> Tx]
      /\ snapAt \in [Clients -> Nat] /\ clock \in Nat /\ manifest.snap.at \in Nat
  BY SoloTypes DEF AnswerInv
<1>2. /\ status = "up" => manifest.snap.at <= clock
      /\ pc[c] \in Building => tx[c].at > manifest.snap.at
      /\ Busy(c) => snapAt[c] <= clock
  BY DEF AnswerInv, TimesOK
<1>3. TypeOK /\ hidden \subseteq 1 .. Len(wal)
  BY DEF AnswerInv, IdsOK
<1>4. CASE AwaitFrame(c) \/ Reject(c)
  <2>1. /\ status = "up" /\ status' = status /\ answered' = answered /\ UNCHANGED <<wal, hidden>>
        /\ mem' = mem /\ manifest' = manifest /\ captured' = captured
        /\ requests' = requests /\ clock' = clock /\ tx' = tx
        /\ pc'[c] \in {"read", "idle"} /\ pc[c] \in {"idle", "guard"}
    BY <1>1, <1>4 DEF AwaitFrame, Reject
  <2>2. /\ Committed' = Committed /\ clock' >= clock
        /\ hidden' \subseteq 1 .. Len(wal') /\ \A u : Hidden(u)' <=> Hidden(u)
    BY <1>1, <1>3, <2>1, SameLog
  <2> QED
    BY <2>1, <2>2, AnswerMove DEF Busy, Building
<1>5. CASE Acquire(c)
  <2>1. /\ status = "up" /\ status' = status /\ answered' = answered /\ UNCHANGED <<wal, hidden>>
        /\ mem' = mem /\ manifest' = manifest /\ captured' = captured
        /\ requests' = requests /\ clock' = clock /\ snapAt' = snapAt
        /\ pc'[c] = "prepare" /\ pc[c] = "guard"
    BY <1>1, <1>5 DEF Acquire
  <2>2. /\ Committed' = Committed /\ clock' >= clock
        /\ hidden' \subseteq 1 .. Len(wal') /\ \A u : Hidden(u)' <=> Hidden(u)
    BY <1>1, <1>3, <2>1, SameLog
  <2>3. PICK old, new \in FactIds(mem) \cup {0}, s \in Shards :
           tx' = [tx EXCEPT ![c] =
                    [@ EXCEPT !.kind = verb[c], !.old = old, !.new = new, !.shard = s,
                              !.qseq = IF verb[c] = "absorb" THEN mem.nextSeq ELSE 0]]
    BY <1>5 DEF Acquire
  <2>4. tx'[c].id = tx[c].id /\ tx'[c].at = tx[c].at
    <3>1. tx[c] \in Tx
      BY <1>1
    <3> QED
      BY <1>1, <2>3, <3>1 DEF Tx
  <2> QED
    BY <1>2, <2>1, <2>2, <2>4, AnswerMove DEF Busy, Building
<1>6. CASE Prepare(c)
  <2>1. /\ status = "up" /\ status' = status /\ answered' = answered
        /\ mem' = mem /\ manifest' = manifest /\ captured' = captured
        /\ requests' = requests /\ clock' = clock /\ snapAt' = snapAt /\ tx' = tx
        /\ pc'[c] = "audit" /\ pc[c] = "prepare"
        /\ wal' = Append(wal, Frame("prepare", tx[c]))
        /\ hidden' \in {hidden, hidden \cup {Len(wal) + 1}}
    BY <1>1, <1>6 DEF Prepare, AppendWal, WriteFrame
  <2>3. tx[c] \in Tx
    BY <1>1
  <2>4. Committed' = Committed
    BY <1>3, <2>1, <2>3, AppendCommits
  <2>2. /\ Committed' = Committed /\ clock' >= clock
        /\ hidden' \subseteq 1 .. Len(wal') /\ \A u : Hidden(u)' <=> Hidden(u)
    BY <1>1, <1>3, <2>1, <2>3, <2>4, AppendHides
  <2> QED
    BY <1>2, <2>1, <2>2, AnswerMove DEF Busy, Building
<1>7. CASE Audit(c) \/ WriteSnapshot(c)
  <2>1. /\ status = "up" /\ status' = status /\ answered' = answered
        /\ mem' = mem /\ manifest' = manifest /\ captured' = captured
        /\ requests' = requests /\ clock' = clock /\ snapAt' = snapAt /\ tx' = tx
        /\ \/ pc[c] = "audit" /\ pc'[c] = "commit"
           \/ pc[c] = "file" /\ pc'[c] = "manifest"
        /\ UNCHANGED <<wal, hidden>>
    BY <1>1, <1>7 DEF Audit, WriteSnapshot
  <2>2. /\ Committed' = Committed /\ clock' >= clock
        /\ hidden' \subseteq 1 .. Len(wal') /\ \A u : Hidden(u)' <=> Hidden(u)
    BY <1>1, <1>3, <2>1, SameLog
  <2> QED
    BY <1>2, <2>1, <2>2, AnswerMove DEF Busy, Building
<1>8. CASE AuditFails(c) \/ ReportFails(c) \/ SaveFails(c)
  <2>1. /\ status = "up" /\ status' = status /\ answered' = answered
        /\ mem' = mem /\ manifest' = manifest /\ captured' = captured
        /\ requests' = requests /\ clock' = clock /\ pc'[c] = "idle" /\ UNCHANGED <<wal, hidden>>
        /\ tx' = tx
    BY <1>1, <1>8 DEF AuditFails, AnswerError, ReportFails, SaveFails
  <2>2. /\ Committed' = Committed /\ clock' >= clock
        /\ hidden' \subseteq 1 .. Len(wal') /\ \A u : Hidden(u)' <=> Hidden(u)
    BY <1>1, <1>3, <2>1, SameLog
  <2> QED
    BY <2>1, <2>2, AnswerMove DEF Busy, Building
<1>9. CASE Curate(c)
  <2>1. /\ status = "up" /\ status' = status /\ answered' = answered /\ UNCHANGED <<wal, hidden>>
        /\ mem' = mem /\ manifest' = manifest /\ captured' = captured
        /\ requests' = requests /\ clock' = clock + 1 /\ snapAt' = snapAt
        /\ pc'[c] = "prepare" /\ pc[c] = "curate"
        /\ \E s : tx'[c] = [NoTx EXCEPT !.id = tx[c].id, !.at = clock',
                                        !.kind = "curate", !.shard = s]
    BY <1>1, <1>9 DEF Curate
  <2>2. /\ Committed' = Committed /\ clock' >= clock
        /\ hidden' \subseteq 1 .. Len(wal') /\ \A u : Hidden(u)' <=> Hidden(u)
    BY <1>1, <1>3, <2>1, SameLog
  <2>3. tx'[c].id = tx[c].id /\ tx'[c].at = clock + 1
    BY <2>1 DEF NoTx
  <2>4. tx'[c].at > manifest.snap.at /\ snapAt'[c] <= clock'
    BY <1>1, <1>2, <2>1, <2>3 DEF Busy
  <2> QED
    BY <2>1, <2>2, <2>3, <2>4, AnswerMove DEF Busy, Building
<1>10. CASE BeginShutdown(c)
  <2>1. /\ status = "up" /\ status' = status /\ answered' = answered /\ UNCHANGED <<wal, hidden>>
        /\ mem' = mem /\ manifest' = manifest /\ captured' = captured /\ tx' = tx
        /\ requests' = requests /\ clock' = clock /\ snapAt'[c] = clock
        /\ pc'[c] = "capture" /\ pc[c] = "shutdown"
    BY <1>1, <1>10 DEF BeginShutdown
  <2>2. /\ Committed' = Committed /\ clock' >= clock
        /\ hidden' \subseteq 1 .. Len(wal') /\ \A u : Hidden(u)' <=> Hidden(u)
    BY <1>1, <1>3, <2>1, SameLog
  <2> QED
    BY <1>1, <2>1, <2>2, AnswerMove DEF Busy, Building
<1> QED
  BY <1>4, <1>5, <1>6, <1>7, <1>8, <1>9, <1>10

\* The steps that may answer the request: its snapshot is due or not, and done.
LEMMA AnswerAnswers ==
    ASSUME Solo, AnswerInv, TypeOK', NEW c \in Clients,
           MaybeSnapshot(c) \/ Report(c) \/ CleanManifest(c)
    PROVE  AnswerInv'
<1> USE DEF locks, stream, files, recovery, history, policy
<1>1. /\ pc \in [Clients -> ClientPc] /\ tx \in [Clients -> Tx]
      /\ snapAt \in [Clients -> Nat] /\ clock \in Nat /\ manifest.snap.at \in Nat
      /\ nodeManifest \in Manifest
  BY SoloTypes DEF AnswerInv
<1>2. /\ Busy(c) => snapAt[c] <= clock
      /\ manifest.snap.at <= manifest.at
      /\ pc[c] = "clean" => nodeManifest.snap = manifest.snap /\ manifest.snap.at = snapAt[c]
  BY DEF AnswerInv, TimesOK
<1>3. /\ status = "up" /\ status' = status /\ UNCHANGED <<wal, hidden>> /\ mem' = mem
      /\ captured' = captured /\ tx' = tx /\ snapAt' = snapAt
      /\ requests' = requests /\ clock' = clock
      /\ pc[c] \in {"policy", "report", "clean"}
  BY DEF MaybeSnapshot, Report, CleanManifest
<1>4. /\ Committed' = Committed /\ clock' >= clock
      /\ hidden' \subseteq 1 .. Len(wal') /\ \A u : Hidden(u)' <=> Hidden(u)
  BY <1>1, <1>3, SameLog DEF AnswerInv, IdsOK
<1>5. CASE /\ manifest' = manifest /\ nodeManifest' = nodeManifest /\ answered' = answered
           /\ \/ pc[c] = "policy" /\ pc'[c] = "capture"
              \/ pc[c] = "report" /\ pc'[c] = "clean"
  BY <1>2, <1>3, <1>4, <1>5, AnswerMove DEF Busy, Building
<1>6. CASE /\ manifest'.snap = manifest.snap /\ manifest'.snap.at <= manifest'.at
           /\ AnswerOk(c)
  <2>1. /\ pc'[c] = "idle"
        /\ answered' = answered \cup {t \in Committed : t.id = tx[c].id}
    BY <1>1, <1>6 DEF AnswerOk
  <2> QED
    BY <1>3, <1>4, <1>6, <2>1, AnswerGiven DEF Busy
<1>7. CASE MaybeSnapshot(c) \/ Report(c)
  BY <1>1, <1>2, <1>5, <1>6, <1>7 DEF MaybeSnapshot, Report
<1>8. CASE CleanManifest(c)
  <2>1. /\ manifest' = [nodeManifest EXCEPT !.at = snapAt[c], !.clean = TRUE]
        /\ AnswerOk(c) /\ pc[c] = "clean"
    BY <1>8 DEF CleanManifest, MarkClean
  <2>2. manifest'.at = snapAt[c] /\ manifest'.snap = nodeManifest.snap
    BY <1>1, <2>1 DEF Manifest
  <2> QED
    BY <1>1, <1>2, <1>6, <2>1, <2>2
<1> QED
  BY <1>7, <1>8

\* Receive: the id of the request is new, and its time later than the manifest's.
LEMMA AnswerReceive ==
    ASSUME Solo, AnswerInv, TypeOK', NEW c \in Clients, NEW v \in Verbs, Receive(c, v)
    PROVE  AnswerInv'
<1> USE DEF locks, stream, files, recovery, history, policy
<1>1. /\ pc \in [Clients -> ClientPc] /\ tx \in [Clients -> Tx]
      /\ snapAt \in [Clients -> Nat] /\ clock \in Nat /\ manifest.snap.at \in Nat
      /\ requests \in Nat /\ requests' = requests + 1
  BY SoloTypes DEF AnswerInv, Receive
<1>2. /\ status = "up" /\ status' = status /\ UNCHANGED <<wal, hidden>> /\ mem' = mem
      /\ captured' = captured /\ answered' = answered /\ manifest' = manifest
      /\ clock' = clock + 1 /\ snapAt'[c] = clock + 1
      /\ tx'[c] = [NoTx EXCEPT !.id = requests', !.at = clock']
      /\ pc'[c] \in {"capture", "shutdown", "guard"}
  BY <1>1 DEF Receive
<1>3. tx'[c].id = requests + 1 /\ tx'[c].at = clock + 1
  BY <1>1, <1>2 DEF NoTx
<1>4. Committed' = Committed /\ Promised' = Promised
  BY <1>2, SameLog DEF Promised
<1>5. \A t \in Committed : t.id \in Nat /\ t.id <= requests
  <2>1. Committed \subseteq Tx /\ \A t \in Tx : t.id \in Nat
    BY WalTxs DEF AnswerInv, Tx
  <2> QED
    BY <2>1 DEF AnswerInv, IdsOK
<1>6. Pending(c)' = {}
  BY <1>1, <1>3, <1>4, <1>5 DEF Pending
<1>7. \A d \in Clients : d = c
  BY DEF Solo
<1>8. TimesOK'
  <2>1. manifest.snap.at <= clock /\ manifest.snap.at <= manifest.at
    BY <1>2 DEF AnswerInv, TimesOK
  <2>2. /\ manifest'.snap.at <= clock' /\ manifest'.snap.at <= manifest'.at
        /\ snapAt'[c] <= clock' /\ tx'[c].at > manifest'.snap.at
    BY <1>1, <1>2, <1>3, <2>1
  <2>3. status' = "up" /\ pc'[c] \notin {"report", "clean"}
    BY <1>2
  <2> QED
    BY ONLY <1>7, <2>2, <2>3 DEF TimesOK
<1>9. IdsOK'
  <2>1. \A t \in Committed : t.id <= requests + 1
    BY <1>1, <1>5
  <2>2. tx'[c].id <= requests' /\ answered \subseteq Committed
    BY <1>1, <1>3 DEF AnswerInv, IdsOK
  <2>3. hidden' \subseteq 1 .. Len(wal')
    BY <1>2 DEF AnswerInv, IdsOK
  <2> QED
    BY ONLY <1>1, <1>2, <1>4, <1>7, <2>1, <2>2, <2>3 DEF IdsOK
<1>10. PromisesOK'
  BY <1>2, <1>4, <1>6, <1>7 DEF AnswerInv, PromisesOK
<1> QED
  BY <1>8, <1>9, <1>10 DEF AnswerInv

\* Commit: the transaction is replayed by any boot from now on.  A failed append
\* of either frame answers nothing, whatever it leaves in the WAL.
LEMMA AnswerCommit ==
    ASSUME Solo, AnswerInv, TypeOK', NEW c \in Clients, Commit(c) \/ AppendFails(c)
    PROVE  AnswerInv'
<1> USE DEF locks, stream, files, recovery, history, policy
<1>1. /\ pc \in [Clients -> ClientPc] /\ tx \in [Clients -> Tx] /\ tx[c] \in Tx
      /\ clock \in Nat /\ manifest.snap.at \in Nat
  BY SoloTypes DEF AnswerInv
<1>2. /\ status = "up" /\ status' = status /\ mem' = mem /\ tx' = tx /\ snapAt' = snapAt
      /\ captured' = captured /\ answered' = answered /\ manifest' = manifest
      /\ clock' = clock /\ requests' = requests /\ pc[c] \in {"prepare", "commit"}
  BY DEF Commit, AppendWal, WriteFrame, AppendFails, TearFrame
<1>3. /\ \/ pc'[c] = "idle"
         \/ pc'[c] = "apply" /\ pc[c] = "commit"
      /\ \/ UNCHANGED <<wal, hidden>>
         \/ /\ \E op \in {"prepare", "commit"} : wal' = Append(wal, Frame(op, tx[c]))
            /\ hidden' \in {hidden, hidden \cup {Len(wal) + 1}}
  <2>1. CASE Commit(c)
    BY <1>1, <2>1 DEF Commit, AppendWal, WriteFrame
  <2>2. CASE AppendFails(c)
    <3>1. pc'[c] = "idle"
      BY <1>1, <2>2 DEF AppendFails, TearFrame, WriteFrame, AnswerError
    <3>2. \/ UNCHANGED <<wal, hidden>>
          \/ /\ wal' = Append(wal, Frame(pc[c], tx[c]))
             /\ hidden' \in {hidden, hidden \cup {Len(wal) + 1}}
      BY <2>2 DEF AppendFails, TearFrame, WriteFrame
    <3> QED
      BY <1>2, <3>1, <3>2
  <2> QED
    BY <2>1, <2>2
<1>4. /\ Committed \subseteq Committed' /\ Committed' \subseteq Committed \cup {tx[c]}
      /\ hidden' \subseteq 1 .. Len(wal')
      /\ \A u : Hidden(u) => Hidden(u)'
  <2>1. TypeOK /\ hidden \subseteq 1 .. Len(wal)
    BY DEF AnswerInv, IdsOK
  <2>2. CASE UNCHANGED <<wal, hidden>>
    BY <2>1, <2>2, SameLog
  <2>3. ASSUME NEW op \in {"prepare", "commit"}, wal' = Append(wal, Frame(op, tx[c])),
               hidden' \in {hidden, hidden \cup {Len(wal) + 1}}
        PROVE  /\ Committed \subseteq Committed' /\ Committed' \subseteq Committed \cup {tx[c]}
               /\ hidden' \subseteq 1 .. Len(wal')
               /\ \A u : Hidden(u) => Hidden(u)'
    BY <1>1, <2>1, <2>3, AppendCommits, AppendHides
  <2> QED
    BY <1>3, <2>2, <2>3
<1>5. \A d \in Clients : d = c
  BY DEF Solo
<1>6. TimesOK'
  BY <1>2, <1>3, <1>5 DEF AnswerInv, TimesOK, Busy, Building
<1>7. IdsOK'
  BY <1>2, <1>4, <1>5 DEF AnswerInv, IdsOK
<1>8. Promised' \subseteq Promised /\ Pending(c)' \subseteq Pending(c) \cup {tx[c]}
  BY <1>2, <1>4 DEF Promised, Pending
<1>9. tx[c].at > manifest.snap.at
  BY <1>2 DEF AnswerInv, TimesOK, Building
<1>10. \A t \in Pending(c) : BroughtBack(manifest.snap, t) /\ t \in Kept(mem)
  BY <1>2 DEF AnswerInv, PromisesOK, Busy
<1>11. \A t \in Pending(c)' : /\ BroughtBack(manifest.snap, t)
                              /\ t \in Kept(mem) \/ t = tx[c]
  BY <1>8, <1>9, <1>10 DEF BroughtBack
<1>12. PromisesOK'
  BY <1>2, <1>3, <1>5, <1>8, <1>11 DEF AnswerInv, PromisesOK, Busy
<1> QED
  BY <1>6, <1>7, <1>12 DEF AnswerInv

\* ApplyTx: the committed transaction is in the cells.
LEMMA AnswerApply ==
    ASSUME Solo, AnswerInv, TypeOK', NEW c \in Clients, ApplyTx(c)
    PROVE  AnswerInv'
<1> USE DEF locks, stream, files, recovery, history, policy
<1>1. /\ pc \in [Clients -> ClientPc] /\ tx \in [Clients -> Tx] /\ tx[c] \in Tx
      /\ clock \in Nat /\ mem \in Mem
  BY SoloTypes DEF AnswerInv
<1>2. /\ status = "up" /\ status' = status /\ mem' = Apply(mem, tx[c]) /\ tx' = tx
      /\ snapAt' = snapAt /\ UNCHANGED <<wal, hidden>> /\ manifest' = manifest
      /\ clock' = clock /\ requests' = requests /\ pc[c] = "apply"
  BY DEF ApplyTx
<1>3. Committed' = Committed /\ \A u : Hidden(u)' <=> Hidden(u)
  BY <1>2, SameLog
<1>4. Kept(mem) \subseteq Kept(mem') /\ (tx[c].kind # "note" => tx[c] \in Kept(mem'))
  BY <1>1, <1>2, ApplyKeeps
<1>5. CASE AnswerOk(c)
  <2>1. /\ pc'[c] = "idle"
        /\ answered' = answered \cup {t \in Committed : t.id = tx[c].id}
    BY <1>1, <1>5 DEF AnswerOk
  <2>2. manifest'.snap = manifest.snap /\ manifest'.snap.at <= manifest'.at
    BY <1>2 DEF AnswerInv, TimesOK
  <2> QED
    BY <1>2, <1>3, <1>4, <2>1, <2>2, AnswerGiven DEF Busy
<1>6. CASE answered' = answered /\ pc'[c] \in {"curate", "policy"}
  <2>1. \A d \in Clients : d = c
    BY DEF Solo
  <2>2. TimesOK'
    BY <1>2, <1>6, <2>1 DEF AnswerInv, TimesOK, Busy, Building
  <2>3. IdsOK'
    BY <1>2, <1>3, <1>6, <2>1 DEF AnswerInv, IdsOK
  <2>4. Promised' = Promised /\ Pending(c)' = Pending(c)
    BY <1>2, <1>3, <1>6 DEF Promised, Pending
  <2>5. /\ \A t \in Promised : BroughtBack(manifest.snap, t) /\ t \in Kept(mem)
        /\ \A t \in Pending(c) : BroughtBack(manifest.snap, t) /\ (t \in Kept(mem) \/ t = tx[c])
    BY <1>2 DEF AnswerInv, PromisesOK, Busy
  <2>6. \A t \in Pending(c) : t.kind # "note"
    BY DEF Pending
  <2>7. /\ \A t \in Promised' : BroughtBack(manifest'.snap, t) /\ t \in Kept(mem')
        /\ \A t \in Pending(c)' : BroughtBack(manifest'.snap, t) /\ t \in Kept(mem')
    BY <1>2, <1>4, <2>4, <2>5, <2>6
  <2>8. PromisesOK'
    BY <1>2, <1>6, <2>1, <2>7 DEF PromisesOK
  <2> QED
    BY <2>2, <2>3, <2>8 DEF AnswerInv
<1>7. AnswerOk(c) \/ (answered' = answered /\ pc'[c] \in {"curate", "policy"})
  BY <1>1 DEF ApplyTx
<1> QED
  BY <1>5, <1>6, <1>7

\* Capture: all that is promised is in the cells, so it is in the snapshot.
LEMMA AnswerCapture ==
    ASSUME Solo, AnswerInv, TypeOK', NEW c \in Clients, Capture(c)
    PROVE  AnswerInv'
<1> USE DEF locks, stream, files, recovery, history, policy
<1>1. pc \in [Clients -> ClientPc] /\ captured \in [Clients -> Mem]
  BY SoloTypes DEF AnswerInv
<1>2. /\ status = "up" /\ status' = status /\ mem' = mem /\ tx' = tx
      /\ snapAt' = snapAt /\ UNCHANGED <<wal, hidden>> /\ manifest' = manifest /\ answered' = answered
      /\ clock' = clock /\ requests' = requests /\ pc[c] = "capture" /\ pc'[c] = "file"
      /\ captured'[c] = mem
  BY <1>1 DEF Capture
<1>3. Committed' = Committed /\ Promised' = Promised /\ Pending(c)' = Pending(c)
  BY <1>2, SameLog DEF Promised, Pending
<1>4. \A d \in Clients : d = c
  BY DEF Solo
<1>5. TimesOK' /\ IdsOK'
  BY <1>2, <1>3, <1>4 DEF AnswerInv, TimesOK, IdsOK, Busy, Building
<1>6. PromisesOK'
  BY <1>2, <1>3, <1>4 DEF AnswerInv, PromisesOK, Busy
<1> QED
  BY <1>5, <1>6 DEF AnswerInv

\* SaveManifest: a boot starts from the snapshot that was captured.
LEMMA AnswerSave ==
    ASSUME Solo, AnswerInv, TypeOK', NEW c \in Clients, SaveManifest(c)
    PROVE  AnswerInv'
<1> USE DEF locks, stream, files, recovery, history, policy
<1>1. pc \in [Clients -> ClientPc] /\ snapAt \in [Clients -> Nat] /\ nodeManifest \in Manifest
      /\ clock \in Nat
  BY SoloTypes DEF AnswerInv
<1>2. /\ status = "up" /\ status' = status /\ mem' = mem /\ tx' = tx
      /\ snapAt' = snapAt /\ UNCHANGED <<wal, hidden>> /\ answered' = answered /\ captured' = captured
      /\ clock' = clock /\ requests' = requests /\ pc[c] = "manifest" /\ pc'[c] = "report"
      /\ nodeManifest' = [nodeManifest EXCEPT !.at = snapAt[c], !.snap = Snapshot(c)]
      /\ manifest' = nodeManifest'
  BY <1>1 DEF SaveManifest, NameSnapshot
<1>3. /\ manifest'.snap = nodeManifest'.snap /\ manifest'.at = snapAt[c]
      /\ manifest'.snap.at = snapAt[c] /\ manifest'.snap.mem = captured[c]
  BY <1>1, <1>2 DEF Manifest, Snapshot
<1>4. Committed' = Committed /\ Promised' = Promised /\ Pending(c)' = Pending(c)
  BY <1>2, SameLog DEF Promised, Pending
<1>5. \A d \in Clients : d = c
  BY DEF Solo
<1>6. snapAt[c] <= clock /\ snapAt[c] \in Nat
  BY <1>1, <1>2 DEF AnswerInv, TimesOK, Busy
<1>7. TimesOK'
  BY <1>2, <1>3, <1>5, <1>6 DEF TimesOK, Building
<1>8. IdsOK'
  BY <1>2, <1>4 DEF AnswerInv, IdsOK
<1>9. \A t \in Promised \cup Pending(c) : BroughtBack(manifest'.snap, t) /\ t \in Kept(mem)
  BY <1>2, <1>3 DEF AnswerInv, PromisesOK, BroughtBack, Busy
<1>10. PromisesOK'
  BY <1>2, <1>4, <1>5, <1>9 DEF PromisesOK
<1> QED
  BY <1>7, <1>8, <1>10 DEF AnswerInv

\* The process ends, and the boot restores and replays.
LEMMA AnswerBoot ==
    ASSUME Solo, AnswerInv, TypeOK', Crash \/ Exit \/ RecoveryStep
    PROVE  AnswerInv'
<1> USE DEF locks, stream, files, recovery, history, policy
<1>1. /\ TypeOK /\ mem \in Mem /\ clock \in Nat /\ manifest \in Manifest
      /\ manifest.snap.at \in Nat /\ wal \in Seq(WalFrame)
      /\ \A i \in 1 .. Len(wal) : wal[i].tx \in Tx /\ wal[i].tx.at \in Nat
  BY SoloTypes, WalTxs DEF AnswerInv, TypeOK
<1>2. CASE Crash \/ Exit
  <2>1. /\ status' = "down" /\ \A c \in Clients : pc'[c] = "idle"
        /\ answered' = answered /\ UNCHANGED <<wal, hidden>> /\ manifest' = manifest
        /\ requests' = requests /\ tx' = tx
    BY <1>2 DEF Crash, Exit, ProcessEnds, TearFrame
  <2> QED
    BY <2>1, AnswerOff
<1>3. CASE RecoverBegin
  <2>1. /\ status = "down" /\ status' \in {"recovering", "refused", "unverified"} /\ pc' = pc
        /\ answered' = answered /\ UNCHANGED <<wal, hidden>> /\ manifest' = manifest
        /\ requests' = requests /\ tx' = tx /\ mem' = manifest.snap.mem
        /\ todo' = {i \in (1 .. Len(wal)) \ hidden : wal[i].tx.at > manifest.snap.at}
    BY <1>3 DEF RecoverBegin, BootOutcome
  <2>2. \A c \in Clients : pc'[c] = "idle"
    BY <2>1 DEF AnswerInv, TimesOK
  <2>3. ASSUME NEW t \in Promised
        PROVE  \/ t \in Kept(mem')
               \/ \E i \in todo' : i \in 1 .. Len(wal) /\ wal[i] = Frame("commit", t)
    <3>1. BroughtBack(manifest.snap, t) /\ t \in Committed /\ ~Hidden(t)
      BY DEF AnswerInv, PromisesOK, IdsOK, Promised
    <3>2. CASE t \in Kept(manifest.snap.mem)
      BY <2>1, <3>2
    <3>3. CASE t.at > manifest.snap.at
      <4>1. PICK i \in 1 .. Len(wal) : wal[i].op = "commit" /\ wal[i].tx = t
        BY <3>1 DEF Committed
      <4>2. wal[i] \in WalFrame
        BY <1>1
      <4>3. wal[i] = Frame("commit", t)
        BY <4>1, <4>2 DEF WalFrame, Frame
      <4>4. i \in todo'
        BY <2>1, <3>1, <3>3, <4>1, <4>3 DEF Hidden
      <4> QED
        BY <4>3, <4>4
    <3> QED
      BY <3>1, <3>2, <3>3 DEF BroughtBack
  <2> QED
    BY <2>1, <2>2, <2>3, AnswerOff
<1>4. ASSUME NEW i \in 1 .. Len(wal), ReplayFrame(i) PROVE AnswerInv'
  <2>1. /\ status = "recovering" /\ pc' = pc /\ status' \in {"recovering", "refused"}
        /\ answered' = answered /\ UNCHANGED <<wal, hidden>> /\ manifest' = manifest
        /\ requests' = requests /\ tx' = tx /\ todo' = todo \ {i}
        /\ \/ wal[i].op = "prepare" /\ mem' = mem
           \/ wal[i].op = "commit" /\ mem' = Apply(mem, wal[i].tx)
           \/ status' = "refused"
    BY <1>4 DEF ReplayFrame
  <2>2. \A c \in Clients : pc'[c] = "idle"
    BY <2>1 DEF AnswerInv, TimesOK
  <2>3. ASSUME status' = "recovering", NEW t \in Promised
        PROVE  \/ t \in Kept(mem')
               \/ \E j \in todo' : j \in 1 .. Len(wal) /\ wal[j] = Frame("commit", t)
    <3>1. \/ t \in Kept(mem)
          \/ \E j \in todo : j \in 1 .. Len(wal) /\ wal[j] = Frame("commit", t)
      BY <2>1 DEF AnswerInv, PromisesOK
    <3>2. Kept(mem) \subseteq Kept(mem')
      BY <1>1, <2>1, <2>3, ApplyKeeps
    <3>3. CASE wal[i] = Frame("commit", t)
      <4>1. wal[i].op = "commit" /\ wal[i].tx = t /\ t.kind # "note" /\ t \in Tx
        BY <1>1, <3>3 DEF Frame, Promised
      <4>2. mem' = Apply(mem, t)
        BY <2>1, <2>3, <4>1
      <4> QED
        BY <1>1, <4>1, <4>2, ApplyKeeps
    <3> QED
      BY <2>1, <3>1, <3>2, <3>3
  <2> QED
    BY <2>1, <2>2, <2>3, AnswerOff
<1>5. CASE RecoverEnd
  <2>1. /\ status = "recovering" /\ status' \in {"up", "down", "unverified"} /\ pc' = pc
        /\ answered' = answered /\ UNCHANGED <<wal, hidden>> /\ manifest' = manifest
        /\ requests' = requests /\ tx' = tx /\ mem' = mem /\ todo = {}
        /\ clock' = IF clock < manifest.at THEN manifest.at ELSE clock
    BY <1>5 DEF RecoverEnd, BootRecorded, BootRecordFails, AdvanceTo
  <2>2. \A c \in Clients : pc'[c] = "idle"
    BY <2>1 DEF AnswerInv, TimesOK
  <2>3. CASE status' # "up"
    <3>1. status' # "recovering"
      BY <2>1
    <3> QED
      BY <2>1, <2>2, <2>3, <3>1, AnswerOff
  <2>4. CASE status' = "up"
    <3>1. Promised' = Promised /\ Committed' = Committed
      BY <2>1, SameLog DEF Promised
    <3>2. manifest.at \in Nat /\ manifest.snap.at <= manifest.at
      BY <1>1 DEF AnswerInv, TimesOK, Manifest
    <3>3. TimesOK'
      BY <1>1, <2>1, <2>2, <2>4, <3>2 DEF TimesOK, Busy, Building
    <3>4. IdsOK'
      BY <2>1, <3>1 DEF AnswerInv, IdsOK
    <3>5. PromisesOK'
      BY <2>1, <2>2, <2>4, <3>1 DEF AnswerInv, PromisesOK, Busy
    <3> QED
      BY <3>3, <3>4, <3>5 DEF AnswerInv
  <2> QED
    BY <2>3, <2>4
<1> QED
  BY <1>2, <1>3, <1>4, <1>5 DEF RecoveryStep

LEMMA AnswerStep == ASSUME Solo, AnswerInv, [Next]_vars PROVE AnswerInv'
<1>1. TypeOK'
  BY TypeStep DEF AnswerInv
<1>2. CASE UNCHANGED vars
  <2>1. UNCHANGED <<status, clock, pc, tx, snapAt, captured, mem, nodeManifest, manifest,
                    wal, hidden, todo, requests, answered>>
    BY <1>2 DEF vars, policy, stream, files, recovery, history
  <2> QED
    BY <1>1, <2>1 DEF AnswerInv, TimesOK, IdsOK, PromisesOK, Busy, Building, Promised,
                      Pending, Committed, Hidden
<1>3. ASSUME NEW c \in Clients, ClientStep(c) PROVE AnswerInv'
  BY <1>1, <1>3, AnswerMoves, AnswerAnswers, AnswerCommit, AnswerApply, AnswerCapture,
     AnswerSave DEF ClientStep
<1>4. ASSUME NEW c \in Clients, AwaitFrame(c) PROVE AnswerInv'
  BY <1>1, <1>4, AnswerMoves
<1>5. ASSUME NEW c \in Clients, NEW v \in Verbs, Receive(c, v) PROVE AnswerInv'
  BY <1>1, <1>5, AnswerReceive
<1>6. CASE Crash \/ Exit \/ RecoveryStep
  BY <1>1, <1>6, AnswerBoot
<1> QED
  BY <1>2, <1>3, <1>4, <1>5, <1>6 DEF Next

\* A node that serves one connection at a time loses no answered write but one
\* whose commit was written behind a fragment (and notes, which are overwritten):
\* whatever crashes, failed appends, failed saves and restarts happen, all others
\* are in the cells whenever the node is up.  node_lost_write shows that this
\* needs the single thread, node_torn_tail that it needs the exception.
THEOREM AnsweredStaysVisible ==
    ASSUME Solo
    PROVE  Spec => []AnsweredUnlessHidden
<1>1. Init => AnswerInv
  BY AnswerInit
<1>2. AnswerInv /\ [Next]_vars => AnswerInv'
  BY AnswerStep
<1>3. AnswerInv => AnsweredUnlessHidden
  <2>1. Kept(mem) \subseteq Visible(mem)
    BY DEF Kept, Visible
  <2> QED
    BY <2>1 DEF AnswerInv, PromisesOK, Promised, AnsweredUnlessHidden
<1> QED
  BY <1>1, <1>2, <1>3, PTL DEF Spec

-----------------------------------------------------------------------------
(* One connection thread: the log is replayed as it was written.           *)

CommitsOf(w) == {i \in 1 .. Len(w) : w[i].op = "commit"}

\* h[n] is what the commits among the first n frames of the log w make of empty
\* cells, and each of them is accepted where it stands.
History(h, w) ==
    /\ \A n \in 0 .. Len(w) : h[n] \in Mem
    /\ h[0] = EmptyMem
    /\ \A n \in 1 .. Len(w) :
          h[n] = IF n \in CommitsOf(w) THEN Apply(h[n - 1], w[n].tx) ELSE h[n - 1]
    /\ \A i \in CommitsOf(w) : CanApply(h[i - 1], w[i].tx)

\* Between commits nothing changes, and nothing is forgotten but notes.
Faithful(h, w) ==
    /\ \A m, n \in 0 .. Len(w) :
          m <= n /\ (\A i \in CommitsOf(w) : i <= m \/ n < i) => h[n] = h[m]
    /\ \A i \in CommitsOf(w), n \in 0 .. Len(w) : i <= n =>
          /\ w[i].tx.kind # "note" => w[i].tx \in Kept(h[n])
          /\ w[i].tx.kind = "curate" => w[i].tx \in h[n].curated

\* The logical times of the commits rise, and each has its prepare.
InOrder(w) ==
    /\ \A i, j \in CommitsOf(w) : i < j => w[i].tx.at < w[j].tx.at
    /\ \A j \in CommitsOf(w) : \E p \in 1 .. Len(w) : w[p] = Frame("prepare", w[j].tx)

\* Every commit of the log is no later than n.
NotAfter(n) == \A i \in CommitsOf(wal) : wal[i].tx.at <= n

\* What the thread is about to write continues the log.
ThreadOK(c) ==
    /\ pc[c] \in Early => tx[c].at <= clock /\ \A i \in CommitsOf(wal) : wal[i].tx.at < tx[c].at
    /\ pc[c] \in Early => \/ tx[c].at = snapAt[c]
                          \/ tx[c].kind = "curate" /\ pc[c] # "guard"
    /\ pc[c] \in {"prepare", "audit", "commit"} => CanApply(mem, tx[c])
    /\ pc[c] \in {"audit", "commit"} => \E p \in 1 .. Len(wal) : wal[p] = Frame("prepare", tx[c])
    /\ Busy(c) => \A i \in CommitsOf(wal) : wal[i].tx.at <= snapAt[c] \/ wal[i].tx.kind = "curate"

\* The snapshot s holds the first k frames; those of a later time that it holds
\* already are curator outputs.
Cut(s, h, k) ==
    /\ s.mem = h[k]
    /\ \A i \in CommitsOf(wal) : IF i <= k THEN wal[i].tx.at <= s.at \/ wal[i].tx.kind = "curate"
                                           ELSE wal[i].tx.at > s.at

\* The boot has replayed the first m frames, curator outputs apart.
Reached(h, m) ==
    /\ mem = h[m]
    /\ \A i \in CommitsOf(wal) : IF i <= m THEN i \in todo => wal[i].tx.kind = "curate"
                                           ELSE i \in todo

ReplayOK ==
    /\ todo \subseteq 1 .. Len(wal)
    /\ \A i \in CommitsOf(wal) : i \in todo =>
          \/ wal[i].tx \in prepared
          \/ \E p \in todo : wal[p] = Frame("prepare", wal[i].tx)
    /\ \A i \in CommitsOf(wal) : \/ i \in todo
                                 \/ wal[i].tx.at <= clock
                                 \/ wal[i].tx.at <= manifest.snap.at

\* The cells, the capture, the snapshot and the boot are each at a point of the
\* history h.
Follows(h) ==
    /\ status = "up" /\ (\A c \in Clients : pc[c] # "apply") => mem = h[Len(wal)]
    /\ \A c \in Clients : pc[c] = "apply" =>
          Len(wal) > 0 /\ wal[Len(wal)] = Frame("commit", tx[c]) /\ mem = h[Len(wal) - 1]
    /\ \A c \in Clients : pc[c] \in {"file", "manifest"} => captured[c] = h[Len(wal)]
    /\ \E k \in 0 .. Len(wal) : Cut(manifest.snap, h, k)
    /\ status = "recovering" => \E m \in 0 .. Len(wal) : Reached(h, m)

Recorded ==
    /\ status # "refused"
    /\ InOrder(wal)
    /\ status = "up" => NotAfter(clock)
    /\ \A c \in Clients : ThreadOK(c)
    /\ status = "recovering" => ReplayOK
    /\ \E h : History(h, wal) /\ Faithful(h, wal) /\ Follows(h)

LogInv == AnswerInv /\ (faults["wal"] = 0 /\ NothingHidden => Recorded)

LEMMA CommitTypes ==
    ASSUME TypeOK
    PROVE  /\ wal \in Seq(WalFrame) /\ Len(wal) \in Nat
           /\ \A i \in CommitsOf(wal) : i \in 1 .. Len(wal) /\ i \in Nat /\ wal[i].op = "commit"
                                        /\ wal[i].tx \in Tx /\ wal[i].tx.at \in Nat
  BY WalTxs DEF TypeOK, CommitsOf

LEMMA LogInit == ASSUME Init PROVE LogInv
<1>1. AnswerInv
  BY AnswerInit
<1>2. wal = <<>> /\ Len(wal) = 0 /\ CommitsOf(wal) = {}
  BY DEF Init, CommitsOf
<1>3. PICK h : h = [n \in 0 .. 0 |-> EmptyMem]
  OBVIOUS
<1>4. h[0] = EmptyMem /\ EmptyMem \in Mem /\ \A n \in 0 .. Len(wal) : n = 0
  BY <1>2, <1>3, EmptyMemType
<1>5. History(h, wal) /\ Faithful(h, wal)
  BY <1>2, <1>4 DEF History, Faithful
<1>6. manifest.snap.mem = EmptyMem /\ 0 \in 0 .. Len(wal)
  BY <1>2 DEF Init, FreshManifest, NoSnapshot
<1>7. Follows(h)
  BY <1>2, <1>4, <1>6 DEF Init, Follows, Cut
<1>8. \A c \in Clients : ThreadOK(c)
  BY DEF Init, ThreadOK, Early, Busy
<1>9. Recorded
  BY <1>2, <1>5, <1>7, <1>8 DEF Recorded, Init, InOrder, NotAfter
<1> QED
  BY <1>1, <1>9 DEF LogInv

\* g is the history of the log v, and goes on where h stands after n frames.
GoesOn(g, v, h, n) == History(g, v) /\ Faithful(g, v) /\ \A i \in 0 .. n : g[i] = h[i]

\* The history of a longer log.
LEMMA HistoryGrows ==
    ASSUME NEW w \in Seq(WalFrame), NEW t \in Tx, NEW op \in {"prepare", "commit"},
           NEW v, v = Append(w, Frame(op, t)), NEW n \in Nat, n = Len(w),
           NEW h, History(h, w), Faithful(h, w), op = "commit" => CanApply(h[n], t)
    PROVE  \E g : GoesOn(g, v, h, n)
<1>1. PICK x : x = IF op = "commit" THEN Apply(h[n], t) ELSE h[n]
  OBVIOUS
<1>2. PICK g : g = [i \in 0 .. (n + 1) |-> IF i <= n THEN h[i] ELSE x]
  OBVIOUS
<1>3. (\A i \in 0 .. n : g[i] = h[i]) /\ g[n + 1] = x
  BY <1>2
<1>4. /\ Len(v) = n + 1 /\ \A i \in 1 .. n : v[i] = w[i]
      /\ v[n + 1] = Frame(op, t)
  OBVIOUS
<1>5. v[n + 1].op = op /\ v[n + 1].tx = t
  BY <1>4 DEF Frame
<1>6. /\ \A i \in CommitsOf(w) : i \in CommitsOf(v) /\ i \in 1 .. n /\ v[i] = w[i]
      /\ \A i \in CommitsOf(v) : i \in CommitsOf(w) \/ (i = n + 1 /\ op = "commit")
      /\ n + 1 \in CommitsOf(v) <=> op = "commit"
      /\ \A i \in CommitsOf(v) : i \in 1 .. (n + 1)
      /\ \A i \in 1 .. n : i \in CommitsOf(v) <=> i \in CommitsOf(w)
  BY <1>4, <1>5 DEF CommitsOf
<1>7. h[n] \in Mem
  BY DEF History
<1>8. x \in Mem /\ Kept(h[n]) \subseteq Kept(x) /\ h[n].curated \subseteq x.curated
      /\ (op = "commit" /\ t.kind # "note" => t \in Kept(x))
      /\ (op = "commit" /\ t.kind = "curate" => t \in x.curated)
  <2>1. CASE op = "prepare"
    BY <1>1, <1>7, <2>1
  <2>2. CASE op = "commit"
    <3>1. x = Apply(h[n], t)
      BY <1>1, <2>2
    <3>2. x \in Mem /\ Kept(h[n]) \subseteq Kept(x) /\ (t.kind # "note" => t \in Kept(x))
      BY <1>7, <3>1, ApplyType, ApplyKeeps
    <3>3. h[n].curated \subseteq x.curated /\ (t.kind = "curate" => t \in x.curated)
      BY <1>7, <3>1, TxCases DEF Apply, Mem
    <3> QED
      BY <3>2, <3>3
  <2> QED
    BY <2>1, <2>2
<1>9. History(g, v)
  <2>1. \A i \in 0 .. Len(v) : g[i] \in Mem
    BY <1>3, <1>4, <1>8 DEF History
  <2>2. g[0] = EmptyMem
    BY <1>3 DEF History
  <2>3. ASSUME NEW i \in 1 .. Len(v)
        PROVE  g[i] = IF i \in CommitsOf(v) THEN Apply(g[i - 1], v[i].tx) ELSE g[i - 1]
    <3>1. CASE i \in 1 .. n
      <4>1. g[i] = h[i] /\ g[i - 1] = h[i - 1] /\ v[i] = w[i]
        BY <1>3, <1>4, <3>1
      <4>2. h[i] = IF i \in CommitsOf(w) THEN Apply(h[i - 1], w[i].tx) ELSE h[i - 1]
        BY <3>1 DEF History
      <4> QED
        BY <1>6, <3>1, <4>1, <4>2
    <3>2. CASE i = n + 1
      <4>1. g[i] = x /\ g[i - 1] = h[n] /\ v[i].tx = t
        BY <1>3, <1>5, <3>2
      <4> QED
        BY <1>1, <1>6, <3>2, <4>1
    <3> QED
      BY <1>4, <3>1, <3>2
  <2>4. ASSUME NEW i \in CommitsOf(v) PROVE CanApply(g[i - 1], v[i].tx)
    <3>1. CASE i \in CommitsOf(w)
      <4>1. g[i - 1] = h[i - 1] /\ v[i] = w[i]
        BY <1>3, <1>6, <3>1
      <4> QED
        BY <3>1, <4>1 DEF History
    <3>2. CASE i = n + 1 /\ op = "commit"
      <4>1. g[i - 1] = h[n] /\ v[i].tx = t
        BY <1>3, <1>5, <3>2
      <4> QED
        BY <3>2, <4>1
    <3> QED
      BY <1>6, <3>1, <3>2
  <2> QED
    BY <2>1, <2>2, <2>3, <2>4 DEF History
<1>10. Faithful(g, v)
  <2>1. ASSUME NEW a \in 0 .. Len(v), NEW b \in 0 .. Len(v), a <= b,
               \A i \in CommitsOf(v) : i <= a \/ b < i
        PROVE  g[b] = g[a]
    <3>1. CASE b <= n
      <4>1. a \in 0 .. n /\ b \in 0 .. n /\ \A i \in CommitsOf(w) : i <= a \/ b < i
        BY <1>4, <1>6, <2>1, <3>1
      <4>2. h[b] = h[a]
        BY <2>1, <4>1 DEF Faithful
      <4> QED
        BY <1>3, <4>1, <4>2
    <3>2. CASE b = n + 1 /\ a = n + 1
      BY <3>2
    <3>3. CASE b = n + 1 /\ a <= n
      <4>1. op # "commit"
        BY <1>6, <2>1, <3>3
      <4>2. a \in 0 .. n /\ n \in 0 .. n /\ \A i \in CommitsOf(w) : i <= a \/ n < i
        BY <1>4, <1>6, <2>1, <3>3
      <4>3. h[n] = h[a]
        BY <4>2 DEF Faithful
      <4> QED
        BY <1>1, <1>3, <3>3, <4>1, <4>2, <4>3
    <3> QED
      BY <1>4, <2>1, <3>1, <3>2, <3>3
  <2>2. ASSUME NEW i \in CommitsOf(v), NEW b \in 0 .. Len(v), i <= b
        PROVE  /\ v[i].tx.kind # "note" => v[i].tx \in Kept(g[b])
               /\ v[i].tx.kind = "curate" => v[i].tx \in g[b].curated
    <3>1. CASE b <= n
      <4>1. b \in 0 .. n /\ i \in CommitsOf(w) /\ v[i] = w[i] /\ g[b] = h[b]
        BY <1>3, <1>4, <1>6, <2>2, <3>1
      <4> QED
        BY <2>2, <4>1 DEF Faithful
    <3>2. CASE b = n + 1 /\ i \in CommitsOf(w)
      <4>1. v[i] = w[i] /\ g[b] = x /\ i <= n
        BY <1>3, <1>6, <3>2
      <4>2. /\ w[i].tx.kind # "note" => w[i].tx \in Kept(h[n])
            /\ w[i].tx.kind = "curate" => w[i].tx \in h[n].curated
        BY <3>2, <4>1 DEF Faithful
      <4> QED
        BY <1>8, <4>1, <4>2
    <3>3. CASE b = n + 1 /\ i = n + 1 /\ op = "commit"
      BY <1>3, <1>5, <1>8, <3>3
    <3> QED
      BY <1>4, <1>6, <2>2, <3>1, <3>2, <3>3
  <2> QED
    BY ONLY <2>1, <2>2 DEF Faithful
<1> QED
  BY <1>3, <1>9, <1>10 DEF GoesOn

\* A step of the thread that leaves the log, the cells and the snapshot alone.
LEMMA RecordedMove ==
    ASSUME Solo, TypeOK, TypeOK', Recorded, NEW c \in Clients,
           status = "up", status' = "up", wal' = wal, mem' = mem, clock' >= clock,
           manifest'.snap = manifest.snap, pc[c] # "apply", pc'[c] # "apply",
           pc'[c] \in {"file", "manifest"} =>
              captured'[c] = mem \/ (pc[c] \in {"file", "manifest"} /\ captured' = captured),
           ThreadOK(c)'
    PROVE  Recorded'
<1>1. \A d \in Clients : d = c
  BY DEF Solo
<1>2. PICK h : History(h, wal) /\ Faithful(h, wal) /\ Follows(h)
  BY DEF Recorded
<1>3. mem = h[Len(wal)]
  BY <1>1, <1>2 DEF Follows
<1>4. pc'[c] \in {"file", "manifest"} => captured'[c] = h[Len(wal)]
  BY <1>2, <1>3 DEF Follows
<1>5. \E k \in 0 .. Len(wal) : Cut(manifest.snap, h, k)
  BY <1>2 DEF Follows
<1>6. \E k \in 0 .. Len(wal') : Cut(manifest.snap, h, k)'
  BY <1>5 DEF Cut
<1>7. Follows(h)'
  BY <1>1, <1>3, <1>4, <1>6 DEF Follows
<1>8. NotAfter(clock)'
  <2>1. NotAfter(clock) /\ clock \in Nat /\ clock' \in Nat
    BY DEF Recorded, TypeOK
  <2> QED
    BY <2>1, CommitTypes DEF NotAfter
<1>9. InOrder(wal)' /\ \A d \in Clients : ThreadOK(d)'
  BY <1>1 DEF Recorded
<1> QED
  BY <1>2, <1>7, <1>8, <1>9 DEF Recorded

\* The steps of a thread between two frames.
LEMMA RecordedMoves ==
    ASSUME Solo, AnswerInv, AnswerInv', Recorded, NEW c \in Clients,
           \/ AwaitFrame(c) \/ Reject(c) \/ Audit(c) \/ AuditFails(c)
           \/ MaybeSnapshot(c) \/ BeginShutdown(c) \/ Capture(c) \/ WriteSnapshot(c)
           \/ Report(c) \/ ReportFails(c) \/ CleanManifest(c) \/ SaveFails(c)
    PROVE  Recorded'
<1> USE DEF locks, stream, files, recovery, history, policy
<1>1. /\ pc \in [Clients -> ClientPc] /\ snapAt \in [Clients -> Nat] /\ clock \in Nat
      /\ captured \in [Clients -> Mem] /\ nodeManifest \in Manifest
  BY SoloTypes DEF AnswerInv
<1>2. TypeOK /\ TypeOK'
  BY DEF AnswerInv
<1>3. /\ status = "up" /\ status' = "up" /\ wal' = wal /\ mem' = mem /\ tx' = tx
      /\ clock' = clock /\ pc[c] # "apply" /\ pc'[c] # "apply"
  <2>1. CASE AwaitFrame(c) \/ Reject(c) \/ Audit(c) \/ AuditFails(c)
    BY <1>1, <2>1 DEF AwaitFrame, Reject, Audit, AuditFails, AnswerError
  <2>2. CASE MaybeSnapshot(c) \/ BeginShutdown(c) \/ Capture(c) \/ WriteSnapshot(c)
    BY <1>1, <2>2 DEF MaybeSnapshot, AnswerOk, BeginShutdown, Capture, WriteSnapshot
  <2>3. CASE Report(c) \/ ReportFails(c) \/ CleanManifest(c) \/ SaveFails(c)
    BY <1>1, <2>3 DEF Report, AnswerOk, ReportFails, CleanManifest, SaveFails
  <2> QED
    BY <2>1, <2>2, <2>3
<1>4. /\ Busy(c)' => Busy(c)
      /\ pc'[c] \in Early => pc[c] = "audit" /\ pc'[c] = "commit"
  <2>1. CASE AwaitFrame(c) \/ Reject(c) \/ Audit(c) \/ AuditFails(c)
    BY <1>1, <2>1 DEF AwaitFrame, Reject, Audit, AuditFails, AnswerError, Busy, Early
  <2>2. CASE MaybeSnapshot(c) \/ BeginShutdown(c) \/ Capture(c) \/ WriteSnapshot(c)
    BY <1>1, <2>2 DEF MaybeSnapshot, AnswerOk, BeginShutdown, Capture, WriteSnapshot, Busy, Early
  <2>3. CASE Report(c) \/ ReportFails(c) \/ CleanManifest(c) \/ SaveFails(c)
    BY <1>1, <2>3 DEF Report, AnswerOk, ReportFails, CleanManifest, SaveFails, Busy, Early
  <2> QED
    BY <2>1, <2>2, <2>3
<1>5. snapAt'[c] = snapAt[c] \/ (snapAt'[c] = clock /\ ~(pc'[c] \in Early))
  <2>1. CASE BeginShutdown(c)
    BY <1>1, <2>1 DEF BeginShutdown, Early
  <2>2. CASE ~ BeginShutdown(c)
    BY <2>2 DEF AwaitFrame, Reject, Audit, AuditFails, MaybeSnapshot, Capture, WriteSnapshot,
                Report, ReportFails, CleanManifest, SaveFails
  <2> QED
    BY <2>1, <2>2
<1>6. pc'[c] \in {"file", "manifest"} =>
         captured'[c] = mem \/ (pc[c] \in {"file", "manifest"} /\ captured' = captured)
  <2>1. CASE AwaitFrame(c) \/ Reject(c) \/ Audit(c) \/ AuditFails(c)
    BY <1>1, <2>1 DEF AwaitFrame, Reject, Audit, AuditFails, AnswerError
  <2>2. CASE MaybeSnapshot(c) \/ BeginShutdown(c) \/ Capture(c) \/ WriteSnapshot(c)
    BY <1>1, <2>2 DEF MaybeSnapshot, AnswerOk, BeginShutdown, Capture, WriteSnapshot
  <2>3. CASE Report(c) \/ ReportFails(c) \/ CleanManifest(c) \/ SaveFails(c)
    BY <1>1, <2>3 DEF Report, AnswerOk, ReportFails, CleanManifest, SaveFails
  <2> QED
    BY <2>1, <2>2, <2>3
<1>7. manifest'.snap = manifest.snap
  <2>1. CASE CleanManifest(c)
    <3>1. manifest' = [nodeManifest EXCEPT !.at = snapAt[c], !.clean = TRUE] /\ pc[c] = "clean"
      BY <2>1 DEF CleanManifest, MarkClean
    <3>2. nodeManifest.snap = manifest.snap
      BY <3>1 DEF AnswerInv, TimesOK
    <3> QED
      BY <1>1, <3>1, <3>2 DEF Manifest
  <2>2. CASE ~ CleanManifest(c)
    BY <2>2 DEF AwaitFrame, Reject, Audit, AuditFails, MaybeSnapshot, BeginShutdown, Capture,
                WriteSnapshot, Report, ReportFails, SaveFails
  <2> QED
    BY <2>1, <2>2
<1>8. ThreadOK(c)'
  <2>1. ThreadOK(c) /\ NotAfter(clock)
    BY <1>3 DEF Recorded
  <2>2. Busy(c)' => \A i \in CommitsOf(wal)' : (wal[i].tx.at <= snapAt[c] \/ wal[i].tx.kind = "curate")'
    BY <1>3, <1>4, <1>5, <2>1 DEF ThreadOK, NotAfter
  <2>3. CASE pc'[c] \notin Early
    BY <2>2, <2>3 DEF ThreadOK, Early
  <2>4. CASE pc'[c] \in Early
    <3>1. snapAt'[c] = snapAt[c] /\ pc[c] = "audit" /\ pc'[c] = "commit"
      BY <1>4, <1>5, <2>4
    <3> QED
      BY <1>3, <2>1, <2>2, <3>1 DEF ThreadOK, Early
  <2> QED
    BY <2>3, <2>4
<1> QED
  BY <1>1, <1>2, <1>3, <1>6, <1>7, <1>8, RecordedMove

\* Receive, Acquire and Curate make the transaction that is to be written next.
LEMMA RecordedBuilds ==
    ASSUME Solo, AnswerInv, AnswerInv', Recorded, NEW c \in Clients,
           (\E v \in Verbs : Receive(c, v)) \/ Acquire(c) \/ Curate(c)
    PROVE  Recorded'
<1> USE DEF locks, stream, files, recovery, history, policy
<1>1. /\ pc \in [Clients -> ClientPc] /\ snapAt \in [Clients -> Nat] /\ clock \in Nat
      /\ tx \in [Clients -> Tx] /\ tx[c] \in Tx
  BY SoloTypes DEF AnswerInv
<1>2. TypeOK /\ TypeOK'
  BY DEF AnswerInv
<1>3. \A i \in CommitsOf(wal) : wal[i].tx.at \in Nat
  BY <1>2, CommitTypes
<1>4. /\ status = "up" /\ status' = "up" /\ wal' = wal /\ mem' = mem /\ manifest' = manifest
      /\ clock' \in {clock, clock + 1} /\ pc[c] # "apply" /\ pc'[c] # "apply"
      /\ pc'[c] \notin {"file", "manifest"}
  BY <1>1 DEF Receive, Acquire, Curate
<1>5. ThreadOK(c) /\ NotAfter(clock)
  BY <1>4 DEF Recorded
<1>6. CASE \E v \in Verbs : Receive(c, v)
  <2>1. /\ snapAt'[c] = clock + 1 /\ clock' = clock + 1
        /\ tx'[c] = [NoTx EXCEPT !.id = requests', !.at = clock']
        /\ pc'[c] \in {"guard", "capture", "shutdown"}
    BY <1>1, <1>6 DEF Receive
  <2>2. tx'[c].at = clock + 1 /\ tx'[c].at <= clock'
    BY <1>1, <2>1 DEF NoTx
  <2>3. \A i \in CommitsOf(wal) : wal[i].tx.at < clock + 1 /\ wal[i].tx.at <= clock + 1
    BY <1>1, <1>3, <1>5 DEF NotAfter
  <2>4. ThreadOK(c)'
    BY <1>4, <2>1, <2>2, <2>3 DEF ThreadOK, Early
  <2> QED
    BY <1>1, <1>2, <1>4, <2>4, RecordedMove
<1>7. CASE Acquire(c)
  <2>1. PICK old, new \in FactIds(mem) \cup {0}, s \in Shards :
           /\ IF verb[c] = "supersede"
              THEN old # new /\ CanApply(mem, [tx[c] EXCEPT !.kind = "supersede",
                                                            !.old = old, !.new = new])
              ELSE old = 0 /\ new = 0
           /\ tx' = [tx EXCEPT ![c] =
                      [@ EXCEPT !.kind = verb[c], !.old = old, !.new = new, !.shard = s,
                                !.qseq = IF verb[c] = "absorb"
                                         THEN mem.nextSeq ELSE 0]]
    BY <1>7 DEF Acquire
  <2>2. /\ pc[c] = "guard" /\ pc'[c] = "prepare" /\ snapAt' = snapAt /\ clock' = clock
    BY <1>1, <1>7 DEF Acquire
  <2>3. PICK q : q = IF verb[c] = "absorb" THEN mem.nextSeq ELSE 0
    OBVIOUS
  <2>4. /\ tx'[c].at = tx[c].at /\ tx'[c].kind = verb[c]
        /\ tx'[c].old = old /\ tx'[c].new = new /\ tx'[c].qseq = q
    BY <1>1, <2>1, <2>3 DEF Tx
  <2>5. CanApply(mem, tx'[c])
    <3>1. CASE verb[c] = "supersede"
      <4>1. CanApply(mem, [tx[c] EXCEPT !.kind = "supersede", !.old = old, !.new = new])
        BY <2>1, <3>1
      <4>2. {old, new} \subseteq FactIds(mem) /\ old \notin Superseded(mem)
        BY <1>1, <4>1 DEF CanApply, Tx
      <4> QED
        BY <2>4, <3>1, <4>2 DEF CanApply
    <3>2. CASE verb[c] = "absorb"
      BY <2>3, <2>4, <3>2 DEF CanApply
    <3>3. CASE verb[c] \notin {"supersede", "absorb"}
      BY <2>4, <3>3 DEF CanApply
    <3> QED
      BY <3>1, <3>2, <3>3
  <2>6. ThreadOK(c)'
    BY <1>4, <1>5, <2>2, <2>4, <2>5 DEF ThreadOK, Early, Busy
  <2> QED
    BY <1>1, <1>2, <1>4, <2>6, RecordedMove
<1>8. CASE Curate(c)
  <2>1. /\ pc[c] = "curate" /\ pc'[c] = "prepare" /\ snapAt' = snapAt /\ clock' = clock + 1
        /\ \E s : tx'[c] = [NoTx EXCEPT !.id = tx[c].id, !.at = clock',
                                        !.kind = "curate", !.shard = s]
    BY <1>1, <1>8 DEF Curate
  <2>2. tx'[c].at = clock + 1 /\ tx'[c].kind = "curate" /\ tx'[c].at <= clock'
    BY <1>1, <2>1 DEF NoTx
  <2>3. \A i \in CommitsOf(wal) : wal[i].tx.at < clock + 1
    BY <1>1, <1>3, <1>5 DEF NotAfter
  <2>4. CanApply(mem, tx'[c])
    BY <2>2 DEF CanApply
  <2>5. ThreadOK(c)'
    BY <1>4, <1>5, <2>1, <2>2, <2>3, <2>4 DEF ThreadOK, Early, Busy
  <2> QED
    BY <1>1, <1>2, <1>4, <2>5, RecordedMove
<1> QED
  BY <1>6, <1>7, <1>8

\* A frame of the transaction is appended: the log and its history go on.
LEMMA RecordedAppend ==
    ASSUME Solo, AnswerInv, AnswerInv', Recorded, NEW c \in Clients,
           Prepare(c) \/ Commit(c)
    PROVE  Recorded'
<1> USE DEF locks, stream, files, recovery, history, policy
<1>1. /\ pc \in [Clients -> ClientPc] /\ snapAt \in [Clients -> Nat] /\ clock \in Nat
      /\ tx \in [Clients -> Tx] /\ tx[c] \in Tx /\ tx[c].at \in Nat /\ manifest.snap.at \in Nat
  BY SoloTypes DEF AnswerInv, Tx
<1>2. TypeOK /\ TypeOK'
  BY DEF AnswerInv
<1>3. PICK op \in {"prepare", "commit"} :
         /\ wal' = Append(wal, Frame(op, tx[c]))
         /\ op = "prepare" => pc[c] = "prepare" /\ pc'[c] = "audit"
         /\ op = "commit" => pc[c] = "commit" /\ pc'[c] = "apply"
  BY <1>1 DEF Prepare, Commit, AppendWal, WriteFrame
<1>4. /\ status = "up" /\ status' = "up" /\ mem' = mem /\ tx' = tx /\ clock' = clock
      /\ snapAt' = snapAt /\ manifest' = manifest
  BY DEF Prepare, Commit
<1>5. PICK n \in Nat : n = Len(wal)
  BY <1>2, CommitTypes
<1>6. \A d \in Clients : d = c
  BY DEF Solo
<1>7. PICK h : History(h, wal) /\ Faithful(h, wal) /\ Follows(h)
  BY DEF Recorded
<1>8. mem = h[n]
  <2>1. pc[c] # "apply"
    BY <1>3
  <2> QED
    BY <1>4, <1>5, <1>6, <1>7, <2>1 DEF Follows
<1>9. ThreadOK(c) /\ NotAfter(clock) /\ InOrder(wal)
  BY <1>4 DEF Recorded
<1>10. CanApply(mem, tx[c])
  BY <1>3, <1>9 DEF ThreadOK
<1>11. PICK g : GoesOn(g, wal', h, n)
  <2>1. wal \in Seq(WalFrame) /\ CanApply(h[n], tx[c])
    BY <1>2, <1>8, <1>10, CommitTypes
  <2>2. PICK w, v, t : w = wal /\ v = wal' /\ t = tx[c]
    OBVIOUS
  <2>3. /\ w \in Seq(WalFrame) /\ t \in Tx /\ v = Append(w, Frame(op, t)) /\ n = Len(w)
        /\ History(h, w) /\ Faithful(h, w) /\ CanApply(h[n], t)
    BY <1>1, <1>3, <1>5, <1>7, <2>1, <2>2
  <2>4. \E g : GoesOn(g, v, h, n)
    BY ONLY <2>3, n \in Nat, op \in {"prepare", "commit"}, HistoryGrows
  <2> QED
    BY <2>2, <2>4
<1>12. /\ Len(wal') = n + 1 /\ wal'[n + 1] = Frame(op, tx[c])
       /\ \A i \in 1 .. n : wal'[i] = wal[i]
  BY <1>2, <1>3, <1>5, CommitTypes
<1>13. wal'[n + 1].op = op /\ wal'[n + 1].tx = tx[c]
  BY <1>12 DEF Frame
<1>14. /\ \A i \in CommitsOf(wal') : \/ i \in CommitsOf(wal) /\ i \in 1 .. n /\ wal'[i] = wal[i]
                                     \/ i = n + 1 /\ op = "commit"
       /\ \A i \in CommitsOf(wal) : i \in 1 .. n
  BY <1>5, <1>12, <1>13 DEF CommitsOf
<1>15. /\ tx[c].at <= clock /\ tx[c].at > manifest.snap.at
       /\ tx[c].at <= snapAt[c] \/ tx[c].kind = "curate"
       /\ \A i \in CommitsOf(wal) : wal[i].tx.at < tx[c].at
  <2>1. pc[c] \in Early /\ pc[c] \in Building /\ snapAt[c] \in Nat
    BY <1>1, <1>3 DEF Early, Building
  <2> QED
    BY <1>1, <1>9, <2>1 DEF ThreadOK, AnswerInv, TimesOK
<1>16. InOrder(wal')
  <2>1. ASSUME NEW i \in CommitsOf(wal'), NEW j \in CommitsOf(wal'), i < j
        PROVE  wal'[i].tx.at < wal'[j].tx.at
    <3>1. CASE j \in CommitsOf(wal)
      <4>1. i \in CommitsOf(wal) /\ wal'[i] = wal[i] /\ wal'[j] = wal[j]
        BY <1>14, <2>1, <3>1
      <4> QED
        BY <1>9, <2>1, <3>1, <4>1 DEF InOrder
    <3>2. CASE j = n + 1
      <4>1. i \in CommitsOf(wal) /\ wal'[i] = wal[i]
        BY <1>14, <2>1, <3>2
      <4> QED
        BY <1>13, <1>15, <3>2, <4>1
    <3> QED
      BY <1>14, <3>1, <3>2
  <2>2. ASSUME NEW j \in CommitsOf(wal')
        PROVE  \E p \in 1 .. Len(wal') : wal'[p] = Frame("prepare", wal'[j].tx)
    <3>1. \E p \in 1 .. n : wal[p] = Frame("prepare", wal'[j].tx)
      <4>1. CASE j \in CommitsOf(wal) /\ wal'[j] = wal[j]
        BY <1>5, <1>9, <4>1 DEF InOrder
      <4>2. CASE j = n + 1 /\ op = "commit"
        BY <1>3, <1>5, <1>9, <1>13, <4>2 DEF ThreadOK
      <4> QED
        BY <1>14, <4>1, <4>2
    <3> QED
      BY <1>12, <3>1
  <2> QED
    BY ONLY <2>1, <2>2 DEF InOrder
<1>17. NotAfter(clock)'
  BY <1>4, <1>9, <1>13, <1>14, <1>15 DEF NotAfter
<1>18. ThreadOK(c)'
  <2>1. Busy(c)
    BY <1>3 DEF Busy
  <2>2. \A i \in CommitsOf(wal) : wal[i].tx.at <= snapAt[c] \/ wal[i].tx.kind = "curate"
    BY <1>9, <2>1 DEF ThreadOK
  <2>3. \A i \in CommitsOf(wal') : wal'[i].tx.at <= snapAt'[c] \/ wal'[i].tx.kind = "curate"
    BY <1>4, <1>13, <1>14, <1>15, <2>2
  <2>4. CASE op = "commit"
    <3>1. pc'[c] = "apply"
      BY <1>3, <2>4
    <3> QED
      BY <2>3, <3>1 DEF ThreadOK, Early
  <2>5. CASE op = "prepare"
    <3>1. pc[c] = "prepare" /\ pc'[c] = "audit"
      BY <1>3, <2>5
    <3>2. \A i \in CommitsOf(wal') : wal'[i].tx.at < tx'[c].at
      BY <1>4, <1>14, <1>15, <2>5
    <3>3. \E p \in 1 .. Len(wal') : wal'[p] = Frame("prepare", tx'[c])
      BY <1>4, <1>12, <2>5
    <3>4. tx[c].at = snapAt[c] \/ tx[c].kind = "curate"
      BY <1>9, <3>1 DEF ThreadOK, Early
    <3> QED
      BY <1>4, <1>10, <1>15, <2>3, <3>1, <3>2, <3>3, <3>4 DEF ThreadOK, Early
  <2> QED
    BY <2>4, <2>5
<1>19. /\ History(g, wal') /\ Faithful(g, wal') /\ \A i \in 0 .. n : g[i] = h[i]
       /\ g[n + 1] = IF op = "commit" THEN Apply(h[n], tx[c]) ELSE h[n]
  <2>1. History(g, wal') /\ Faithful(g, wal') /\ \A i \in 0 .. n : g[i] = h[i]
    BY <1>11 DEF GoesOn
  <2>2. n + 1 \in 1 .. Len(wal') /\ (n + 1 \in CommitsOf(wal') <=> op = "commit")
    BY <1>12, <1>13 DEF CommitsOf
  <2>3. g[n + 1] = IF n + 1 \in CommitsOf(wal') THEN Apply(g[n], wal'[n + 1].tx) ELSE g[n]
    BY <2>1, <2>2 DEF History
  <2> QED
    BY <1>13, <2>1, <2>2, <2>3
<1>20. Follows(g)'
  <2>1. PICK k \in 0 .. n : Cut(manifest.snap, h, k)
    BY <1>5, <1>7 DEF Follows
  <2>2. k \in 0 .. Len(wal')
    BY <1>12
  <2>3. manifest'.snap.mem = g[k]
    BY <1>4, <1>19, <2>1 DEF Cut
  <2>4. ASSUME NEW i \in CommitsOf(wal')
        PROVE  IF i <= k THEN wal'[i].tx.at <= manifest'.snap.at \/ wal'[i].tx.kind = "curate"
                         ELSE wal'[i].tx.at > manifest'.snap.at
    BY <1>4, <1>13, <1>14, <1>15, <2>1 DEF Cut
  <2>5. Cut(manifest.snap, g, k)'
    BY <2>3, <2>4 DEF Cut
  <2>6. CASE op = "prepare"
    <3>1. mem' = g[Len(wal')] /\ pc'[c] = "audit"
      BY <1>3, <1>4, <1>8, <1>19, <1>12, <2>6
    <3> QED
      BY <1>4, <1>6, <2>2, <2>5, <3>1 DEF Follows
  <2>7. CASE op = "commit"
    <3>1. mem' = g[Len(wal') - 1] /\ pc'[c] = "apply" /\ Len(wal') > 0
          /\ wal'[Len(wal')] = Frame("commit", tx'[c])
      BY <1>3, <1>4, <1>8, <1>19, <1>12, <2>7
    <3> QED
      BY <1>4, <1>6, <2>2, <2>5, <3>1 DEF Follows
  <2> QED
    BY <2>6, <2>7
<1> QED
  BY <1>4, <1>6, <1>16, <1>17, <1>18, <1>19, <1>20 DEF Recorded

\* ApplyTx: the cells are again at the end of the history.
LEMMA RecordedApply ==
    ASSUME Solo, AnswerInv, AnswerInv', Recorded, NEW c \in Clients, ApplyTx(c)
    PROVE  Recorded'
<1> USE DEF locks, stream, files, recovery, history, policy
<1>1. /\ pc \in [Clients -> ClientPc] /\ tx \in [Clients -> Tx]
  BY SoloTypes DEF AnswerInv
<1>2. TypeOK /\ TypeOK'
  BY DEF AnswerInv
<1>3. /\ status = "up" /\ status' = "up" /\ mem' = Apply(mem, tx[c]) /\ tx' = tx
      /\ clock' = clock /\ snapAt' = snapAt /\ manifest' = manifest /\ wal' = wal
      /\ pc[c] = "apply" /\ pc'[c] \in {"curate", "idle", "policy"}
  BY <1>1 DEF ApplyTx, AnswerOk
<1>4. \A d \in Clients : d = c
  BY DEF Solo
<1>5. PICK h : History(h, wal) /\ Faithful(h, wal) /\ Follows(h)
  BY DEF Recorded
<1>6. ThreadOK(c) /\ NotAfter(clock) /\ InOrder(wal)
  BY <1>3 DEF Recorded
<1>7. PICK n \in Nat : n = Len(wal)
  BY <1>2, CommitTypes
<1>8. n > 0 /\ wal[n] = Frame("commit", tx[c]) /\ mem = h[n - 1]
  BY <1>3, <1>5, <1>7 DEF Follows
<1>9. n \in 1 .. Len(wal) /\ n \in CommitsOf(wal) /\ wal[n].tx = tx[c]
  BY <1>7, <1>8 DEF CommitsOf, Frame
<1>10. mem' = h[n]
  BY <1>3, <1>5, <1>8, <1>9 DEF History
<1>11. \E k \in 0 .. Len(wal') : Cut(manifest.snap, h, k)'
  BY <1>3, <1>5 DEF Follows, Cut
<1>12. Follows(h)'
  BY <1>3, <1>4, <1>7, <1>10, <1>11 DEF Follows
<1>13. ThreadOK(c)'
  BY <1>3, <1>6 DEF ThreadOK, Early, Busy
<1>14. NotAfter(clock)'
  BY <1>3, <1>6 DEF NotAfter
<1> QED
  BY <1>3, <1>4, <1>5, <1>6, <1>12, <1>13, <1>14 DEF Recorded

\* SaveManifest: the snapshot holds the whole log.
LEMMA RecordedSave ==
    ASSUME Solo, AnswerInv, AnswerInv', Recorded, NEW c \in Clients, SaveManifest(c)
    PROVE  Recorded'
<1> USE DEF locks, stream, files, recovery, history, policy
<1>1. /\ pc \in [Clients -> ClientPc] /\ nodeManifest \in Manifest
  BY SoloTypes DEF AnswerInv
<1>2. TypeOK /\ TypeOK'
  BY DEF AnswerInv
<1>3. /\ status = "up" /\ status' = "up" /\ mem' = mem /\ tx' = tx
      /\ clock' = clock /\ snapAt' = snapAt /\ wal' = wal
      /\ pc[c] = "manifest" /\ pc'[c] = "report"
      /\ manifest' = [nodeManifest EXCEPT !.at = snapAt[c], !.snap = Snapshot(c)]
  BY <1>1 DEF SaveManifest, NameSnapshot
<1>4. manifest'.snap.at = snapAt[c] /\ manifest'.snap.mem = captured[c]
  BY <1>1, <1>3 DEF Manifest, Snapshot
<1>5. \A d \in Clients : d = c
  BY DEF Solo
<1>6. PICK h : History(h, wal) /\ Faithful(h, wal) /\ Follows(h)
  BY DEF Recorded
<1>7. ThreadOK(c) /\ NotAfter(clock) /\ InOrder(wal)
  BY <1>3 DEF Recorded
<1>8. PICK n \in Nat : n = Len(wal)
  BY <1>2, CommitTypes
<1>9. captured[c] = h[n] /\ mem = h[n]
  BY <1>3, <1>5, <1>6, <1>8 DEF Follows
<1>10. Cut(manifest.snap, h, n)'
  <2>1. \A i \in CommitsOf(wal) : i <= n
    BY <1>2, <1>8, CommitTypes
  <2>2. \A i \in CommitsOf(wal) : wal[i].tx.at <= snapAt[c] \/ wal[i].tx.kind = "curate"
    BY <1>3, <1>7 DEF ThreadOK, Busy
  <2> QED
    BY <1>3, <1>4, <1>9, <2>1, <2>2 DEF Cut
<1>11. n \in 0 .. Len(wal')
  BY <1>3, <1>8
<1>12. Follows(h)'
  BY <1>3, <1>5, <1>8, <1>9, <1>10, <1>11 DEF Follows
<1>13. ThreadOK(c)'
  BY <1>3, <1>7 DEF ThreadOK, Early, Busy
<1>14. NotAfter(clock)'
  BY <1>3, <1>7 DEF NotAfter
<1> QED
  BY <1>3, <1>5, <1>6, <1>7, <1>12, <1>13, <1>14 DEF Recorded

\* A step of a boot, or the end of the process: no thread runs.
LEMMA RecordedOff ==
    ASSUME Recorded, \A c \in Clients : pc'[c] = "idle", wal' = wal, manifest' = manifest,
           status' \in {"down", "recovering", "unverified"},
           status' = "recovering" => ReplayOK',
           status' = "recovering" => \A h : History(h, wal) /\ Faithful(h, wal) /\ Follows(h) =>
              \E m \in 0 .. Len(wal) : Reached(h, m)'
    PROVE  Recorded'
<1>1. PICK h : History(h, wal) /\ Faithful(h, wal) /\ Follows(h)
  BY DEF Recorded
<1>2. \E k \in 0 .. Len(wal') : Cut(manifest.snap, h, k)'
  BY <1>1 DEF Follows, Cut
<1>3. status' = "recovering" => \E m \in 0 .. Len(wal') : Reached(h, m)'
  BY <1>1
<1>4. Follows(h)'
  BY <1>2, <1>3 DEF Follows
<1>5. \A c \in Clients : ThreadOK(c)'
  BY DEF ThreadOK, Early, Busy
<1> QED
  BY <1>1, <1>4, <1>5 DEF Recorded

\* RecoverBegin: the boot stands where the snapshot was cut.
LEMMA RecordedBegin ==
    ASSUME AnswerInv, AnswerInv', Recorded, NothingHidden, RecoverBegin
    PROVE  Recorded'
<1> USE DEF locks, stream, files, recovery, history, policy
<1>1. TypeOK /\ manifest.snap.at \in Nat
  BY SoloTypes DEF AnswerInv
<1>2. /\ status = "down" /\ status' \in {"recovering", "unverified"} /\ pc' = pc
      /\ wal' = wal /\ manifest' = manifest /\ mem' = manifest.snap.mem
      /\ todo' = {i \in 1 .. Len(wal) : wal[i].tx.at > manifest.snap.at}
  BY DEF RecoverBegin, BootOutcome, NothingHidden
<1>3. \A c \in Clients : pc'[c] = "idle"
  BY <1>2 DEF AnswerInv, TimesOK
<1>4. /\ \A i \in CommitsOf(wal) : i \in 1 .. Len(wal) /\ wal[i].tx.at \in Nat
      /\ InOrder(wal)
  BY <1>1, CommitTypes DEF Recorded
<1>5. ReplayOK'
  <2>1. ASSUME NEW i \in CommitsOf(wal), i \in todo'
        PROVE  \E p \in todo' : wal[p] = Frame("prepare", wal[i].tx)
    <3>1. PICK p \in 1 .. Len(wal) : wal[p] = Frame("prepare", wal[i].tx)
      BY <1>4 DEF InOrder
    <3>2. wal[p].tx = wal[i].tx
      BY <3>1 DEF Frame
    <3> QED
      BY <1>2, <2>1, <3>1, <3>2
  <2>2. \A i \in CommitsOf(wal) : i \in todo' \/ wal[i].tx.at <= manifest.snap.at
    BY <1>1, <1>2, <1>4
  <2>3. todo' \subseteq 1 .. Len(wal)
    BY <1>2
  <2> QED
    BY <1>2, <2>1, <2>2, <2>3 DEF ReplayOK
<1>6. ASSUME NEW h, Follows(h) PROVE \E m \in 0 .. Len(wal) : Reached(h, m)'
  <2>1. PICK k \in 0 .. Len(wal) : Cut(manifest.snap, h, k)
    BY <1>6 DEF Follows
  <2>2. ASSUME NEW i \in CommitsOf(wal)
        PROVE  IF i <= k THEN i \in todo' => wal[i].tx.kind = "curate" ELSE i \in todo'
    BY <1>1, <1>2, <1>4, <2>1 DEF Cut
  <2>3. mem' = h[k]
    BY <1>2, <2>1 DEF Cut
  <2> QED
    BY <1>2, <2>2, <2>3 DEF Reached
<1> QED
  BY <1>2, <1>3, <1>5, <1>6, RecordedOff

LEMMA BeforeTimes ==
    ASSUME NEW i, NEW j, wal[i].tx.at \in Nat, wal[j].tx.at \in Nat, ReplaysBefore(i, j)
    PROVE  wal[i].tx.at <= wal[j].tx.at
<1>1. wal[i].tx.at < wal[j].tx.at \/ wal[i].tx.at = wal[j].tx.at
  BY DEF ReplaysBefore
<1> QED
  BY <1>1

\* The next commit of a boot is accepted, and is the next of the history or a
\* curator output that the snapshot holds already.
LEMMA ReplayReaches ==
    ASSUME TypeOK, InOrder(wal), ReplayOK, NEW h, History(h, wal), Faithful(h, wal),
           NEW m \in 0 .. Len(wal), Reached(h, m), NEW i \in CommitsOf(wal), i \in todo,
           \A j \in todo \ {i} : ReplaysBefore(i, j)
    PROVE  /\ wal[i].tx \in prepared /\ CanApply(mem, wal[i].tx)
           /\ \/ i <= m /\ Apply(mem, wal[i].tx) = mem
              \/ /\ m < i /\ Apply(mem, wal[i].tx) = h[i]
                 /\ \A j \in CommitsOf(wal) : j <= m \/ i <= j
<1>1. PICK t : t = wal[i].tx
  OBVIOUS
<1>2. /\ i \in 1 .. Len(wal) /\ i \in Nat /\ Len(wal) \in Nat /\ m \in Nat
      /\ t \in Tx /\ t.at \in Nat /\ mem \in Mem /\ wal[i].op = "commit"
      /\ \A j \in CommitsOf(wal) : j \in Nat /\ wal[j].tx.at \in Nat
  <2>1. mem \in Mem
    BY SoloTypes
  <2>2. Len(wal) \in Nat /\ \A j \in CommitsOf(wal) : j \in 1 .. Len(wal) /\ j \in Nat
            /\ wal[j].op = "commit" /\ wal[j].tx \in Tx /\ wal[j].tx.at \in Nat
    BY CommitTypes
  <2> QED
    BY <1>1, <2>1, <2>2
<1>3. t \in prepared
  <2>1. ASSUME NEW p \in todo, wal[p] = Frame("prepare", t) PROVE FALSE
    <3>1. wal[p].op = "prepare" /\ wal[p].tx = t
      BY <2>1 DEF Frame
    <3>2. ReplaysBefore(i, p)
      BY <1>2, <3>1
    <3>3. OpOf(wal[i]) = 11 /\ OpOf(wal[p]) = 10
      BY <1>2, <3>1 DEF OpOf
    <3>4. PICK k : k = CellOf(t) /\ k \in Nat
      BY <1>2, TxCases DEF CellOf
    <3> QED
      BY <1>1, <1>2, <3>1, <3>2, <3>3, <3>4 DEF ReplaysBefore
  <2> QED
    BY <1>1, <2>1 DEF ReplayOK
<1>4. CASE i <= m
  <2>1. t.kind = "curate"
    BY <1>1, <1>4 DEF Reached
  <2>2. t \in mem.curated
    BY <1>1, <1>4, <2>1 DEF Reached, Faithful
  <2>3. Apply(mem, t) = [mem EXCEPT !.curated = @ \cup {t}] /\ CanApply(mem, t)
    BY <2>1 DEF Apply, CanApply
  <2>4. mem.curated \cup {t} = mem.curated
    BY <2>2
  <2>5. Apply(mem, t) = mem
    BY <1>2, <2>3, <2>4 DEF Mem
  <2> QED
    BY <1>1, <1>3, <1>4, <2>3, <2>5
<1>5. CASE m < i
  <2>1. ASSUME NEW j \in CommitsOf(wal), m < j, j < i PROVE FALSE
    <3>1. j \in todo \ {i}
      BY <1>2, <2>1 DEF Reached
    <3>2. ReplaysBefore(i, j)
      BY <3>1
    <3>3. t.at <= wal[j].tx.at
      BY <1>1, <1>2, <3>2, BeforeTimes
    <3>4. wal[j].tx.at < t.at
      BY <1>1, <2>1 DEF InOrder
    <3> QED
      BY <1>2, <3>3, <3>4
  <2>2. \A j \in CommitsOf(wal) : j <= m \/ i <= j
    <3>1. m \in Nat /\ i \in Nat /\ \A j \in CommitsOf(wal) : j \in Nat
      BY <1>2
    <3> QED
      BY ONLY <2>1, <3>1
  <2>3. i - 1 \in 0 .. Len(wal) /\ m <= i - 1 /\ \A j \in CommitsOf(wal) : j <= m \/ i - 1 < j
    BY <1>2, <1>5, <2>2
  <2>4. h[i - 1] = mem
    BY <2>3 DEF Faithful, Reached
  <2>5. h[i] = Apply(mem, t) /\ CanApply(mem, t)
    BY <1>1, <1>2, <2>4 DEF History
  <2> QED
    BY <1>1, <1>3, <1>5, <2>2, <2>5
<1> QED
  BY <1>2, <1>4, <1>5

\* ReplayFrame: one turn of the replay, which is never refused.
LEMMA RecordedReplay ==
    ASSUME AnswerInv, AnswerInv', Recorded, NEW i \in 1 .. Len(wal), ReplayFrame(i)
    PROVE  Recorded'
<1> USE DEF locks, stream, files, recovery, history, policy
<1>1. /\ status = "recovering" /\ pc' = pc /\ wal' = wal /\ manifest' = manifest
      /\ todo' = todo \ {i} /\ i \in todo /\ \A j \in todo \ {i} : ReplaysBefore(i, j)
  BY DEF ReplayFrame
<1>2. \A c \in Clients : pc'[c] = "idle"
  BY <1>1 DEF AnswerInv, TimesOK
<1>3. TypeOK /\ clock \in Nat /\ InOrder(wal) /\ ReplayOK
  BY <1>1, SoloTypes DEF AnswerInv, Recorded
<1>4. /\ \A j \in CommitsOf(wal) : j \in Nat /\ wal[j].tx.at \in Nat /\ wal[j].op = "commit"
      /\ Len(wal) \in Nat
  BY <1>3, CommitTypes
<1>5. CASE wal[i].op = "prepare"
  <2>1. /\ prepared' = prepared \cup {wal[i].tx} /\ status' = status /\ clock' = clock
        /\ mem' = mem
    BY <1>5 DEF ReplayFrame
  <2>2. i \notin CommitsOf(wal)
    BY <1>5 DEF CommitsOf
  <2>3. ASSUME NEW j \in CommitsOf(wal), j \in todo'
        PROVE  \/ wal[j].tx \in prepared'
               \/ \E p \in todo' : wal[p] = Frame("prepare", wal[j].tx)
    <3>1. CASE wal[j].tx \in prepared
      BY <2>1, <3>1
    <3>2. CASE \E p \in todo : wal[p] = Frame("prepare", wal[j].tx)
      <4>1. PICK p \in todo : wal[p] = Frame("prepare", wal[j].tx)
        BY <3>2
      <4>2. CASE p = i
        BY <2>1, <4>1, <4>2 DEF Frame
      <4>3. CASE p # i
        BY <1>1, <4>1, <4>3
      <4> QED
        BY <4>2, <4>3
    <3> QED
      BY <1>1, <1>3, <2>3, <3>1, <3>2 DEF ReplayOK
  <2>4. ReplayOK'
    BY <1>1, <1>3, <2>1, <2>2, <2>3 DEF ReplayOK
  <2>5. ASSUME NEW h, Follows(h) PROVE \E m \in 0 .. Len(wal) : Reached(h, m)'
    <3>1. PICK m \in 0 .. Len(wal) : Reached(h, m)
      BY <1>1, <2>5 DEF Follows
    <3>2. Reached(h, m)'
      BY <1>1, <2>1, <2>2, <3>1 DEF Reached
    <3> QED
      BY <3>2
  <2> QED
    BY <1>1, <1>2, <2>1, <2>4, <2>5, RecordedOff
<1>6. CASE wal[i].op = "commit"
  <2>1. i \in CommitsOf(wal)
    BY <1>6 DEF CommitsOf
  <2>2. ASSUME NEW h, History(h, wal), Faithful(h, wal), NEW m \in 0 .. Len(wal), Reached(h, m)
        PROVE  /\ wal[i].tx \in prepared /\ CanApply(mem, wal[i].tx)
               /\ \/ i <= m /\ Apply(mem, wal[i].tx) = mem
                  \/ /\ m < i /\ Apply(mem, wal[i].tx) = h[i]
                     /\ \A j \in CommitsOf(wal) : j <= m \/ i <= j
    BY <1>1, <1>3, <2>1, <2>2, ReplayReaches
  <2>3. wal[i].tx \in prepared /\ CanApply(mem, wal[i].tx)
    <3>1. PICK h : History(h, wal) /\ Faithful(h, wal) /\ Follows(h)
      BY DEF Recorded
    <3>2. PICK m \in 0 .. Len(wal) : Reached(h, m)
      BY <1>1, <3>1 DEF Follows
    <3> QED
      BY <2>2, <3>1, <3>2
  <2>4. /\ mem' = Apply(mem, wal[i].tx) /\ prepared' = prepared \ {wal[i].tx}
        /\ status' = status /\ clock' = IF clock < wal[i].tx.at THEN wal[i].tx.at ELSE clock
    BY <1>6, <2>3 DEF ReplayFrame, AdvanceTo
  <2>5. clock <= clock' /\ wal[i].tx.at <= clock' /\ clock' \in Nat
    BY <1>3, <1>4, <2>1, <2>4
  <2>6. ASSUME NEW j \in CommitsOf(wal), j \in todo'
        PROVE  \/ wal[j].tx \in prepared'
               \/ \E p \in todo' : wal[p] = Frame("prepare", wal[j].tx)
    <3>1. CASE wal[j].tx \in prepared
      <4>1. j # i
        BY <1>1, <2>6
      <4>4. i < j \/ j < i
        BY <1>4, <2>1, <4>1
      <4>2. wal[j].tx.at < wal[i].tx.at \/ wal[i].tx.at < wal[j].tx.at
        BY <1>3, <2>1, <4>4 DEF InOrder
      <4>3. wal[j].tx # wal[i].tx
        BY <1>4, <2>1, <4>2
      <4> QED
        BY <2>4, <3>1, <4>3
    <3>2. CASE \E p \in todo : wal[p] = Frame("prepare", wal[j].tx)
      <4>1. PICK p \in todo : wal[p] = Frame("prepare", wal[j].tx)
        BY <3>2
      <4>2. p # i
        BY <1>6, <4>1 DEF Frame
      <4> QED
        BY <1>1, <4>1, <4>2
    <3> QED
      BY <1>1, <1>3, <2>6, <3>1, <3>2 DEF ReplayOK
  <2>7. \A j \in CommitsOf(wal) : \/ j \in todo'
                                  \/ wal[j].tx.at <= clock'
                                  \/ wal[j].tx.at <= manifest.snap.at
    BY <1>1, <1>3, <1>4, <2>5 DEF ReplayOK
  <2>8. ReplayOK'
    <3>1. todo' \subseteq 1 .. Len(wal)
      BY <1>1, <1>3 DEF ReplayOK
    <3> QED
      BY <1>1, <2>6, <2>7, <3>1 DEF ReplayOK
  <2>9. ASSUME NEW h, History(h, wal), Faithful(h, wal), Follows(h)
        PROVE  \E m \in 0 .. Len(wal) : Reached(h, m)'
    <3>1. PICK m \in 0 .. Len(wal) : Reached(h, m)
      BY <1>1, <2>9 DEF Follows
    <3>2. CASE i <= m /\ Apply(mem, wal[i].tx) = mem
      <4>1. Reached(h, m)'
        BY <1>1, <2>4, <3>1, <3>2 DEF Reached
      <4> QED
        BY <4>1
    <3>3. CASE /\ m < i /\ Apply(mem, wal[i].tx) = h[i]
               /\ \A j \in CommitsOf(wal) : j <= m \/ i <= j
      <4>1. ASSUME NEW j \in CommitsOf(wal)
            PROVE  IF j <= i THEN j \in todo' => wal[j].tx.kind = "curate" ELSE j \in todo'
        <5>1. CASE j <= m
          <6>3. j \in Nat /\ m \in Nat /\ i \in Nat
            <7>1. j \in Nat
              BY ONLY <1>4, j \in CommitsOf(wal)
            <7>2. i \in Nat
              BY ONLY <1>4, <2>1
            <7>3. m \in Nat
              BY ONLY <1>4, m \in 0 .. Len(wal)
            <7> QED
              BY <7>1, <7>2, <7>3
          <6>1. j <= i
            BY ONLY <3>3, <5>1, <6>3
          <6>2. j \in todo => wal[j].tx.kind = "curate"
            BY <3>1, <5>1 DEF Reached
          <6> QED
            BY <1>1, <6>1, <6>2
        <5>2. CASE ~(j <= m)
          <6>1. j \in todo /\ i <= j
            BY <3>1, <3>3, <5>2 DEF Reached
          <6> QED
            BY <1>1, <1>4, <2>1, <6>1
        <5> QED
          BY <5>1, <5>2
      <4>2. Reached(h, i)' /\ i \in 0 .. Len(wal)
        BY <1>1, <2>4, <3>3, <4>1 DEF Reached
      <4> QED
        BY <4>2
    <3> QED
      BY <2>2, <2>9, <3>1, <3>2, <3>3
  <2> QED
    BY <1>1, <1>2, <2>4, <2>8, <2>9, RecordedOff
<1>7. wal[i].op \in {"prepare", "commit"}
  BY DEF ReplayFrame
<1> QED
  BY <1>5, <1>6, <1>7

\* RecoverEnd: the boot has reached the end of the history.
LEMMA RecordedEnd ==
    ASSUME AnswerInv, AnswerInv', Recorded, RecoverEnd
    PROVE  Recorded'
<1> USE DEF locks, stream, files, recovery, history, policy
<1>1. /\ status = "recovering" /\ status' \in {"up", "down", "unverified"}
      /\ pc' = pc /\ wal' = wal /\ todo = {} /\ manifest' = manifest /\ mem' = mem
      /\ clock' = IF clock < manifest.at THEN manifest.at ELSE clock
  BY DEF RecoverEnd, BootRecorded, BootRecordFails, AdvanceTo
<1>2. \A c \in Clients : pc'[c] = "idle"
  BY <1>1 DEF AnswerInv, TimesOK
<1>3. /\ TypeOK /\ clock \in Nat /\ InOrder(wal) /\ ReplayOK
      /\ manifest.at \in Nat /\ manifest.snap.at \in Nat /\ manifest.snap.at <= manifest.at
  BY <1>1, SoloTypes DEF AnswerInv, Recorded, TimesOK, Manifest
<1>4. /\ Len(wal) \in Nat /\ \A j \in CommitsOf(wal) : j \in 1 .. Len(wal) /\ wal[j].tx.at \in Nat
  BY <1>3, CommitTypes
<1>5. PICK h : History(h, wal) /\ Faithful(h, wal) /\ Follows(h)
  BY DEF Recorded
<1>6. PICK m \in 0 .. Len(wal) : Reached(h, m)
  BY <1>1, <1>5 DEF Follows
<1>7. \A j \in CommitsOf(wal) : j <= m
  BY <1>1, <1>4, <1>6 DEF Reached
<1>8. mem = h[Len(wal)]
  <2>1. Len(wal) \in 0 .. Len(wal) /\ m <= Len(wal)
    BY <1>4
  <2> QED
    BY <1>5, <1>6, <1>7, <2>1 DEF Faithful, Reached
<1>9. NotAfter(clock)'
  <2>1. \A j \in CommitsOf(wal) : wal[j].tx.at <= clock \/ wal[j].tx.at <= manifest.snap.at
    BY <1>1, <1>3 DEF ReplayOK
  <2> QED
    BY <1>1, <1>3, <1>4, <2>1 DEF NotAfter
<1>10. \E k \in 0 .. Len(wal') : Cut(manifest.snap, h, k)'
  BY <1>1, <1>5 DEF Follows, Cut
<1>11. Follows(h)'
  BY <1>1, <1>2, <1>8, <1>10 DEF Follows
<1>12. \A c \in Clients : ThreadOK(c)'
  BY <1>2 DEF ThreadOK, Early, Busy
<1> QED
  BY <1>1, <1>3, <1>5, <1>9, <1>11, <1>12 DEF Recorded

\* A failed append is never forgotten.
LEMMA FaultSteps == ASSUME TypeOK, [Next]_vars PROVE faults["wal"] <= faults'["wal"]
<1>1. faults \in [FaultKinds -> Nat] /\ faults["wal"] \in Nat
  BY DEF TypeOK, FaultKinds
<1>2. CASE faults' = faults
  BY <1>1, <1>2
<1>3. CASE \E k \in FaultKinds : faults' = [faults EXCEPT ![k] = @ + 1]
  BY <1>1, <1>3
<1> QED
  BY <1>2, <1>3, ControlEffects

\* A frame behind a fragment stays there, and so does a fragment in an epoch that
\* is closed.
LEMMA HiddenSteps == ASSUME TypeOK, [Next]_vars, NothingHidden' PROVE NothingHidden
<1>1. hidden = {}
  BY StreamEffects DEF NothingHidden
<1>2. ASSUME NEW s \in Shards, tail[s] = "lost" PROVE FALSE
  <2>1. tail'[s] # "lost" /\ tail \in [Shards -> Tails]
    BY DEF NothingHidden, TypeOK
  <2>2. ASSUME NEW S, tail' \in Rolled(S) PROVE FALSE
    BY <1>2, <2>1, <2>2 DEF Rolled
  <2>3. ASSUME NEW c \in Clients, tail[tx[c].shard] = "whole",
               tail' = [tail EXCEPT ![tx[c].shard] = "torn"]
        PROVE  FALSE
    BY <1>2, <2>1, <2>3
  <2> QED
    BY <1>2, <2>1, <2>2, <2>3, StreamEffects
<1> QED
  BY <1>1, <1>2 DEF NothingHidden

LEMMA LogStep == ASSUME Solo, LogInv, [Next]_vars PROVE LogInv'
<1>1. AnswerInv /\ AnswerInv'
  BY AnswerStep DEF LogInv
<1> SUFFICES ASSUME faults'["wal"] = 0, NothingHidden' PROVE Recorded'
  BY <1>1 DEF LogInv
<1>2. faults["wal"] = 0 /\ \A c \in Clients : ~ AppendFails(c)
  <2>1. faults \in [FaultKinds -> Nat] /\ "wal" \in FaultKinds
    BY <1>1 DEF AnswerInv, TypeOK, FaultKinds
  <2>2. ASSUME NEW c \in Clients, AppendFails(c) PROVE FALSE
    <3>1. faults' = [faults EXCEPT !["wal"] = @ + 1]
      BY <2>2 DEF AppendFails, TearFrame, WriteFrame, Spend
    <3>2. faults["wal"] \in Nat
      BY <2>1
    <3> QED
      BY <2>1, <3>1, <3>2
  <2>3. faults["wal"] = 0
    <3>1. faults["wal"] \in Nat /\ faults["wal"] <= faults'["wal"]
      BY <1>1, <2>1, FaultSteps DEF AnswerInv
    <3> QED
      BY <3>1
  <2> QED
    BY <2>2, <2>3
<1>3. Recorded /\ NothingHidden
  <2>1. NothingHidden
    BY <1>1, HiddenSteps DEF AnswerInv
  <2> QED
    BY <1>2, <2>1 DEF LogInv
<1>4. CASE UNCHANGED vars
  <2>1. UNCHANGED <<status, clock, pc, tx, snapAt, captured, mem, manifest, wal, todo, prepared>>
    BY <1>4 DEF vars, policy, stream, files, recovery, history
  <2>2. PICK h : History(h, wal) /\ Faithful(h, wal) /\ Follows(h)
    BY <1>3 DEF Recorded
  <2>3. Follows(h)'
    BY <2>1, <2>2 DEF Follows, Cut, Reached
  <2>4. (\A c \in Clients : ThreadOK(c)') /\ (status' = "up" => NotAfter(clock)')
    BY <1>3, <2>1 DEF Recorded, ThreadOK, NotAfter, Busy
  <2>5. status' = "recovering" => ReplayOK'
    BY <1>3, <2>1 DEF Recorded, ReplayOK
  <2> QED
    BY <1>3, <2>1, <2>2, <2>3, <2>4, <2>5 DEF Recorded
<1>5. ASSUME NEW c \in Clients, ClientStep(c) PROVE Recorded'
  BY <1>1, <1>2, <1>3, <1>5, RecordedMoves, RecordedBuilds, RecordedAppend, RecordedApply,
     RecordedSave DEF ClientStep
<1>6. ASSUME NEW c \in Clients, AwaitFrame(c) PROVE Recorded'
  BY <1>1, <1>3, <1>6, RecordedMoves
<1>7. ASSUME NEW c \in Clients, NEW v \in Verbs, Receive(c, v) PROVE Recorded'
  BY <1>1, <1>3, <1>7, RecordedBuilds
<1>8. CASE Crash \/ Exit
  <2>1. /\ status' = "down" /\ wal' = wal /\ manifest' = manifest
        /\ \A c \in Clients : pc'[c] = "idle"
    BY <1>8 DEF Crash, Exit, ProcessEnds, TearFrame, stream, files
  <2> QED
    BY <1>3, <2>1, RecordedOff
<1>9. CASE RecoveryStep
  BY <1>1, <1>3, <1>9, RecordedBegin, RecordedReplay, RecordedEnd DEF RecoveryStep
<1> QED
  BY <1>4, <1>5, <1>6, <1>7, <1>8, <1>9 DEF Next

\* As long as no append to the WAL has failed and no frame has been written behind
\* a fragment, a node that serves one connection at a time never refuses to boot
\* from the log it wrote, whatever fragments crashes have left at the ends of its
\* streams: every commit finds its prepare, and the cells accept it where the
\* replay applies it.
THEOREM RecoveryIsAccepted ==
    ASSUME Solo
    PROVE  Spec => []RecoveryAccepted
<1>1. Init => LogInv
  BY LogInit
<1>2. LogInv /\ [Next]_vars => LogInv'
  BY LogStep
<1>3. LogInv => RecoveryAccepted
  BY DEF LogInv, Recorded, RecoveryAccepted
<1> QED
  BY <1>1, <1>2, <1>3, PTL DEF Spec

\* Induction over the naturals, stated of a set.
LEMMA SetInduction ==
    ASSUME NEW S \in SUBSET Nat, 0 \in S, \A n \in S : n + 1 \in S
    PROVE  S = Nat
<1> DEFINE T == Nat \ S
<1> SUFFICES ASSUME T # {} PROVE FALSE
  OBVIOUS
<1>1. PICK x \in T : \A y \in T : ~(<<y, x>> \in OpToRel(<, Nat))
  BY WFMin, NatLessThanWellFounded
<1>2. \A y \in T : ~(y < x)
  BY <1>1 DEF OpToRel
<1>3. x # 0 /\ x - 1 \in Nat
  OBVIOUS
<1>4. x - 1 \in S
  BY <1>2, <1>3
<1> QED
  BY <1>3, <1>4

\* r[n] holds the commits of kind k among the first n frames.
Collects(r, k) ==
    /\ r[0] = <<>>
    /\ \A n \in 1 .. Len(wal) :
          r[n] = IF wal[n].op = "commit" /\ wal[n].tx.kind = k
                 THEN Append(r[n - 1], wal[n].tx) ELSE r[n - 1]

\* The recursion of CommitOrder has a solution: induction on the length.
LEMMA OrderUnfolds ==
    ASSUME NEW k, NEW m \in Nat, m = Len(wal)
    PROVE  \E r : CommitOrder(k) = r[m] /\ Collects(r, k)
<1> DEFINE Step(x, i) == IF wal[i].op = "commit" /\ wal[i].tx.kind = k
                         THEN Append(x, wal[i].tx) ELSE x
           Runs(g, j) == g = [i \in 0 .. j |-> IF i = 0 THEN <<>> ELSE Step(g[i - 1], i)]
           N == {j \in Nat : \E g : Runs(g, j)}
<1>1. CommitOrder(k) = (CHOOSE g : Runs(g, m))[m]
  BY DEF CommitOrder
<1> HIDE DEF Step
<1>2. 0 \in N
  <2>1. Runs([i \in 0 .. 0 |-> <<>>], 0)
    OBVIOUS
  <2> QED
    BY <2>1
<1>3. ASSUME NEW j \in N PROVE j + 1 \in N
  <2>1. PICK g : Runs(g, j)
    OBVIOUS
  <2> DEFINE h == [i \in 0 .. (j + 1) |-> IF i <= j THEN g[i] ELSE Step(g[j], j + 1)]
  <2>2. \A i \in 0 .. (j + 1) : h[i] = IF i = 0 THEN <<>> ELSE Step(h[i - 1], i)
    <3> TAKE i \in 0 .. (j + 1)
    <3>1. CASE i = 0
      BY <2>1, <3>1
    <3>2. CASE i # 0 /\ i <= j
      <4>1. i \in 0 .. j /\ i - 1 \in 0 .. j /\ i - 1 \in 0 .. (j + 1) /\ i - 1 <= j
        BY <3>2
      <4>2. h[i] = g[i] /\ h[i - 1] = g[i - 1]
        BY <3>2, <4>1
      <4>3. g[i] = Step(g[i - 1], i)
        BY <2>1, <3>2, <4>1
      <4> HIDE DEF h
      <4> QED
        BY <3>2, <4>2, <4>3
    <3>3. CASE i = j + 1
      <4>1. j \in 0 .. (j + 1) /\ j <= j /\ (j + 1) - 1 = j /\ j + 1 \in 0 .. (j + 1)
            /\ ~(j + 1 <= j) /\ j + 1 # 0
        OBVIOUS
      <4>2. h[j] = g[j] /\ h[j + 1] = Step(g[j], j + 1)
        BY <4>1
      <4> HIDE DEF h
      <4> QED
        BY <3>3, <4>1, <4>2
    <3> QED
      BY <3>1, <3>2, <3>3
  <2>3. Runs(h, j + 1)
    <3>1. h = [i \in 0 .. (j + 1) |-> h[i]]
      OBVIOUS
    <3> HIDE DEF h
    <3> QED
      BY <2>2, <3>1
  <2>4. \E x : Runs(x, j + 1)
    <3> HIDE DEF Runs, h
    <3> QED
      BY <2>3
  <2> QED
    BY <2>4
<1>4. N = Nat
  <2>1. N \in SUBSET Nat
    OBVIOUS
  <2> HIDE DEF N
  <2> QED
    BY <1>2, <1>3, <2>1, SetInduction
<1>5. \E g : Runs(g, m)
  BY <1>4
<1>6. PICK r : r = (CHOOSE g : Runs(g, m))
  OBVIOUS
<1>7. Runs(r, m)
  <2> HIDE DEF Runs
  <2> QED
    BY <1>5, <1>6
<1>8. CommitOrder(k) = r[m]
  BY <1>1, <1>6
<1>9. r[0] = <<>> /\ \A i \in 1 .. m : r[i] = Step(r[i - 1], i)
  <2>1. \A i \in 0 .. m : r[i] = IF i = 0 THEN <<>> ELSE Step(r[i - 1], i)
    BY <1>7, Zenon
  <2>2. 0 \in 0 .. m /\ \A i \in 1 .. m : i \in 0 .. m /\ i # 0
    OBVIOUS
  <2> QED
    BY <2>1, <2>2, Zenon
<1>10. Collects(r, k)
  BY <1>9 DEF Step, Collects
<1> QED
  BY <1>8, <1>10

\* The pad holds the last note of a sequence.
LastNote(s) == IF s = <<>> THEN NoTx ELSE s[Len(s)]

\* What one frame makes of the cells, and of the collected commits of kind k.
Turned(a, f) == IF f.op = "commit" THEN Apply(a, f.tx) ELSE a
Collected(s, f, k) == IF f.op = "commit" /\ f.tx.kind = k THEN Append(s, f.tx) ELSE s

\* One frame changes the timeline and the pad as it changes the collected commits.
LEMMA HistoryTurn ==
    ASSUME NEW a \in Mem, NEW b, NEW f \in WalFrame, NEW s, NEW t \in Seq(Tx), NEW u, NEW v,
           b = Turned(a, f), u = Collected(s, f, "event"), v = Collected(t, f, "note"),
           a.timeline = s, a.pad = LastNote(t)
    PROVE  b.timeline = u /\ b.pad = LastNote(v) /\ v \in Seq(Tx)
<1> USE DEF Turned, Collected
<1>1. f.tx \in Tx
  BY DEF WalFrame
<1>2. CASE f.op # "commit"
  BY <1>2
<1>3. CASE f.op = "commit" /\ f.tx.kind = "event"
  <2>1. b = [a EXCEPT !.timeline = Append(@, f.tx)]
    BY <1>3 DEF Apply
  <2> QED
    BY <1>3, <2>1 DEF Mem
<1>4. CASE f.op = "commit" /\ f.tx.kind = "note"
  <2>1. b = [a EXCEPT !.pad = f.tx] /\ v = Append(t, f.tx)
    BY <1>4 DEF Apply
  <2>2. v # <<>> /\ v[Len(v)] = f.tx /\ v \in Seq(Tx)
    BY <1>1, <2>1
  <2> QED
    BY <1>4, <2>1, <2>2 DEF Mem, LastNote
<1>5. CASE f.op = "commit" /\ f.tx.kind \notin {"event", "note"}
  <2>1. b.timeline = a.timeline /\ b.pad = a.pad
    BY <1>1, <1>5, TxCases DEF Apply, Mem
  <2> QED
    BY <1>5, <2>1
<1> QED
  BY <1>2, <1>3, <1>4, <1>5

\* The history of the timeline and of the pad is the order of the commits.
LEMMA HistoryInOrder ==
    ASSUME TypeOK, NEW h, History(h, wal)
    PROVE  /\ h[Len(wal)].timeline = CommitOrder("event")
           /\ h[Len(wal)].pad = LastNote(CommitOrder("note"))
<1>1. wal \in Seq(WalFrame) /\ Len(wal) \in Nat
  BY DEF TypeOK
<1>2. PICK m \in Nat : m = Len(wal)
  BY <1>1
<1>3. PICK e : CommitOrder("event") = e[m] /\ Collects(e, "event")
  BY <1>2, OrderUnfolds
<1>4. PICK d : CommitOrder("note") = d[m] /\ Collects(d, "note")
  BY <1>2, OrderUnfolds
<1> DEFINE Same(n) == /\ h[n].timeline = e[n] /\ h[n].pad = LastNote(d[n])
                      /\ d[n] \in Seq(Tx)
           N == {n \in Nat : n <= m => Same(n)}
<1>5. 0 \in N
  <2>1. h[0] = EmptyMem /\ e[0] = <<>> /\ d[0] = <<>>
    BY <1>3, <1>4 DEF History, Collects
  <2>2. EmptyMem.timeline = <<>> /\ EmptyMem.pad = NoTx
    BY DEF EmptyMem
  <2>3. <<>> \in Seq(Tx) /\ LastNote(<<>>) = NoTx
    BY DEF LastNote
  <2>4. Same(0)
    BY <2>1, <2>2, <2>3
  <2> QED
    BY <2>4
<1>6. ASSUME NEW n \in N PROVE n + 1 \in N
  <2> SUFFICES ASSUME n + 1 <= m PROVE Same(n + 1)
    OBVIOUS
  <2>1. n \in Nat /\ Same(n) /\ n + 1 \in 1 .. Len(wal) /\ n \in 0 .. Len(wal) /\ (n + 1) - 1 = n
    BY <1>2
  <2>2. PICK f \in WalFrame : f = wal[n + 1]
    BY <1>1, <2>1
  <2>3. h[n] \in Mem /\ h[n + 1] = IF f.op = "commit" THEN Apply(h[n], f.tx) ELSE h[n]
    <3>1. n + 1 \in CommitsOf(wal) <=> f.op = "commit"
      BY <2>1, <2>2 DEF CommitsOf
    <3>2. h[n + 1] = IF n + 1 \in CommitsOf(wal) THEN Apply(h[n], wal[n + 1].tx) ELSE h[n]
      BY <2>1 DEF History
    <3>3. h[n] \in Mem
      BY <2>1 DEF History
    <3> QED
      BY <2>2, <3>1, <3>2, <3>3
  <2>4. e[n + 1] = IF f.op = "commit" /\ f.tx.kind = "event" THEN Append(e[n], f.tx) ELSE e[n]
    BY <1>3, <2>1, <2>2 DEF Collects
  <2>5. d[n + 1] = IF f.op = "commit" /\ f.tx.kind = "note" THEN Append(d[n], f.tx) ELSE d[n]
    BY <1>4, <2>1, <2>2 DEF Collects
  <2>6. PICK a, b, s, t, u, v : /\ a = h[n] /\ b = h[n + 1] /\ s = e[n] /\ t = d[n]
                                /\ u = e[n + 1] /\ v = d[n + 1]
    OBVIOUS
  <2>7. /\ a \in Mem /\ t \in Seq(Tx) /\ a.timeline = s /\ a.pad = LastNote(t)
        /\ b = Turned(a, f) /\ u = Collected(s, f, "event") /\ v = Collected(t, f, "note")
    BY <2>1, <2>3, <2>4, <2>5, <2>6 DEF Turned, Collected
  <2>8. b.timeline = u /\ b.pad = LastNote(v) /\ v \in Seq(Tx)
    BY ONLY <2>7, f \in WalFrame, HistoryTurn
  <2> QED
    BY <2>6, <2>8
<1>7. N = Nat
  <2>1. N \in SUBSET Nat
    OBVIOUS
  <2> HIDE DEF N
  <2> QED
    BY <1>5, <1>6, <2>1, SetInduction
<1>8. Same(m)
  BY <1>7
<1> QED
  BY <1>2, <1>3, <1>4, <1>8

\* As long as no append to the WAL has failed and no frame has been written behind
\* a fragment, a restart of a node that serves one connection at a time is not
\* observable: the timeline and the scratchpad are what the commits made of them
\* in the order of the log, and every committed transaction is there, notes that
\* were overwritten apart.
THEOREM CellsMatchLog ==
    ASSUME Solo
    PROVE  Spec => []MemMatchesLog
<1>1. Init => LogInv
  BY LogInit
<1>2. LogInv /\ [Next]_vars => LogInv'
  BY LogStep
<1>3. ASSUME LogInv, VisibleIsCommitted PROVE MemMatchesLog
  <2> SUFFICES ASSUME status = "up", faults["wal"] = 0, NothingHidden,
                      \A c \in Clients : pc[c] # "apply"
               PROVE  /\ mem.timeline = CommitOrder("event")
                      /\ mem.pad = LastNote(CommitOrder("note"))
                      /\ Committed = Visible(mem) \cup {t \in Committed : t.kind = "note"}
    BY DEF MemMatchesLog, LastNote
  <2>1. TypeOK /\ Recorded
    BY <1>3 DEF LogInv, AnswerInv
  <2>2. PICK h : History(h, wal) /\ Faithful(h, wal) /\ Follows(h)
    BY <2>1 DEF Recorded
  <2>3. mem = h[Len(wal)]
    BY <2>2 DEF Follows
  <2>4. mem.timeline = CommitOrder("event") /\ mem.pad = LastNote(CommitOrder("note"))
    BY <2>1, <2>2, <2>3, HistoryInOrder
  <2>5. ASSUME NEW t \in Committed, t.kind # "note" PROVE t \in Visible(mem)
    <3>1. PICK i \in CommitsOf(wal) : wal[i].tx = t
      BY DEF Committed, CommitsOf
    <3>2. Len(wal) \in 0 .. Len(wal) /\ i <= Len(wal)
      BY <2>1, CommitTypes
    <3>3. t \in Kept(h[Len(wal)])
      BY <2>2, <2>5, <3>1, <3>2 DEF Faithful
    <3> QED
      BY <2>3, <3>3 DEF Kept, Visible
  <2>6. Visible(mem) \subseteq Committed
    BY <1>3 DEF VisibleIsCommitted
  <2> QED
    BY <2>4, <2>5, <2>6
<1> QED
  BY <1>1, <1>2, <1>3, VisibleAreCommitted, PTL DEF Spec

=============================================================================
