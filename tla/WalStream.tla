----------------------------- MODULE WalStream -----------------------------
(***************************************************************************)
(* One write-ahead-log stream of an UltraCortex node: persist/wal.rs.      *)
(*                                                                         *)
(* Request threads (Writers) send a frame to a bounded channel and block   *)
(* for its acknowledgement.  One flusher thread gathers a batch, writes    *)
(* it, syncs it, acknowledges every frame of it and rolls to a new epoch   *)
(* file when the current one is large.  The process may crash at any step  *)
(* and is then reopened on the surviving files.                            *)
(*                                                                         *)
(* A frame is its identity.  A file is a sequence of entries: whole        *)
(* frames, and Torn for a fragment that read_frame rejects.  Offsets count *)
(* entries instead of bytes.                                               *)
(***************************************************************************)
EXTENDS Integers, Sequences, FiniteSets

CONSTANTS
    Writers,         \* request threads that call append, sync or shutdown
    Frames,          \* the frames ever appended, each one once
    ChanCap,         \* capacity of the flusher's channel (4096 in the code)
    GroupMax,        \* GROUP_COMMIT_BYTES, in entries
    RollAt,          \* EPOCH_ROLL_BYTES, in entries
    MaxSyncs,        \* bound: calls of WalWriter::sync
    MaxCloses,       \* bound: calls of WalWriter::shutdown
    MaxCrashes,      \* bound: crashes of the process or of the machine
    MaxWriteErrors,  \* bound: failures of write_all
    MaxSyncErrors,   \* bound: failures of sync_data
    MaxOpenErrors    \* bound: failures to open the next epoch file

\* A fragment of a frame, and the two requests that carry no frame.
Torn == "torn"
SyncReq == "sync"
CloseReq == "shutdown"

Requests == Frames \cup {SyncReq, CloseReq}

ASSUME FramesAreNotMarkers ==
    /\ Torn \notin Frames
    /\ SyncReq \notin Frames
    /\ CloseReq \notin Frames

ASSUME SizesArePositive ==
    /\ ChanCap \in Nat \ {0}
    /\ GroupMax \in Nat \ {0}
    /\ RollAt \in Nat \ {0}

ASSUME BoundsAreNatural ==
    /\ MaxSyncs \in Nat
    /\ MaxCloses \in Nat
    /\ MaxCrashes \in Nat
    /\ MaxWriteErrors \in Nat
    /\ MaxSyncErrors \in Nat
    /\ MaxOpenErrors \in Nat

VARIABLES
    disk,      \* the epoch files in order, each a sequence of entries
    synced,    \* synced[e]: how many entries of epoch e are known durable
    chan,      \* messages sent to the flusher and not yet received
    wpc,       \* wpc[w]: "idle", "send" (blocked on the channel), "wait"
    req,       \* req[w]: what w asked for last
    issued,    \* the frames some writer has started to append
    fpc,       \* where the flusher is; "gone" it ended, "down" no process
    buf,       \* the bytes gathered for the next write_all
    pending,   \* pending_acks: who waits for which request, with frame_end
    offset,    \* committed offset in the current epoch
    shut,      \* the batch contains a Shutdown message
    force,     \* the batch contains a Sync message
    result,    \* outcome of the last write + sync: "ok" or "err"
    acks,      \* the positions returned by successful appends
    faults     \* how much of each fault budget has been used

vars == <<disk, synced, chan, wpc, req, issued, fpc, buf, pending, offset,
          shut, force, result, acks, faults>>

files == <<disk, synced>>
flusher == <<buf, pending, offset, shut, force, result>>
clients == <<chan, wpc, req, issued>>

FaultKinds == {"sync_call", "close_call", "crash", "write", "sync", "open"}

Budget == [k \in FaultKinds |->
             CASE k = "sync_call"  -> MaxSyncs
               [] k = "close_call" -> MaxCloses
               [] k = "crash"      -> MaxCrashes
               [] k = "write"      -> MaxWriteErrors
               [] k = "sync"       -> MaxSyncErrors
               [] k = "open"       -> MaxOpenErrors]

\* One more fault (or bounded call) of kind k happens.
Spend(k) ==
    /\ faults[k] < Budget[k]
    /\ faults' = [faults EXCEPT ![k] = @ + 1]

Epoch == Len(disk)
File == disk[Epoch]

Entry == Frames \cup {Torn}
FlusherPc == {"recv", "gather", "write", "sync", "ack", "close", "gone", "down"}

-----------------------------------------------------------------------------
(* Writers: WalWriter::append, sync and shutdown.                          *)

\* A writer starts an append of a frame nobody has appended yet.
BeginAppend(w, f) ==
    /\ fpc # "down"
    /\ wpc[w] = "idle"
    /\ f \notin issued
    /\ issued' = issued \cup {f}
    /\ wpc' = [wpc EXCEPT ![w] = "send"]
    /\ req' = [req EXCEPT ![w] = f]
    /\ UNCHANGED <<files, chan, fpc, flusher, acks, faults>>

\* WalWriter::sync.
BeginSync(w) ==
    /\ fpc # "down"
    /\ wpc[w] = "idle"
    /\ Spend("sync_call")
    /\ wpc' = [wpc EXCEPT ![w] = "send"]
    /\ req' = [req EXCEPT ![w] = SyncReq]
    /\ UNCHANGED <<files, chan, issued, fpc, flusher, acks>>

\* WalWriter::shutdown; the caller then joins the flusher thread.
BeginClose(w) ==
    /\ fpc # "down"
    /\ wpc[w] = "idle"
    /\ Spend("close_call")
    /\ wpc' = [wpc EXCEPT ![w] = "send"]
    /\ req' = [req EXCEPT ![w] = CloseReq]
    /\ UNCHANGED <<files, chan, issued, fpc, flusher, acks>>

\* tx.send: blocks while the channel is full.
Send(w) ==
    /\ fpc \notin {"gone", "down"}
    /\ wpc[w] = "send"
    /\ Len(chan) < ChanCap
    /\ chan' = Append(chan, [w |-> w, r |-> req[w]])
    /\ wpc' = [wpc EXCEPT ![w] = "wait"]
    /\ UNCHANGED <<files, req, issued, fpc, flusher, acks, faults>>

\* Mutant of FlusherGone: the ack senders outlive the flusher, so only the
\* callers blocked on the channel itself see that it has ended.
FlusherGoneSendersOnly(w) ==
    /\ fpc = "gone"
    /\ wpc[w] = "send"
    /\ wpc' = [wpc EXCEPT ![w] = "idle"]
    /\ UNCHANGED <<files, chan, req, issued, fpc, flusher, acks, faults>>

\* "wal flusher gone" for a sender, "wal flusher dropped ack" for a waiter,
\* and the end of the join for a caller of shutdown.
FlusherGone(w) ==
    /\ fpc = "gone"
    /\ wpc[w] \in {"send", "wait"}
    /\ wpc' = [wpc EXCEPT ![w] = "idle"]
    /\ UNCHANGED <<files, chan, req, issued, fpc, flusher, acks, faults>>

-----------------------------------------------------------------------------
(* The flusher thread: flusher_loop and handle_msg.                        *)

\* handle_msg: put the message into the batch; frame_end is computed from
\* the committed offset and the length of the buffer.
HandleMsg(m) ==
    /\ buf' = IF m.r \in Frames THEN Append(buf, m.r) ELSE buf
    /\ pending' = IF m.r = CloseReq THEN pending
                  ELSE Append(pending,
                              [w |-> m.w, r |-> m.r, end |-> offset + Len(buf')])
    /\ shut' = (m.r = CloseReq)
    /\ force' = (m.r = SyncReq)

\* rx.recv: block for the first message of a batch.
Recv ==
    /\ fpc = "recv"
    /\ chan # <<>>
    /\ HandleMsg(Head(chan))
    /\ chan' = Tail(chan)
    /\ fpc' = IF shut' \/ force' THEN "write" ELSE "gather"
    /\ UNCHANGED <<files, wpc, req, issued, offset, result, acks, faults>>

\* rx.recv_timeout inside the group-commit window.
Gather ==
    /\ fpc = "gather"
    /\ Len(buf) < GroupMax
    /\ chan # <<>>
    /\ HandleMsg(Head(chan))
    /\ chan' = Tail(chan)
    /\ fpc' = IF shut' \/ force' THEN "write" ELSE "gather"
    /\ UNCHANGED <<files, wpc, req, issued, offset, result, acks, faults>>

\* The window closes: 256 KiB gathered, or 250 microseconds passed.
GatherEnd ==
    /\ fpc = "gather"
    /\ fpc' = "write"
    /\ UNCHANGED <<files, clients, flusher, acks, faults>>

\* Mutant of Write: the buffer is not cleared.
WriteKeepingBuffer ==
    /\ fpc = "write"
    /\ disk' = [disk EXCEPT ![Epoch] = @ \o buf]
    /\ offset' = offset + Len(buf)
    /\ fpc' = "sync"
    /\ UNCHANGED <<synced, clients, buf, pending, shut, force, result, acks, faults>>

\* Mutant of Write: the batch is acknowledged without sync_data.
WriteWithoutSync ==
    /\ fpc = "write"
    /\ disk' = [disk EXCEPT ![Epoch] = @ \o buf]
    /\ offset' = offset + Len(buf)
    /\ buf' = <<>>
    /\ result' = "ok"
    /\ fpc' = "ack"
    /\ UNCHANGED <<synced, clients, pending, shut, force, acks, faults>>

\* write_all succeeds: the buffer is at the end of the file, and emptied.
Write ==
    /\ fpc = "write"
    /\ disk' = [disk EXCEPT ![Epoch] = @ \o buf]
    /\ offset' = offset + Len(buf)
    /\ buf' = <<>>
    /\ fpc' = "sync"
    /\ UNCHANGED <<synced, clients, pending, shut, force, result, acks, faults>>

\* What is in the file when write_all stops after n whole frames of the
\* buffer: those frames, then perhaps a fragment of the next one.
PartialWrite(n, torn) ==
    (File \o SubSeq(buf, 1, n)) \o (IF torn THEN <<Torn>> ELSE <<>>)

\* write_all fails: neither the offset nor the buffer changes, although part
\* of the buffer is in the file.
WriteFail ==
    /\ fpc = "write"
    /\ Spend("write")
    /\ \E n \in 0 .. Len(buf) - 1, torn \in BOOLEAN :
          disk' = [disk EXCEPT ![Epoch] = PartialWrite(n, torn)]
    /\ result' = "err"
    /\ fpc' = "ack"
    /\ UNCHANGED <<synced, clients, buf, pending, offset, shut, force, acks>>

\* sync_data succeeds: the whole current file is durable.
Sync ==
    /\ fpc = "sync"
    /\ synced' = [synced EXCEPT ![Epoch] = Len(File)]
    /\ result' = "ok"
    /\ fpc' = "ack"
    /\ UNCHANGED <<disk, clients, buf, pending, offset, shut, force, acks, faults>>

\* Mutant of SyncFail: the error of sync_data is swallowed.
SyncFailSwallowed ==
    /\ fpc = "sync"
    /\ Spend("sync")
    /\ result' = "ok"
    /\ fpc' = "ack"
    /\ UNCHANGED <<files, clients, buf, pending, offset, shut, force, acks>>

\* sync_data fails: the bytes are in the file, and not known durable.
SyncFail ==
    /\ fpc = "sync"
    /\ Spend("sync")
    /\ result' = "err"
    /\ fpc' = "ack"
    /\ UNCHANGED <<files, clients, buf, pending, offset, shut, force, acks>>

\* One turn of pending_acks.drain: the same result goes to every waiter.
Ack ==
    /\ fpc = "ack"
    /\ pending # <<>>
    /\ LET p == Head(pending) IN
         /\ wpc' = [wpc EXCEPT ![p.w] = "idle"]
         /\ acks' = IF result = "ok" /\ p.r \in Frames
                    THEN acks \cup {[f |-> p.r, epoch |-> Epoch, end |-> p.end]}
                    ELSE acks
    /\ pending' = Tail(pending)
    /\ UNCHANGED <<files, chan, req, issued, fpc, buf, offset, shut, force,
                   result, faults>>

\* After the acks: go on, or leave the loop when Shutdown was in the batch.
NextBatch == fpc' = IF shut THEN "close" ELSE "recv"

\* The file is below the rollover size.
KeepEpoch ==
    /\ fpc = "ack"
    /\ pending = <<>>
    /\ offset < RollAt
    /\ NextBatch
    /\ UNCHANGED <<files, clients, flusher, acks, faults>>

\* Epoch rollover: the next file starts empty.
Roll ==
    /\ fpc = "ack"
    /\ pending = <<>>
    /\ offset >= RollAt
    /\ disk' = Append(disk, <<>>)
    /\ synced' = Append(synced, 0)
    /\ offset' = 0
    /\ NextBatch
    /\ UNCHANGED <<clients, buf, pending, shut, force, result, acks, faults>>

\* The receiver is dropped with the messages still in the channel.
RollFail ==
    /\ fpc = "ack"
    /\ pending = <<>>
    /\ offset >= RollAt
    /\ Spend("open")
    /\ fpc' = "gone"
    /\ chan' = <<>>
    /\ UNCHANGED <<files, wpc, req, issued, flusher, acks>>

\* The last sync_data, whose result is ignored, and the end of the thread.
Close ==
    /\ fpc = "close"
    /\ fpc' = "gone"
    /\ chan' = <<>>
    /\ \/ /\ synced' = [synced EXCEPT ![Epoch] = Len(File)]
          /\ UNCHANGED faults
       \/ /\ Spend("sync")
          /\ UNCHANGED synced
    /\ UNCHANGED <<disk, wpc, req, issued, flusher, acks>>

-----------------------------------------------------------------------------
(* The process and its files: crash, orderly exit, WalWriter::open.        *)

\* The content of epoch e when a crash cuts it after n entries: everything
\* synced survives, the rest survives up to some entry, perhaps torn.
CutFile(s, n, torn) ==
    SubSeq(s, 1, n) \o (IF torn /\ n < Len(s) THEN <<Torn>> ELSE <<>>)

\* The file as the crash finds it: a write_all may be under way.
InFlight(e) ==
    IF e = Epoch /\ fpc = "write" THEN disk[e] \o buf ELSE disk[e]

\* What a crash may leave of epoch e.
Survivors(e) ==
    {CutFile(InFlight(e), n, torn) : n \in synced[e] .. Len(InFlight(e)),
                                     torn \in BOOLEAN}

\* Threads, channel and buffer are lost with the process.
ProcessEnds ==
    /\ chan' = <<>>
    /\ wpc' = [w \in Writers |-> "idle"]
    /\ buf' = <<>>
    /\ pending' = <<>>
    /\ shut' = FALSE
    /\ force' = FALSE
    /\ fpc' = "down"
    /\ UNCHANGED <<synced, req, issued, offset, result, acks>>

\* A kill or a power failure, at any step.
Crash ==
    /\ fpc # "down"
    /\ Spend("crash")
    /\ disk' \in {d \in [1 .. Epoch -> UNION {Survivors(e) : e \in 1 .. Epoch}] :
                    \A e \in 1 .. Epoch : d[e] \in Survivors(e)}
    /\ ProcessEnds

\* The process ends between two batches with nobody waiting (main returns
\* after an admin shutdown, or after WalWriter::shutdown).
Exit ==
    /\ fpc \in {"recv", "gone"}
    /\ chan = <<>>
    /\ \A w \in Writers : wpc[w] = "idle"
    /\ ProcessEnds
    /\ UNCHANGED <<disk, faults>>

\* Mutant of Reopen: the last epoch is opened with truncate, not append.
ReopenTruncating ==
    /\ fpc = "down"
    /\ disk' = [disk EXCEPT ![Epoch] = <<>>]
    /\ offset' = 0
    /\ fpc' = "recv"
    /\ UNCHANGED <<synced, clients, buf, pending, shut, force, result, acks, faults>>

\* WalWriter::open: append to the last epoch, at its length, whatever the
\* file ends with.
Reopen ==
    /\ fpc = "down"
    /\ offset' = Len(File)
    /\ fpc' = "recv"
    /\ UNCHANGED <<files, clients, buf, pending, shut, force, result, acks, faults>>

-----------------------------------------------------------------------------
Init ==
    /\ disk = << <<>> >>
    /\ synced = <<0>>
    /\ chan = <<>>
    /\ wpc = [w \in Writers |-> "idle"]
    /\ req = [w \in Writers |-> SyncReq]
    /\ issued = {}
    /\ fpc = "recv"
    /\ buf = <<>>
    /\ pending = <<>>
    /\ offset = 0
    /\ shut = FALSE
    /\ force = FALSE
    /\ result = "ok"
    /\ acks = {}
    /\ faults = [k \in FaultKinds |-> 0]

Begin(w) ==
    \/ \E f \in Frames : BeginAppend(w, f)
    \/ BeginSync(w)
    \/ BeginClose(w)

FlusherStep ==
    \/ Recv
    \/ Gather
    \/ GatherEnd
    \/ Write
    \/ WriteFail
    \/ Sync
    \/ SyncFail
    \/ Ack
    \/ KeepEpoch
    \/ Roll
    \/ RollFail
    \/ Close

Next ==
    \/ \E w \in Writers : Begin(w) \/ Send(w) \/ FlusherGone(w)
    \/ FlusherStep
    \/ Crash
    \/ Exit
    \/ Reopen

\* Threads of a running process are scheduled: a blocked sender proceeds once
\* there is room, the flusher never stops between two steps, and a waiter
\* whose channel is dropped wakes up.  Nothing forces a crash, an exit, a
\* reopening or a new request.
Fairness ==
    /\ \A w \in Writers : WF_vars(Send(w)) /\ WF_vars(FlusherGone(w))
    /\ WF_vars(FlusherStep)

Spec == Init /\ [][Next]_vars

FairSpec == Spec /\ Fairness

-----------------------------------------------------------------------------
(* Replay: replay_dir, replay_file and read_frame.                         *)

\* The frames replay_file returns: those before the first bad entry.
ReplayFile(s) ==
    {s[i] : i \in {j \in 1 .. Len(s) : \A k \in 1 .. j : s[k] # Torn}}

\* replay_dir returns Ok: no epoch but the last is torn.
ReplayAccepts ==
    \A e \in 1 .. Epoch - 1 : \A i \in 1 .. Len(disk[e]) : disk[e][i] # Torn

\* The frames a recovery that starts now would get.
Replayed ==
    IF ReplayAccepts THEN UNION {ReplayFile(disk[e]) : e \in 1 .. Epoch} ELSE {}

-----------------------------------------------------------------------------
(* Properties.                                                             *)

Message == [w : Writers, r : Requests]
PendingAck == [w : Writers, r : Requests, end : Nat]
Position == [f : Frames, epoch : Nat, end : Nat]

\* Every variable has its type, and every epoch file its own sync mark, which
\* is within the file (flusher_loop's epoch, offset and buf, wal.rs:252-260).
TypeOK ==
    /\ disk \in Seq(Seq(Entry))
    /\ Len(disk) >= 1
    /\ synced \in Seq(Nat)
    /\ Len(synced) = Len(disk)
    /\ \A e \in 1 .. Len(disk) : synced[e] <= Len(disk[e])
    /\ chan \in Seq(Message)
    /\ wpc \in [Writers -> {"idle", "send", "wait"}]
    /\ req \in [Writers -> Requests]
    /\ issued \subseteq Frames
    /\ fpc \in FlusherPc
    /\ buf \in Seq(Frames)
    /\ pending \in Seq(PendingAck)
    /\ offset \in Nat
    /\ shut \in BOOLEAN
    /\ force \in BOOLEAN
    /\ result \in {"ok", "err"}
    /\ acks \subseteq Position
    /\ faults \in [FaultKinds -> Nat]

\* Frame f is in the part of epoch e that no crash can remove.
DurableIn(f, e) == \E i \in 1 .. synced[e] : disk[e][i] = f

\* A frame whose append returned Ok is in the durable part of some epoch file
\* from then on, whatever writes, syncs or opens fail and however often the
\* process crashes: WalWriter::append blocks until its group commit is durable
\* (wal.rs:178-179, 311-329).
AckedDurable ==
    \A a \in acks : \E e \in 1 .. Len(disk) : DurableIn(a.f, e)

\* As long as no write has failed, no frame is in the files twice: a batch is written once even when its sync
\* fails and the batch is answered with an error (buf.clear at wal.rs:315 runs
\* before sync_data), so a replay applies no operation twice.
NoDuplicateFrames ==
    faults["write"] = 0 => \A d, e \in 1 .. Len(disk) :
        \A i \in 1 .. Len(disk[d]), j \in 1 .. Len(disk[e]) :
            disk[d][i] = disk[e][j] /\ disk[d][i] # Torn => d = e /\ i = j

\* The synced part of every epoch file is there after the step, unchanged.
DurablePartKept ==
    \A e \in 1 .. Len(disk) :
        /\ e <= Len(disk')
        /\ synced[e] <= synced'[e]
        /\ \A i \in 1 .. synced[e] :
              i <= Len(disk'[e]) /\ disk'[e][i] = disk[e][i]

\* What is durable stays: no step changes, shortens or forgets the synced
\* part of any epoch file (append-only files, open_epoch at wal.rs:220-227).
DurableIsAppendOnly == [][DurablePartKept]_vars

\* Every append, sync and shutdown returns: with an ack, with an error after a
\* failed write, sync or rollover, or because the process died.  Nobody waits
\* for ever on a full channel or on a flusher that has ended (wal.rs:180-209).
EveryCallReturns ==
    \A w \in Writers : wpc[w] # "idle" ~> wpc[w] = "idle"

\* A frame whose append returned Ok is one that replay_dir returns: "Append and
\* block until the group commit containing this frame is durable" (wal.rs:178).
AckedReplayable ==
    \A a \in acks : a.f \in Replayed

\* As long as no write or sync has failed, the end of the process, orderly or
\* by a crash, never takes an acknowledged frame out of what the next replay_dir
\* returns: the tail it may tear is behind them all and in the last epoch
\* (wal.rs:375-377, "torn tail is normal after a crash; corruption *before* the
\* tail is not").
CrashKeepsAckedReadable ==
    [][fpc' = "down" /\ faults["write"] = 0 /\ faults["sync"] = 0 /\ AckedReplayable
          => AckedReplayable']_vars

-----------------------------------------------------------------------------
(* Refinement: what the callers of a stream see is a StableLog.            *)

\* The frames in the synced part of some epoch file.
StableFrames == {f \in Frames : \E e \in 1 .. Len(disk) : DurableIn(f, e)}

\* The frames whose append returned Ok.
ReturnedFrames == {a.f : a \in acks}

SL == INSTANCE StableLog WITH asked <- issued,
                              stable <- StableFrames,
                              returned <- ReturnedFrames

\* The stream implements the promise of its interface: whatever the channel,
\* the batches, failed writes and syncs, rollovers, crashes and reopenings do,
\* a caller sees only that frames settle, never come undone, and are returned
\* after they have settled and once (WalWriter::append, wal.rs:178-193).
ImplementsStableLog == SL!Spec

=============================================================================
