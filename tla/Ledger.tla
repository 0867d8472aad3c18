------------------------------- MODULE Ledger -------------------------------
(***************************************************************************)
(* CrossCheckLedgerCell (curator/ledger.rs) as operators on its state: how *)
(* a record is applied live, how it is replayed, when a batch is signed,   *)
(* what a snapshot keeps and what the boot verifies.                       *)
(*                                                                         *)
(* A record stands for its own hash, and a signature for the records it    *)
(* covers.  Keys are never forgotten (Kms::rotate keeps them), so that a   *)
(* signature verifies exactly when it covers the records it should.        *)
(***************************************************************************)
EXTENDS Integers, Sequences

CONSTANTS
    Signs,       \* encryption tier T2 or T3: Kms::batch_sign gives a signature
    BatchEvery,  \* BATCH_SIGN_EVERY
    Window       \* AGREEMENT_WINDOW

ASSUME LedgerConstants ==
    /\ Signs \in BOOLEAN
    /\ BatchEvery \in Nat \ {0}
    /\ Window \in Nat \ {0}

CheckKinds == {"output", "audit", "sanity", "adjudication", "probe", "blind"}
Outcomes == {"agree", "disagree", "escalated"}

CheckRecord == [seq : Nat, kind : CheckKinds, out : Nat, outcome : Outcomes]

\* BatchSignature: the last record of the batch, and what was signed.
Signature == [last : Nat, over : Seq(CheckRecord)]

Ledgers == [records : Seq(CheckRecord), next : Nat, window : Seq(BOOLEAN),
            hashes : Seq(CheckRecord), sigs : Seq(Signature)]

NewLedger == [records |-> <<>>, next |-> 0, window |-> <<>>,
              hashes |-> <<>>, sigs |-> <<>>]

\* A VecDeque of at most max elements: the oldest leaves first.
Pushed(q, x, max) == IF Len(q) = max THEN Append(Tail(q), x) ELSE Append(q, x)

NextRecord(l, kind, out, outcome) ==
    [seq |-> l.next, kind |-> kind, out |-> out, outcome |-> outcome]

\* What apply_record and replay_record do before they sign.
Counted(l, r) ==
    [l EXCEPT !.hashes = Append(@, r),
              !.window = IF r.kind = "audit"
                         THEN Pushed(@, r.outcome = "agree", Window) ELSE @]

BatchEnds(l) == l.next % BatchEvery = BatchEvery - 1

\* sign_batch, its file apart: a signature over what was hashed since the
\* last one, if the tier signs.
Signed(l) ==
    [l EXCEPT !.sigs = IF Signs THEN Append(@, [last |-> l.next, over |-> l.hashes])
                       ELSE @,
              !.hashes = <<>>]

Kept(l, r) == [l EXCEPT !.records = Append(@, r), !.next = @ + 1]

\* The record makes apply_record write the signature file.
SignsNow(l, r) == r.seq = l.next /\ BatchEnds(l) /\ Signs

\* Mutant of ApplyRecord: the batch is signed before its last record is in.
ApplyRecordLate(l, r) ==
    IF r.seq # l.next THEN l
    ELSE Kept(Counted(IF BatchEnds(l) THEN Signed(l) ELSE l, r), r)

\* apply_record.  Live, the record always has the next sequence number; one
\* with an earlier number is taken for a duplicate.
ApplyRecord(l, r) ==
    IF r.seq # l.next THEN l
    ELSE LET c == Counted(l, r)
         IN  Kept(IF BatchEnds(l) THEN Signed(c) ELSE c, r)

\* apply_record when the signature file cannot be written: the hash, the
\* audit window and the signature are in, the record is not.
ApplyUnsaved(l, r) ==
    LET c == Counted(l, r)
    IN  [c EXCEPT !.sigs = Signed(c).sigs]

\* replay_record refuses a record that skips a number.
ReplayGap(l, r) == r.seq > l.next

\* Mutant of ReplayRecord: a record already in the snapshot is counted again.
ReplayRecordTwice(l, r) ==
    LET c == Counted(l, r)
    IN  Kept(IF BatchEnds(l) THEN Signed(c) ELSE c, [r EXCEPT !.seq = l.next])

\* replay_record: like apply_record, but a batch whose signature is known is
\* not signed again.
ReplayRecord(l, r) ==
    IF r.seq # l.next THEN l
    ELSE LET c == Counted(l, r)
             known == \E i \in DOMAIN l.sigs : l.sigs[i].last = l.next
         IN  Kept(IF ~BatchEnds(l) THEN c
                  ELSE IF known THEN [c EXCEPT !.hashes = <<>>]
                  ELSE Signed(c), r)

\* restore_state counts the audits of the records again, one after the other.
WindowOf(s) ==
    LET w[i \in 0..Len(s)] ==
            IF i = 0 THEN <<>>
            ELSE IF s[i].kind = "audit" THEN Pushed(w[i - 1], s[i].outcome = "agree", Window)
            ELSE w[i - 1]
    IN  w[Len(s)]

\* The records from this sequence number on.
OpenBatch(s, start) ==
    LET h[i \in 0..Len(s)] ==
            IF i = 0 THEN <<>>
            ELSE IF s[i].seq >= start THEN Append(h[i - 1], s[i]) ELSE h[i - 1]
    IN  h[Len(s)]

\* restore_state of snapshot_state: the records and the signatures are kept,
\* the window and the open batch are made again from the records.
Restored(l) ==
    [l EXCEPT !.window = WindowOf(l.records),
              !.hashes = OpenBatch(l.records, (l.next \div BatchEvery) * BatchEvery)]

\* verify_batch_signatures: one signature for each full batch, over it.
VerifyBatches(l) ==
    LET batches == Len(l.records) \div BatchEvery
    IN  \/ batches = 0
        \/ /\ Len(l.sigs) = batches
           /\ \A i \in 1..batches :
                 /\ l.sigs[i].last = i * BatchEvery - 1
                 /\ Signs
                 /\ l.sigs[i].over =
                        SubSeq(l.records, (i - 1) * BatchEvery + 1, i * BatchEvery)

=============================================================================
