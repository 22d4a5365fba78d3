------------------------------ MODULE ThreatMatrix ------------------------------
(***************************************************************************)
(* pacmi.py: ten threats to a bundle at rest.  Eight are judged by one     *)
(* attack each, tried on a copy of the bundle: the threat is SAFE if the   *)
(* verifier refuses the copy.  The last two are judged by what the bundle, *)
(* or a second file, says about an anchor and about erasures.              *)
(***************************************************************************)
EXTENDS Verifier

Threats == {"T01", "T02", "T03", "T04", "T05", "T06", "T07", "T08", "T09", "T10"}

\* Errors and UNTRUSTED are the same thing.
Refused(b) == VerifyBundle(b, {}, FALSE).verdict = "UNTRUSTED"

WithReceipts(b, rs) == [b EXCEPT !.receipts = rs]
DropReceipt(rs, i) == [j \in 1..(Len(rs) - 1) |-> rs[IF j < i THEN j ELSE j + 1]]
Swap(rs, i, j) == [rs EXCEPT ![i] = rs[j], ![j] = rs[i]]

TamperRecord(b) == [b EXCEPT !.receipts[1].body = With(@, "tampered_field", "malicious_payload")]

\* Fault: the attack drops the first record.
TruncateTailAtHead(b) == IF Len(b.receipts) > 1 THEN WithReceipts(b, Tail(b.receipts)) ELSE b

TruncateTail(b) ==
    IF Len(b.receipts) > 1 THEN WithReceipts(b, DropReceipt(b.receipts, Len(b.receipts))) ELSE b

DeleteMiddle(b) == IF Len(b.receipts) >= 3 THEN WithReceipts(b, DropReceipt(b.receipts, 2)) ELSE b

Reorder(b) == IF Len(b.receipts) >= 2 THEN WithReceipts(b, Swap(b.receipts, 1, 2)) ELSE b

\* The first record again, at the end, with a signature of nobody's.
ForgeRecord(b) ==
    WithReceipts(b, Append(b.receipts, [b.receipts[1] EXCEPT !.seq = Len(b.receipts),
                                                             !.sig = [by |-> None, over |-> None]]))

ReplayElsewhere(b) == [b EXCEPT !.task = "another task"]

ReplaySequence(b) == IF Len(b.receipts) >= 2 THEN [b EXCEPT !.receipts[2].seq = 0] ELSE b

TamperMetadata(b) == [b EXCEPT !.receipts[1].type = "task.unauthorized_metadata"]

Attack(b, threat) ==
    CASE threat = "T01" -> TamperRecord(b)
      [] threat = "T02" -> TruncateTail(b)
      [] threat = "T03" -> DeleteMiddle(b)
      [] threat = "T04" -> Reorder(b)
      [] threat = "T05" -> ForgeRecord(b)
      [] threat = "T06" -> ReplayElsewhere(b)
      [] threat = "T07" -> ReplaySequence(b)
      [] threat = "T08" -> TamperMetadata(b)

\* A redacted field is still there, and a redaction object is not null.
OffstoreAnchor(b, given) ==
    \/ given
    \/ \E i \in DOMAIN b.receipts :
         LET r == b.receipts[i] IN
         /\ Has(r, "anchor_ref") \/ Has(r, "offstore_digest") \/ r.type = "state.commitment"
         /\ Get(r, "anchor_location") = "offstore" \/ Has(r, "offstore")
    \/ b.anchors # {}
    \/ b.head # None /\ b.head.anchored # None

ErasureCommitment(b) ==
    \E r \in OfType(b.receipts, "state.commitment"), f \in
        {"erasure_count", "erased_crystal_ids_digest", "erased_ids_digest", "revision"} : Has(r, f)

Conformance(safe) == IF safe = Threats THEN "CONFORMANT" ELSE "PARTIAL"

\* evaluate_pacmi, on a bundle and whether an anchor came with it.
Report(b, given) ==
    LET safe == {t \in Threats \ {"T09", "T10"} : Refused(Attack(b, t))}
                \cup When(OffstoreAnchor(b, given), "T09")
                \cup When(OffstoreAnchor(b, given) /\ ErasureCommitment(b), "T10")
    IN IF Refused(b) THEN [verdict |-> "NONCONFORMANT", safe |-> {}]
       ELSE [verdict |-> Conformance(safe), safe |-> safe]

\* The command, of a bundle and an anchor file that may be "missing" or "bad"; an
\* anchor that is an "empty" object is none.
CheckMain(file, b, anchorFile) ==
    IF file # "ok" \/ anchorFile \in {"missing", "bad"} THEN 2
    ELSE IF Report(b, anchorFile = "ok").verdict = "CONFORMANT" THEN 0 ELSE 1

-----------------------------------------------------------------------------
(* What the ten threats are, as changes of the receipts: the attacks of a  *)
(* class are more than the one that is tried.                              *)

Truncations(rs) == {SubSeq(rs, 1, k) : k \in 1..(Len(rs) - 1)}
MiddleDeletions(rs) == {DropReceipt(rs, i) : i \in 2..(Len(rs) - 1)}
Reorderings(rs) == {Swap(rs, i, j) : i, j \in DOMAIN rs} \ {rs}
ContentChanges(rs) ==
    ({[rs EXCEPT ![i].body = With(@, "tampered_field", "other")] : i \in DOMAIN rs} \ {rs})
    \cup UNION {{[rs EXCEPT ![i].body = Without(@, f)] :
                   f \in DOMAIN rs[i].body \ ({"shape"} \cup Required(rs[i].type))} : i \in DOMAIN rs}
SequenceChanges(rs) == {[rs EXCEPT ![i].seq = k] : i \in DOMAIN rs, k \in 0..Len(rs)} \ {rs}
=============================================================================
