--------------------------------- MODULE Anchor ---------------------------------
(***************************************************************************)
(* anchor.py: a detached OpenTimestamps proof is parsed and compared with  *)
(* a receipt's digest, with Bitcoin block headers and with the bundle's    *)
(* own anchor entry.                                                       *)
(*                                                                         *)
(* Bytes are sequences of atoms: a digest of a receipt, the sha256 of      *)
(* bytes, or some other byte.  The proof's timestamp is read token by      *)
(* token, each with its operand; which tokens there are is open until they *)
(* are read.  The recursion of _parse_timestamp is the stack "frames".     *)
(***************************************************************************)
EXTENDS Verifier

CONSTANTS
    Cases,                      \* bundles, each with the list of its anchor entries
    Heights, Ops,               \* block heights; operations, with their argument
    MaxBytes, MaxDepth, MaxNodes,       \* limits of the parser
    MaxTokens                   \* bound: tokens in a proof

\* A case is a bundle without parse errors and its list of anchors; an argument
\* is some bytes.
ASSUME AnchorAssumption ==
    /\ MaxBytes \in Nat \ {0} /\ MaxDepth \in Nat /\ MaxNodes \in Nat \ {0}
    /\ \A c \in Cases :
         /\ c.bundle.receipts \in Seq({c.bundle.receipts[i] : i \in DOMAIN c.bundle.receipts})
         /\ c.entries \in Seq({c.entries[i] : i \in DOMAIN c.entries})
         /\ c.bundle.malformed = {} /\ c.bundle.anchors = {c.entries[i] : i \in DOMAIN c.entries}
    /\ \A op \in Ops :
         /\ op.name \in {"append", "prepend", "reverse", "sha256"}
         /\ op.arg \in Seq({op.arg[i] : i \in DOMAIN op.arg})

VARIABLES
    digest,     \* the file digest the proof starts from
    tokens,     \* what was read of the timestamp
    frames,     \* calls that have tokens to read: message, depth, whether after 0xff
    nodes, leaves,
    failure,    \* the code of AnchorError, or "none"
    pc, answer

vars == <<digest, tokens, frames, nodes, leaves, failure, pc, answer>>

DigestBytes(r) == <<[digest |-> Digest(r)]>>
Known == UNION {{DigestBytes(c.bundle.receipts[i]) : i \in DOMAIN c.bundle.receipts} : c \in Cases}
Stray == <<[byte |-> "z"]>>

Attestations ==
    [token : {"att"}, kind : {"bitcoin"}, height : Heights]
    \cup [token : {"att"}, kind : {"pending", "litecoin", "unknown"}, height : {None}]

NoAnswer == [status |-> "none", code |-> "none"]

\* parse_detached has read the magic, the version, the hash op and the digest.
Init ==
    /\ digest \in Known
    /\ tokens = <<>>
    /\ frames = <<[msg |-> digest, depth |-> 0, forked |-> FALSE]>>
    /\ nodes = 1
    /\ leaves = <<>>
    /\ failure = "none"
    /\ pc = "reading"
    /\ answer = [source |-> None, headers |-> None, result |-> NoAnswer]

-----------------------------------------------------------------------------
(* _parse_timestamp *)

ApplyOp(msg, op) ==
    CASE op.name = "append"  -> msg \o op.arg
      [] op.name = "prepend" -> op.arg \o msg
      [] op.name = "reverse" -> [i \in DOMAIN msg |-> msg[Len(msg) - i + 1]]
      [] op.name = "sha256"  -> <<[sha256 |-> msg]>>

Top == frames[Len(frames)]
Below == SubSeq(frames, 1, Len(frames) - 1)
Reading == pc = "reading" /\ frames # <<>>

Read(token) ==
    /\ Reading /\ Len(tokens) < MaxTokens
    /\ tokens' = Append(tokens, token)
    /\ UNCHANGED <<digest, answer>>

Fail(code) ==
    /\ failure' = code
    /\ pc' = "read"
    /\ UNCHANGED <<frames, nodes, leaves>>

\* 0xff: another branch follows, from the same message.
ReadFork ==
    /\ Read([token |-> "fork"])
    /\ ~Top.forked
    /\ frames' = Append(Below, [Top EXCEPT !.forked = TRUE])
    /\ UNCHANGED <<nodes, leaves, failure, pc>>

\* Fault: after a branch the message is the branch's.
AfterBranchKept(msg) ==
    IF Top.forked THEN Append(Below, [Top EXCEPT !.forked = FALSE, !.msg = msg]) ELSE Below

\* The call is over, unless this was a branch.
AfterBranch(msg) ==
    IF Top.forked THEN Append(Below, [Top EXCEPT !.forked = FALSE]) ELSE Below

TooMany(count) == count > MaxNodes

\* An operation: the next call, one deeper.
ReadOp(op) ==
    LET msg == ApplyOp(Top.msg, op) IN
    /\ Read([token |-> "op", op |-> op])
    /\ CASE Len(msg) > MaxBytes -> Fail("invalid_result")
         [] Len(msg) <= MaxBytes /\ Top.depth + 1 > MaxDepth -> Fail("recursion_limit")
         [] OTHER ->
            /\ nodes' = nodes + 1
            /\ IF TooMany(nodes + 1)
               THEN failure' = "too_many_nodes" /\ pc' = "read" /\ UNCHANGED frames
               ELSE /\ frames' = Append(AfterBranch(msg), [msg |-> msg, depth |-> Top.depth + 1, forked |-> FALSE])
                    /\ UNCHANGED <<failure, pc>>
            /\ UNCHANGED leaves

ReadAttestation(a) ==
    /\ Read(a)
    /\ leaves' = Append(leaves, [msg |-> Top.msg, kind |-> a.kind, height |-> a.height])
    /\ frames' = AfterBranch(Top.msg)
    /\ UNCHANGED <<nodes, failure, pc>>

\* 0xff twice, an unknown or unsupported tag, an operand out of its limits.
ReadBad ==
    /\ Read([token |-> "bad"])
    /\ Fail("bad_token")

EndOfData ==
    /\ Reading
    /\ Fail("truncated")
    /\ UNCHANGED <<digest, tokens, answer>>

\* The first call has returned: the data ends here, or it is trailing_data.
Finish ==
    /\ pc = "reading" /\ frames = <<>>
    /\ failure' \in {"none", "trailing_data"}
    /\ pc' = "read"
    /\ UNCHANGED <<digest, tokens, frames, nodes, leaves, answer>>

-----------------------------------------------------------------------------
(* verify_proof *)

Answer(status, code) == [status |-> status, code |-> code]

Leaves(kind) == {leaves[i] : i \in {j \in DOMAIN leaves : leaves[j].kind = kind}}

\* Fault: a header that matches any attestation confirms the proof.
ConfirmedAnywhere(headers) == \E l \in Leaves("bitcoin"), h \in DOMAIN headers : l.msg = headers[h]
Confirmed(headers) == \E l \in Leaves("bitcoin") : l.height \in DOMAIN headers /\ l.msg = headers[l.height]

VerifyProof(expected, headers) ==
    CASE expected = None -> Answer("invalid", "bad_digest")
      [] expected # None /\ failure # "none" -> Answer("invalid", failure)
      [] OTHER ->
    CASE expected # digest -> Answer("mismatch", "digest_mismatch")
      [] expected = digest /\ \E h \in DOMAIN headers : headers[h] = None -> Answer("invalid", "bad_header")
      [] OTHER ->
    CASE Confirmed(headers) -> Answer("verified", "anchor_verified")
      [] OTHER ->
    IF Leaves("bitcoin") # {}
    THEN IF DOMAIN headers # {} THEN Answer("mismatch", "header_mismatch")
         ELSE Answer("unverified", "anchor_unverified")
    ELSE CASE Leaves("pending") # {} -> Answer("unverified", "anchor_pending")
           [] Leaves("pending") = {} /\ Leaves("litecoin") # {} -> Answer("unverified", "anchor_unverified")
           [] OTHER -> Answer("unverified", "anchor_unknown_type")

\* _bundle_digest: the first receipt of that id, the first entry for it.
Target(c, id) ==
    LET found == {i \in DOMAIN c.bundle.receipts : c.bundle.receipts[i].id = id}
    IN IF found = {} THEN None ELSE c.bundle.receipts[Least(found)]

Binding(c, id) ==
    LET found == {i \in DOMAIN c.entries : c.entries[i].target = id /\ c.entries[i].kind = "opentimestamps"}
    IN IF found = {} THEN None ELSE c.entries[Least(found)]

EntryAgrees(c, id) == Binding(c, id) # None => Binding(c, id).hash = Digest(Target(c, id))

\* main: a digest, or a receipt of a bundle.
CliResult(source, headers) ==
    IF source.kind = "digest" THEN VerifyProof(source.expected, headers)
    ELSE CASE Target(source.of, source.id) = None -> Answer("invalid", "unknown_target")
           [] OTHER -> IF EntryAgrees(source.of, source.id)
                       THEN VerifyProof(DigestBytes(Target(source.of, source.id)), headers)
                       ELSE Answer("mismatch", "anchor_binding_mismatch")

ExitCode(result) == IF result.status = "verified" THEN 0 ELSE 1

Sources ==
    [kind : {"digest"}, expected : Known \cup {None}]
    \cup UNION {{[kind |-> "bundle", of |-> c, id |-> id] :
                   id \in {c.bundle.receipts[i].id : i \in DOMAIN c.bundle.receipts} \cup {None}} : c \in Cases}

\* At most one header, for one height; None is not of 80 bytes.  After a failure
\* headers are not looked at.
HeaderSets ==
    LET roots == {l.msg : l \in Leaves("bitcoin")} \cup {Stray, None}
    IN {<<>>} \cup IF failure # "none" THEN {} ELSE UNION {[{h} -> roots] : h \in Heights}

Verify ==
    /\ pc = "read"
    /\ pc' = "answered"
    /\ \E source \in Sources, headers \in HeaderSets :
         answer' = [source |-> source, headers |-> headers, result |-> CliResult(source, headers)]
    /\ UNCHANGED <<digest, tokens, frames, nodes, leaves, failure>>

Next ==
    \/ ReadFork
    \/ \E op \in Ops : ReadOp(op)
    \/ \E a \in Attestations : ReadAttestation(a)
    \/ ReadBad
    \/ EndOfData
    \/ Finish
    \/ Verify

Spec == Init /\ [][Next]_vars

-----------------------------------------------------------------------------
(* Properties *)

Count(t, name, k) == Cardinality({i \in 1..k : t[i].token = name})

\* The first k tokens leave this many places open where a timestamp goes on: a
\* fork opens one, an attestation closes one.
OpenPlaces(t, k) == 1 + Count(t, "fork", k) - Count(t, "att", k)

\* The operations on the way to position i: those whose place has not been closed.
OnTheWay(t, i) ==
    {j \in 1..(i - 1) : t[j].token = "op" /\ \A k \in j..(i - 1) : OpenPlaces(t, k) >= OpenPlaces(t, j)}

\* What a digest has become behind these operations.
Behind(d, t, msgs, way) ==
    IF way = {} THEN d ELSE ApplyOp(msgs[Greatest(way)], t[Greatest(way)].op)

\* The message at each position: the digest after the operations on the way.
Messages(d, t) == LET m[i \in DOMAIN t] == Behind(d, t, m, OnTheWay(t, i)) IN m

Committed(i) == Messages(digest, tokens)[i]

AttestationAt(n) ==
    CHOOSE i \in DOMAIN tokens : tokens[i].token = "att" /\ Count(tokens, "att", i) = n

\* The parser's recursion against a count of what is open: every leaf is reached
\* by exactly the operations around it, the proof is over when nothing is open,
\* the depth limit stops it at the first operation nested too deeply, the node
\* limit at the first operation too many, and no message ever gets too long.
ReadsTheTree ==
    /\ Len(leaves) = Count(tokens, "att", Len(tokens))
    /\ \A n \in DOMAIN leaves : leaves[n].msg = Committed(AttestationAt(n))
    /\ failure \in {"none", "truncated", "trailing_data"} =>
         (frames = <<>> <=> OpenPlaces(tokens, Len(tokens)) = 0)
    /\ failure = "recursion_limit" <=>
         /\ failure # "invalid_result"
         /\ \E i \in DOMAIN tokens : tokens[i].token = "op" /\ Cardinality(OnTheWay(tokens, i)) = MaxDepth
    /\ failure = "too_many_nodes" <=>
         /\ failure \notin {"invalid_result", "recursion_limit"}
         /\ Count(tokens, "op", Len(tokens)) = MaxNodes
    /\ \A i \in DOMAIN frames : Len(frames[i].msg) <= MaxBytes

\* Exit code 0: the digest that was asked for reaches, by the operations around
\* a Bitcoin attestation, the root of that very block; where a bundle verifies,
\* it is the digest of the receipt its anchor entry is about, also if several
\* receipts have one id.
VerifiedIsCommitted ==
    pc = "answered" =>
      LET source == answer.source
          committed ==
            \E i \in DOMAIN tokens :
              /\ tokens[i].token = "att" /\ tokens[i].kind = "bitcoin"
              /\ tokens[i].height \in DOMAIN answer.headers
              /\ Committed(i) = answer.headers[tokens[i].height]
          verified == ExitCode(answer.result) = 0
      IN /\ verified => failure = "none" /\ committed
         /\ verified /\ source.kind = "digest" => source.expected = digest
         /\ failure = "none" /\ source.kind = "digest" /\ source.expected = digest /\ committed => verified
         /\ source.kind = "bundle" /\ Binding(source.of, source.id) # None /\ AnchorErrors(source.of.bundle) = {} =>
              LET entry == Binding(source.of, source.id) IN
              /\ verified => digest = <<[digest |-> entry.hash]>>
              /\ answer.result.code = "anchor_binding_mismatch" =>
                   \E i, j \in DOMAIN source.of.bundle.receipts :
                     i # j /\ source.of.bundle.receipts[i].id = source.id /\ source.of.bundle.receipts[j].id = source.id
=============================================================================
