-------------------------------- MODULE Verifier --------------------------------
(***************************************************************************)
(* Receipts, task chains and the bundle verifier: records.py, bundle.py,   *)
(* agreements.py, revocations.py and verify.py.                            *)
(*                                                                         *)
(* A digest is what it commits to (no collisions), a signature names the   *)
(* key that made it and what it was made over (no forgeries).  Of a body   *)
(* the model keeps the fields that some rule relates to something else;    *)
(* "shape" says whether the others are there and well formed ("ok"), are   *)
(* not ("bad"), or cannot be canonically encoded ("float").  A field that  *)
(* was replaced by a redaction object is in "hidden" instead of "body".    *)
(* Times are numbers; BadTime is absent or no RFC 3339 UTC timestamp.      *)
(***************************************************************************)
EXTENDS Integers, Sequences, FiniteSets

CONSTANT None       \* JSON null, and Python's None

\* continuity-receipt/0.1 to 0.6; the last is newer than this verifier.
Specs == 1..6
BadTime == -1
ValidTime(t) == t >= 0

BoundTypes == {"task.decision", "task.execution", "delivery.attestation", "settlement"}
RecordTypes == BoundTypes \cup
    {"session.pass.created", "task.termination", "authority.succession",
     "agreement.offer", "agreement.accept", "state.commitment", "authority.grant"}

\* The required fields among those the model keeps; "terms" is the pair of
\* offer_id and terms_hash.
Required(type) ==
    CASE type = "session.pass.created" -> {"policy_version"}
      [] type = "task.decision"        -> {"policy_version", "input_provenance"}
      [] type = "delivery.attestation" -> {"counterparty"}
      [] type = "settlement"           -> {"amount", "gated_on_delivery"}
      [] type = "agreement.offer"      -> {"terms", "offeree", "valid_until"}
      [] type = "agreement.accept"     -> {"offer_ref", "terms"}
      [] type = "state.commitment"     -> {"scope", "head_digest"}
      [] type = "authority.grant"      -> {"agent", "granted_at"}
      [] OTHER -> {}

RequiredFields(type, spec) ==
    CASE type = "agreement.accept" /\ spec >= 4 -> Required(type) \cup {"offeree"}
      [] type = "state.commitment" /\ spec < 5  -> {}
      [] type = "authority.grant" /\ spec # 6   -> {}
      [] OTHER -> Required(type)

KnownType(type, spec) ==
    /\ type \in RecordTypes
    /\ type = "state.commitment" => spec \in {5, 6}
    /\ type = "authority.grant" => spec = 6

-----------------------------------------------------------------------------
(* Receipts and chains *)

Has(r, f) == f \in DOMAIN r.body \cup DOMAIN r.hidden
Get(r, f) == IF f \in DOMAIN r.body THEN r.body[f] ELSE None
GetTime(r, f) == IF f \in DOMAIN r.body THEN r.body[f] ELSE BadTime
With(body, f, v) == [x \in DOMAIN body \cup {f} |-> IF x = f THEN v ELSE body[x]]
Without(body, f) == [x \in DOMAIN body \ {f} |-> body[x]]

Unsigned(r) == [x \in DOMAIN r \ {"sig"} |-> r[x]]
Encodable(r) == r.body.shape # "float"
Digest(r) == IF Encodable(r) THEN Unsigned(r) ELSE None

Sign(r, key) == [r EXCEPT !.sig = [by |-> key, over |-> Unsigned(r)]]
SignatureVerifies(r) == r.sig # None /\ r.sig = [by |-> r.issuer, over |-> Unsigned(r)]

\* new_envelope, with a position for a fresh id.
NewEnvelope(id, task, spec, type, key, at, seq, prev, body) ==
    [id |-> id, task |-> task, spec |-> spec, type |-> type, issuer |-> key, at |-> at,
     seq |-> seq, prev |-> prev, body |-> body, hidden |-> <<>>, sig |-> None]

\* TaskChain.add: the next receipt of a chain, linked and signed.
NextReceipt(chain, id, task, spec, type, key, at, body) ==
    LET prev == IF chain = <<>> THEN None ELSE Digest(chain[Len(chain)])
    IN Sign(NewEnvelope(id, task, spec, type, key, at, Len(chain), prev, body), key)

\* validate_body: what add raises for.
BodyValid(type, spec, body) ==
    /\ KnownType(type, spec)
    /\ RequiredFields(type, spec) \subseteq DOMAIN body

\* TaskChain.bundle, without optional members.
BundleOf(chain, task, spec) ==
    [spec |-> spec, task |-> task, receipts |-> chain, disclosure |-> <<>>, anchors |-> {},
     revocations |-> {}, head |-> None, malformed |-> {}]

OfferBody(offeree, terms, until) ==
    [shape |-> "ok", offeree |-> offeree, terms |-> terms, valid_until |-> until]

AcceptBody(offer) ==
    [shape |-> "ok", offer_ref |-> Digest(offer), terms |-> Get(offer, "terms"),
     offeree |-> Get(offer, "offeree")]

BindBody(body, accept) == With(body, "agreement_ref", Digest(accept))

-----------------------------------------------------------------------------
(* verify_bundle.  Each check yields the codes it records.                  *)

When(condition, code) == IF condition THEN {code} ELSE {}

Indexes(rs, type) == {i \in DOMAIN rs : rs[i].type = type}
OfType(rs, type) == {rs[i] : i \in Indexes(rs, type)}
Least(S) == CHOOSE x \in S : \A y \in S : x <= y
Greatest(S) == CHOOSE x \in S : \A y \in S : x >= y

\* Members of the bundle with the wrong JSON type.
ShapeErrors(b) ==
    When(b.malformed \cap {"receipt", "body", "issuer", "anchors", "disclosure_map", "chain_head"} # {},
         "malformed")
    \cup When("anchor" \in b.malformed, "anchor_invalid")
    \cup When("revocations" \in b.malformed, "bad_revocation")

\* An optional field whose shape is checked must not be a redaction object.
Shaped == {"runner_profile", "merkle_root", "policy_ref"}

\* _check_05_body and _check_06_body: vocabulary and shape of single bodies.
BodyErrors(r) ==
    LET checked == \/ r.spec \in {5, 6} /\ r.type \in {"session.pass.created", "task.execution",
                                                       "state.commitment"}
                   \/ r.spec = 6 /\ r.type = "authority.grant"
        expires == GetTime(r, "expires_at")
    IN When(checked /\ (r.body.shape = "bad" \/ DOMAIN r.hidden \cap Shaped # {}), "malformed")
       \cup When(/\ r.spec = 6 /\ r.type = "authority.grant"
                 /\ \/ ~ValidTime(GetTime(r, "granted_at"))
                    \/ Has(r, "expires_at") /\ ~ValidTime(expires)
                    \/ Has(r, "expires_at") /\ expires <= GetTime(r, "granted_at"),
                 "malformed")

\* A receipt of unknown type is passed over: it neither has nor is a link.
ExpectedPrev(rs, i) ==
    LET before == {j \in 1..(i - 1) : KnownType(rs[j].type, rs[j].spec)}
    IN IF before = {} THEN None ELSE Digest(rs[Greatest(before)])

\* Fault: the link of a receipt is not looked at.
LinkErrorsNoPrev(rs, i) == When(rs[i].seq # i - 1, "chain_break")
LinkErrors(rs, i) ==
    When(rs[i].seq # i - 1 \/ rs[i].prev # ExpectedPrev(rs, i), "chain_break")

SignatureErrors(r) == When(~Encodable(r) \/ ~SignatureVerifies(r), "bad_signature")

EnvelopeErrors(b, i) ==
    LET r == b.receipts[i] IN
    When(r.spec \notin Specs, "version_unsupported")
    \cup When(r.task # b.task, "task_mismatch")
    \cup IF ~KnownType(r.type, r.spec) THEN {"unknown_type"}
         ELSE When(\E f \in RequiredFields(r.type, r.spec) : ~Has(r, f), "malformed")
              \cup BodyErrors(r)
              \cup When(~ValidTime(r.at) \/ ~Encodable(r), "malformed")
              \cup LinkErrors(b.receipts, i)
              \cup SignatureErrors(r)

\* Fault: a redacted cap is no cap.
CapOfShown(r) == Get(r, "spend_cap")

\* A redacted cap is still an object, with no currency and no amount.
CapOf(r) == IF "spend_cap" \in DOMAIN r.hidden THEN [currency |-> None, minor |-> 0]
            ELSE Get(r, "spend_cap")

\* Fault: a delivery anywhere will do.
DeliveredAnywhere(rs, i) == Indexes(rs, "delivery.attestation") # {}

DeliveredBefore(rs, i) == \E j \in Indexes(rs, "delivery.attestation") : j < i

CrossRecordErrors(rs) ==
    LET passes == Indexes(rs, "session.pass.created")
        pass == rs[Least(passes)]
        cap == CapOf(pass)
    IN IF passes = {} THEN {"malformed"} ELSE
       When(\E r \in OfType(rs, "task.decision") :
              Get(r, "policy_version") # Get(pass, "policy_version"), "policy_mismatch")
       \cup When(\E r \in OfType(rs, "settlement") :
                   /\ cap # None
                   /\ \/ Get(r, "amount").currency # cap.currency
                      \/ Get(r, "amount").minor > cap.minor, "cap_exceeded")
       \cup When(\E i \in Indexes(rs, "settlement") :
                   /\ Get(rs[i], "gated_on_delivery") = TRUE
                   /\ ~DeliveredBefore(rs, i), "delivery_before_settlement")
       \cup When(Indexes(rs, "task.termination") = {}, "missing_termination")

\* A signed record of the given type that a digest refers to; None if there is none.
Resolve(rs, type, ref) ==
    LET found == {r \in OfType(rs, type) : Encodable(r) /\ Digest(r) = ref}
    IN IF ref = None \/ found = {} THEN None ELSE CHOOSE r \in found : TRUE

Earlier(s, t) == ValidTime(s) /\ ValidTime(t) /\ s < t

\* Fault: an acceptance at the last moment is refused.
ExpiredFrom(at, until) == ValidTime(at) /\ at >= until

Expired(at, until) == ValidTime(at) /\ at > until
OffereeAgrees(a, o) == a.issuer = Get(a, "offeree") /\ Get(a, "offeree") = Get(o, "offeree")

\* _check_accept, for a resolved offer.
AcceptErrors(a, o) ==
    IF ~ValidTime(GetTime(o, "valid_until")) THEN {"malformed"}
    ELSE IF Get(a, "terms") # Get(o, "terms") THEN {"offer_mismatch"}
    ELSE
           When(Expired(a.at, GetTime(o, "valid_until")), "offer_expired")
           \cup IF a.spec < 4 THEN {}
                ELSE (IF Get(a, "offeree") = None THEN {"malformed"}
                      ELSE When(~OffereeAgrees(a, o), "offeree_mismatch"))
                     \cup When(Earlier(a.at, o.at), "accept_before_offer")

Bound(rs, spec) == {rs[i] : i \in {j \in DOMAIN rs : rs[j].type \in BoundTypes /\ rs[j].spec >= spec}}

\* What a bound record refers to, when it does: the accept, and the grant.
AcceptOf(rs, r) == Resolve(rs, "agreement.accept", Get(r, "agreement_ref"))
GrantOf(rs, r)  == Resolve(rs, "authority.grant", Get(r, "authority_ref"))
OfferOf(rs, a)  == Resolve(rs, "agreement.offer", Get(a, "offer_ref"))

AgreementErrors(rs) ==
    (UNION {AcceptErrors(a, OfferOf(rs, a)) :
              a \in {x \in OfType(rs, "agreement.accept") : OfferOf(rs, x) # None}})
    \cup UNION {LET a == AcceptOf(rs, r) IN
                When(Earlier(r.at, a.at), "agreement_before_accept")
                \cup When(Get(a, "offeree") \notin {None, r.issuer}, "agreement_issuer_mismatch") :
                  r \in {x \in Bound(rs, 4) : AcceptOf(rs, x) # None}}

AgreementInsufficient(rs) ==
    When(\E a \in OfType(rs, "agreement.accept") : OfferOf(rs, a) = None, "missing_offer")
    \cup When(\E r \in Bound(rs, 4) : Has(r, "agreement_ref") /\ AcceptOf(rs, r) = None,
              "missing_agreement")

Follows(r, a) == ValidTime(a.at) /\ ValidTime(r.at) /\ a.at <= r.at

\* _check_agreement_completeness.
AgreementProvisional(rs) ==
    LET accepts == {a \in OfType(rs, "agreement.accept") : a.spec >= 4 /\ Encodable(a)}
    IN When(\E a \in accepts : \A r \in Bound(rs, 4) : AcceptOf(rs, r) # a, "agreement_unreferenced")
       \cup When(\E r \in Bound(rs, 4), a \in accepts :
                   /\ ~Has(r, "agreement_ref")
                   /\ Get(a, "offeree") = r.issuer
                   /\ Follows(r, a), "missing_agreement_ref")

\* Authority begins when it was granted and the grant was signed.
Effective(g) == IF GetTime(g, "granted_at") > g.at THEN GetTime(g, "granted_at") ELSE g.at

AuthorityErrors(rs) ==
    UNION {LET g == GrantOf(rs, r) IN
           When(Earlier(r.at, Effective(g)), "authority_before_grant")
           \cup When(Get(g, "agent") \notin {None, r.issuer}, "authority_agent_mismatch")
           \cup When(Earlier(GetTime(g, "expires_at"), r.at), "authority_expired") :
             r \in {x \in Bound(rs, 6) : GrantOf(rs, x) # None}}

AuthorityInsufficient(rs) ==
    When(\E r \in Bound(rs, 6) : Has(r, "authority_ref") /\ GrantOf(rs, r) = None, "missing_authority")

AuthorityProvisional(rs) ==
    When(\E g \in OfType(rs, "authority.grant") :
           Encodable(g) /\ \A r \in Bound(rs, 6) : GrantOf(rs, r) # g, "authority_unreferenced")

\* Redactions: each place with a commitment <<salt, value>>, against the disclosure.
Places(rs) == UNION {{<<i, f>> : f \in DOMAIN rs[i].hidden} : i \in DOMAIN rs}

\* A counterparty's attestation is part of the required field counterparty.
Unredactable(type) ==
    Required(type) \cup (IF type = "delivery.attestation" THEN {"attestation"} ELSE {})

RedactedRequired(rs, place) == place[2] \in Unredactable(rs[place[1]].type)
Redaction(rs, place) == rs[place[1]].hidden[place[2]]

Disclosed(b) == IF "disclosure_map" \in b.malformed THEN {} ELSE DOMAIN b.disclosure

\* Fault: a disclosed value is taken as it is.
CommitMatchesAny(entry, redaction) == TRUE

CommitMatches(entry, redaction) == entry = redaction.commit

RedactionErrors(b) ==
    When(\E p \in Places(b.receipts) : RedactedRequired(b.receipts, p), "redacted_required")
    \cup When(\E p \in Places(b.receipts) \cap Disclosed(b) :
                /\ ~RedactedRequired(b.receipts, p)
                /\ ~CommitMatches(b.disclosure[p], Redaction(b.receipts, p)), "commit_mismatch")

\* Places neither required nor disclosed.
Withheld(b) == {p \in Places(b.receipts) \ Disclosed(b) : ~RedactedRequired(b.receipts, p)}

\* A counterparty signs the body without its own attestation, redactions included.
AttestationView(r) == <<Without(r.body, "attestation"), r.hidden>>
AttestedBody(body, key) == With(body, "attestation", [by |-> key, over |-> <<body, <<>>>>])

AttestationErrors(rs) ==
    When(\E r \in OfType(rs, "delivery.attestation") :
           LET a == Get(r, "attestation")
           IN a # None /\ a # [by |-> a.by, over |-> AttestationView(r)], "bad_attestation")

ProvenanceErrors(rs) ==
    When(\E r \in OfType(rs, "task.decision") :
           Get(r, "input_provenance") \notin {None, "sha256", "merkle-sha256"}, "provenance_invalid")

\* Revocation statements, signed by the key they revoke.
StatementVerifies(s) ==
    /\ ValidTime(s.at)
    /\ s.sig = [by |-> s.key, over |-> <<s.key, s.at>>]

Revoke(key, at) == [key |-> key, at |-> at, sig |-> [by |-> key, over |-> <<key, at>>]]

\* Fault: what was issued in the second of the revocation still counts.
RevokedAfter(r, s) == r.at > s.at

RevokedBy(r, s) == r.at >= s.at

\* merge_statements, of those in the bundle and those the caller brings.
MergeStatements(b, external) == b.revocations \cup external

RevocationErrors(b, external) ==
    LET statements == MergeStatements(b, external)
        valid == {s \in statements : StatementVerifies(s)}
    IN IF b.malformed \cap {"revocations", "statement"} # {} THEN {} ELSE
       When(statements # valid, "bad_revocation")
       \cup When(\E i \in DOMAIN b.receipts, s \in valid :
                   LET r == b.receipts[i] IN s.key = r.issuer /\ ValidTime(r.at) /\ RevokedBy(r, s),
                 "key_revoked")

AnchorTypes == {"opentimestamps", "public-chain", "custom"}

\* Several receipts of one id: the last one is the target.
AnchorHolds(rs, anchor) ==
    LET targets == {i \in DOMAIN rs : rs[i].id = anchor.target}
    IN targets # {} /\ Encodable(rs[Greatest(targets)]) /\ anchor.hash = Digest(rs[Greatest(targets)])

AnchorErrors(b) ==
    When("anchors" \notin b.malformed /\ \E a \in b.anchors :
           ~AnchorHolds(b.receipts, a) \/ a.kind \notin AnchorTypes \cup {None}, "anchor_invalid")

\* Fault: the head does not commit to the content.
HeadOfPosition(rs) == LET last == rs[Len(rs)] IN [seq |-> last.seq, id |-> last.id, digest |-> None]

HeadOf(rs) == LET last == rs[Len(rs)] IN [seq |-> last.seq, id |-> last.id, digest |-> Digest(last)]

\* A head is checked if it is there, an object, and the last receipt encodable.
HeadErrors(b) ==
    IF b.head = None \/ "chain_head" \in b.malformed \/ ~Encodable(b.receipts[Len(b.receipts)]) THEN {}
    ELSE IF b.head.of # HeadOf(b.receipts) THEN {"head_mismatch"}
    ELSE When(b.head.anchored \notin AnchorTypes \cup {None}, "head_anchor_invalid")

AnchorProvisional(b, requireAnchor) ==
    When(requireAnchor /\ b.anchors = {}, "anchor_missing")
    \cup When(requireAnchor /\ b.head # None /\ b.head.anchored = None
                /\ HeadErrors(b) = {}, "head_anchor_missing")

Verdict(errors, insufficient, provisional) ==
    CASE errors # {} -> "UNTRUSTED"
      [] errors = {} /\ insufficient # {} -> "INSUFFICIENT_EVIDENCE"
      [] errors = {} /\ insufficient = {} /\ provisional # {} -> "PROVISIONAL"
      [] OTHER -> "TRUSTED"

Result(errors, insufficient, provisional) ==
    [verdict |-> Verdict(errors, insufficient, provisional),
     errors |-> errors, insufficient |-> insufficient, provisional |-> provisional]

\* The early returns, then every check; a failure never hides another.
VerifyBundle(b, external, requireAnchor) ==
    LET rs == b.receipts IN
    IF "bundle" \in b.malformed THEN Result({"malformed"}, {}, {})
    ELSE IF "depth" \in b.malformed THEN Result({"nesting_too_deep"}, {}, {})
    ELSE IF b.spec \notin Specs THEN Result({"version_unsupported"}, {}, {})
    ELSE IF rs = <<>> THEN Result({"malformed"}, {}, {})
    ELSE IF "too_many" \in b.malformed THEN Result({"too_many_receipts"}, {}, {})
    ELSE Result(
           ShapeErrors(b) \cup (UNION {EnvelopeErrors(b, i) : i \in DOMAIN rs})
             \cup CrossRecordErrors(rs) \cup AgreementErrors(rs) \cup AuthorityErrors(rs)
             \cup RedactionErrors(b) \cup AttestationErrors(rs) \cup ProvenanceErrors(rs)
             \cup RevocationErrors(b, external) \cup AnchorErrors(b) \cup HeadErrors(b),
           AgreementInsufficient(rs) \cup AuthorityInsufficient(rs)
             \cup When(\E p \in Withheld(b) : Redaction(rs, p).erased, "erased_content"),
           AgreementProvisional(rs) \cup AuthorityProvisional(rs)
             \cup When(\E p \in Withheld(b) : ~Redaction(rs, p).erased, "redacted_without_disclosure")
             \cup AnchorProvisional(b, requireAnchor))

\* The summary of a result.
Signers(b) == {b.receipts[i].issuer : i \in DOMAIN b.receipts}
TypesIn(b) == {b.receipts[i].type : i \in DOMAIN b.receipts}

-----------------------------------------------------------------------------
(* The verify command: a bundle file and lists of revocations.              *)

\* A source of revocations: a plain URL of another host, whether it answers,
\* whether the answer is too long or no list, and the statements of the list.
Listed(statements) ==
    [plain |-> FALSE, answers |-> TRUE, long |-> FALSE, list |-> TRUE, statements |-> statements]

\* load_statements: None, or why the source cannot be used.
LoadError(source) ==
    CASE source.plain -> "revocations_insecure_url"
      [] ~source.plain /\ ~source.answers -> "revocations_unreachable"
      [] OTHER -> IF source.long THEN "revocations_too_large"
                  ELSE IF ~source.list THEN "bad_revocations_document" ELSE None

\* Why the lists cannot be merged: the first source that cannot be used.
Unusable(sources) ==
    LET failed == {i \in DOMAIN sources : LoadError(sources[i]) # None}
    IN IF failed = {} THEN None ELSE LoadError(sources[Least(failed)])

External(sources) == UNION {sources[i].statements : i \in DOMAIN sources}

\* main of verify.py, of a file that is "ok", "unreadable", "large", "deep" or
\* "no_json".  Lists come first: without them there is no verdict on the bundle.
\* A result of None is an error message.
VerifyMain(file, b, sources, requireAnchor) ==
    LET Exit(code, result) == [exit |-> code, result |-> result]
        Bad(code) == Exit(1, Result({code}, {}, {}))
    IN CASE Unusable(sources) # None ->
              Exit(1, [Result({}, {}, {}) EXCEPT !.verdict = "INSUFFICIENT_EVIDENCE",
                                                 !.errors = {Unusable(sources)}])
         [] Unusable(sources) = None /\ file # "ok" ->
              (CASE file = "unreadable" -> Exit(2, None)
                 [] file = "large" -> Bad("bundle_too_large")
                 [] file = "deep" -> Bad("nesting_too_deep")
                 [] file = "no_json" -> Bad("malformed"))
         [] OTHER -> LET result == VerifyBundle(b, External(sources), requireAnchor)
                     IN Exit(IF result.verdict = "TRUSTED" THEN 0 ELSE 1, result)
=============================================================================
