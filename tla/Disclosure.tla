------------------------------- MODULE Disclosure -------------------------------
(***************************************************************************)
(* What happens to a bundle between its issuers and whoever verifies it.   *)
(* disclose.py: an issuer redacts optional fields and re-signs the rest of *)
(* the chain; a holder reveals parts of the disclosure map.  And what a    *)
(* holder can do besides, with the receipts of every version that was ever *)
(* signed but without the issuers' keys: leave out, move, exchange and     *)
(* alter receipts, lie in the map, append receipts of its own, and put     *)
(* something of another JSON type in a member's place.                     *)
(***************************************************************************)
EXTENDS ThreatMatrix

CONSTANTS
    Stories,                    \* the bundles as the issuers first signed them
    Issuers, Holder,
    MaxRedactions, MaxPaths,    \* bounds: calls of redact, paths in each
    MaxSteps                    \* bound: redactions, and moves of the holder besides revealing

\* What the issuers make with TaskChain.add: each receipt stands behind the ones
\* before it, and nothing is redacted.
Issued(rs) ==
    /\ rs # <<>> /\ rs \in Seq({rs[i] : i \in DOMAIN rs})
    /\ \A i \in DOMAIN rs :
         LET r == rs[i] IN
         /\ r = NextReceipt(SubSeq(rs, 1, i - 1), r.id, r.task, r.spec, r.type, r.issuer, r.at, r.body)
         /\ r.issuer \in Issuers
         /\ BodyValid(r.type, r.spec, r.body)
         /\ r.body = [f \in DOMAIN r.body |-> r.body[f]]
         /\ "shape" \in DOMAIN r.body /\ Encodable(r)

\* Where records hold digests of others, and the digests there are at first.
References == {"offer_ref", "agreement_ref", "authority_ref"}
FirstDigests == UNION {{Digest(b.receipts[i]) : i \in DOMAIN b.receipts} : b \in Stories}

\* Salts are drawn when redact is called: what is referred to, anchored or attested
\* before is no redacted receipt and no redacted body.
KnowsNoSalt(b) ==
    /\ \A i \in DOMAIN b.receipts :
         LET body == b.receipts[i].body IN
         /\ \A f \in References \cap DOMAIN body : body[f] \in FirstDigests \cup {None}
         /\ "attestation" \in DOMAIN body /\ body.attestation # None => body.attestation.over[2] = <<>>
    /\ \A a \in b.anchors : a.hash \in FirstDigests \cup {None}
    /\ b.head # None => b.head.of.digest \in FirstDigests \cup {None}

ASSUME DisclosureAssumption ==
    /\ Holder \notin Issuers
    /\ MaxRedactions \in Nat /\ MaxPaths \in Nat /\ MaxSteps \in Nat
    /\ \A b \in Stories :
         /\ Issued(b.receipts)
         /\ b = [BundleOf(b.receipts, b.task, b.spec) EXCEPT !.head = b.head, !.anchors = b.anchors]
         /\ KnowsNoSalt(b)

VARIABLES
    origin,     \* the bundle as first signed
    bundle,     \* the bundle as it is
    opening,    \* the disclosure map redact has returned: place to <<salt, value>>
    versions,   \* every sequence of receipts that issuers have signed
    redactions, moves

vars == <<origin, bundle, opening, versions, redactions, moves>>

Init ==
    /\ origin \in Stories
    /\ bundle = origin
    /\ opening = <<>>
    /\ versions = {origin.receipts}
    /\ redactions = 0 /\ moves = 0

-----------------------------------------------------------------------------
(* redact *)

\* Paths that exist and may be redacted; a redaction may be redacted again.
Redactable(rs) ==
    UNION {{<<i, f>> : f \in ((DOMAIN rs[i].body \cup DOMAIN rs[i].hidden) \ {"shape"})
                               \ Unredactable(rs[i].type)} : i \in DOMAIN rs}

\* What stands there: a value of that field, or a redaction object.
Value(rs, place) ==
    LET r == rs[place[1]]
        f == place[2]
    IN IF f \in DOMAIN r.hidden THEN <<"redaction", f, r.hidden[f]>> ELSE <<"value", f, r.body[f]>>

\* A map after update, in Python's sense.
Updated(map, entries) ==
    [p \in DOMAIN map \cup DOMAIN entries |-> IF p \in DOMAIN entries THEN entries[p] ELSE map[p]]

\* A fresh salt for every redaction of every place.
Opening(rs, place) == <<<<redactions, place>>, Value(rs, place)>>

\* The receipt with its fields at S redacted.
Hidden(r, i, S, rs) ==
    LET fields == {f \in DOMAIN r.body \cup DOMAIN r.hidden : <<i, f>> \in S}
    IN [r EXCEPT !.body = [f \in DOMAIN r.body \ fields |-> r.body[f]],
                 !.hidden = [f \in DOMAIN r.hidden \cup fields |->
                               IF f \in fields THEN [commit |-> Opening(rs, <<i, f>>), erased |-> FALSE]
                               ELSE r.hidden[f]]]

\* Fault: the tail is signed again but not linked again.
ResignUnlinked(rs, start, key) ==
    [i \in DOMAIN rs |-> IF i < start THEN rs[i] ELSE Sign(rs[i], key)]

\* _resign_tail.
ResignTail(rs, start, key) ==
    LET signed[i \in DOMAIN rs] ==
          IF i < start THEN rs[i]
          ELSE Sign([rs[i] EXCEPT !.seq = i - 1,
                                  !.prev = IF i = 1 THEN None ELSE Digest(signed[i - 1])], key)
    IN [i \in DOMAIN rs |-> signed[i]]

\* One call of redact, on a bundle the holder has not had yet; it raises if a
\* receipt of the tail is another issuer's.
Redact(key) ==
    /\ moves = 0 /\ redactions < MaxRedactions /\ redactions < MaxSteps
    /\ LET rs == bundle.receipts IN
       \E S \in SUBSET Redactable(rs) :
         LET start == Least({p[1] : p \in S})
             hidden == [i \in DOMAIN rs |-> Hidden(rs[i], i, S, rs)]
         IN /\ S # {} /\ Cardinality(S) <= MaxPaths
            /\ \A i \in start..Len(rs) : rs[i].issuer = key
            /\ bundle' = [bundle EXCEPT !.receipts = ResignTail(hidden, start, key)]
            /\ opening' = Updated(opening, [p \in S |-> Opening(rs, p)])
    /\ versions' = versions \cup {bundle'.receipts}
    /\ redactions' = redactions + 1
    /\ UNCHANGED <<origin, moves>>

\* attach.
Attach(b, entries) == [b EXCEPT !.disclosure = Updated(@, entries)]

\* The verify command with a map.
VerifyDisclosed(b, entries, sources, requireAnchor) ==
    VerifyMain("ok", Attach(b, entries), sources, requireAnchor)

\* reveal and attach: some entries of the map are merged into the bundle's.
Reveal ==
    /\ "disclosure_map" \notin bundle.malformed
    /\ \E S \in SUBSET DOMAIN opening :
         /\ S # {}
         /\ bundle' = Attach(bundle, [p \in S |-> opening[p]])
    /\ UNCHANGED <<origin, opening, versions, redactions, moves>>

-----------------------------------------------------------------------------
(* A holder *)

Move(receipts) ==
    /\ redactions + moves < MaxSteps
    /\ moves' = moves + 1
    /\ bundle' = [bundle EXCEPT !.receipts = receipts]
    /\ UNCHANGED <<origin, opening, versions, redactions>>

LeaveOut ==
    \E i \in DOMAIN bundle.receipts :
      Move(DropReceipt(bundle.receipts, i))

Exchange ==
    \E i, j \in DOMAIN bundle.receipts :
      i < j /\ Move(Swap(bundle.receipts, i, j))

\* The same receipt of another version.
Splice ==
    \E v \in versions, i \in DOMAIN bundle.receipts :
      /\ i \in DOMAIN v /\ v[i] # bundle.receipts[i]
      /\ Move([bundle.receipts EXCEPT ![i] = v[i]])

\* The store is put back to what it held before.
Restore ==
    \E v \in versions \ {bundle.receipts} : Move(v)

\* A redaction object replaced by what it commits to.
Uncovered(r, f) ==
    LET committed == r.hidden[f].commit[2]
    IN IF committed[1] = "redaction" THEN [r EXCEPT !.hidden[f] = committed[3]]
       ELSE [r EXCEPT !.hidden = Without(@, f), !.body = With(@, f, committed[3])]

\* Another time in a signed receipt, or a field uncovered in place.
Alter ==
    \E i \in DOMAIN bundle.receipts :
      LET r == bundle.receipts[i] IN
      \/ Move([bundle.receipts EXCEPT ![i].at = @ + 1])
      \/ \E f \in DOMAIN r.hidden : Move([bundle.receipts EXCEPT ![i] = Uncovered(r, f)])

\* The holder adds a receipt of its own, linked and signed as it should be.
AppendOwn ==
    Move(Append(bundle.receipts,
                NextReceipt(bundle.receipts, Len(bundle.receipts), bundle.task, 6,
                            "task.termination", Holder, 1, [shape |-> "ok"])))

\* Another value, or the entry of another place.
Lie ==
    /\ redactions + moves < MaxSteps
    /\ moves' = moves + 1
    /\ \E p \in DOMAIN bundle.disclosure :
         \E entry \in {<<bundle.disclosure[p][1], Holder>>} \cup {opening[q] : q \in DOMAIN opening \ {p}} :
           bundle' = [bundle EXCEPT !.disclosure[p] = entry]
    /\ UNCHANGED <<origin, opening, versions, redactions>>

\* A member of the bundle replaced by something of the wrong JSON type, or the
\* bundle by one that is too deep or too long.
Mangle ==
    /\ redactions + moves < MaxSteps
    /\ moves' = moves + 1
    /\ \E member \in {"chain_head", "disclosure_map", "anchors", "revocations", "depth", "too_many"} :
         bundle' = [bundle EXCEPT !.malformed = @ \cup {member}]
    /\ UNCHANGED <<origin, opening, versions, redactions>>

Next ==
    \/ \E key \in Issuers : Redact(key)
    \/ Reveal
    \/ LeaveOut \/ Exchange \/ Splice \/ Restore \/ Alter \/ AppendOwn \/ Lie \/ Mangle

Spec == Init /\ [][Next]_vars

-----------------------------------------------------------------------------
(* Properties *)

Outcome == VerifyBundle(bundle, {}, FALSE)
First == VerifyBundle(origin, {}, FALSE)
Sound(result) == result.verdict \in {"TRUSTED", "PROVISIONAL"}

\* A receipt vouches for all before it: whatever a holder makes of the versions
\* it has seen, unless the bundle is UNTRUSTED each issuer's receipt stands
\* exactly behind the receipts it was signed behind.
SignedInContext ==
    Outcome.verdict # "UNTRUSTED" =>
      \A i \in DOMAIN bundle.receipts :
        bundle.receipts[i].issuer \in Issuers =>
          \E v \in versions : i <= Len(v) /\ \A j \in 1..i : bundle.receipts[j] = v[j]

\* A disclosed value is the one that was redacted there, and what is TRUSTED
\* hides nothing.
DisclosedIsCommitted ==
    /\ Outcome.verdict # "UNTRUSTED" =>
         \A p \in Places(bundle.receipts) \cap Disclosed(bundle) :
           \E v \in versions : p \in Redactable(v) /\ bundle.disclosure[p][2] = Value(v, p)
    /\ Outcome.verdict = "TRUSTED" => Places(bundle.receipts) \subseteq Disclosed(bundle)

\* With the head of some version, obtained elsewhere, no other chain passes,
\* neither a shorter nor a longer nor a redacted one.
HeadPinsChain ==
    \A v \in versions :
      LET pinned == [bundle EXCEPT !.head = [of |-> HeadOf(v), anchored |-> None]]
      IN bundle.receipts # <<>> /\ VerifyBundle(pinned, {}, FALSE).verdict # "UNTRUSTED" =>
           bundle.receipts = v

\* A cap that is redacted has no currency, and so allows a payment without one.
Denominated(b) == \A r \in OfType(b.receipts, "settlement") : Get(r, "amount").currency # None

\* Redacting and disclosing never lifts what was UNTRUSTED above
\* INSUFFICIENT_EVIDENCE, if every payment names its currency.
HidingNeverHelps ==
    moves = 0 /\ Denominated(origin) /\ First.verdict = "UNTRUSTED" => ~Sound(Outcome)

\* Digests that records, anchors and the head hold of the receipts from start on.
ReferredFrom(b, start) ==
    LET rs == b.receipts
        late == {Digest(rs[i]) : i \in start..Len(rs)}
        held == UNION {{Get(rs[i], f) : f \in References \cap DOMAIN rs[i].body} : i \in DOMAIN rs}
    IN (held \cup {a.hash : a \in b.anchors}) \cap late # {} \/ b.head # None

\* Optional fields a rule of the verifier reads, and bodies a counterparty signed.
ReadByRules(b) ==
    {p \in Redactable(b.receipts) :
       \/ p[2] \in {"spend_cap", "offeree", "agreement_ref", "authority_ref", "expires_at"} \cup Shaped
       \/ "attestation" \in DOMAIN b.receipts[p[1]].body}

\* A bundle redacted with the tool and disclosed again in full is as good as
\* before, if no rule reads what was redacted and nothing refers by digest to a
\* receipt that was signed again.
DisclosureRestoresUnread ==
    /\ moves = 0 /\ redactions > 0
    /\ DOMAIN opening \cap ReadByRules(origin) = {}
    /\ ~ReferredFrom(origin, Least({p[1] : p \in DOMAIN opening}))
    => VerifyDisclosed(bundle, opening, <<>>, FALSE).result.verdict = First.verdict

\* The one attack the threat report tries speaks for all attacks of its class, also
\* where the command passes a bundle whose evidence is insufficient.
SampleSpeaksForAll ==
    LET safe == Report(bundle, FALSE).safe
        rs == bundle.receipts
        AllRefused(threat, changes) ==
          threat \in safe => \A c \in changes : Refused(WithReceipts(bundle, c))
    IN Sound(Outcome) \/ CheckMain("ok", bundle, "empty") = 0 =>
         /\ AllRefused("T01", ContentChanges(rs))
         /\ AllRefused("T02", Truncations(rs))
         /\ AllRefused("T03", MiddleDeletions(rs))
         /\ AllRefused("T04", Reorderings(rs))
         /\ AllRefused("T07", SequenceChanges(rs))

\* README: fields can be revealed selectively without breaking integrity.
DisclosureRestores ==
    moves = 0 /\ redactions > 0 =>
      VerifyDisclosed(bundle, opening, <<>>, FALSE).result.verdict = First.verdict
=============================================================================
