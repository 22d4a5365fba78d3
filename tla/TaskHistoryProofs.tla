--------------------------- MODULE TaskHistoryProofs ---------------------------
(***************************************************************************)
(* Theorems about TaskHistory, for every set of parties, all times and     *)
(* chains of every length.                                                 *)
(*                                                                         *)
(* The inductive invariant says that every receipt is linked and signed as *)
(* TaskChain.add does it (Linked) and that its body is what the history    *)
(* says of it, with references to the places it cites (Written).  Every    *)
(* step issues one receipt (NextIssues), and what was there stays          *)
(* (GrownKeeps).                                                           *)
(*                                                                         *)
(* From it follow: that errors stay, check by check, because the earlier   *)
(* receipts, what they resolve to and the first pass stay; and that a      *)
(* verdict is deserved, because a digest resolves to the record that was   *)
(* meant (FindsCited), so that each check finds nothing exactly if the     *)
(* history has nothing to find (EnvelopesAreSound to OpenEndsAreFound).    *)
(***************************************************************************)
EXTENDS TaskHistory, SequenceTheorems, WellFoundedInduction, TLAPS

USE HistoryAssumption DEF HistoryAssumption

-----------------------------------------------------------------------------
(* What verify_bundle adds up *)

\* The errors that the revocations have no part in.
OtherErrors(b) ==
    ShapeErrors(b) \cup (UNION {EnvelopeErrors(b, i) : i \in DOMAIN b.receipts})
      \cup CrossRecordErrors(b.receipts) \cup AgreementErrors(b.receipts)
      \cup AuthorityErrors(b.receipts) \cup RedactionErrors(b)
      \cup AttestationErrors(b.receipts) \cup ProvenanceErrors(b.receipts)
      \cup AnchorErrors(b) \cup HeadErrors(b)

Lacks(b) ==
    AgreementInsufficient(b.receipts) \cup AuthorityInsufficient(b.receipts)
      \cup When(\E p \in Withheld(b) : Redaction(b.receipts, p).erased, "erased_content")

Doubts(b) ==
    AgreementProvisional(b.receipts) \cup AuthorityProvisional(b.receipts)
      \cup When(\E p \in Withheld(b) : ~Redaction(b.receipts, p).erased, "redacted_without_disclosure")
      \cup AnchorProvisional(b, FALSE)

\* The verdict on a bundle that is well formed, taken apart.
LEMMA VerifyParts ==
  ASSUME NEW b, b.malformed = {}, b.spec \in Specs, b.receipts # <<>>, NEW external
  PROVE  VerifyBundle(b, external, FALSE) =
           Result(OtherErrors(b) \cup RevocationErrors(b, external), Lacks(b), Doubts(b))
<1> DEFINE rs == b.receipts
           first == ShapeErrors(b) \cup (UNION {EnvelopeErrors(b, i) : i \in DOMAIN rs})
             \cup CrossRecordErrors(rs) \cup AgreementErrors(rs) \cup AuthorityErrors(rs)
             \cup RedactionErrors(b) \cup AttestationErrors(rs) \cup ProvenanceErrors(rs)
           errors == first \cup RevocationErrors(b, external) \cup AnchorErrors(b) \cup HeadErrors(b)
<1>1. VerifyBundle(b, external, FALSE) = Result(errors, Lacks(b), Doubts(b))
  BY DEF VerifyBundle, Lacks, Doubts
<1>2. OtherErrors(b) = first \cup AnchorErrors(b) \cup HeadErrors(b)
  BY DEF OtherErrors
<1> HIDE DEF first
<1>3. errors = OtherErrors(b) \cup RevocationErrors(b, external)
  BY <1>2
<1> QED BY <1>1, <1>3

\* A bundle of a chain, with or without statements of its own.
LEMMA StatementsApart ==
  ASSUME NEW rs, NEW statements
  PROVE  LET b == BundleOf(rs, "task", 6)
             c == [b EXCEPT !.revocations = statements]
         IN /\ OtherErrors(c) = OtherErrors(b) /\ Lacks(c) = Lacks(b) /\ Doubts(c) = Doubts(b)
            /\ RevocationErrors(c, {}) = RevocationErrors(b, statements)
<1> DEFINE b == BundleOf(rs, "task", 6)
           c == [b EXCEPT !.revocations = statements]
<1>1. /\ b.receipts = rs /\ b.malformed = {} /\ b.head = None /\ b.anchors = {}
      /\ b.task = "task" /\ b.spec = 6 /\ b.disclosure = <<>> /\ b.revocations = {}
      /\ c.receipts = rs /\ c.malformed = {} /\ c.head = None /\ c.anchors = {}
      /\ c.task = "task" /\ c.spec = 6 /\ c.disclosure = <<>> /\ c.revocations = statements
  BY DEF BundleOf
<1> HIDE DEF b, c
<1>2. ShapeErrors(c) = ShapeErrors(b) /\ RedactionErrors(c) = RedactionErrors(b)
  BY <1>1 DEF ShapeErrors, RedactionErrors, Disclosed
<1>3. \A i : EnvelopeErrors(c, i) = EnvelopeErrors(b, i)
  BY <1>1 DEF EnvelopeErrors
<1>4. AnchorErrors(c) = AnchorErrors(b) /\ HeadErrors(c) = HeadErrors(b)
  BY <1>1 DEF AnchorErrors, HeadErrors
<1>5. Withheld(c) = Withheld(b) /\ AnchorProvisional(c, FALSE) = AnchorProvisional(b, FALSE)
  BY <1>1 DEF Withheld, Disclosed, AnchorProvisional
<1>6. OtherErrors(c) = OtherErrors(b)
  <2>1. {EnvelopeErrors(c, i) : i \in DOMAIN c.receipts} = {EnvelopeErrors(b, i) : i \in DOMAIN b.receipts}
    BY <1>1, <1>3
  <2> QED BY <1>1, <1>2, <1>4, <2>1 DEF OtherErrors
<1>7. Lacks(c) = Lacks(b) /\ Doubts(c) = Doubts(b)
  BY <1>1, <1>5 DEF Lacks, Doubts
<1>8. MergeStatements(c, {}) = MergeStatements(b, statements)
  BY <1>1 DEF MergeStatements
<1>9. RevocationErrors(c, {}) = RevocationErrors(b, statements)
  BY <1>1, <1>8 DEF RevocationErrors
<1> QED BY <1>6, <1>7, <1>9 DEF b, c

-----------------------------------------------------------------------------
(* What is in a chain: rs are receipts, cs what they cite. *)

Fields == {"id", "task", "spec", "type", "issuer", "at", "seq", "prev", "body", "hidden", "sig"}

\* A receipt at its place, signed, with a well-formed body.
Linked(rs, i) ==
    /\ DOMAIN rs[i] = Fields
    /\ rs[i].id = i - 1 /\ rs[i].seq = i - 1 /\ rs[i].task = "task" /\ rs[i].hidden = <<>>
    /\ rs[i].prev = IF i = 1 THEN None ELSE Digest(rs[i - 1])
    /\ rs[i].sig = [by |-> rs[i].issuer, over |-> Unsigned(rs[i])]
    /\ rs[i].spec \in Versions /\ rs[i].issuer \in Parties /\ rs[i].at \in Nat
    /\ BodyValid(rs[i].type, rs[i].spec, rs[i].body)
    /\ "shape" \in DOMAIN rs[i].body /\ rs[i].body.shape = "ok"

\* A reference in a body says what is cited: nothing, a record of another task,
\* or one of this chain.
Refers(rs, body, field, type, place) ==
    \/ place = 0 /\ field \notin DOMAIN body
    \/ place = Outside /\ field \in DOMAIN body /\ body[field] = Elsewhere
    \/ place \in Indexes(rs, type) /\ field \in DOMAIN body /\ body[field] = Digest(rs[place])

\* What the helpers put into a body, by the type of the receipt.
Written(rs, type, body, about) ==
    /\ type = "session.pass.created" =>
         /\ body.policy_version = "p1"
         /\ "spend_cap" \in DOMAIN body => body.spend_cap = [currency |-> "eur", minor |-> 1]
    /\ type = "agreement.offer" => \E offeree \in Parties : body = OfferBody(offeree, "terms", Deadline)
    /\ type = "agreement.accept" =>
         /\ "offeree" \in DOMAIN body /\ body.offeree \in Parties
         /\ \/ about.offer = 0 /\ body.offer_ref = Elsewhere
            \/ about.offer \in Indexes(rs, "agreement.offer") /\ body.offer_ref = Digest(rs[about.offer])
    /\ type = "authority.grant" =>
         /\ body.agent \in Parties /\ body.granted_at \in Nat
         /\ "expires_at" \in DOMAIN body => body.expires_at = Deadline
    /\ type = "task.decision" => body.input_provenance \in {"sha256", "unknown"}
    /\ (type = "delivery.attestation" /\ "attestation" \in DOMAIN body) =>
         \E over : body.attestation = [by |-> Operator, over |-> over]
    /\ type = "settlement" =>
         /\ body.gated_on_delivery \in BOOLEAN
         /\ \E currency \in {"eur", "usd"}, minor \in Nat :
              body.amount = [currency |-> currency, minor |-> minor]
    /\ Refers(rs, body, "agreement_ref", "agreement.accept", about.accept)
    /\ Refers(rs, body, "authority_ref", "authority.grant", about.grant)

Chains(rs, cs) ==
    /\ \E S : rs \in Seq(S)
    /\ \E T : cs \in Seq(T)
    /\ Len(cs) = Len(rs) /\ Len(rs) <= MaxLen

IInv ==
    /\ Chains(chain, cites)
    /\ \A i \in DOMAIN chain : Linked(chain, i)
    /\ \A i \in DOMAIN chain : Written(chain, chain[i].type, chain[i].body, cites[i])
    /\ result = VerifyBundle(BundleOf(chain, "task", 6), {}, FALSE)

-----------------------------------------------------------------------------
(* One step: a receipt, of one type, is written and appended. *)

Issue(type, v, key, at, body, about) ==
    /\ v \in Versions /\ key \in Parties /\ at \in Nat
    /\ "shape" \in DOMAIN body /\ body.shape = "ok"
    /\ Written(chain, type, body, about)
    /\ Add(type, v, key, at, body, about)

\* A body that is made to refer to a place refers to it, and is otherwise as it was.
LEMMA ReferRefers ==
  ASSUME NEW body, NEW field, NEW type, NEW place \in Within(type), field \notin DOMAIN body,
         Chains(chain, cites)
  PROVE  /\ Refers(chain, Refer(body, field, place), field, type, place)
         /\ DOMAIN body \subseteq DOMAIN Refer(body, field, place)
         /\ DOMAIN Refer(body, field, place) \subseteq DOMAIN body \cup {field}
         /\ \A x \in DOMAIN body : Refer(body, field, place)[x] = body[x]
<1> DEFINE r == Refer(body, field, place)
<1>1. PICK S : chain \in Seq(S)
  BY DEF Chains
<1>2. Outside \notin DOMAIN chain /\ 0 \notin DOMAIN chain /\ Outside # 0
  BY <1>1 DEF Chains, Outside
<1>3. place = 0 \/ place = Outside \/ place \in Indexes(chain, type)
  BY DEF Within
<1>4. CASE place = 0
  <2>1. r = body
    BY <1>2, <1>4 DEF Refer
  <2> HIDE DEF r
  <2>2. Refers(chain, r, field, type, place)
    BY <1>4, <2>1 DEF Refers
  <2>3. DOMAIN r = DOMAIN body /\ \A x \in DOMAIN body : r[x] = body[x]
    BY <2>1
  <2> QED BY <2>2, <2>3 DEF r
<1>5. CASE place = Outside
  BY <1>5, <1>2 DEF Refer, Refers, With
<1>6. CASE place \in Indexes(chain, type)
  BY <1>6, <1>2 DEF Refer, Refers, With, Indexes
<1> QED BY <1>3, <1>4, <1>5, <1>6

\* An acceptance with other terms or another offeree still refers to its offer.
LEMMA Retermed ==
  ASSUME NEW given, DOMAIN given = {"shape", "offer_ref", "terms", "offeree"}, NEW terms, NEW offeree
  PROVE  LET body == [given EXCEPT !.terms = terms, !.offeree = offeree] IN
         /\ DOMAIN body = {"shape", "offer_ref", "terms", "offeree"}
         /\ body.shape = given.shape /\ body.offer_ref = given.offer_ref
         /\ body.terms = terms /\ body.offeree = offeree
OBVIOUS

\* Every step issues one receipt.
LEMMA NextIssues ==
  ASSUME Chains(chain, cites), Next
  PROVE  \E type, v, key, at, body, about : Issue(type, v, key, at, body, about)
<1> USE DEF Nothing, Deadline
<1>1. PICK v \in Versions :
        \/ OpenSession(v) \/ Offer(v) \/ Accept(v) \/ Grant(v) \/ Execute(v)
        \/ Decide(v) \/ Deliver(v) \/ Settle(v) \/ Terminate(v)
  BY DEF Next
<1>2. Times \subseteq Nat
  BY DEF Times
<1>3. CASE OpenSession(v)
  <2>1. PICK body : /\ \/ body = [shape |-> "ok", policy_version |-> "p1"]
                       \/ body = [shape |-> "ok", policy_version |-> "p1",
                                  spend_cap |-> [currency |-> "eur", minor |-> 1]]
                    /\ Add("session.pass.created", v, Operator, 0, body, Nothing)
    BY <1>3 DEF OpenSession
  <2>2. Written(chain, "session.pass.created", body, Nothing)
    BY <2>1 DEF Written, Refers
  <2> QED BY <2>1, <2>2 DEF Issue
<1>4. CASE Offer(v)
  <2>1. PICK offeree \in Parties :
          Add("agreement.offer", v, Operator, Deadline, OfferBody(offeree, "terms", Deadline), Nothing)
    BY <1>4 DEF Offer
  <2>2. Written(chain, "agreement.offer", OfferBody(offeree, "terms", Deadline), Nothing)
    BY DEF Written, Refers, OfferBody
  <2>3. "shape" \in DOMAIN OfferBody(offeree, "terms", Deadline) /\ OfferBody(offeree, "terms", Deadline).shape = "ok"
    BY DEF OfferBody
  <2> QED BY <2>1, <2>2, <2>3 DEF Issue
<1>5. CASE Accept(v)
  <2>1. PICK key \in Parties, offeree \in Parties, at \in Times :
      \/ \E i \in Indexes(chain, "agreement.offer"), terms \in {"terms", "other"} :
           Add("agreement.accept", v, key, at,
               [AcceptBody(chain[i]) EXCEPT !.terms = terms, !.offeree = offeree],
               [Nothing EXCEPT !.offer = i])
      \/ /\ offeree = key
         /\ Add("agreement.accept", v, key, at,
                [shape |-> "ok", offer_ref |-> Elsewhere, terms |-> "terms", offeree |-> key], Nothing)
    BY <1>5 DEF Accept
  <2>2. CASE \E i \in Indexes(chain, "agreement.offer"), terms \in {"terms", "other"} :
               Add("agreement.accept", v, key, at,
                   [AcceptBody(chain[i]) EXCEPT !.terms = terms, !.offeree = offeree],
                   [Nothing EXCEPT !.offer = i])
    <3>1. PICK i \in Indexes(chain, "agreement.offer"), terms \in {"terms", "other"} :
               Add("agreement.accept", v, key, at,
                   [AcceptBody(chain[i]) EXCEPT !.terms = terms, !.offeree = offeree],
                   [Nothing EXCEPT !.offer = i])
      BY <2>2
    <3> DEFINE body == [AcceptBody(chain[i]) EXCEPT !.terms = terms, !.offeree = offeree]
               about == [Nothing EXCEPT !.offer = i]
    <3>2. /\ DOMAIN body = {"shape", "offer_ref", "terms", "offeree"}
          /\ body.shape = "ok" /\ body.offer_ref = Digest(chain[i])
          /\ body.terms = terms /\ body.offeree = offeree
      <4> DEFINE given == AcceptBody(chain[i])
      <4>1. /\ DOMAIN given = {"shape", "offer_ref", "terms", "offeree"}
            /\ given.shape = "ok" /\ given.offer_ref = Digest(chain[i])
        BY DEF AcceptBody
      <4> HIDE DEF given
      <4> DEFINE new == [given EXCEPT !.terms = terms, !.offeree = offeree]
      <4>2. /\ DOMAIN new = {"shape", "offer_ref", "terms", "offeree"}
            /\ new.shape = given.shape /\ new.offer_ref = given.offer_ref
            /\ new.terms = terms /\ new.offeree = offeree
        BY <4>1, Retermed
      <4>3. body = new
        BY DEF given
      <4> QED BY <4>1, <4>2, <4>3
    <3>3. about = [offer |-> i, accept |-> 0, grant |-> 0]
      OBVIOUS
    <3>4. Add("agreement.accept", v, key, at, body, about)
      BY <3>1
    <3> HIDE DEF body, about
    <3>5. Written(chain, "agreement.accept", body, about)
      BY <3>2, <3>3 DEF Written, Refers
    <3> QED BY <1>2, <3>2, <3>4, <3>5 DEF Issue
  <2>3. CASE Add("agreement.accept", v, key, at,
                 [shape |-> "ok", offer_ref |-> Elsewhere, terms |-> "terms", offeree |-> key], Nothing)
    <3>1. Written(chain, "agreement.accept",
                  [shape |-> "ok", offer_ref |-> Elsewhere, terms |-> "terms", offeree |-> key], Nothing)
      BY DEF Written, Refers
    <3> QED BY <1>2, <2>3, <3>1 DEF Issue
  <2> QED BY <2>1, <2>2, <2>3
<1>6. CASE Grant(v)
  <2>1. PICK agent, at, granted, body :
          /\ agent \in Parties /\ at \in 0..Deadline /\ granted \in 0..Deadline
          /\ \/ body = [shape |-> "ok", agent |-> agent, granted_at |-> granted, expires_at |-> Deadline]
             \/ body = [shape |-> "ok", agent |-> agent, granted_at |-> granted]
          /\ Add("authority.grant", v, Operator, at, body, Nothing)
    BY <1>6 DEF Grant
  <2>2. Written(chain, "authority.grant", body, Nothing)
    BY <2>1 DEF Written, Refers
  <2> QED BY <2>1, <2>2 DEF Issue
<1>7. CASE Execute(v)
  <2>1. PICK key \in Parties, at \in Times,
             a \in Within("agreement.accept"), g \in Within("authority.grant") :
          Add("task.execution", v, key, at,
              Refer(Refer([shape |-> "ok"], "agreement_ref", a), "authority_ref", g),
              [offer |-> 0, accept |-> a, grant |-> g])
    BY <1>7 DEF Execute
  <2> DEFINE one == Refer([shape |-> "ok"], "agreement_ref", a)
             two == Refer(one, "authority_ref", g)
             about == [offer |-> 0, accept |-> a, grant |-> g]
  <2>2. /\ Refers(chain, one, "agreement_ref", "agreement.accept", a)
        /\ "shape" \in DOMAIN one /\ one.shape = "ok" /\ "authority_ref" \notin DOMAIN one
    <3> DEFINE plain == [shape |-> "ok"]
    <3>1. DOMAIN plain = {"shape"} /\ plain["shape"] = "ok" /\ "agreement_ref" \notin DOMAIN plain
      OBVIOUS
    <3> HIDE DEF plain
    <3>2. /\ Refers(chain, Refer(plain, "agreement_ref", a), "agreement_ref", "agreement.accept", a)
          /\ DOMAIN plain \subseteq DOMAIN Refer(plain, "agreement_ref", a)
          /\ DOMAIN Refer(plain, "agreement_ref", a) \subseteq DOMAIN plain \cup {"agreement_ref"}
          /\ \A x \in DOMAIN plain : Refer(plain, "agreement_ref", a)[x] = plain[x]
      BY <3>1, ReferRefers
    <3>3. one = Refer(plain, "agreement_ref", a)
      BY DEF plain
    <3> QED BY <3>1, <3>2, <3>3
  <2> HIDE DEF one
  <2>3. /\ Refers(chain, two, "authority_ref", "authority.grant", g)
        /\ DOMAIN one \subseteq DOMAIN two /\ DOMAIN two \subseteq DOMAIN one \cup {"authority_ref"}
        /\ \A x \in DOMAIN one : two[x] = one[x]
    BY <2>2, ReferRefers, ZenonT(40)
  <2> HIDE DEF two
  <2>4. Refers(chain, two, "agreement_ref", "agreement.accept", a)
    BY <2>2, <2>3 DEF Refers
  <2>5. Written(chain, "task.execution", two, about)
    BY <2>3, <2>4 DEF Written
  <2>6. Add("task.execution", v, key, at, two, about)
    BY <2>1 DEF one, two
  <2> QED BY <1>2, <2>2, <2>3, <2>5, <2>6 DEF Issue
<1>8. CASE Decide(v)
  <2>1. PICK policy \in {"p1", "p2"}, sources \in {"sha256", "unknown"} :
          Add("task.decision", v, Operator, 0,
              [shape |-> "ok", policy_version |-> policy, input_provenance |-> sources], Nothing)
    BY <1>8 DEF Decide
  <2>2. Written(chain, "task.decision",
                [shape |-> "ok", policy_version |-> policy, input_provenance |-> sources], Nothing)
    BY DEF Written, Refers
  <2> QED BY <2>1, <2>2 DEF Issue
<1>9. CASE Deliver(v)
  <2> DEFINE plain == [shape |-> "ok", counterparty |-> Operator]
  <2>1. PICK body, over :
          /\ body = plain \/ body = With(plain, "attestation", [by |-> Operator, over |-> over])
          /\ Add("delivery.attestation", v, Operator, 0, body, Nothing)
    <3>1. ASSUME NEW x
          PROVE  [With([plain EXCEPT !.counterparty = Elsewhere], "attestation", x)
                    EXCEPT !.counterparty = Operator] = With(plain, "attestation", x)
      <4> DEFINE other == [plain EXCEPT !.counterparty = Elsewhere]
                 w == With(other, "attestation", x)
                 names == {"shape", "counterparty", "attestation"}
      <4>1. w = [f \in names |-> IF f = "attestation" THEN x
                                 ELSE IF f = "shape" THEN "ok" ELSE Elsewhere]
        BY DEF With
      <4>2. With(plain, "attestation", x) =
              [f \in names |-> IF f = "attestation" THEN x ELSE IF f = "shape" THEN "ok" ELSE Operator]
        BY DEF With
      <4> HIDE DEF w
      <4>3. [w EXCEPT !.counterparty = Operator] =
              [f \in names |-> IF f = "attestation" THEN x ELSE IF f = "shape" THEN "ok" ELSE Operator]
        BY <4>1
      <4> QED BY <4>2, <4>3 DEF w
    <3> DEFINE changed == [plain EXCEPT !.counterparty = Elsewhere]
               Sig(b) == [by |-> Operator, over |-> <<b, <<>>>>]
               Kept(b) == Add("delivery.attestation", v, Operator, 0, b, Nothing)
    <3>2. \/ Kept(plain)
          \/ Kept(With(plain, "attestation", Sig(plain)))
          \/ Kept([With(changed, "attestation", Sig(changed)) EXCEPT !.counterparty = Operator])
      BY <1>9, Zenon DEF Deliver, AttestedBody
    <3>3. \A x : [With(changed, "attestation", x) EXCEPT !.counterparty = Operator]
                   = With(plain, "attestation", x)
      BY <3>1
    <3>4. \/ Kept(plain)
          \/ Kept(With(plain, "attestation", Sig(plain)))
          \/ Kept(With(plain, "attestation", Sig(changed)))
      <4> HIDE DEF plain, changed, Sig, Kept
      <4> QED BY <3>2, <3>3, Zenon
    <3>5. \E over : Kept(With(plain, "attestation", [by |-> Operator, over |-> over])) \/ Kept(plain)
      <4> HIDE DEF plain, changed, Kept
      <4> QED BY <3>4, Zenon
    <3> QED BY <3>5, Zenon
  <2>2. /\ "shape" \in DOMAIN body /\ body.shape = "ok"
        /\ "agreement_ref" \notin DOMAIN body /\ "authority_ref" \notin DOMAIN body
        /\ "attestation" \in DOMAIN body => body.attestation = [by |-> Operator, over |-> over]
    BY <2>1 DEF With
  <2>3. Written(chain, "delivery.attestation", body, Nothing)
    BY <2>2 DEF Written, Refers
  <2> QED BY <2>1, <2>2, <2>3 DEF Issue
<1>10. CASE Settle(v)
  <2>1. PICK gated \in BOOLEAN, minor \in 1..2, currency \in {"eur", "usd"} :
          Add("settlement", v, Operator, 0,
              [shape |-> "ok", gated_on_delivery |-> gated,
               amount |-> [currency |-> currency, minor |-> minor]], Nothing)
    BY <1>10 DEF Settle
  <2> DEFINE body == [shape |-> "ok", gated_on_delivery |-> gated,
                      amount |-> [currency |-> currency, minor |-> minor]]
  <2>2. Written(chain, "settlement", body, Nothing)
    BY <2>1 DEF Written, Refers
  <2> QED BY <2>1, <2>2 DEF Issue
<1>11. CASE Terminate(v)
  <2>1. Written(chain, "task.termination", [shape |-> "ok"], Nothing)
    BY DEF Written, Refers
  <2> QED BY <1>11, <2>1 DEF Terminate, Issue
<1> QED BY <1>1, <1>3, <1>4, <1>5, <1>6, <1>7, <1>8, <1>9, <1>10, <1>11

-----------------------------------------------------------------------------
(* A chain with one receipt more *)

Grown(rs, new) ==
    /\ Len(rs) \in Nat /\ DOMAIN rs = 1..Len(rs)
    /\ Len(new) = Len(rs) + 1 /\ DOMAIN new = 1..(Len(rs) + 1)
    /\ \A i \in 1..Len(rs) : new[i] = rs[i]

\* Appending leaves every earlier place as it was.
LEMMA AppendGrows ==
  ASSUME NEW rs, NEW cs, Chains(rs, cs), NEW r, NEW c
  PROVE  /\ Grown(rs, Append(rs, r)) /\ Append(rs, r)[Len(rs) + 1] = r
         /\ Grown(cs, Append(cs, c)) /\ Append(cs, c)[Len(cs) + 1] = c
         /\ \E S : Append(rs, r) \in Seq(S)
         /\ \E T : Append(cs, c) \in Seq(T)
<1>1. ASSUME NEW s, NEW x, \E S : s \in Seq(S)
      PROVE  Grown(s, Append(s, x)) /\ Append(s, x)[Len(s) + 1] = x /\ \E S : Append(s, x) \in Seq(S)
  <2>1. PICK S : s \in Seq(S)
    BY <1>1
  <2> DEFINE W == S \cup {x}
  <2>2. s \in Seq(W) /\ x \in W
    BY <2>1
  <2> HIDE DEF W
  <2>3. Append(s, x) \in Seq(W) /\ Len(Append(s, x)) = Len(s) + 1
        /\ \A i \in 1..Len(s) : Append(s, x)[i] = s[i]
        /\ Append(s, x)[Len(s) + 1] = x
    BY <2>2, AppendProperties
  <2>4. Len(s) \in Nat /\ DOMAIN s = 1..Len(s) /\ DOMAIN Append(s, x) = 1..(Len(s) + 1)
    BY <2>2, <2>3
  <2> QED BY <2>3, <2>4 DEF Grown
<1> QED BY <1>1 DEF Chains

\* What TaskChain.add makes of its arguments.
LEMMA ReceiptIsLinked ==
  ASSUME NEW rs, NEW spec, NEW type, NEW key, NEW at, NEW body
  PROVE  LET r == NextReceipt(rs, Len(rs), "task", spec, type, key, at, body) IN
         /\ DOMAIN r = Fields
         /\ r.id = Len(rs) /\ r.seq = Len(rs) /\ r.task = "task" /\ r.hidden = <<>>
         /\ r.prev = IF rs = <<>> THEN None ELSE Digest(rs[Len(rs)])
         /\ r.spec = spec /\ r.type = type /\ r.issuer = key /\ r.at = at /\ r.body = body
         /\ r.sig = [by |-> key, over |-> Unsigned(r)]
<1> DEFINE prev == IF rs = <<>> THEN None ELSE Digest(rs[Len(rs)])
           e == NewEnvelope(Len(rs), "task", spec, type, key, at, Len(rs), prev, body)
           r == [e EXCEPT !.sig = [by |-> key, over |-> Unsigned(e)]]
<1>1. NextReceipt(rs, Len(rs), "task", spec, type, key, at, body) = r
  BY DEF NextReceipt, Sign
<1>2. /\ DOMAIN e = Fields
      /\ e.id = Len(rs) /\ e.seq = Len(rs) /\ e.task = "task" /\ e.hidden = <<>> /\ e.prev = prev
      /\ e.spec = spec /\ e.type = type /\ e.issuer = key /\ e.at = at /\ e.body = body
  BY DEF NewEnvelope, Fields
<1> HIDE DEF e, prev
<1>3. DOMAIN r = DOMAIN e /\ \A x \in DOMAIN e \ {"sig"} : r[x] = e[x]
  OBVIOUS
<1>4. Unsigned(r) = Unsigned(e)
  BY <1>3 DEF Unsigned
<1>5. r.sig = [by |-> key, over |-> Unsigned(e)]
  BY <1>2 DEF Fields
<1> HIDE DEF r
<1>6. /\ r.id = e.id /\ r.seq = e.seq /\ r.task = e.task /\ r.hidden = e.hidden /\ r.prev = e.prev
      /\ r.spec = e.spec /\ r.type = e.type /\ r.issuer = e.issuer /\ r.at = e.at /\ r.body = e.body
  BY <1>2, <1>3 DEF Fields
<1> QED BY <1>1, <1>2, <1>3, <1>4, <1>5, <1>6 DEF prev

\* What is linked stays linked, and what is written keeps referring to the same.
LEMMA GrownKeeps ==
  ASSUME NEW rs, NEW new, Grown(rs, new)
  PROVE  /\ \A i \in DOMAIN rs : i \in DOMAIN new /\ new[i] = rs[i]
         /\ \A type : Indexes(rs, type) \subseteq Indexes(new, type)
         /\ \A i \in DOMAIN rs : Linked(rs, i) => Linked(new, i)
         /\ \A type, body, about : Written(rs, type, body, about) => Written(new, type, body, about)
<1>1. \A i \in DOMAIN rs : i \in DOMAIN new /\ new[i] = rs[i]
  BY DEF Grown
<1>2. \A type : Indexes(rs, type) \subseteq Indexes(new, type)
  BY <1>1 DEF Indexes
<1>3. \A i \in DOMAIN rs : Linked(rs, i) => Linked(new, i)
  <2> TAKE i \in DOMAIN rs
  <2>1. i # 1 => i - 1 \in DOMAIN rs
    BY DEF Grown
  <2>2. new[i] = rs[i] /\ (i # 1 => new[i - 1] = rs[i - 1])
    BY <1>1, <2>1
  <2> QED BY <2>2 DEF Linked
<1>4. ASSUME NEW body, NEW field, NEW type, NEW place, Refers(rs, body, field, type, place)
      PROVE  Refers(new, body, field, type, place)
  <2>1. \A x \in Indexes(rs, type) : new[x] = rs[x]
    BY <1>1 DEF Indexes
  <2> QED BY <1>2, <1>4, <2>1 DEF Refers
<1>5. ASSUME NEW type, NEW body, NEW about, Written(rs, type, body, about)
      PROVE  Written(new, type, body, about)
  <2>1. \A x \in Indexes(rs, "agreement.offer") : new[x] = rs[x]
    BY <1>1 DEF Indexes
  <2> QED BY <1>2, <1>4, <1>5, <2>1 DEF Written
<1> QED BY <1>1, <1>2, <1>3, <1>5

\* Every chain the task's parties issue is linked, its bodies are written as the history
\* says, and the recorded result is the verifier's.
THEOREM HistoryInductive == Spec => []IInv
<1>1. Init => IInv
  <2> SUFFICES ASSUME Init PROVE IInv
    OBVIOUS
  <2>1. chain = <<>> /\ cites = <<>>
    BY DEF Init
  <2>2. Chains(chain, cites)
    <3>1. <<>> \in Seq({})
      OBVIOUS
    <3> QED BY <2>1, <3>1 DEF Chains
  <2> QED BY <2>1, <2>2 DEF Init, IInv
<1>2. IInv /\ [Next]_vars => IInv'
  <2> SUFFICES ASSUME IInv, [Next]_vars PROVE IInv'
    OBVIOUS
  <2>1. CASE UNCHANGED vars
    BY <2>1 DEF vars, IInv, Chains
  <2>2. CASE Next
    <3>1. PICK type, v, key, at, body, about : Issue(type, v, key, at, body, about)
      BY <2>2, NextIssues DEF IInv
    <3> DEFINE r == NextReceipt(chain, Len(chain), "task", v, type, key, at, body)
               n == Len(chain) + 1
    <3>2. /\ chain' = Append(chain, r) /\ cites' = Append(cites, about)
          /\ result' = VerifyBundle(BundleOf(chain', "task", 6), {}, FALSE)
          /\ BodyValid(type, v, body) /\ Room(type, v)
      BY <3>1 DEF Issue, Add
    <3>3. /\ DOMAIN r = Fields
          /\ r.id = Len(chain) /\ r.seq = Len(chain) /\ r.task = "task" /\ r.hidden = <<>>
          /\ r.prev = IF chain = <<>> THEN None ELSE Digest(chain[Len(chain)])
          /\ r.spec = v /\ r.type = type /\ r.issuer = key /\ r.at = at /\ r.body = body
          /\ r.sig = [by |-> key, over |-> Unsigned(r)]
      BY ReceiptIsLinked
    <3> HIDE DEF r
    <3>4. /\ Grown(chain, chain') /\ chain'[n] = r
          /\ Grown(cites, cites') /\ cites'[n] = about
          /\ \E S : chain' \in Seq(S)
          /\ \E T : cites' \in Seq(T)
          /\ Len(chain) = Len(cites)
      BY <3>2, AppendGrows DEF IInv, Chains
    <3>5. chain = <<>> <=> n = 1
      <4>1. PICK S : chain \in Seq(S)
        BY DEF IInv, Chains
      <4> QED BY <4>1, EmptySeq DEF Grown
    <3>6. Chains(chain, cites)'
      <4>1. Len(chain) < MaxLen
        <5>1. Len(chain) < 2 \/ Len(chain) < MaxLen
          BY <3>2 DEF Room
        <5> QED BY <3>4, <5>1 DEF Grown
      <4>2. Len(chain') <= MaxLen /\ Len(cites') = Len(chain')
        BY <3>4, <4>1 DEF Grown
      <4> QED BY <3>4, <4>2 DEF Chains
    <3>7. Linked(chain', n)
      <4>1. n # 1 => chain'[n - 1] = chain[Len(chain)]
        BY <3>4 DEF Grown
      <4>2. n - 1 = Len(chain)
        BY <3>4 DEF Grown
      <4> HIDE DEF n
      <4> QED BY <3>1, <3>2, <3>3, <3>4, <3>5, <4>1, <4>2 DEF Linked, Issue
    <3>8. Written(chain', chain'[n].type, chain'[n].body, cites'[n])
      BY <3>1, <3>3, <3>4, GrownKeeps DEF Issue
    <3>9. \A i \in DOMAIN chain' : i \in DOMAIN chain \/ i = n
      BY <3>4 DEF Grown
    <3>10. \A i \in DOMAIN chain : chain'[i] = chain[i] /\ cites'[i] = cites[i]
      BY <3>4 DEF Grown
    <3>11. \A i \in DOMAIN chain' : Linked(chain', i)
      BY <3>4, <3>7, <3>9, GrownKeeps DEF IInv
    <3>12. \A i \in DOMAIN chain' : Written(chain', chain'[i].type, chain'[i].body, cites'[i])
      <4>1. \A i \in DOMAIN chain : Written(chain', chain[i].type, chain[i].body, cites[i])
        BY <3>4, GrownKeeps DEF IInv
      <4> QED BY <3>8, <3>9, <3>10, <4>1
    <3> QED BY <3>2, <3>6, <3>11, <3>12 DEF IInv
  <2> QED BY <2>1, <2>2
<1> QED BY <1>1, <1>2, PTL DEF Spec

-----------------------------------------------------------------------------
(* Revocations *)

\* Without a statement nothing is revoked.
LEMMA NoStatements ==
  ASSUME NEW rs
  PROVE  RevocationErrors(BundleOf(rs, "task", 6), {}) = {}
<1> DEFINE b == BundleOf(rs, "task", 6)
<1>1. b.revocations = {} /\ b.malformed = {}
  BY DEF BundleOf
<1> HIDE DEF b
<1>2. MergeStatements(b, {}) = {}
  BY <1>1 DEF MergeStatements
<1>3. RevocationErrors(b, {}) = {}
  BY <1>1, <1>2 DEF RevocationErrors, When
<1> QED BY <1>3 DEF b

\* One well-signed statement revokes what its key signed from then on.
LEMMA OneStatement ==
  ASSUME NEW rs, \A i \in DOMAIN rs : rs[i].at \in Nat, NEW key, NEW t \in Nat
  PROVE  RevocationErrors(BundleOf(rs, "task", 6), {Revoke(key, t)}) =
           IF \E i \in DOMAIN rs : rs[i].issuer = key /\ rs[i].at >= t THEN {"key_revoked"} ELSE {}
<1> DEFINE b == BundleOf(rs, "task", 6)
           s == Revoke(key, t)
           valid == {x \in {s} : StatementVerifies(x)}
<1>1. b.revocations = {} /\ b.malformed = {} /\ b.receipts = rs
  BY DEF BundleOf
<1>2. s.key = key /\ s.at = t /\ s.sig = [by |-> key, over |-> <<key, t>>]
  BY DEF Revoke
<1> HIDE DEF b, s
<1>3. MergeStatements(b, {s}) = {s}
  BY <1>1 DEF MergeStatements
<1>4. valid = {s}
  BY <1>2 DEF StatementVerifies, ValidTime
<1>5. RevocationErrors(b, {s}) =
        When({s} # {s}, "bad_revocation")
        \cup When(\E i \in DOMAIN rs, x \in {s} :
                    x.key = rs[i].issuer /\ ValidTime(rs[i].at) /\ RevokedBy(rs[i], x), "key_revoked")
  BY <1>1, <1>3, <1>4 DEF RevocationErrors
<1>6. (\E i \in DOMAIN rs, x \in {s} :
         x.key = rs[i].issuer /\ ValidTime(rs[i].at) /\ RevokedBy(rs[i], x))
        <=> \E i \in DOMAIN rs : rs[i].issuer = key /\ rs[i].at >= t
  BY <1>2 DEF ValidTime, RevokedBy
<1> QED BY <1>5, <1>6 DEF When, b, s

\* A list that can be read adds its statements; one that cannot be read is why.
LEMMA TwoLists ==
  ASSUME NEW revoked, NEW lost, LoadError(lost) # None
  PROVE  /\ Unusable(<<Listed({}), Listed(revoked)>>) = None
         /\ External(<<Listed({}), Listed(revoked)>>) = revoked
         /\ Unusable(<<Listed({}), lost>>) = LoadError(lost)
<1> DEFINE one == <<Listed({}), Listed(revoked)>>
           two == <<Listed({}), lost>>
<1>1. \A st : LoadError(Listed(st)) = None /\ Listed(st).statements = st
  BY DEF LoadError, Listed
<1>2. DOMAIN one = {1, 2} /\ one[1] = Listed({}) /\ one[2] = Listed(revoked)
      /\ DOMAIN two = {1, 2} /\ two[1] = Listed({}) /\ two[2] = lost
  OBVIOUS
<1> HIDE DEF one, two
<1>3. Unusable(one) = None
  BY <1>1, <1>2 DEF Unusable
<1>4. External(one) = revoked
  BY <1>1, <1>2 DEF External
<1>5. {i \in DOMAIN two : LoadError(two[i]) # None} = {2}
  BY <1>1, <1>2
<1>6. Least({2}) = 2
  BY DEF Least
<1>7. Unusable(two) = LoadError(lost)
  BY <1>2, <1>5, <1>6 DEF Unusable
<1> QED BY <1>3, <1>4, <1>7 DEF one, two

\* UNTRUSTED means that there is an error.
LEMMA VerdictOfErrors ==
  ASSUME NEW errors, NEW i, NEW p
  PROVE  /\ Result(errors, i, p).verdict = "UNTRUSTED" <=> errors # {}
         /\ Result(errors, i, p).errors = errors
BY DEF Result, Verdict

\* A revocation takes away exactly what its key signed from then on.
THEOREM RevocationsAreExact ==
  ASSUME None \notin {"revocations_insecure_url", "revocations_unreachable",
                      "revocations_too_large", "bad_revocations_document"}
  PROVE  Spec => []RevocationIsExact
<1> DEFINE b == BundleOf(chain, "task", 6)
<1>1. IInv => RevocationIsExact
  <2> SUFFICES ASSUME IInv, chain # <<>>, result.verdict # "UNTRUSTED", NEW key \in Parties, NEW t \in Times
        PROVE
        LET revoked == {Revoke(key, t)}
            told == VerifyMain("ok", b, <<Listed({}), Listed(revoked)>>, FALSE)
            inside == VerifyBundle([b EXCEPT !.revocations = revoked], {}, FALSE)
            Lacking(lost) == VerifyMain("ok", b, <<Listed({}), lost>>, FALSE)
        IN /\ told.result = inside
           /\ IF \E i \in DOMAIN chain : By(i) = key /\ At(i) >= t
              THEN inside.verdict = "UNTRUSTED" ELSE inside = result
           /\ told.exit = 0 <=> inside.verdict = "TRUSTED"
           /\ \A lost \in {[Listed(revoked) EXCEPT !.plain = TRUE], [Listed({}) EXCEPT !.answers = FALSE],
                            [Listed({}) EXCEPT !.long = TRUE], [Listed({}) EXCEPT !.list = FALSE]} :
                Lacking(lost).exit # 0 /\ Lacking(lost).result.verdict = "INSUFFICIENT_EVIDENCE"
    BY DEF RevocationIsExact
  <2> DEFINE revoked == {Revoke(key, t)}
             told == VerifyMain("ok", b, <<Listed({}), Listed(revoked)>>, FALSE)
             c == [b EXCEPT !.revocations = revoked]
             inside == VerifyBundle(c, {}, FALSE)
             Lacking(lost) == VerifyMain("ok", b, <<Listed({}), lost>>, FALSE)
             Lost == {[Listed(revoked) EXCEPT !.plain = TRUE], [Listed({}) EXCEPT !.answers = FALSE],
                      [Listed({}) EXCEPT !.long = TRUE], [Listed({}) EXCEPT !.list = FALSE]}
             signed == \E i \in DOMAIN chain : By(i) = key /\ At(i) >= t
             first == OtherErrors(b)
  <2>1. b.malformed = {} /\ b.spec \in Specs /\ b.receipts = chain
        /\ c.malformed = {} /\ c.spec \in Specs /\ c.receipts = chain
    BY DEF BundleOf, Specs
  <2>2. /\ VerifyBundle(b, revoked, FALSE) =
             Result(first \cup RevocationErrors(b, revoked), Lacks(b), Doubts(b))
        /\ result = Result(first \cup RevocationErrors(b, {}), Lacks(b), Doubts(b))
        /\ inside = Result(OtherErrors(c) \cup RevocationErrors(c, {}), Lacks(c), Doubts(c))
    <3> HIDE DEF b, c
    <3> QED BY <2>1, VerifyParts DEF IInv, b
  <2>3. inside = VerifyBundle(b, revoked, FALSE)
    BY <2>2, StatementsApart
  <2>4. /\ RevocationErrors(b, {}) = {}
        /\ RevocationErrors(b, revoked) = IF signed THEN {"key_revoked"} ELSE {}
    <3>1. \A i \in DOMAIN chain : chain[i].at \in Nat
      BY DEF IInv, Linked
    <3>2. t \in Nat
      BY DEF Times
    <3> QED BY <3>1, <3>2, NoStatements, OneStatement DEF By, At
  <2> HIDE DEF first, b, c, revoked
  <2>5. IF signed THEN inside.verdict = "UNTRUSTED" ELSE inside = result
    <3> HIDE DEF signed, inside
    <3>1. CASE signed
      <4>1. inside = Result(first \cup {"key_revoked"}, Lacks(b), Doubts(b))
        BY <2>2, <2>3, <2>4, <3>1
      <4>2. first \cup {"key_revoked"} # {}
        OBVIOUS
      <4> QED BY <3>1, <4>1, <4>2, VerdictOfErrors
    <3>2. CASE ~signed
      BY <2>2, <2>3, <2>4, <3>2
    <3> QED BY <3>1, <3>2
  <2>6. \A lost \in Lost : LoadError(lost) # None
    BY DEF LoadError, Listed
  <2>7. told = [exit |-> IF inside.verdict = "TRUSTED" THEN 0 ELSE 1, result |-> inside]
    <3> DEFINE lists == <<Listed({}), Listed(revoked)>>
    <3>1. Unusable(lists) = None /\ External(lists) = revoked
      <4>1. [Listed({}) EXCEPT !.list = FALSE] \in Lost
        OBVIOUS
      <4> QED BY <2>6, <4>1, TwoLists
    <3> HIDE DEF lists, inside
    <3>2. VerifyMain("ok", b, lists, FALSE) =
            [exit |-> IF inside.verdict = "TRUSTED" THEN 0 ELSE 1, result |-> inside]
      BY <2>3, <3>1 DEF VerifyMain
    <3> QED BY <3>2 DEF lists
  <2>8. ASSUME NEW lost \in Lost
        PROVE  Lacking(lost).exit # 0 /\ Lacking(lost).result.verdict = "INSUFFICIENT_EVIDENCE"
    <3> DEFINE lists == <<Listed({}), lost>>
    <3>1. Unusable(lists) # None
      BY <2>6, TwoLists
    <3> HIDE DEF lists
    <3> DEFINE none == [Result({}, {}, {}) EXCEPT !.verdict = "INSUFFICIENT_EVIDENCE",
                                                  !.errors = {Unusable(lists)}]
               answer == VerifyMain("ok", b, lists, FALSE)
    <3>2. answer = [exit |-> 1, result |-> none]
      BY <3>1 DEF VerifyMain
    <3>3. none.verdict = "INSUFFICIENT_EVIDENCE"
      BY DEF Result
    <3> HIDE DEF none, answer
    <3>4. answer.exit # 0 /\ answer.result.verdict = "INSUFFICIENT_EVIDENCE"
      BY <3>2, <3>3
    <3> QED BY <3>4 DEF lists, answer
  <2> HIDE DEF inside, Lost, signed, told
  <2>9. told.result = inside /\ (told.exit = 0 <=> inside.verdict = "TRUSTED")
    <3>1. told.result = inside
      BY <2>7
    <3>2. told.exit = IF inside.verdict = "TRUSTED" THEN 0 ELSE 1
      BY <2>7
    <3> QED BY <3>1, <3>2
  <2> QED BY <2>5, <2>8, <2>9 DEF told, inside, Lost, signed, c, revoked
<1> QED BY <1>1, HistoryInductive, PTL

-----------------------------------------------------------------------------
(* What is wrong stays wrong *)

\* A nonempty set of numbers has a least element, which the model's operator yields.
LEMMA HasLeast ==
  ASSUME NEW S, S \subseteq Nat, S # {}
  PROVE  Least(S) \in S /\ \A y \in S : Least(S) <= y
<1> DEFINE Below == OpToRel(<, Nat)
<1>1. PICK x \in S : \A y \in S : <<y, x>> \notin Below
  BY NatLessThanWellFounded, WFMin
<1>2. \A y \in S : y < x => <<y, x>> \in Below
  BY DEF OpToRel
<1> HIDE DEF Below
<1>3. \A y \in S : ~(y < x)
  BY <1>1, <1>2
<1>4. \A y \in S : x <= y
  BY <1>3
<1> QED BY <1>4 DEF Least

\* The ids of a chain are its places, so a digest is of one receipt at most.
Placed(rs) == \A i \in DOMAIN rs : "id" \in DOMAIN rs[i] /\ rs[i].id = i - 1

\* Receipts at different places have different digests.
LEMMA DigestsDiffer ==
  ASSUME NEW rs, DOMAIN rs \subseteq Nat, Placed(rs), NEW i \in DOMAIN rs, NEW j \in DOMAIN rs,
         Encodable(rs[i]), Encodable(rs[j]), Digest(rs[i]) = Digest(rs[j])
  PROVE  i = j
<1>1. Unsigned(rs[i]) = Unsigned(rs[j])
  BY DEF Digest
<1>2. Unsigned(rs[i])["id"] = i - 1 /\ Unsigned(rs[j])["id"] = j - 1
  BY DEF Placed, Unsigned
<1>3. i - 1 = j - 1
  BY <1>1, <1>2
<1> QED BY <1>3

\* A reference that found a record finds the same one ever after.
LEMMA ResolveStays ==
  ASSUME NEW rs, NEW new, Grown(rs, new), Placed(new), NEW type, NEW ref,
         Resolve(rs, type, ref) # None
  PROVE  Resolve(new, type, ref) = Resolve(rs, type, ref)
<1> DEFINE Found(c) == {r \in OfType(c, type) : Encodable(r) /\ Digest(r) = ref}
<1>1. \A c : Resolve(c, type, ref) =
               IF ref = None \/ Found(c) = {} THEN None ELSE CHOOSE r \in Found(c) : TRUE
  BY DEF Resolve
<1>2. ref # None /\ Found(rs) # {}
  BY <1>1
<1>3. PICK i \in Indexes(rs, type) : Encodable(rs[i]) /\ Digest(rs[i]) = ref
  BY <1>2 DEF OfType
<1>4. /\ DOMAIN rs \subseteq DOMAIN new /\ DOMAIN new \subseteq Nat
      /\ \A x \in DOMAIN rs : new[x] = rs[x]
  BY DEF Grown
<1>5. ASSUME NEW r \in Found(new) PROVE r \in Found(rs)
  <2>1. PICK j \in Indexes(new, type) : r = new[j]
    BY <1>5 DEF OfType
  <2>2. i \in DOMAIN new /\ j \in DOMAIN new /\ new[i] = rs[i]
    BY <1>3, <1>4, <2>1 DEF Indexes
  <2>3. i = j
    BY <1>3, <1>4, <1>5, <2>1, <2>2, DigestsDiffer
  <2> QED BY <1>3, <2>1, <2>2, <2>3 DEF OfType
<1>6. ASSUME NEW r \in Found(rs) PROVE r \in Found(new)
  <2>1. PICK j \in Indexes(rs, type) : r = rs[j]
    BY <1>6 DEF OfType
  <2>2. j \in Indexes(new, type) /\ new[j] = r
    BY <1>4, <2>1 DEF Indexes
  <2> QED BY <1>6, <2>2 DEF OfType
<1>7. Found(new) = Found(rs)
  BY <1>5, <1>6
<1> HIDE DEF Found
<1> QED BY <1>1, <1>7

\* So does the session: the first record of its type.
LEMMA LeastStays ==
  ASSUME NEW rs, NEW new, Grown(rs, new), NEW type, Indexes(rs, type) # {}
  PROVE  /\ Least(Indexes(new, type)) = Least(Indexes(rs, type))
         /\ Least(Indexes(rs, type)) \in DOMAIN rs
<1> DEFINE old == Indexes(rs, type)
           all == Indexes(new, type)
<1>1. /\ old \subseteq DOMAIN rs /\ old \subseteq all
      /\ \A x \in all : x \in old \/ x = Len(rs) + 1
      /\ all \subseteq Nat /\ old \subseteq 1..Len(rs) /\ Len(rs) \in Nat
  BY DEF Grown, Indexes
<1> HIDE DEF old, all
<1>2. /\ Least(old) \in old /\ \A y \in old : Least(old) <= y
      /\ Least(all) \in all /\ \A y \in all : Least(all) <= y
  BY <1>1, HasLeast DEF old
<1>3. Least(all) <= Least(old) /\ Least(old) <= Least(all)
  <2> DEFINE o == Least(old)
             a == Least(all)
  <2>1. o \in old /\ a \in all /\ a <= o /\ (a \in old => o <= a)
    BY <1>1, <1>2
  <2> HIDE DEF o, a
  <2>2. o \in Nat /\ a \in Nat /\ o <= Len(rs) /\ (a \notin old => a = Len(rs) + 1)
    BY <1>1, <2>1
  <2>3. a <= o /\ o <= a
    BY <1>1, <2>1, <2>2
  <2> QED BY <2>3 DEF o, a
<1>4. Least(all) \in Nat /\ Least(old) \in Nat
  BY <1>1, <1>2
<1> QED BY <1>1, <1>2, <1>3, <1>4 DEF old, all

Final(errors) == errors \ {"missing_termination", "malformed"}

\* What a receipt's envelope shows does not change as the chain grows.
LEMMA EnvelopesStay ==
  ASSUME NEW rs, NEW new, Grown(rs, new), NEW i \in DOMAIN rs
  PROVE  EnvelopeErrors(BundleOf(new, "task", 6), i) = EnvelopeErrors(BundleOf(rs, "task", 6), i)
<1>1. new[i] = rs[i] /\ \A j \in 1..(i - 1) : new[j] = rs[j]
  BY DEF Grown
<1>2. ExpectedPrev(new, i) = ExpectedPrev(rs, i)
  <2> DEFINE before(c) == {j \in 1..(i - 1) : KnownType(c[j].type, c[j].spec)}
  <2>1. before(new) = before(rs)
    BY <1>1
  <2>2. ASSUME before(rs) # {} PROVE Greatest(before(rs)) \in 1..(i - 1)
    <3>1. before(rs) \subseteq 1..(i - 1) /\ i \in Nat
      BY DEF Grown
    <3> DEFINE S == {i - j : j \in before(rs)}
    <3>2. S \subseteq Nat /\ S # {}
      BY <2>2, <3>1
    <3>3. Least(S) \in S /\ \A y \in S : Least(S) <= y
      BY <3>2, HasLeast
    <3>4. PICK m \in before(rs) : \A j \in before(rs) : i - m <= i - j
      BY <3>3
    <3>5. \A j \in before(rs) : m >= j
      BY <3>1, <3>4
    <3> HIDE DEF before
    <3> QED BY <3>1, <3>5 DEF Greatest
  <2>3. \A c : ExpectedPrev(c, i) = IF before(c) = {} THEN None ELSE Digest(c[Greatest(before(c))])
    BY DEF ExpectedPrev
  <2> HIDE DEF before
  <2> QED BY <1>1, <2>1, <2>2, <2>3
<1>3. LinkErrors(new, i) = LinkErrors(rs, i)
  BY <1>1, <1>2 DEF LinkErrors
<1> DEFINE b == BundleOf(rs, "task", 6)
           c == BundleOf(new, "task", 6)
<1>4. b.receipts = rs /\ c.receipts = new /\ b.task = "task" /\ c.task = "task"
  BY DEF BundleOf
<1> HIDE DEF b, c
<1>5. EnvelopeErrors(c, i) = EnvelopeErrors(b, i)
  BY <1>1, <1>3, <1>4 DEF EnvelopeErrors
<1> QED BY <1>5 DEF b, c

\* Errors between records stay as the chain grows, but for those a later record can
\* mend.
LEMMA CrossRecordStays ==
  ASSUME NEW rs, NEW new, Grown(rs, new)
  PROVE  Final(CrossRecordErrors(rs)) \subseteq CrossRecordErrors(new)
<1> DEFINE passes(c) == Indexes(c, "session.pass.created")
           pass(c) == c[Least(passes(c))]
           Policy(c) == \E r \in OfType(c, "task.decision") :
                          Get(r, "policy_version") # Get(pass(c), "policy_version")
           Cap(c) == \E r \in OfType(c, "settlement") :
                       /\ CapOf(pass(c)) # None
                       /\ \/ Get(r, "amount").currency # CapOf(pass(c)).currency
                          \/ Get(r, "amount").minor > CapOf(pass(c)).minor
           Early(c) == \E i \in Indexes(c, "settlement") :
                         Get(c[i], "gated_on_delivery") = TRUE /\ ~DeliveredBefore(c, i)
           Open(c) == Indexes(c, "task.termination") = {}
<1>1. \A c : CrossRecordErrors(c) =
               IF passes(c) = {} THEN {"malformed"} ELSE
               When(Policy(c), "policy_mismatch") \cup When(Cap(c), "cap_exceeded")
               \cup When(Early(c), "delivery_before_settlement") \cup When(Open(c), "missing_termination")
  BY DEF CrossRecordErrors
<1>2. CASE passes(rs) = {}
  <2> HIDE DEF passes, pass, Policy, Cap, Early, Open
  <2> QED BY <1>1, <1>2 DEF Final
<1>3. CASE passes(rs) # {}
  <2>1. /\ \A i \in DOMAIN rs : i \in DOMAIN new /\ new[i] = rs[i]
        /\ \A type : Indexes(rs, type) \subseteq Indexes(new, type)
    BY GrownKeeps
  <2>2. \A type : OfType(rs, type) \subseteq OfType(new, type)
    BY <2>1 DEF OfType, Indexes
  <2>3. pass(new) = pass(rs) /\ passes(new) # {}
    BY <1>3, <2>1, LeastStays
  <2>4. Policy(rs) => Policy(new)
    <3> HIDE DEF pass
    <3> QED BY <2>2, <2>3
  <2>5. Cap(rs) => Cap(new)
    <3> HIDE DEF pass
    <3> QED BY <2>2, <2>3
  <2>6. \A i \in DOMAIN rs : DeliveredBefore(new, i) => DeliveredBefore(rs, i)
    BY DEF Grown, DeliveredBefore, Indexes
  <2>7. Early(rs) => Early(new)
    <3> SUFFICES ASSUME NEW i \in Indexes(rs, "settlement"),
                        Get(rs[i], "gated_on_delivery") = TRUE, ~DeliveredBefore(rs, i)
                 PROVE  Early(new)
      OBVIOUS
    <3>1. i \in DOMAIN rs /\ i \in Indexes(new, "settlement") /\ new[i] = rs[i]
      BY <2>1 DEF Indexes
    <3>2. ~DeliveredBefore(new, i)
      BY <2>6, <3>1
    <3> QED BY <3>1, <3>2
  <2> HIDE DEF passes, pass, Policy, Cap, Early, Open
  <2> QED BY <1>1, <1>3, <2>3, <2>4, <2>5, <2>7 DEF Final, When
<1> QED BY <1>2, <1>3

\* Errors in agreements and authorities stay as the chain grows.
LEMMA AgreementStays ==
  ASSUME NEW rs, NEW new, Grown(rs, new), Placed(new)
  PROVE  /\ AgreementErrors(rs) \subseteq AgreementErrors(new)
         /\ AuthorityErrors(rs) \subseteq AuthorityErrors(new)
<1> DEFINE Accepts(c) == {x \in OfType(c, "agreement.accept") : OfferOf(c, x) # None}
           Agreed(c) == {x \in Bound(c, 4) : AcceptOf(c, x) # None}
           Granted(c) == {x \in Bound(c, 6) : GrantOf(c, x) # None}
           Accept_(c, a) == AcceptErrors(a, OfferOf(c, a))
           Agree_(c, r) == LET a == AcceptOf(c, r) IN
             When(Earlier(r.at, a.at), "agreement_before_accept")
             \cup When(Get(a, "offeree") \notin {None, r.issuer}, "agreement_issuer_mismatch")
           Grant_(c, r) == LET g == GrantOf(c, r) IN
             When(Earlier(r.at, Effective(g)), "authority_before_grant")
             \cup When(Get(g, "agent") \notin {None, r.issuer}, "authority_agent_mismatch")
             \cup When(Earlier(GetTime(g, "expires_at"), r.at), "authority_expired")
<1>1. /\ \A i \in DOMAIN rs : i \in DOMAIN new /\ new[i] = rs[i]
      /\ \A type : Indexes(rs, type) \subseteq Indexes(new, type)
  BY GrownKeeps
<1>2. \A type : OfType(rs, type) \subseteq OfType(new, type)
  BY <1>1 DEF OfType, Indexes
<1>3. \A v : Bound(rs, v) \subseteq Bound(new, v)
  BY <1>1 DEF Bound
<1>4. \A x \in Accepts(rs) : x \in Accepts(new) /\ OfferOf(new, x) = OfferOf(rs, x)
  <2> TAKE x \in Accepts(rs)
  <2>1. OfferOf(new, x) = OfferOf(rs, x)
    BY ResolveStays DEF OfferOf
  <2> QED BY <1>2, <2>1
<1>5. \A x \in Agreed(rs) : x \in Agreed(new) /\ AcceptOf(new, x) = AcceptOf(rs, x)
  <2> TAKE x \in Agreed(rs)
  <2>1. AcceptOf(new, x) = AcceptOf(rs, x)
    BY ResolveStays DEF AcceptOf
  <2> QED BY <1>3, <2>1
<1>6. \A x \in Granted(rs) : x \in Granted(new) /\ GrantOf(new, x) = GrantOf(rs, x)
  <2> TAKE x \in Granted(rs)
  <2>1. GrantOf(new, x) = GrantOf(rs, x)
    BY ResolveStays DEF GrantOf
  <2> QED BY <1>3, <2>1
<1>7. \A c : /\ AgreementErrors(c) = (UNION {Accept_(c, a) : a \in Accepts(c)})
                                      \cup (UNION {Agree_(c, r) : r \in Agreed(c)})
             /\ AuthorityErrors(c) = UNION {Grant_(c, r) : r \in Granted(c)}
  BY DEF AgreementErrors, AuthorityErrors
<1>8. /\ \A x \in Accepts(rs) : Accept_(new, x) = Accept_(rs, x)
      /\ \A x \in Agreed(rs) : Agree_(new, x) = Agree_(rs, x)
      /\ \A x \in Granted(rs) : Grant_(new, x) = Grant_(rs, x)
  BY <1>4, <1>5, <1>6
<1> HIDE DEF Accepts, Agreed, Granted, Accept_, Agree_, Grant_
<1>9. (UNION {Accept_(rs, a) : a \in Accepts(rs)}) \subseteq (UNION {Accept_(new, a) : a \in Accepts(new)})
  BY <1>4, <1>8
<1>10. (UNION {Agree_(rs, a) : a \in Agreed(rs)}) \subseteq (UNION {Agree_(new, a) : a \in Agreed(new)})
  BY <1>5, <1>8
<1>11. (UNION {Grant_(rs, a) : a \in Granted(rs)}) \subseteq (UNION {Grant_(new, a) : a \in Granted(new)})
  BY <1>6, <1>8
<1> QED BY <1>7, <1>9, <1>10, <1>11

\* Errors in single bodies stay as the chain grows.
LEMMA BodiesStay ==
  ASSUME NEW rs, NEW new, Grown(rs, new)
  PROVE  /\ AttestationErrors(rs) \subseteq AttestationErrors(new)
         /\ ProvenanceErrors(rs) \subseteq ProvenanceErrors(new)
<1>1. /\ \A i \in DOMAIN rs : i \in DOMAIN new /\ new[i] = rs[i]
      /\ \A type : Indexes(rs, type) \subseteq Indexes(new, type)
  BY GrownKeeps
<1>2. \A type : OfType(rs, type) \subseteq OfType(new, type)
  BY <1>1 DEF OfType, Indexes
<1> QED BY <1>2 DEF AttestationErrors, ProvenanceErrors, When

\* Nothing in a chain is redacted, and its bundle has no anchors and no head.
LEMMA PlainBundle ==
  ASSUME NEW rs, \A i \in DOMAIN rs : rs[i].hidden = <<>>
  PROVE  LET b == BundleOf(rs, "task", 6) IN
         /\ ShapeErrors(b) = {} /\ RedactionErrors(b) = {} /\ AnchorErrors(b) = {} /\ HeadErrors(b) = {}
         /\ Withheld(b) = {} /\ AnchorProvisional(b, FALSE) = {}
<1> DEFINE b == BundleOf(rs, "task", 6)
<1>1. b.receipts = rs /\ b.malformed = {} /\ b.head = None /\ b.anchors = {}
  BY DEF BundleOf
<1> HIDE DEF b
<1>2. Places(rs) = {}
  <2>1. \A i \in DOMAIN rs : DOMAIN rs[i].hidden = {}
    OBVIOUS
  <2> QED BY <2>1 DEF Places
<1>3. ShapeErrors(b) = {} /\ AnchorErrors(b) = {} /\ HeadErrors(b) = {} /\ AnchorProvisional(b, FALSE) = {}
  BY <1>1 DEF ShapeErrors, AnchorErrors, HeadErrors, AnchorProvisional, When
<1>4. RedactionErrors(b) = {} /\ Withheld(b) = {}
  BY <1>1, <1>2 DEF RedactionErrors, Withheld, When
<1> QED BY <1>3, <1>4 DEF b

\* The verdict on a chain, from the records alone.
ChainErrors(rs) ==
    (UNION {EnvelopeErrors(BundleOf(rs, "task", 6), i) : i \in DOMAIN rs})
      \cup CrossRecordErrors(rs) \cup AgreementErrors(rs) \cup AuthorityErrors(rs)
      \cup AttestationErrors(rs) \cup ProvenanceErrors(rs)

\* The verdict on the plain bundle of a chain, from the chain alone.
LEMMA VerdictOfChain ==
  ASSUME NEW rs, \A i \in DOMAIN rs : rs[i].hidden = <<>>, rs # <<>>
  PROVE  VerifyBundle(BundleOf(rs, "task", 6), {}, FALSE) =
           Result(ChainErrors(rs),
                  AgreementInsufficient(rs) \cup AuthorityInsufficient(rs),
                  AgreementProvisional(rs) \cup AuthorityProvisional(rs))
<1> DEFINE b == BundleOf(rs, "task", 6)
           envelopes == UNION {EnvelopeErrors(b, i) : i \in DOMAIN rs}
<1>1. b.receipts = rs /\ b.malformed = {} /\ b.spec \in Specs
  BY DEF BundleOf, Specs
<1>2. /\ ShapeErrors(b) = {} /\ RedactionErrors(b) = {} /\ AnchorErrors(b) = {} /\ HeadErrors(b) = {}
      /\ Withheld(b) = {} /\ AnchorProvisional(b, FALSE) = {} /\ RevocationErrors(b, {}) = {}
  BY PlainBundle, NoStatements
<1> HIDE DEF b
<1>3. VerifyBundle(b, {}, FALSE) =
        Result(OtherErrors(b) \cup RevocationErrors(b, {}), Lacks(b), Doubts(b))
  BY <1>1, VerifyParts
<1>4. OtherErrors(b) \cup RevocationErrors(b, {}) =
        envelopes \cup CrossRecordErrors(rs) \cup AgreementErrors(rs) \cup AuthorityErrors(rs)
          \cup AttestationErrors(rs) \cup ProvenanceErrors(rs)
  <2>1. OtherErrors(b) =
          ShapeErrors(b) \cup envelopes
            \cup CrossRecordErrors(rs) \cup AgreementErrors(rs)
            \cup AuthorityErrors(rs) \cup RedactionErrors(b)
            \cup AttestationErrors(rs) \cup ProvenanceErrors(rs)
            \cup AnchorErrors(b) \cup HeadErrors(b)
    BY <1>1 DEF OtherErrors
  <2> HIDE DEF envelopes
  <2> QED BY <1>2, <2>1
<1>5. /\ Lacks(b) = AgreementInsufficient(rs) \cup AuthorityInsufficient(rs)
      /\ Doubts(b) = AgreementProvisional(rs) \cup AuthorityProvisional(rs)
  BY <1>1, <1>2 DEF Lacks, Doubts, When
<1> QED BY <1>3, <1>4, <1>5 DEF b, envelopes, ChainErrors

\* No receipt that anybody appends takes an error back.
THEOREM ErrorsStay == Spec => ErrorsAreFinal
<1>1. IInv /\ IInv' /\ [Next]_vars /\ chain # <<>> => Final(result.errors) \subseteq result'.errors
  <2> SUFFICES ASSUME IInv, IInv', [Next]_vars, chain # <<>>
               PROVE  Final(result.errors) \subseteq result'.errors
    OBVIOUS
  <2>1. CASE UNCHANGED vars
    BY <2>1 DEF vars, Final
  <2>2. CASE Next
    <3> DEFINE b == BundleOf(chain, "task", 6)
               c == BundleOf(chain', "task", 6)
               Sealed(d, rs) == UNION {EnvelopeErrors(d, i) : i \in DOMAIN rs}
    <3>1. Grown(chain, chain')
      <4>1. PICK type, v, key, at, body, about : Issue(type, v, key, at, body, about)
        BY <2>2, NextIssues DEF IInv
      <4> QED BY <4>1, AppendGrows DEF IInv, Issue, Add
    <3>2. chain' # <<>>
      <4>1. PICK S : chain \in Seq(S)
        BY DEF IInv, Chains
      <4>2. Len(chain') # 0
        BY <3>1, <4>1 DEF Grown
      <4> QED BY <4>2
    <3>3. Placed(chain')
      BY ZenonT(40) DEF IInv, Linked, Fields, Placed
    <3>4. result.errors = ChainErrors(chain) /\ result'.errors = ChainErrors(chain')
      <4>1. \A i \in DOMAIN chain : chain[i].hidden = <<>>
        BY DEF IInv, Linked
      <4>2. \A i \in DOMAIN chain' : chain'[i].hidden = <<>>
        BY DEF IInv, Linked
      <4> DEFINE Summary(rs) ==
                   Result(ChainErrors(rs),
                          AgreementInsufficient(rs) \cup AuthorityInsufficient(rs),
                          AgreementProvisional(rs) \cup AuthorityProvisional(rs))
      <4>3. VerifyBundle(BundleOf(chain, "task", 6), {}, FALSE) = Summary(chain)
        BY <4>1, VerdictOfChain
      <4>4. VerifyBundle(BundleOf(chain', "task", 6), {}, FALSE) = Summary(chain')
        BY <4>2, <3>2, VerdictOfChain
      <4>5. \A rs : Summary(rs).errors = ChainErrors(rs)
        BY DEF Result
      <4> HIDE DEF Summary
      <4>6. result = Summary(chain) /\ result' = Summary(chain')
        BY <4>3, <4>4 DEF IInv
      <4> QED BY <4>5, <4>6
    <3>5. Sealed(b, chain) \subseteq Sealed(c, chain')
      <4>1. \A i \in DOMAIN chain : i \in DOMAIN chain' /\ EnvelopeErrors(c, i) = EnvelopeErrors(b, i)
        BY <3>1, EnvelopesStay, GrownKeeps
      <4> QED BY <4>1
    <3>6. /\ ChainErrors(chain) = Sealed(b, chain)
               \cup CrossRecordErrors(chain) \cup AgreementErrors(chain) \cup AuthorityErrors(chain)
               \cup AttestationErrors(chain) \cup ProvenanceErrors(chain)
          /\ ChainErrors(chain') = Sealed(c, chain')
               \cup CrossRecordErrors(chain') \cup AgreementErrors(chain') \cup AuthorityErrors(chain')
               \cup AttestationErrors(chain') \cup ProvenanceErrors(chain')
      BY DEF ChainErrors
    <3> HIDE DEF Sealed, b, c
    <3> QED BY <3>1, <3>3, <3>4, <3>5, <3>6, CrossRecordStays, AgreementStays, BodiesStay DEF Final
  <2> QED BY <2>1, <2>2
<1>2. Spec => [][IInv /\ IInv' /\ [Next]_vars]_vars
  BY HistoryInductive, PTL DEF Spec
<1>3. IInv /\ IInv' /\ [Next]_vars =>
        (chain # <<>> => result.errors \ {"missing_termination", "malformed"} \subseteq result'.errors)
  BY <1>1 DEF Final
<1> QED BY <1>2, <1>3, PTL DEF ErrorsAreFinal

-----------------------------------------------------------------------------
(* What the verifier finds out of what is cited *)

\* JSON null is no name, no vocabulary and no object, and the digest of a record
\* of another task is not the digest of one of this.
NullIsNothing ==
    /\ None \notin Parties /\ None # "unknown"
    /\ DOMAIN None \cap {"id", "by", "currency"} = {}
ElsewhereIsForeign == \A r : ("task" \in DOMAIN r /\ r.task = "task") => Unsigned(r) # Elsewhere

\* Chains are shorter than the place that stands for elsewhere.
LEMMA ChainFacts ==
  ASSUME IInv
  PROVE  /\ Len(chain) \in Nat /\ DOMAIN chain = 1..Len(chain) /\ Len(chain) < Outside
         /\ Placed(chain)
         /\ Outside \notin DOMAIN chain /\ 0 \notin DOMAIN chain /\ Outside # 0
<1>1. PICK S : chain \in Seq(S)
  BY DEF IInv, Chains
<1>2. Len(chain) \in Nat /\ DOMAIN chain = 1..Len(chain) /\ Len(chain) < Outside
  BY <1>1 DEF IInv, Chains, Outside
<1>3. \A i \in DOMAIN chain : Linked(chain, i)
  BY DEF IInv
<1>4. Placed(chain)
  <2> SUFFICES ASSUME NEW i \in DOMAIN chain PROVE "id" \in DOMAIN chain[i] /\ chain[i].id = i - 1
    BY DEF Placed
  <2>1. Linked(chain, i)
    BY <1>3
  <2>2. DOMAIN chain[i] = Fields /\ chain[i].id = i - 1
    BY <2>1 DEF Linked
  <2> QED BY <2>2 DEF Fields
<1> QED BY <1>2, <1>4

\* A record of the task is neither null nor something from elsewhere, by its digest.
LEMMA RecordFacts ==
  ASSUME IInv, NullIsNothing, ElsewhereIsForeign, NEW i \in DOMAIN chain
  PROVE  /\ Encodable(chain[i]) /\ Digest(chain[i]) = Unsigned(chain[i])
         /\ Digest(chain[i]) # None /\ Digest(chain[i]) # Elsewhere /\ chain[i] # None
<1>1. Linked(chain, i)
  BY DEF IInv
<1>2. Encodable(chain[i])
  BY <1>1 DEF Linked, Encodable
<1>3. "id" \in DOMAIN chain[i] /\ "id" \in DOMAIN Unsigned(chain[i]) /\ "task" \in DOMAIN chain[i]
  BY <1>1 DEF Linked, Fields, Unsigned
<1>4. "id" \notin DOMAIN None
  BY DEF NullIsNothing
<1>5. Unsigned(chain[i]) # Elsewhere
  BY <1>1, <1>3 DEF Linked, ElsewhereIsForeign
<1>6. Digest(chain[i]) = Unsigned(chain[i])
  BY <1>2 DEF Digest
<1>7. Unsigned(chain[i]) # None /\ chain[i] # None
  BY <1>3, <1>4
<1> QED BY <1>2, <1>5, <1>6, <1>7

\* A digest of a record of the right type finds that record; another finds none.
LEMMA FindsRecord ==
  ASSUME IInv, NullIsNothing, ElsewhereIsForeign, NEW type
  PROVE  /\ \A place \in Indexes(chain, type) : Resolve(chain, type, Digest(chain[place])) = chain[place]
         /\ Resolve(chain, type, Elsewhere) = None
         /\ Resolve(chain, type, None) = None
<1> DEFINE Found(ref) == {r \in OfType(chain, type) : Encodable(r) /\ Digest(r) = ref}
<1>1. \A ref : Resolve(chain, type, ref) =
                 IF ref = None \/ Found(ref) = {} THEN None ELSE CHOOSE r \in Found(ref) : TRUE
  BY DEF Resolve
<1>2. \A r \in OfType(chain, type) : \E j \in DOMAIN chain : r = chain[j]
  BY DEF OfType, Indexes
<1>3. ASSUME NEW place \in Indexes(chain, type)
      PROVE  Resolve(chain, type, Digest(chain[place])) = chain[place]
  <2>1. place \in DOMAIN chain /\ chain[place] \in OfType(chain, type)
    BY DEF OfType, Indexes
  <2>2. Encodable(chain[place]) /\ Digest(chain[place]) # None
    BY <2>1, RecordFacts
  <2>3. ASSUME NEW r \in Found(Digest(chain[place])) PROVE r = chain[place]
    <3>1. PICK j \in DOMAIN chain : r = chain[j]
      BY <1>2
    <3>2. j = place
      BY <2>1, <2>2, <2>3, <3>1, ChainFacts, DigestsDiffer
    <3> QED BY <3>1, <3>2
  <2>4. Found(Digest(chain[place])) = {chain[place]}
    BY <2>1, <2>2, <2>3
  <2> HIDE DEF Found
  <2> QED BY <1>1, <2>2, <2>4
<1>4. Found(Elsewhere) = {}
  BY <1>2, RecordFacts
<1> HIDE DEF Found
<1> QED BY <1>1, <1>3, <1>4

\* What a record cites is what the verifier resolves.
LEMMA FindsCited ==
  ASSUME IInv, NullIsNothing, ElsewhereIsForeign,
         NEW r, r.hidden = <<>>, NEW field, NEW type, NEW place,
         Refers(chain, r.body, field, type, place)
  PROVE  /\ Has(r, field) <=> place # 0
         /\ Resolve(chain, type, Get(r, field)) =
              IF place \in Indexes(chain, type) THEN chain[place] ELSE None
<1>1. 0 \notin Indexes(chain, type) /\ Outside \notin Indexes(chain, type) /\ Outside # 0
  BY ChainFacts DEF Indexes
<1>2. Has(r, field) <=> field \in DOMAIN r.body
  BY DEF Has
<1>3. CASE place = 0 /\ field \notin DOMAIN r.body
  BY <1>1, <1>2, <1>3, FindsRecord DEF Get
<1>4. CASE place = Outside /\ field \in DOMAIN r.body /\ r.body[field] = Elsewhere
  BY <1>1, <1>2, <1>4, FindsRecord DEF Get
<1>5. CASE place \in Indexes(chain, type) /\ field \in DOMAIN r.body /\ r.body[field] = Digest(chain[place])
  BY <1>1, <1>2, <1>5, FindsRecord DEF Get
<1> QED BY <1>3, <1>4, <1>5 DEF Refers

\* The accept, the grant and the offer that each receipt cites.
LEMMA FindsAll ==
  ASSUME IInv, NullIsNothing, ElsewhereIsForeign, NEW i \in DOMAIN chain
  PROVE  /\ AcceptOf(chain, chain[i]) =
              IF cites[i].accept \in All("agreement.accept") THEN chain[cites[i].accept] ELSE None
         /\ GrantOf(chain, chain[i]) =
              IF cites[i].grant \in All("authority.grant") THEN chain[cites[i].grant] ELSE None
         /\ Has(chain[i], "agreement_ref") <=> cites[i].accept # 0
         /\ Has(chain[i], "authority_ref") <=> cites[i].grant # 0
         /\ cites[i].accept \in All("agreement.accept") \cup {0, Outside}
         /\ cites[i].grant \in All("authority.grant") \cup {0, Outside}
         /\ Type(i) = "agreement.accept" =>
              /\ cites[i].offer \in All("agreement.offer") \cup {0}
              /\ OfferOf(chain, chain[i]) =
                   IF cites[i].offer = 0 THEN None ELSE chain[cites[i].offer]
<1>1. chain[i].hidden = <<>> /\ Written(chain, chain[i].type, chain[i].body, cites[i])
  BY DEF IInv, Linked
<1>2. /\ Refers(chain, chain[i].body, "agreement_ref", "agreement.accept", cites[i].accept)
      /\ Refers(chain, chain[i].body, "authority_ref", "authority.grant", cites[i].grant)
  BY <1>1 DEF Written
<1>3. /\ cites[i].accept \in All("agreement.accept") \cup {0, Outside}
      /\ cites[i].grant \in All("authority.grant") \cup {0, Outside}
  BY <1>2 DEF Refers, All
<1>4. /\ AcceptOf(chain, chain[i]) =
           IF cites[i].accept \in All("agreement.accept") THEN chain[cites[i].accept] ELSE None
      /\ Has(chain[i], "agreement_ref") <=> cites[i].accept # 0
  BY <1>1, <1>2, FindsCited DEF AcceptOf, All
<1>5. /\ GrantOf(chain, chain[i]) =
           IF cites[i].grant \in All("authority.grant") THEN chain[cites[i].grant] ELSE None
      /\ Has(chain[i], "authority_ref") <=> cites[i].grant # 0
  BY <1>1, <1>2, FindsCited DEF GrantOf, All
<1>6. ASSUME Type(i) = "agreement.accept"
      PROVE  /\ cites[i].offer \in All("agreement.offer") \cup {0}
             /\ OfferOf(chain, chain[i]) =
                  IF cites[i].offer = 0 THEN None ELSE chain[cites[i].offer]
  <2>1. \/ cites[i].offer = 0 /\ chain[i].body.offer_ref = Elsewhere
        \/ cites[i].offer \in All("agreement.offer")
           /\ chain[i].body.offer_ref = Digest(chain[cites[i].offer])
    BY <1>1, <1>6 DEF Written, Type, All
  <2>2. "offer_ref" \in DOMAIN chain[i].body
    BY <1>6 DEF IInv, Linked, BodyValid, RequiredFields, Required, Type
  <2>3. 0 \notin All("agreement.offer")
    BY ChainFacts DEF All, Indexes
  <2>4. OfferOf(chain, chain[i]) = Resolve(chain, "agreement.offer", chain[i].body.offer_ref)
    BY <2>2 DEF OfferOf, Get
  <2> QED BY <2>1, <2>3, <2>4, FindsRecord DEF All
<1> QED BY <1>3, <1>4, <1>5, <1>6

-----------------------------------------------------------------------------
(* Check by check, what the verifier says is what a lawful history lacks. *)

\* An envelope has no error exactly if a grant it holds is lawful.
LEMMA EnvelopesAreSound ==
  ASSUME IInv, NullIsNothing, ElsewhereIsForeign, NEW i \in DOMAIN chain
  PROVE  EnvelopeErrors(BundleOf(chain, "task", 6), i) = {}
           <=> (Type(i) = "authority.grant" => GrantLawful(i))
<1> DEFINE r == chain[i]
           b == BundleOf(chain, "task", 6)
<1>1. b.receipts = chain /\ b.task = "task"
  BY DEF BundleOf
<1> HIDE DEF b
<1>2. Linked(chain, i) /\ Written(chain, r.type, r.body, cites[i])
  BY DEF IInv
<1>3. /\ r.spec \in Specs /\ r.task = "task" /\ KnownType(r.type, r.spec) /\ r.hidden = <<>>
      /\ RequiredFields(r.type, r.spec) \subseteq DOMAIN r.body
      /\ r.at \in Nat /\ Encodable(r) /\ r.body.shape = "ok"
  BY <1>2 DEF Linked, BodyValid, Encodable
<1>4. LinkErrors(chain, i) = {}
  <2>1. \A j \in DOMAIN chain : KnownType(chain[j].type, chain[j].spec)
    BY DEF IInv, Linked, BodyValid
  <2>2. i \in Nat /\ i >= 1 /\ \A j \in 1..(i - 1) : j \in DOMAIN chain
    BY ChainFacts
  <2> DEFINE before == {j \in 1..(i - 1) : KnownType(chain[j].type, chain[j].spec)}
  <2>3. before = 1..(i - 1)
    BY <2>1, <2>2
  <2>4. ExpectedPrev(chain, i) = IF before = {} THEN None ELSE Digest(chain[Greatest(before)])
    BY DEF ExpectedPrev
  <2>5. i # 1 => before # {} /\ Greatest(before) = i - 1
    <3> SUFFICES ASSUME i # 1 PROVE before # {} /\ Greatest(before) = i - 1
      OBVIOUS
    <3>1. i - 1 \in before /\ \A y \in before : y \in Int /\ i - 1 >= y
      BY <2>2, <2>3
    <3> HIDE DEF before
    <3>2. \A x \in before : (\A y \in before : x >= y) => x = i - 1
      BY <2>2, <3>1
    <3> QED BY <3>1, <3>2 DEF Greatest
  <2>6. i = 1 => before = {}
    BY <2>3
  <2> HIDE DEF before
  <2>7. r.prev = ExpectedPrev(chain, i)
    BY <1>2, <2>4, <2>5, <2>6 DEF Linked
  <2> QED BY <1>2, <2>7 DEF Linked, LinkErrors, When
<1>5. SignatureErrors(r) = {}
  <2>1. "by" \in DOMAIN r.sig /\ "by" \notin DOMAIN None
    BY <1>2 DEF Linked, NullIsNothing
  <2>2. r.sig # None
    BY <2>1
  <2> QED BY <1>2, <1>3, <2>2 DEF Linked, SignatureErrors, SignatureVerifies, When
<1>6. EnvelopeErrors(b, i) = BodyErrors(r)
  <2>1. \A f \in RequiredFields(r.type, r.spec) : Has(r, f)
    BY <1>3 DEF Has
  <2> HIDE DEF r
  <2>2. EnvelopeErrors(b, i) =
          When(r.spec \notin Specs, "version_unsupported")
          \cup When(r.task # b.task, "task_mismatch")
          \cup IF ~KnownType(r.type, r.spec) THEN {"unknown_type"}
               ELSE When(\E f \in RequiredFields(r.type, r.spec) : ~Has(r, f), "malformed")
                    \cup BodyErrors(r)
                    \cup When(~ValidTime(r.at) \/ ~Encodable(r), "malformed")
                    \cup LinkErrors(chain, i)
                    \cup SignatureErrors(r)
    BY <1>1 DEF EnvelopeErrors, r
  <2> QED BY <1>1, <1>3, <1>4, <1>5, <2>1, <2>2 DEF When, ValidTime
<1>7. CASE Type(i) # "authority.grant"
  <2>1. DOMAIN r.hidden = {} /\ r.type # "authority.grant"
    BY <1>3, <1>7 DEF Type
  <2>2. BodyErrors(r) = {}
    BY <1>3, <2>1 DEF BodyErrors, When
  <2> QED BY <1>6, <1>7, <2>2 DEF b
<1>8. CASE Type(i) = "authority.grant"
  <2>1. /\ DOMAIN r.hidden = {} /\ r.type = "authority.grant" /\ r.spec = 6
        /\ "granted_at" \in DOMAIN r.body
        /\ r.body.granted_at \in Nat
        /\ "expires_at" \in DOMAIN r.body => r.body.expires_at = 1
    BY <1>2, <1>3, <1>8 DEF Type, KnownType, RequiredFields, Required, Written, Deadline
  <2>2. /\ ValidTime(GetTime(r, "granted_at")) /\ GetTime(r, "granted_at") = r.body.granted_at
        /\ Has(r, "expires_at") <=> "expires_at" \in DOMAIN r.body
        /\ Has(r, "expires_at") => GetTime(r, "expires_at") = 1
    BY <2>1 DEF ValidTime, GetTime, Has
  <2>3. BodyErrors(r) = When("expires_at" \in DOMAIN r.body /\ 1 <= r.body.granted_at, "malformed")
    <3> HIDE DEF r
    <3>1. ValidTime(1)
      BY DEF ValidTime
    <3> QED BY <1>3, <2>1, <2>2, <3>1 DEF BodyErrors, When
  <2>4. GrantLawful(i) <=> ("expires_at" \in DOMAIN r.body => r.body.granted_at < 1)
    BY <2>1 DEF GrantLawful, Body
  <2>5. BodyErrors(r) = {} <=> GrantLawful(i)
    BY <2>1, <2>3, <2>4 DEF When
  <2> QED BY <1>6, <1>8, <2>5 DEF b
<1> QED BY <1>7, <1>8

\* The session, its cap and its policy; deliveries before settlements.
LEMMA CrossRecordsAreSound ==
  ASSUME IInv, NullIsNothing
  PROVE  CrossRecordErrors(chain) = {}
           <=> /\ All("session.pass.created") # {} /\ All("task.termination") # {}
               /\ PaymentsLawful
               /\ \A d \in All("task.decision") : Body(d).policy_version = Body(Session).policy_version
<1> DEFINE passes == Indexes(chain, "session.pass.created")
           pass == chain[Least(passes)]
           cap == CapOf(pass)
           policy == \E r \in OfType(chain, "task.decision") :
                       Get(r, "policy_version") # Get(pass, "policy_version")
           over == \E r \in OfType(chain, "settlement") :
                     /\ cap # None
                     /\ \/ Get(r, "amount").currency # cap.currency
                        \/ Get(r, "amount").minor > cap.minor
           early == \E i \in Indexes(chain, "settlement") :
                      Get(chain[i], "gated_on_delivery") = TRUE /\ ~DeliveredBefore(chain, i)
           open == Indexes(chain, "task.termination") = {}
<1>1. CrossRecordErrors(chain) =
        IF passes = {} THEN {"malformed"} ELSE
        When(policy, "policy_mismatch") \cup When(over, "cap_exceeded")
        \cup When(early, "delivery_before_settlement") \cup When(open, "missing_termination")
  BY DEF CrossRecordErrors
<1>2. passes = All("session.pass.created") /\ (open <=> All("task.termination") = {})
      /\ Session = Least(passes)
  BY DEF All, Session
<1>3. CASE passes = {}
  <2> HIDE DEF passes, policy, over, early, open
  <2> QED BY <1>1, <1>2, <1>3
<1>4. CASE passes # {}
  <2>1. Session \in DOMAIN chain /\ chain[Session].type = "session.pass.created"
    <3>1. passes \subseteq Nat
      BY ChainFacts DEF Indexes
    <3>2. Least(passes) \in passes
      BY <1>4, <3>1, HasLeast
    <3> QED BY <1>2, <3>2 DEF Indexes
  <2>2. \A i \in DOMAIN chain :
          /\ chain[i].hidden = <<>> /\ DOMAIN chain[i].hidden = {}
          /\ RequiredFields(chain[i].type, chain[i].spec) \subseteq DOMAIN chain[i].body
          /\ Written(chain, chain[i].type, chain[i].body, cites[i])
    <3>1. \A i \in DOMAIN chain :
            /\ chain[i].hidden = <<>>
            /\ RequiredFields(chain[i].type, chain[i].spec) \subseteq DOMAIN chain[i].body
            /\ Written(chain, chain[i].type, chain[i].body, cites[i])
      BY DEF IInv, Linked, BodyValid
    <3>2. \A i \in DOMAIN chain : DOMAIN chain[i].hidden = {}
      BY <3>1
    <3> QED BY <3>1, <3>2
  <2>3. pass = chain[Session]
    BY <1>2
  <2>4. "policy_version" \in DOMAIN Body(Session) /\ Get(pass, "policy_version") = Body(Session).policy_version
    BY <2>1, <2>2, <2>3 DEF RequiredFields, Required, Get, Body
  <2>5. cap = IF "spend_cap" \in DOMAIN Body(Session) THEN Body(Session).spend_cap ELSE None
    <3> HIDE DEF pass
    <3> QED BY <2>1, <2>2, <2>3 DEF CapOf, Get, Body
  <2>6. "spend_cap" \in DOMAIN Body(Session) => Body(Session).spend_cap # None
    <3>1. "spend_cap" \in DOMAIN Body(Session) => "currency" \in DOMAIN Body(Session).spend_cap
      BY <2>1, <2>2 DEF Written, Body
    <3> QED BY <3>1 DEF NullIsNothing
  <2>7. policy <=> \E d \in All("task.decision") : Body(d).policy_version # Body(Session).policy_version
    <3>1. \A d \in All("task.decision") : Get(chain[d], "policy_version") = Body(d).policy_version
      BY <2>2 DEF All, Indexes, RequiredFields, Required, Get, Body
    <3>2. policy <=> \E d \in All("task.decision") :
                       Get(chain[d], "policy_version") # Get(pass, "policy_version")
      <4> HIDE DEF pass
      <4> QED BY DEF OfType, All
    <3> HIDE DEF policy, pass
    <3> QED BY <2>4, <3>1, <3>2
  <2>8. \A s \in All("settlement") :
          /\ Get(chain[s], "amount") = Body(s).amount
          /\ Get(chain[s], "gated_on_delivery") = Body(s).gated_on_delivery
          /\ Body(s).gated_on_delivery \in BOOLEAN
          /\ \E currency \in {"eur", "usd"}, minor \in Nat :
               Body(s).amount = [currency |-> currency, minor |-> minor]
    <3> SUFFICES ASSUME NEW s \in DOMAIN chain, chain[s].type = "settlement"
                 PROVE  /\ Get(chain[s], "amount") = Body(s).amount
                        /\ Get(chain[s], "gated_on_delivery") = Body(s).gated_on_delivery
                        /\ Body(s).gated_on_delivery \in BOOLEAN
                        /\ \E currency \in {"eur", "usd"}, minor \in Nat :
                             Body(s).amount = [currency |-> currency, minor |-> minor]
      BY DEF All, Indexes
    <3>1. "amount" \in DOMAIN chain[s].body /\ "gated_on_delivery" \in DOMAIN chain[s].body
      BY <2>2 DEF RequiredFields, Required
    <3>2. /\ Body(s).gated_on_delivery \in BOOLEAN
          /\ \E currency \in {"eur", "usd"}, minor \in Nat :
               Body(s).amount = [currency |-> currency, minor |-> minor]
      BY <2>2 DEF Written, Body
    <3> QED BY <3>1, <3>2 DEF Get, Body
  <2>9. ~over <=> \A s \in All("settlement") :
                    "spend_cap" \in DOMAIN Body(Session) =>
                      /\ Body(s).amount.currency = Body(Session).spend_cap.currency
                      /\ Body(s).amount.minor <= Body(Session).spend_cap.minor
    <3>1. over <=> \E s \in All("settlement") :
                     /\ cap # None
                     /\ \/ Get(chain[s], "amount").currency # cap.currency
                        \/ Get(chain[s], "amount").minor > cap.minor
      <4> HIDE DEF cap
      <4> QED BY DEF OfType, All
    <3> HIDE DEF over, cap, pass
    <3>2. CASE "spend_cap" \in DOMAIN Body(Session)
      <4>1. cap = [currency |-> "eur", minor |-> 1]
        BY <2>1, <2>2, <2>5, <3>2 DEF Written, Body
      <4>2. cap # None /\ Body(Session).spend_cap = cap /\ cap.currency = "eur" /\ cap.minor = 1
        BY <2>5, <2>6, <3>2, <4>1
      <4>3. \A s \in All("settlement") : Body(s).amount.minor \in Nat /\ Get(chain[s], "amount") = Body(s).amount
        <5> TAKE s \in All("settlement")
        <5>1. PICK currency \in {"eur", "usd"}, minor \in Nat :
                Body(s).amount = [currency |-> currency, minor |-> minor]
          BY <2>8
        <5>2. Body(s).amount.minor = minor
          BY <5>1
        <5> QED BY <2>8, <5>2
      <4> QED BY <3>1, <3>2, <4>2, <4>3
    <3>3. CASE "spend_cap" \notin DOMAIN Body(Session)
      BY <2>5, <3>1, <3>3
    <3> QED BY <3>2, <3>3
  <2>10. ~early <=> \A s \in All("settlement") :
                      Body(s).gated_on_delivery => \E d \in All("delivery.attestation") : d < s
    <3>1. \A s \in All("settlement") :
            (Get(chain[s], "gated_on_delivery") = TRUE) <=> Body(s).gated_on_delivery
      BY <2>8
    <3> QED BY <3>1 DEF DeliveredBefore, All
  <2> HIDE DEF passes, pass, cap, policy, over, early, open
  <2>11. CrossRecordErrors(chain) = {} <=> ~policy /\ ~over /\ ~early /\ ~open
    BY <1>1, <1>4 DEF When
  <2> QED BY <1>2, <1>4, <2>7, <2>9, <2>10, <2>11 DEF PaymentsLawful
<1> QED BY <1>3, <1>4

\* Bodies have no error exactly if provenance and attestation are what they should be.
LEMMA BodiesAreSound ==
  ASSUME IInv, NullIsNothing
  PROVE  AttestationErrors(chain) = {} /\ ProvenanceErrors(chain) = {}
           <=> /\ \A d \in All("task.decision") : Body(d).input_provenance = "sha256"
               /\ \A d \in All("delivery.attestation") :
                    "attestation" \in DOMAIN Body(d) =>
                      Body(d).attestation.over = <<Without(Body(d), "attestation"), <<>>>>
<1>1. \A i \in DOMAIN chain :
        /\ RequiredFields(chain[i].type, chain[i].spec) \subseteq DOMAIN chain[i].body
        /\ Written(chain, chain[i].type, chain[i].body, cites[i])
  BY DEF IInv, Linked, BodyValid
<1>2. ProvenanceErrors(chain) = {} <=> \A d \in All("task.decision") : Body(d).input_provenance = "sha256"
  <2>1. \A d \in All("task.decision") :
          /\ Get(chain[d], "input_provenance") = Body(d).input_provenance
          /\ Body(d).input_provenance \in {"sha256", "unknown"}
    BY <1>1 DEF All, Indexes, RequiredFields, Required, Written, Get, Body
  <2>2. \A d \in All("task.decision") :
          Get(chain[d], "input_provenance") \notin {None, "sha256", "merkle-sha256"}
            <=> Body(d).input_provenance # "sha256"
    BY <2>1 DEF NullIsNothing
  <2>3. ProvenanceErrors(chain) =
          When(\E d \in All("task.decision") :
                 Get(chain[d], "input_provenance") \notin {None, "sha256", "merkle-sha256"},
               "provenance_invalid")
    BY DEF ProvenanceErrors, OfType, All
  <2> QED BY <2>2, <2>3 DEF When
<1>3. AttestationErrors(chain) = {} <=>
        \A d \in All("delivery.attestation") :
          "attestation" \in DOMAIN Body(d) =>
            Body(d).attestation.over = <<Without(Body(d), "attestation"), <<>>>>
  <2> DEFINE Wrong(r) == LET a == Get(r, "attestation")
                         IN a # None /\ a # [by |-> a.by, over |-> AttestationView(r)]
  <2>1. ASSUME NEW d \in All("delivery.attestation")
        PROVE  Wrong(chain[d]) <=> "attestation" \in DOMAIN Body(d)
                                   /\ Body(d).attestation.over # <<Without(Body(d), "attestation"), <<>>>>
    <3>1. CASE "attestation" \notin DOMAIN Body(d)
      BY <3>1 DEF Get, Body
    <3>2. CASE "attestation" \in DOMAIN Body(d)
      <4>1. PICK over : Body(d).attestation = [by |-> Operator, over |-> over]
        BY <1>1, <3>2 DEF Written, All, Indexes, Body
      <4> DEFINE a == Body(d).attestation
      <4>2. a.by = Operator /\ a.over = over /\ a # None
        BY <4>1 DEF NullIsNothing
      <4>3. Get(chain[d], "attestation") = a /\ chain[d].body = Body(d)
        BY <3>2 DEF Get, Body
      <4>4. AttestationView(chain[d]) = <<Without(Body(d), "attestation"), <<>>>>
        BY <4>3 DEF AttestationView, IInv, Linked, All, Indexes
      <4>5. \A w : [by |-> Operator, over |-> over] = [by |-> Operator, over |-> w] <=> over = w
        <5> TAKE w
        <5>1. [by |-> Operator, over |-> over].over = over /\ [by |-> Operator, over |-> w].over = w
          OBVIOUS
        <5> QED BY <5>1
      <4> HIDE DEF a
      <4> QED BY <3>2, <4>1, <4>2, <4>3, <4>5, <4>4 DEF a
    <3> QED BY <3>1, <3>2
  <2>2. AttestationErrors(chain) =
          When(\E d \in All("delivery.attestation") : Wrong(chain[d]), "bad_attestation")
    BY DEF AttestationErrors, OfType, All
  <2> HIDE DEF Wrong
  <2> QED BY <2>1, <2>2 DEF When
<1> QED BY <1>2, <1>3

\* Each accept against the offer it cites.
LEMMA AcceptsAreSound ==
  ASSUME IInv, NullIsNothing, ElsewhereIsForeign, NEW a \in All("agreement.accept")
  PROVE  AcceptLawful(a) <=> /\ OfferOf(chain, chain[a]) # None
                             /\ AcceptErrors(chain[a], OfferOf(chain, chain[a])) = {}
<1> DEFINE o == cites[a].offer
           r == chain[a]
           q == chain[o]
<1>1. a \in DOMAIN chain /\ r.type = "agreement.accept" /\ Type(a) = "agreement.accept"
  BY DEF All, Indexes, Type
<1>2. /\ o \in All("agreement.offer") \cup {0}
      /\ OfferOf(chain, r) = IF o = 0 THEN None ELSE q
  BY <1>1, FindsAll
<1>3. CASE o = 0
  BY <1>2, <1>3 DEF AcceptLawful
<1>4. CASE o # 0
  <2>1. o \in DOMAIN chain /\ q.type = "agreement.offer"
    BY <1>2, <1>4 DEF All, Indexes
  <2>2. q # None /\ OfferOf(chain, r) = q
    BY <1>2, <1>4, <2>1, RecordFacts
  <2>3. /\ "offeree" \in DOMAIN r.body /\ r.body.offeree \in Parties
        /\ "terms" \in DOMAIN r.body
        /\ r.at \in Nat
    BY <1>1 DEF IInv, Written, Linked, BodyValid, RequiredFields, Required
  <2>4. /\ \E offeree \in Parties : q.body = OfferBody(offeree, "terms", Deadline)
        /\ q.at \in Nat
    BY <2>1 DEF IInv, Written, Linked
  <2>5. /\ "offeree" \in DOMAIN q.body /\ "terms" \in DOMAIN q.body
        /\ "valid_until" \in DOMAIN q.body /\ q.body.valid_until = 1
    BY <2>4 DEF OfferBody, Deadline
  <2>6. /\ Get(r, "offeree") = r.body.offeree /\ Get(r, "terms") = r.body.terms
        /\ Get(q, "offeree") = q.body.offeree /\ Get(q, "terms") = q.body.terms
        /\ GetTime(q, "valid_until") = 1 /\ ValidTime(1)
        /\ r.body.offeree # None
    BY <2>3, <2>5 DEF Get, GetTime, ValidTime, NullIsNothing
  <2>7. AcceptLawful(a) <=>
          /\ r.body.terms = q.body.terms
          /\ r.at <= 1
          /\ r.spec >= 4 => r.issuer = q.body.offeree /\ r.issuer = r.body.offeree /\ r.at >= q.at
    BY <1>4, <2>5 DEF AcceptLawful, Body, At, By
  <2>8. r.spec \in Int
    <3>1. r.spec \in Versions
      BY <1>1 DEF IInv, Linked
    <3>2. Versions \subseteq Int
      BY DEF Specs
    <3> QED BY <3>1, <3>2
  <2> HIDE DEF r, q, o
  <2>9. Expired(r.at, 1) <=> ~(r.at <= 1)
    BY <2>3 DEF Expired, ValidTime
  <2>10. Earlier(r.at, q.at) <=> ~(r.at >= q.at)
    BY <2>3, <2>4 DEF Earlier, ValidTime
  <2>11. OffereeAgrees(r, q) <=> r.issuer = q.body.offeree /\ r.issuer = r.body.offeree
    BY <2>6 DEF OffereeAgrees
  <2>12. AcceptErrors(r, q) =
           IF r.body.terms # q.body.terms THEN {"offer_mismatch"}
           ELSE When(Expired(r.at, 1), "offer_expired")
                \cup IF r.spec < 4 THEN {}
                     ELSE When(~OffereeAgrees(r, q), "offeree_mismatch")
                          \cup When(Earlier(r.at, q.at), "accept_before_offer")
    BY <2>6 DEF AcceptErrors
  <2>13. r.spec < 4 <=> ~(r.spec >= 4)
    BY <2>8
  <2>14. AcceptErrors(r, q) = {} <=> AcceptLawful(a)
    BY <2>7, <2>9, <2>10, <2>11, <2>12, <2>13 DEF When
  <2> QED BY <2>2, <2>14 DEF r, q, o
<1> QED BY <1>3, <1>4

\* Each record against the accept it cites.
LEMMA WorkIsAgreed ==
  ASSUME IInv, NullIsNothing, ElsewhereIsForeign, NEW i \in DOMAIN chain
  PROVE  LET r == chain[i]
             a == AcceptOf(chain, r)
         IN UnderAgreement(i) <=>
              /\ ~(Has(r, "agreement_ref") /\ a = None)
              /\ a # None =>
                   (When(Earlier(r.at, a.at), "agreement_before_accept")
                    \cup When(Get(a, "offeree") \notin {None, r.issuer}, "agreement_issuer_mismatch")) = {}
<1> DEFINE p == cites[i].accept
           r == chain[i]
           a == chain[p]
<1>1. /\ p \in All("agreement.accept") \cup {0, Outside}
      /\ AcceptOf(chain, r) = IF p \in All("agreement.accept") THEN a ELSE None
      /\ Has(r, "agreement_ref") <=> p # 0
      /\ 0 \notin All("agreement.accept") /\ Outside \notin DOMAIN chain /\ Outside # 0
  BY FindsAll, ChainFacts DEF All, Indexes
<1>2. UnderAgreement(i) <=> (p # 0 => p \in DOMAIN chain /\ By(i) = Body(p).offeree /\ At(i) >= At(p))
  BY DEF UnderAgreement
<1>3. CASE p = 0
  BY <1>1, <1>2, <1>3
<1>4. CASE p = Outside
  <2>1. p \notin All("agreement.accept")
    BY <1>1, <1>4 DEF All, Indexes
  <2> QED BY <1>1, <1>2, <1>4, <2>1
<1>5. CASE p \in All("agreement.accept")
  <2>1. p \in DOMAIN chain /\ a.type = "agreement.accept" /\ p # 0
    BY <1>1, <1>5 DEF All, Indexes
  <2>2. a # None /\ AcceptOf(chain, r) = a
    BY <1>1, <1>5, <2>1, RecordFacts
  <2>3. /\ "offeree" \in DOMAIN a.body /\ a.body.offeree \in Parties /\ a.at \in Nat
    BY <2>1 DEF IInv, Written, Linked
  <2>4. r.at \in Nat
    BY DEF IInv, Linked
  <2>5. Get(a, "offeree") = a.body.offeree /\ a.body.offeree # None
    BY <2>3 DEF Get, NullIsNothing
  <2>6. UnderAgreement(i) <=> r.issuer = a.body.offeree /\ r.at >= a.at
    BY <1>2, <2>1 DEF By, At, Body
  <2> HIDE DEF p, r, a
  <2>7. Earlier(r.at, a.at) <=> ~(r.at >= a.at)
    BY <2>3, <2>4 DEF Earlier, ValidTime
  <2>8. UnderAgreement(i) <=>
          (When(Earlier(r.at, a.at), "agreement_before_accept")
           \cup When(Get(a, "offeree") \notin {None, r.issuer}, "agreement_issuer_mismatch")) = {}
    BY <2>5, <2>6, <2>7 DEF When
  <2> QED BY <2>2, <2>8 DEF r
<1> QED BY <1>1, <1>3, <1>4, <1>5

\* Each record against the grant it cites.
LEMMA WorkIsAuthorised ==
  ASSUME IInv, NullIsNothing, ElsewhereIsForeign, NEW i \in DOMAIN chain
  PROVE  LET r == chain[i]
             g == GrantOf(chain, r)
         IN UnderAuthority(i) <=>
              /\ ~(Has(r, "authority_ref") /\ g = None)
              /\ g # None =>
                   (When(Earlier(r.at, Effective(g)), "authority_before_grant")
                    \cup When(Get(g, "agent") \notin {None, r.issuer}, "authority_agent_mismatch")
                    \cup When(Earlier(GetTime(g, "expires_at"), r.at), "authority_expired")) = {}
<1> DEFINE p == cites[i].grant
           r == chain[i]
           g == chain[p]
<1>1. /\ p \in All("authority.grant") \cup {0, Outside}
      /\ GrantOf(chain, r) = IF p \in All("authority.grant") THEN g ELSE None
      /\ Has(r, "authority_ref") <=> p # 0
      /\ 0 \notin All("authority.grant") /\ Outside \notin DOMAIN chain /\ Outside # 0
  BY FindsAll, ChainFacts DEF All, Indexes
<1>2. UnderAuthority(i) <=>
        (p # 0 => /\ p \in DOMAIN chain
                  /\ By(i) = Body(p).agent
                  /\ At(i) >= At(p) /\ At(i) >= Body(p).granted_at
                  /\ "expires_at" \in DOMAIN Body(p) => At(i) <= Body(p).expires_at)
  BY DEF UnderAuthority
<1>3. CASE p = 0
  BY <1>1, <1>2, <1>3
<1>4. CASE p = Outside
  <2>1. p \notin All("authority.grant")
    BY <1>1, <1>4 DEF All, Indexes
  <2> QED BY <1>1, <1>2, <1>4, <2>1
<1>5. CASE p \in All("authority.grant")
  <2>1. p \in DOMAIN chain /\ g.type = "authority.grant" /\ p # 0
    BY <1>1, <1>5 DEF All, Indexes
  <2>2. g # None /\ GrantOf(chain, r) = g
    BY <1>1, <1>5, <2>1, RecordFacts
  <2>3. /\ "agent" \in DOMAIN g.body /\ "granted_at" \in DOMAIN g.body
        /\ g.body.agent \in Parties /\ g.body.granted_at \in Nat /\ g.at \in Nat
        /\ "expires_at" \in DOMAIN g.body => g.body.expires_at = 1
    <3>1. Linked(chain, p) /\ Written(chain, g.type, g.body, cites[p])
      BY <2>1 DEF IInv
    <3> HIDE DEF g, p
    <3>2. g.spec = 6
      BY <2>1, <3>1 DEF Linked, BodyValid, KnownType, g
    <3>3. "agent" \in DOMAIN g.body /\ "granted_at" \in DOMAIN g.body
      BY <2>1, <3>1, <3>2 DEF Linked, BodyValid, RequiredFields, Required, g
    <3>4. g.at \in Nat
      BY <3>1 DEF Linked, g
    <3> QED BY <2>1, <3>1, <3>3, <3>4 DEF Written, Deadline
  <2>4. r.at \in Nat
    BY DEF IInv, Linked
  <2>5. Get(g, "agent") = g.body.agent /\ g.body.agent # None /\ GetTime(g, "granted_at") = g.body.granted_at
    BY <2>3 DEF Get, GetTime, NullIsNothing
  <2>6. UnderAuthority(i) <=>
          /\ r.issuer = g.body.agent /\ r.at >= g.at /\ r.at >= g.body.granted_at
          /\ "expires_at" \in DOMAIN g.body => r.at <= 1
    BY <1>2, <2>1, <2>3 DEF By, At, Body
  <2> HIDE DEF p, r, g
  <2>7. Earlier(r.at, Effective(g)) <=> ~(r.at >= g.at /\ r.at >= g.body.granted_at)
    <3>1. Effective(g) = IF g.body.granted_at > g.at THEN g.body.granted_at ELSE g.at
      BY <2>5 DEF Effective
    <3> QED BY <2>3, <2>4, <3>1 DEF Earlier, ValidTime
  <2>8. Earlier(GetTime(g, "expires_at"), r.at) <=> ~("expires_at" \in DOMAIN g.body => r.at <= 1)
    BY <2>3, <2>4 DEF Earlier, GetTime, ValidTime, BadTime
  <2>9. UnderAuthority(i) <=>
          (When(Earlier(r.at, Effective(g)), "authority_before_grant")
           \cup When(Get(g, "agent") \notin {None, r.issuer}, "authority_agent_mismatch")
           \cup When(Earlier(GetTime(g, "expires_at"), r.at), "authority_expired")) = {}
    BY <2>5, <2>6, <2>7, <2>8 DEF When
  <2> QED BY <2>2, <2>9 DEF r
<1> QED BY <1>1, <1>3, <1>4, <1>5

\* Agreements have no error and lack nothing exactly if every acceptance is lawful and
\* all work that names an agreement was done under it.
LEMMA AgreementsAreSound ==
  ASSUME IInv, NullIsNothing, ElsewhereIsForeign
  PROVE  AgreementErrors(chain) = {} /\ AgreementInsufficient(chain) = {}
           <=> /\ \A a \in All("agreement.accept") : AcceptLawful(a)
               /\ \A i \in WorkSince(4) : UnderAgreement(i)
<1> DEFINE Of(r) == OfferOf(chain, r)
           Under(r) == AcceptOf(chain, r)
           One(r) == AcceptErrors(r, Of(r))
           Two(r) == When(Earlier(r.at, Under(r).at), "agreement_before_accept")
                     \cup When(Get(Under(r), "offeree") \notin {None, r.issuer}, "agreement_issuer_mismatch")
           Accepts == OfType(chain, "agreement.accept")
           Work == Bound(chain, 4)
<1>1. AgreementErrors(chain) = (UNION {One(r) : r \in {x \in Accepts : Of(x) # None}})
                               \cup (UNION {Two(r) : r \in {x \in Work : Under(x) # None}})
  BY DEF AgreementErrors
<1>2. AgreementInsufficient(chain) =
        When(\E r \in Accepts : Of(r) = None, "missing_offer")
        \cup When(\E r \in Work : Has(r, "agreement_ref") /\ Under(r) = None, "missing_agreement")
  BY DEF AgreementInsufficient
<1>3. Accepts = {chain[a] : a \in All("agreement.accept")}
  BY DEF OfType, All
<1>4. Work = {chain[i] : i \in WorkSince(4)}
  BY DEF Bound, WorkSince, Type
<1>5. \A a \in All("agreement.accept") : AcceptLawful(a) <=> Of(chain[a]) # None /\ One(chain[a]) = {}
  BY AcceptsAreSound
<1>6. \A i \in WorkSince(4) : UnderAgreement(i) <=>
        /\ ~(Has(chain[i], "agreement_ref") /\ Under(chain[i]) = None)
        /\ Under(chain[i]) # None => Two(chain[i]) = {}
  <2>1. WorkSince(4) \subseteq DOMAIN chain
    BY DEF WorkSince
  <2> QED BY <2>1, WorkIsAgreed
<1> HIDE DEF Of, Under, One, Two, Accepts, Work
<1>7. AgreementErrors(chain) = {} <=> /\ \A r \in Accepts : Of(r) # None => One(r) = {}
                                      /\ \A r \in Work : Under(r) # None => Two(r) = {}
  BY <1>1
<1>8. AgreementInsufficient(chain) = {} <=>
        /\ \A r \in Accepts : Of(r) # None
        /\ \A r \in Work : ~(Has(r, "agreement_ref") /\ Under(r) = None)
  BY <1>2 DEF When
<1> QED BY <1>3, <1>4, <1>5, <1>6, <1>7, <1>8

\* Authorities have no error and lack nothing exactly if all work that names a grant was
\* done under it.
LEMMA AuthoritiesAreSound ==
  ASSUME IInv, NullIsNothing, ElsewhereIsForeign
  PROVE  AuthorityErrors(chain) = {} /\ AuthorityInsufficient(chain) = {}
           <=> \A i \in WorkSince(6) : UnderAuthority(i)
<1> DEFINE Under(r) == GrantOf(chain, r)
           Two(r) == When(Earlier(r.at, Effective(Under(r))), "authority_before_grant")
                     \cup When(Get(Under(r), "agent") \notin {None, r.issuer}, "authority_agent_mismatch")
                     \cup When(Earlier(GetTime(Under(r), "expires_at"), r.at), "authority_expired")
           Work == Bound(chain, 6)
<1>1. AuthorityErrors(chain) = UNION {Two(r) : r \in {x \in Work : Under(x) # None}}
  BY DEF AuthorityErrors
<1>2. AuthorityInsufficient(chain) =
        When(\E r \in Work : Has(r, "authority_ref") /\ Under(r) = None, "missing_authority")
  BY DEF AuthorityInsufficient
<1>3. Work = {chain[i] : i \in WorkSince(6)}
  BY DEF Bound, WorkSince, Type
<1>4. \A i \in WorkSince(6) : UnderAuthority(i) <=>
        /\ ~(Has(chain[i], "authority_ref") /\ Under(chain[i]) = None)
        /\ Under(chain[i]) # None => Two(chain[i]) = {}
  <2>1. WorkSince(6) \subseteq DOMAIN chain
    BY DEF WorkSince
  <2> QED BY <2>1, WorkIsAuthorised
<1> HIDE DEF Under, Two, Work
<1>5. AuthorityErrors(chain) = {} <=> \A r \in Work : Under(r) # None => Two(r) = {}
  BY <1>1
<1>6. AuthorityInsufficient(chain) = {} <=> \A r \in Work : ~(Has(r, "authority_ref") /\ Under(r) = None)
  BY <1>2 DEF When
<1> QED BY <1>3, <1>4, <1>5, <1>6

\* What is left open.
LEMMA OpenEndsAreFound ==
  ASSUME IInv, NullIsNothing, ElsewhereIsForeign
  PROVE  AgreementProvisional(chain) = {} /\ AuthorityProvisional(chain) = {} <=> Complete
<1>1. ASSUME NEW i \in DOMAIN chain, NEW j \in DOMAIN chain PROVE chain[i] = chain[j] <=> i = j
  BY RecordFacts, ChainFacts, DigestsDiffer
<1>2. \A i \in DOMAIN chain : chain[i] # None /\ Encodable(chain[i]) /\ chain[i].at \in Nat
  BY RecordFacts DEF IInv, Linked
<1>3. /\ \A type : All(type) \subseteq DOMAIN chain
      /\ \A v : WorkSince(v) \subseteq DOMAIN chain
      /\ 0 \notin DOMAIN chain
  BY ChainFacts DEF All, Indexes, WorkSince
<1>4. \A v : Bound(chain, v) = {chain[i] : i \in WorkSince(v)}
  BY DEF Bound, WorkSince, Type
<1> DEFINE accepted == {x \in All("agreement.accept") : chain[x].spec >= 4}
           accepts == {r \in OfType(chain, "agreement.accept") : r.spec >= 4 /\ Encodable(r)}
<1>5. accepts = {chain[a] : a \in accepted}
  BY <1>2, <1>3 DEF OfType, All
<1>6. \A a \in accepted : \A i \in DOMAIN chain : AcceptOf(chain, chain[i]) = chain[a] <=> cites[i].accept = a
  <2> TAKE a \in accepted
  <2> TAKE i \in DOMAIN chain
  <2>1. AcceptOf(chain, chain[i]) =
          IF cites[i].accept \in All("agreement.accept") THEN chain[cites[i].accept] ELSE None
    BY FindsAll
  <2> QED BY <1>1, <1>2, <1>3, <2>1
<1>7. \A g \in All("authority.grant") : \A i \in DOMAIN chain :
        GrantOf(chain, chain[i]) = chain[g] <=> cites[i].grant = g
  <2> TAKE g \in All("authority.grant")
  <2> TAKE i \in DOMAIN chain
  <2>1. GrantOf(chain, chain[i]) =
          IF cites[i].grant \in All("authority.grant") THEN chain[cites[i].grant] ELSE None
    BY FindsAll
  <2> QED BY <1>1, <1>2, <1>3, <2>1
<1>8. \A a \in accepted : \A i \in WorkSince(4) :
        (/\ ~Has(chain[i], "agreement_ref")
         /\ Get(chain[a], "offeree") = chain[i].issuer
         /\ Follows(chain[i], chain[a]))
        <=> ~(By(i) = Body(a).offeree /\ At(i) >= At(a) => cites[i].accept # 0)
  <2> TAKE a \in accepted
  <2> TAKE i \in WorkSince(4)
  <2>1. i \in DOMAIN chain /\ a \in DOMAIN chain /\ chain[a].type = "agreement.accept"
    BY <1>3 DEF All, Indexes
  <2>2. Has(chain[i], "agreement_ref") <=> cites[i].accept # 0
    BY <2>1, FindsAll
  <2>3. Get(chain[a], "offeree") = Body(a).offeree
    BY <2>1 DEF IInv, Written, Get, Body
  <2>4. Follows(chain[i], chain[a]) <=> At(i) >= At(a)
    BY <1>2, <2>1 DEF Follows, ValidTime, At
  <2> QED BY <2>2, <2>3, <2>4 DEF By
<1> DEFINE unused == \E r \in accepts : \A x \in Bound(chain, 4) : AcceptOf(chain, x) # r
           unsaid == \E x \in Bound(chain, 4), r \in accepts :
                       /\ ~Has(x, "agreement_ref")
                       /\ Get(r, "offeree") = x.issuer
                       /\ Follows(x, r)
           idle == \E r \in OfType(chain, "authority.grant") :
                     Encodable(r) /\ \A x \in Bound(chain, 6) : GrantOf(chain, x) # r
<1>9. /\ AgreementProvisional(chain) =
           When(unused, "agreement_unreferenced") \cup When(unsaid, "missing_agreement_ref")
      /\ AuthorityProvisional(chain) = When(idle, "authority_unreferenced")
  BY DEF AgreementProvisional, AuthorityProvisional
<1> HIDE DEF accepts, accepted
<1>10. ~unused <=> \A a \in accepted : \E i \in WorkSince(4) : cites[i].accept = a
  <2>1. unused <=> \E a \in accepted : \A i \in WorkSince(4) : AcceptOf(chain, chain[i]) # chain[a]
    BY <1>4, <1>5
  <2> HIDE DEF unused
  <2> QED BY <1>3, <1>6, <2>1
<1>11. ~unsaid <=> \A a \in accepted : \A i \in WorkSince(4) :
                     By(i) = Body(a).offeree /\ At(i) >= At(a) => cites[i].accept # 0
  <2>1. unsaid <=> \E a \in accepted : \E i \in WorkSince(4) :
                     /\ ~Has(chain[i], "agreement_ref")
                     /\ Get(chain[a], "offeree") = chain[i].issuer
                     /\ Follows(chain[i], chain[a])
    BY <1>4, <1>5
  <2> HIDE DEF unsaid
  <2> QED BY <1>8, <2>1
<1>12. ~idle <=> \A g \in All("authority.grant") : \E i \in WorkSince(6) : cites[i].grant = g
  <2>1. OfType(chain, "authority.grant") = {chain[g] : g \in All("authority.grant")}
    BY DEF OfType, All
  <2>2. idle <=> \E g \in All("authority.grant") :
                   Encodable(chain[g]) /\ \A i \in WorkSince(6) : GrantOf(chain, chain[i]) # chain[g]
    BY <1>4, <2>1
  <2> HIDE DEF idle
  <2> QED BY <1>2, <1>3, <1>7, <2>2
<1> HIDE DEF unused, unsaid, idle
<1>13. AgreementProvisional(chain) = {} /\ AuthorityProvisional(chain) = {} <=> ~unused /\ ~unsaid /\ ~idle
  BY <1>9 DEF When
<1> QED BY <1>10, <1>11, <1>12, <1>13 DEF Complete, accepted

\* The verdict is what the history deserves.
THEOREM VerdictsAreDeserved ==
  ASSUME NullIsNothing, ElsewhereIsForeign
  PROVE  Spec => []VerdictIsDeserved
<1>1. IInv => VerdictIsDeserved
  <2> SUFFICES ASSUME IInv, chain # <<>>
               PROVE  /\ result.verdict \in {"TRUSTED", "PROVISIONAL"} <=> Lawful
                      /\ result.verdict = "TRUSTED" <=> Lawful /\ Complete
    BY DEF VerdictIsDeserved
  <2> DEFINE errors == ChainErrors(chain)
             lacking == AgreementInsufficient(chain) \cup AuthorityInsufficient(chain)
             open == AgreementProvisional(chain) \cup AuthorityProvisional(chain)
             envelopes == UNION {EnvelopeErrors(BundleOf(chain, "task", 6), i) : i \in DOMAIN chain}
  <2>1. result = Result(errors, lacking, open)
    <3>1. \A i \in DOMAIN chain : chain[i].hidden = <<>>
      BY DEF IInv, Linked
    <3>2. VerifyBundle(BundleOf(chain, "task", 6), {}, FALSE) = Result(errors, lacking, open)
      BY <3>1, VerdictOfChain
    <3> QED BY <3>2 DEF IInv
  <2>2. errors = {} <=> /\ envelopes = {} /\ CrossRecordErrors(chain) = {}
                        /\ AgreementErrors(chain) = {} /\ AuthorityErrors(chain) = {}
                        /\ AttestationErrors(chain) = {} /\ ProvenanceErrors(chain) = {}
    <3>1. errors = envelopes \cup CrossRecordErrors(chain) \cup AgreementErrors(chain)
            \cup AuthorityErrors(chain) \cup AttestationErrors(chain) \cup ProvenanceErrors(chain)
      BY DEF ChainErrors
    <3> HIDE DEF envelopes, errors
    <3> QED BY <3>1
  <2>3. envelopes = {} <=> \A g \in All("authority.grant") : GrantLawful(g)
    <3>1. \A i \in DOMAIN chain : EnvelopeErrors(BundleOf(chain, "task", 6), i) = {}
                                    <=> (Type(i) = "authority.grant" => GrantLawful(i))
      BY EnvelopesAreSound
    <3>2. envelopes = {} <=> \A i \in DOMAIN chain : EnvelopeErrors(BundleOf(chain, "task", 6), i) = {}
      OBVIOUS
    <3> HIDE DEF envelopes
    <3> QED BY <3>1, <3>2 DEF All, Indexes, Type
  <2> HIDE DEF envelopes, errors, lacking, open
  <2>4. errors = {} /\ lacking = {} <=> Lawful
    <3>1. lacking = {} <=> AgreementInsufficient(chain) = {} /\ AuthorityInsufficient(chain) = {}
      BY DEF lacking
    <3> QED BY <2>2, <2>3, <3>1, CrossRecordsAreSound, BodiesAreSound, AgreementsAreSound,
               AuthoritiesAreSound DEF Lawful, DecisionsLawful
  <2>5. open = {} <=> Complete
    <3>1. open = {} <=> AgreementProvisional(chain) = {} /\ AuthorityProvisional(chain) = {}
      BY DEF open
    <3> QED BY <3>1, OpenEndsAreFound
  <2>6. result.verdict = Verdict(errors, lacking, open)
    BY <2>1 DEF Result
  <2>7. /\ result.verdict \in {"TRUSTED", "PROVISIONAL"} <=> errors = {} /\ lacking = {}
        /\ result.verdict = "TRUSTED" <=> errors = {} /\ lacking = {} /\ open = {}
    BY <2>6 DEF Verdict
  <2> QED BY <2>4, <2>5, <2>7
<1> QED BY <1>1, HistoryInductive, PTL

=============================================================================
