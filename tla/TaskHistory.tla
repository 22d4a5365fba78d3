------------------------------ MODULE TaskHistory ------------------------------
(***************************************************************************)
(* The receipts of one task, issued one after the other by several parties *)
(* with the helpers of bundle.py and agreements.py, and what the verifier  *)
(* says of every chain that can come about.                                *)
(*                                                                         *)
(* An issuer writes the time it likes into its receipts, accepts what it   *)
(* was not offered and refers to records of other tasks.  "cites" is kept  *)
(* beside the chain: which records of it each one is really about.  The    *)
(* verifier has only digests; the properties compare its verdict with      *)
(* what "cites" says.                                                      *)
(***************************************************************************)
EXTENDS Verifier

CONSTANTS
    Parties, Operator,      \* who signs; the operator opens the session
    Elsewhere,              \* the digest of a record of another task
    Versions,               \* the spec identifiers receipts are issued under
    MaxTime, MaxLen,        \* bounds: issuing times, receipts
    MaxWork,                \* bound: executions; of any other type one record
    Topics                  \* bound: sets of record types one history has

ASSUME HistoryAssumption ==
    /\ Operator \in Parties
    /\ Versions \subseteq Specs
    /\ MaxTime \in Nat /\ MaxLen \in Nat \ {0, 1} /\ MaxWork \in Nat
    /\ \A t \in Topics : t \subseteq RecordTypes

VARIABLES
    topic,      \* the record types of this history
    chain,      \* its receipts
    cites,      \* for each receipt the places of the offer, accept and grant it is about
    result      \* what the verifier says of the chain as it is

vars == <<topic, chain, cites, result>>

Times == 0..MaxTime
Deadline == 1           \* when offers and grants end, and the offers are made
Outside == MaxLen + 1   \* the place of a record that is not in the chain

Init ==
    /\ topic \in Topics
    /\ chain = <<>>
    /\ cites = <<>>
    /\ result = VerifyBundle(BundleOf(chain, "task", 6), {}, FALSE)

Nothing == [offer |-> 0, accept |-> 0, grant |-> 0]

Newest == CHOOSE v \in Versions : \A w \in Versions : w <= v
Uniform == \A i \in DOMAIN chain : chain[i].spec = Newest

\* Bounds: nothing is issued after the termination, next to nothing in a task
\* whose session is not opened first, and in an older version one record at most,
\* an accept or the only execution.
Room(type, v) ==
    /\ Indexes(chain, "task.termination") = {}
    /\ Len(chain) < IF chain # <<>> /\ chain[1].type # "session.pass.created" THEN 2 ELSE MaxLen
    /\ v # Newest => type \in {"agreement.accept", "task.execution"} /\ Uniform
    /\ Cardinality(Indexes(chain, type)) < IF type = "task.execution" /\ v = Newest /\ Uniform THEN MaxWork ELSE 1

\* TaskChain.add.
Add(type, spec, key, at, body, about) ==
    /\ type \in topic
    /\ Room(type, spec)
    /\ BodyValid(type, spec, body)
    /\ chain' = Append(chain, NextReceipt(chain, Len(chain), "task", spec, type, key, at, body))
    /\ cites' = Append(cites, about)
    /\ result' = VerifyBundle(BundleOf(chain', "task", 6), {}, FALSE)
    /\ UNCHANGED topic

OpenSession(v) ==
    \E cap \in {None} \cup IF "settlement" \in topic THEN {[currency |-> "eur", minor |-> 1]} ELSE {} :
      Add("session.pass.created", v, Operator, 0,
          IF cap = None THEN [shape |-> "ok", policy_version |-> "p1"]
          ELSE [shape |-> "ok", policy_version |-> "p1", spend_cap |-> cap], Nothing)

Offer(v) ==
    \E offeree \in Parties \ {Operator} :
      Add("agreement.offer", v, Operator, Deadline, OfferBody(offeree, "terms", Deadline), Nothing)

\* accept_body of an offer; with other terms, or another accepting party; or of
\* an offer of another task.
Accept(v) ==
    \E key, offeree \in Parties, at \in Times :
      \/ \E i \in Indexes(chain, "agreement.offer"), terms \in {"terms", "other"} :
           /\ terms = "other" => offeree = key /\ v = Newest
           /\ Add("agreement.accept", v, key, at,
               [AcceptBody(chain[i]) EXCEPT !.terms = terms, !.offeree = offeree],
               [Nothing EXCEPT !.offer = i])
      \/ /\ offeree = key
         /\ Add("agreement.accept", v, key, at,
                [shape |-> "ok", offer_ref |-> Elsewhere, terms |-> "terms", offeree |-> key], Nothing)

Grant(v) ==
    \E agent \in Parties \ {Operator}, at, granted \in 0..Deadline :
      \/ Add("authority.grant", v, Operator, at,
             [shape |-> "ok", agent |-> agent, granted_at |-> granted, expires_at |-> Deadline], Nothing)
      \/ Add("authority.grant", v, Operator, at,
             [shape |-> "ok", agent |-> agent, granted_at |-> granted], Nothing)

\* bind_body, and the same for a grant: a record of this task, of another, or none.
Refer(body, field, place) ==
    CASE place = 0 -> body
      [] place = Outside -> With(body, field, Elsewhere)
      [] OTHER -> With(body, field, Digest(chain[place]))

\* The places it may be about; records of other tasks if this one has none.
Within(type) ==
    {0} \cup IF type \notin topic THEN {}
             ELSE IF Indexes(chain, type) = {} THEN {Outside} ELSE Indexes(chain, type)

Execute(v) ==
    \E key \in Parties, at \in Times :
    \E a \in Within("agreement.accept"), g \in Within("authority.grant") :
      Add("task.execution", v, key, at,
          Refer(Refer([shape |-> "ok"], "agreement_ref", a), "authority_ref", g),
          [offer |-> 0, accept |-> a, grant |-> g])

Decide(v) ==
    \E policy \in {"p1", "p2"}, sources \in {"sha256", "unknown"} :
      Add("task.decision", v, Operator, 0,
          [shape |-> "ok", policy_version |-> policy, input_provenance |-> sources], Nothing)

\* The counterparty may sign the body, and the body may be changed afterwards.
Deliver(v) ==
    \E signed \in {"ok", "changed", "no"} :
      LET body == [shape |-> "ok", counterparty |-> Operator] IN
      Add("delivery.attestation", v, Operator, 0,
          CASE signed = "no" -> body
            [] signed = "ok" -> AttestedBody(body, Operator)
            [] OTHER -> [AttestedBody([body EXCEPT !.counterparty = Elsewhere], Operator)
                           EXCEPT !.counterparty = Operator],
          Nothing)

Settle(v) ==
    \E gated \in BOOLEAN, minor \in 1..2, currency \in {"eur", "usd"} :
      Add("settlement", v, Operator, 0,
          [shape |-> "ok", gated_on_delivery |-> gated,
           amount |-> [currency |-> currency, minor |-> minor]], Nothing)

Terminate(v) == Add("task.termination", v, Operator, 0, [shape |-> "ok"], Nothing)

Next ==
    \E v \in Versions :
      \/ OpenSession(v) \/ Offer(v) \/ Accept(v) \/ Grant(v) \/ Execute(v)
      \/ Decide(v) \/ Deliver(v) \/ Settle(v) \/ Terminate(v)

Spec == Init /\ [][Next]_vars

-----------------------------------------------------------------------------
(* What a history must be like for its bundle to deserve trust, in terms of *)
(* what its records are about.                                              *)

Type(i) == chain[i].type
At(i) == chain[i].at
By(i) == chain[i].issuer
Body(i) == chain[i].body
All(type) == Indexes(chain, type)
WorkSince(spec) == {i \in DOMAIN chain : Type(i) \in BoundTypes /\ chain[i].spec >= spec}

Session == Least(All("session.pass.created"))

PaymentsLawful ==
    \A s \in All("settlement") :
      /\ "spend_cap" \in DOMAIN Body(Session) =>
           /\ Body(s).amount.currency = Body(Session).spend_cap.currency
           /\ Body(s).amount.minor <= Body(Session).spend_cap.minor
      /\ Body(s).gated_on_delivery => \E d \in All("delivery.attestation") : d < s

DecisionsLawful ==
    /\ \A d \in All("task.decision") :
         /\ Body(d).policy_version = Body(Session).policy_version
         /\ Body(d).input_provenance = "sha256"
    /\ \A d \in All("delivery.attestation") :
         "attestation" \in DOMAIN Body(d) =>
           Body(d).attestation.over = <<Without(Body(d), "attestation"), <<>>>>

\* An offer was accepted as it was made, until its deadline; from version 4 on
\* by the party it was made to, and not before.
AcceptLawful(a) ==
    LET o == cites[a].offer IN
    /\ o # 0
    /\ Body(a).terms = Body(o).terms
    /\ At(a) <= Body(o).valid_until
    /\ chain[a].spec >= 4 => By(a) = Body(o).offeree /\ By(a) = Body(a).offeree /\ At(a) >= At(o)

\* What refers to an accept is done by the party that accepted, afterwards.
UnderAgreement(i) ==
    LET a == cites[i].accept IN
    a # 0 => a \in DOMAIN chain /\ By(i) = Body(a).offeree /\ At(i) >= At(a)

\* What refers to a grant is done by its agent while it lasts.
UnderAuthority(i) ==
    LET g == cites[i].grant IN
    g # 0 => /\ g \in DOMAIN chain
             /\ By(i) = Body(g).agent
             /\ At(i) >= At(g) /\ At(i) >= Body(g).granted_at
             /\ "expires_at" \in DOMAIN Body(g) => At(i) <= Body(g).expires_at

GrantLawful(g) ==
    "expires_at" \in DOMAIN Body(g) => Body(g).granted_at < Body(g).expires_at

Lawful ==
    /\ All("session.pass.created") # {} /\ All("task.termination") # {}
    /\ PaymentsLawful /\ DecisionsLawful
    /\ \A a \in All("agreement.accept") : AcceptLawful(a)
    /\ \A i \in WorkSince(4) : UnderAgreement(i)
    /\ \A i \in WorkSince(6) : UnderAuthority(i)
    /\ \A g \in All("authority.grant") : GrantLawful(g)

\* Nothing is left open: each accept and grant was used, and whoever accepted
\* refers to it in all that follows.
Complete ==
    /\ \A a \in {x \in All("agreement.accept") : chain[x].spec >= 4} :
         /\ \E i \in WorkSince(4) : cites[i].accept = a
         /\ \A i \in WorkSince(4) : By(i) = Body(a).offeree /\ At(i) >= At(a) => cites[i].accept # 0
    /\ \A g \in All("authority.grant") : \E i \in WorkSince(6) : cites[i].grant = g

-----------------------------------------------------------------------------
(* Properties *)

\* From digests, times and signatures alone the verifier finds out what the
\* records are about: nothing unlawful, at any boundary of any deadline, is
\* ever better than INSUFFICIENT_EVIDENCE, and TRUSTED is a lawful history in
\* which no accept or grant was left unused and no reference left out.
VerdictIsDeserved ==
    chain # <<>> =>
      /\ result.verdict \in {"TRUSTED", "PROVISIONAL"} <=> Lawful
      /\ result.verdict = "TRUSTED" <=> Lawful /\ Complete

\* What is wrong stays wrong: no receipt that anybody appends, with whatever
\* time and references, takes an error back, but for the session and the
\* termination the chain did not have yet.
ErrorsAreFinal ==
    [][chain # <<>> =>
         result.errors \ {"missing_termination", "malformed"} \subseteq result'.errors]_vars

\* A key's revocation, whichever of the lists it is on, takes away exactly what
\* the key signed from that second on, and says nothing of anything else; and
\* while any list cannot be had, no bundle passes as if that list were empty.
RevocationIsExact ==
    chain # <<>> /\ result.verdict # "UNTRUSTED" =>
      \A key \in Parties, t \in Times :
        LET b == BundleOf(chain, "task", 6)
            revoked == {Revoke(key, t)}
            told == VerifyMain("ok", b, <<Listed({}), Listed(revoked)>>, FALSE)
            inside == VerifyBundle([b EXCEPT !.revocations = revoked], {}, FALSE)
            Lacking(lost) == VerifyMain("ok", b, <<Listed({}), lost>>, FALSE)
        IN /\ told.result = inside
           /\ IF \E i \in DOMAIN chain : By(i) = key /\ At(i) >= t
              THEN inside.verdict = "UNTRUSTED" ELSE inside = result
           /\ told.exit = 0 <=> inside.verdict = "TRUSTED"
           /\ \A lost \in {[Listed(revoked) EXCEPT !.plain = TRUE], [Listed({}) EXCEPT !.answers = FALSE],
                            [Listed({}) EXCEPT !.long = TRUE], [Listed({}) EXCEPT !.list = FALSE]} :
                Lacking(lost).exit # 0 /\ Lacking(lost).result.verdict = "INSUFFICIENT_EVIDENCE"
=============================================================================
