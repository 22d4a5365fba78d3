------------------------------ MODULE MCDisclosure ------------------------------
(* Bundles of one operator and one agent for TLC. *)
EXTENDS Disclosure

CONSTANTS operator, agent, holder

Add(chain, type, key, at, body) ==
    Append(chain, NextReceipt(chain, Len(chain), "task", 6, type, key, at, body))

Eur(n) == [currency |-> "eur", minor |-> n]
Free == [currency |-> None, minor |-> 0]
End == [shape |-> "ok", note |-> "n2"]

\* One issuer: a pass with a spending cap, and a payment within or above it, or
\* without a currency.
Paid(amount) ==
    LET pass == Add(<<>>, "session.pass.created", operator, 0,
                    [shape |-> "ok", policy_version |-> "p1", spend_cap |-> Eur(1)])
        paid == Add(pass, "settlement", operator, 1,
                    [shape |-> "ok", gated_on_delivery |-> FALSE, amount |-> amount, note |-> "n1"])
    IN Add(paid, "task.termination", operator, 1, End)

\* An agreement carried by what was done under it, by the party key.
Agreed(key) ==
    LET pass == Add(<<>>, "session.pass.created", operator, 0, [shape |-> "ok", policy_version |-> "p1"])
        offered == Add(pass, "agreement.offer", operator, 0, OfferBody(agent, "terms", 1))
        accepted == Add(offered, "agreement.accept", agent, 1, With(AcceptBody(offered[2]), "note", "n1"))
        done == Add(accepted, "task.execution", key, 1,
                    BindBody([shape |-> "ok"], accepted[3]))
    IN Add(done, "task.termination", key, 1, [shape |-> "ok"])

\* An offer that is accepted, and nothing done under it; too late at 2.
Accepted(at) ==
    LET pass == Add(<<>>, "session.pass.created", operator, 0, [shape |-> "ok", policy_version |-> "p1"])
        offered == Add(pass, "agreement.offer", operator, 0, OfferBody(agent, "terms", 1))
        accepted == Add(offered, "agreement.accept", agent, at, AcceptBody(offered[2]))
    IN Add(accepted, "task.termination", agent, at, End)

\* A delivery that the counterparty has signed, before or after it was noted.
Delivered(noted) ==
    LET pass == Add(<<>>, "session.pass.created", operator, 0, [shape |-> "ok", policy_version |-> "p1"])
        body == [shape |-> "ok", counterparty |-> agent, note |-> "n1"]
        signed == IF noted THEN AttestedBody(body, agent)
                  ELSE With(AttestedBody(Without(body, "note"), agent), "note", "n1")
        delivered == Add(pass, "delivery.attestation", operator, 1, signed)
    IN Add(delivered, "task.termination", operator, 1, End)

\* An authority that ends, and what was done under it, in time or too late.
Authorized(at) ==
    LET pass == Add(<<>>, "session.pass.created", operator, 0, [shape |-> "ok", policy_version |-> "p1"])
        granted == Add(pass, "authority.grant", operator, 0,
                       [shape |-> "ok", agent |-> agent, granted_at |-> 0, expires_at |-> 1])
        done == Add(granted, "task.execution", agent, at,
                    With([shape |-> "ok"], "authority_ref", Digest(granted[2])))
    IN Add(done, "task.termination", agent, at, [shape |-> "ok"])

\* A store that commits to its erasures and says that it is anchored elsewhere.
Stored ==
    LET pass == Add(<<>>, "session.pass.created", operator, 0, [shape |-> "ok", policy_version |-> "p1"])
        kept == Add(pass, "state.commitment", operator, 1,
                    [shape |-> "ok", scope |-> "s", head_digest |-> "h", erasure_count |-> 1,
                     anchor_location |-> "offstore"])
    IN Add(kept, "task.termination", operator, 1, End)

Headed(b) == [b EXCEPT !.head = [of |-> HeadOf(b.receipts), anchored |-> None]]
Anchored(b) == [b EXCEPT !.anchors = {[target |-> 2, hash |-> Digest(b.receipts[3]), kind |-> "custom"]}]

StoriesDef ==
    LET Bundle(chain) == BundleOf(chain, "task", 6)
    IN {Bundle(Paid(Eur(1))), Bundle(Paid(Eur(2))), Bundle(Agreed(agent)), Bundle(Agreed(operator)),
        Headed(Bundle(Paid(Eur(1)))), Bundle(Stored), Bundle(Paid(Free)),
        Bundle(Accepted(1)), Bundle(Accepted(2)), Bundle(Delivered(TRUE)), Bundle(Delivered(FALSE)),
        Bundle(Authorized(1)), Bundle(Authorized(2)),
        Anchored(Bundle(Paid(Eur(1))))}
=============================================================================
