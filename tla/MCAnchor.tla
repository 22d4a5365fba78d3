-------------------------------- MODULE MCAnchor --------------------------------
(* Three bundles and their anchor entries for TLC. *)
EXTENDS Anchor

Chain(id) ==
    LET pass == NextReceipt(<<>>, 0, "task", 6, "session.pass.created", "k", 0, [shape |-> "ok", policy_version |-> "p"])
    IN <<pass, NextReceipt(<<pass>>, id, "task", 6, "task.termination", "k", 0, [shape |-> "ok"])>>

Entry(id, r, kind) == [target |-> id, hash |-> Digest(r), kind |-> kind]

Case(chain, entries) ==
    [bundle |-> [BundleOf(chain, "task", 6) EXCEPT !.anchors = {entries[i] : i \in DOMAIN entries}],
     entries |-> entries]

\* An entry as it should be, behind one of another kind; an entry with another
\* receipt's hash; and an id that two receipts share.
CasesDef ==
    LET c == Chain(1)  d == Chain(0) IN
    {Case(c, <<Entry(1, c[2], "custom"), Entry(1, c[2], "opentimestamps")>>),
     Case(c, <<Entry(1, c[1], "opentimestamps")>>),
     Case(d, <<Entry(0, d[2], "opentimestamps")>>)}

OpsDef == {[name |-> "sha256", arg |-> <<>>], [name |-> "append", arg |-> <<[byte |-> "a"]>>]}
=============================================================================
