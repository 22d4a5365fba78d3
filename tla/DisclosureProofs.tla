---------------------------- MODULE DisclosureProofs ----------------------------
(***************************************************************************)
(* Theorems about Disclosure, for every set of issuers and of bundles they *)
(* made, any number of redactions and any number of steps of the holder.   *)
(*                                                                         *)
(* The inductive invariant: every version is a chain in which each receipt *)
(* is signed behind the one before it, also after redactions               *)
(* (RedactedIsVersion); every redaction in it commits to what stood there  *)
(* in some version; every receipt the holder has carries the signature of  *)
(* one of a version, or is its own.  A bundle that is not UNTRUSTED has    *)
(* its envelopes in order (EnvelopesInOrder), so a receipt that bears a    *)
(* version's signature is that receipt, and so is, counting down, each one *)
(* before it (PrefixIsSigned).                                             *)
(*                                                                         *)
(* What the redaction tool leaves is a second invariant (ToolInv): until   *)
(* the holder moves, the bundle is the origin's but for redacted fields,   *)
(* with nothing changed before the first of them (CoverInv), and the map   *)
(* opens exactly the redacted places (OpeningInv).  Two such chains are    *)
(* Tooled.  They are compared check by check.  Where a rule reads a field  *)
(* that was redacted, the redaction fails it too, or the evidence is       *)
(* insufficient, so no error is lifted (NothingLifted).  If no rule reads  *)
(* what was redacted and no digest leads into the tail that was signed     *)
(* again (Unread, Settled), the chains are Alike for every check.          *)
(*                                                                         *)
(* NoneIsNoRecord: JSON null has no members.                               *)
(***************************************************************************)
EXTENDS Disclosure, SequenceTheorems, WellFoundedInduction, TLAPS

-----------------------------------------------------------------------------
(* Least elements, and an induction that counts down *)

\* A nonempty set of numbers has a least element, which the model's operator yields.
LEMMA HasLeast ==
  ASSUME NEW S, S \subseteq Nat, S # {}
  PROVE  Least(S) \in S /\ \A y \in S : Least(S) <= y
<1> DEFINE Below == OpToRel(<, Nat)
<1>1. PICK x \in S : \A y \in S : <<y, x>> \notin Below
  BY NatLessThanWellFounded, WFMin
<1>2. \A y \in S : y < x => <<y, x>> \in Below
  BY DEF OpToRel
<1> HIDE DEF Below
<1>3. \A y \in S : ~(y < x)
  BY <1>1, <1>2
<1>4. \A y \in S : x <= y
  BY <1>3
<1> QED BY <1>4 DEF Least

-----------------------------------------------------------------------------
(* _resign_tail *)

\* The receipt at place i, signed behind the given one.
Resigned(rs, i, before, key) ==
    Sign([rs[i] EXCEPT !.seq = i - 1, !.prev = IF i = 1 THEN None ELSE Digest(before)], key)

IsResigned(g, n, rs, start, key) ==
    g = [i \in 1..n |-> IF i < start THEN rs[i] ELSE Resigned(rs, i, g[i - 1], key)]

\* A tail of any length can be signed receipt by receipt.
LEMMA Recursion ==
  ASSUME NEW n \in Nat, NEW rs, NEW start, NEW key
  PROVE  \E g : IsResigned(g, n, rs, start, key)
<1> DEFINE Step(g, i) == IF i < start THEN rs[i] ELSE Resigned(rs, i, g[i - 1], key)
           Without_ == {k \in Nat : ~\E g : g = [i \in 1..k |-> Step(g, i)]}
<1>1. SUFFICES Without_ = {}
  BY DEF IsResigned
<1>2. SUFFICES ASSUME Without_ # {} PROVE FALSE
  OBVIOUS
<1>3. PICK k \in Without_ : \A l \in Without_ : k <= l
  <2>1. Without_ \subseteq Nat
    OBVIOUS
  <2> HIDE DEF Without_
  <2> QED BY <1>2, <2>1, HasLeast
<1>4. k # 0
  <2> DEFINE g == [i \in {} |-> i]
  <2>1. g = [i \in 1..0 |-> Step(g, i)]
    OBVIOUS
  <2> HIDE DEF g, Step
  <2> QED BY <2>1
<1>5. k \in Nat /\ k - 1 \in Nat /\ k - 1 \notin Without_
  <2>1. k \in Nat /\ k - 1 \in Nat
    BY <1>4
  <2> HIDE DEF Without_
  <2> QED BY <1>3, <2>1
<1>6. PICK g : g = [i \in 1..(k - 1) |-> Step(g, i)]
  BY <1>5
<1> DEFINE h == [i \in 1..k |-> IF i = k THEN Step(g, k) ELSE g[i]]
<1>7. \A i \in 1..k : h[i] = Step(h, i)
  <2> TAKE i \in 1..k
  <2>1. i = 1 => Resigned(rs, i, h[i - 1], key) = Resigned(rs, i, g[i - 1], key)
    BY DEF Resigned
  <2>2. i # 1 => i - 1 \in 1..(k - 1) /\ h[i - 1] = g[i - 1]
    BY <1>5
  <2>3. Step(h, i) = Step(g, i)
    BY <2>1, <2>2
  <2>4. i # k => g[i] = Step(g, i)
    BY <1>5, <1>6
  <2>5. h[i] = IF i = k THEN Step(g, k) ELSE g[i]
    OBVIOUS
  <2> HIDE DEF h, Step
  <2> QED BY <2>3, <2>4, <2>5
<1>8. h = [i \in 1..k |-> Step(h, i)]
  <2>1. DOMAIN h = 1..k /\ h = [i \in 1..k |-> h[i]]
    OBVIOUS
  <2> HIDE DEF h, Step
  <2> QED BY <1>7, <2>1
<1> QED BY <1>8

\* What the function that _resign_tail builds satisfies.
IsSigned(g, rs, start, key) ==
    g = [i \in DOMAIN rs |->
           IF i < start THEN rs[i]
           ELSE Sign([rs[i] EXCEPT !.seq = i - 1,
                                   !.prev = IF i = 1 THEN None ELSE Digest(g[i - 1])], key)]

\* The recursive function of _resign_tail exists.
LEMMA HasSigned ==
  ASSUME NEW n \in Nat, NEW rs, DOMAIN rs = 1..n, NEW start, NEW key
  PROVE  \E x : IsSigned(x, rs, start, key)
<1>1. PICK x : IsResigned(x, n, rs, start, key)
  BY Recursion
<1>2. x = [i \in DOMAIN rs |-> IF i < start THEN rs[i] ELSE Resigned(rs, i, x[i - 1], key)]
  BY <1>1 DEF IsResigned
<1>3. IsSigned(x, rs, start, key)
  BY <1>2, Zenon DEF IsSigned, Resigned
<1> QED BY <1>3

\* What _resign_tail returns: the same places, signed from start on.
LEMMA ResignTailIs ==
  ASSUME NEW n \in Nat, NEW rs, DOMAIN rs = 1..n, NEW start, NEW key
  PROVE  LET t == ResignTail(rs, start, key) IN
         /\ DOMAIN t = 1..n /\ t = [i \in 1..n |-> t[i]]
         /\ \A i \in 1..n : t[i] = IF i < start THEN rs[i] ELSE Resigned(rs, i, t[i - 1], key)
<1> DEFINE t == ResignTail(rs, start, key)
           g == CHOOSE g : IsSigned(g, rs, start, key)
<1>1. \E x : IsSigned(x, rs, start, key)
  BY HasSigned
<1>2. IsSigned(g, rs, start, key)
  BY <1>1
<1>3. t = [i \in DOMAIN rs |-> g[i]]
  BY Zenon DEF ResignTail, IsSigned
<1> HIDE DEF g, t
<1>4. g = [i \in DOMAIN rs |-> IF i < start THEN rs[i] ELSE Resigned(rs, i, g[i - 1], key)]
  BY <1>2, Zenon DEF IsSigned, Resigned
<1>5. DOMAIN g = 1..n /\ \A i \in 1..n : t[i] = g[i]
  BY <1>3, <1>4
<1>6. \A i \in 1..n : t[i] = IF i < start THEN rs[i] ELSE Resigned(rs, i, t[i - 1], key)
  <2> TAKE i \in 1..n
  <2>1. g[i] = IF i < start THEN rs[i] ELSE Resigned(rs, i, g[i - 1], key)
    BY <1>4
  <2>2. i # 1 => t[i - 1] = g[i - 1]
    BY <1>5
  <2>3. i = 1 => Resigned(rs, i, t[i - 1], key) = Resigned(rs, i, g[i - 1], key)
    BY DEF Resigned
  <2> QED BY <1>5, <2>1, <2>2, <2>3
<1>7. t = [i \in 1..n |-> t[i]] /\ DOMAIN t = 1..n
  BY <1>3, <1>5
<1> QED BY <1>6, <1>7 DEF t

-----------------------------------------------------------------------------
(* Receipts, and versions of a chain *)

Object(x) == x = [f \in DOMAIN x |-> x[f]]
Fields == {"id", "task", "spec", "type", "issuer", "at", "seq", "prev", "body", "hidden", "sig"}
List(s) == s \in Seq({s[i] : i \in DOMAIN s})

\* A whole receipt, with what a body and its redactions are.
Whole(r) ==
    /\ Object(r) /\ DOMAIN r = Fields
    /\ Object(r.body) /\ Object(r.hidden)
    /\ "shape" \in DOMAIN r.body /\ Encodable(r)

\* The receipt at place i of v is an issuer's, signed behind the one before it.
SealedAt(v, i) ==
    /\ Whole(v[i])
    /\ v[i].issuer \in Issuers
    /\ v[i].seq = i - 1
    /\ v[i].prev = IF i = 1 THEN None ELSE Digest(v[i - 1])
    /\ v[i].sig = [by |-> v[i].issuer, over |-> Unsigned(v[i])]

Version(v) == v # <<>> /\ List(v) /\ \A i \in DOMAIN v : SealedAt(v, i)

\* A function on 1..n is a list of length n.
LEMMA ListIs ==
  ASSUME NEW n \in Nat, NEW s, s = [i \in 1..n |-> s[i]]
  PROVE  List(s) /\ Len(s) = n
<1>1. DOMAIN s = 1..n
  OBVIOUS
<1> DEFINE T == {s[i] : i \in DOMAIN s}
<1>2. \A i \in 1..n : s[i] \in T
  BY <1>1
<1>3. List(s) <=> s \in Seq(T)
  BY DEF List
<1> HIDE DEF T
<1>4. [i \in 1..n |-> s[i]] \in Seq(T)
  BY <1>2
<1>5. s \in Seq(T)
  BY <1>4, Zenon
<1> QED BY <1>1, <1>3, <1>5

\* A list is a function on the numbers up to its length.
LEMMA ListHas ==
  ASSUME NEW s, List(s)
  PROVE  /\ Len(s) \in Nat /\ DOMAIN s = 1..Len(s)
         /\ s = [i \in 1..Len(s) |-> s[i]]
<1> DEFINE T == {s[i] : i \in DOMAIN s}
<1>1. s \in Seq(T)
  BY DEF List
<1> HIDE DEF T
<1> QED BY <1>1

\* Signing changes the signature only, and what it covers is all the rest.
LEMMA SignIs ==
  ASSUME NEW x, DOMAIN x = Fields, NEW key
  PROVE  LET r == Sign(x, key) IN
         /\ Object(r) /\ DOMAIN r = Fields
         /\ \A f \in Fields \ {"sig"} : r[f] = x[f]
         /\ r.sig = [by |-> key, over |-> Unsigned(r)]
<1> DEFINE r == Sign(x, key)
           over == Unsigned(x)
<1>1. r = [f \in Fields |-> IF f = "sig" THEN [by |-> key, over |-> over] ELSE x[f]]
  BY DEF Sign
<1> HIDE DEF r, over
<1>2. DOMAIN r = Fields /\ Object(r)
  BY <1>1 DEF Object
<1>3. \A f \in Fields \ {"sig"} : r[f] = x[f]
  BY <1>1
<1>4. "sig" \in Fields
  BY DEF Fields
<1>5. r.sig = [by |-> key, over |-> over]
  BY <1>1, <1>4
<1>6. Unsigned(r) = over
  BY <1>2, <1>3 DEF Unsigned, over
<1> QED BY <1>2, <1>3, <1>5, <1>6 DEF r

\* Receipts that agree on all that is signed, and on the signature, are the same.
LEMMA SameSigned ==
  ASSUME NEW r, NEW s, Object(r), Object(s), DOMAIN r = Fields, DOMAIN s = Fields,
         Unsigned(r) = Unsigned(s)
  PROVE  /\ \A f \in Fields \ {"sig"} : r[f] = s[f]
         /\ r.sig = s.sig => r = s
<1>1. \A f \in Fields \ {"sig"} : r[f] = s[f]
  <2> TAKE f \in Fields \ {"sig"}
  <2>1. Unsigned(r)[f] = r[f] /\ Unsigned(s)[f] = s[f]
    BY DEF Unsigned
  <2> QED BY <2>1
<1>2. ASSUME r.sig = s.sig PROVE r = s
  <2>1. \A f \in Fields : r[f] = s[f]
    BY <1>1, <1>2
  <2> QED BY <2>1 DEF Object
<1> QED BY <1>1, <1>2

\* What add makes is a version, with nothing redacted.
LEMMA StoryIsVersion ==
  ASSUME NEW rs, Issued(rs)
  PROVE  Version(rs) /\ \A i \in DOMAIN rs : rs[i].hidden = <<>>
<1>1. rs # <<>> /\ List(rs)
  BY DEF Issued, List
<1>2. Len(rs) \in Nat /\ DOMAIN rs = 1..Len(rs)
  BY <1>1, ListHas
<1>3. ASSUME NEW i \in DOMAIN rs
      PROVE  SealedAt(rs, i) /\ rs[i].hidden = <<>>
  <2> DEFINE r == rs[i]
             before == SubSeq(rs, 1, i - 1)
             prev == IF before = <<>> THEN None ELSE Digest(before[Len(before)])
             x == NewEnvelope(r.id, r.task, r.spec, r.type, r.issuer, r.at, Len(before), prev, r.body)
  <2>1. /\ r = Sign(x, r.issuer)
        /\ r.issuer \in Issuers
        /\ Object(r.body) /\ "shape" \in DOMAIN r.body /\ Encodable(r)
    BY <1>3 DEF Issued, NextReceipt, Object
  <2>2. /\ DOMAIN x = Fields
        /\ x.seq = Len(before) /\ x.prev = prev /\ x.hidden = <<>>
    BY DEF NewEnvelope, Fields
  <2>3. /\ Len(before) = i - 1
        /\ i # 1 => before[i - 1] = rs[i - 1]
    <3> DEFINE T == {rs[k] : k \in DOMAIN rs}
    <3>1. rs \in Seq(T) /\ i \in 1..Len(rs)
      BY <1>1, <1>2, <1>3 DEF List
    <3> HIDE DEF T
    <3> QED BY <3>1
  <2>4. prev = IF i = 1 THEN None ELSE Digest(rs[i - 1])
    <3>1. before \in Seq({rs[k] : k \in DOMAIN rs})
      <4> DEFINE T == {rs[k] : k \in DOMAIN rs}
      <4>1. rs \in Seq(T) /\ i \in 1..Len(rs)
        BY <1>1, <1>2, <1>3 DEF List
      <4> HIDE DEF T
      <4>2. before \in Seq(T)
        BY <4>1
      <4> QED BY <4>2 DEF T
    <3>2. before = <<>> <=> i = 1
      <4> DEFINE T == {rs[k] : k \in DOMAIN rs}
      <4>1. before \in Seq(T) /\ i \in Nat
        BY <1>2, <1>3, <3>1
      <4> HIDE DEF T, before
      <4> QED BY <2>3, <4>1
    <3> HIDE DEF before
    <3> QED BY <2>3, <3>2
  <2> HIDE DEF x, prev, before
  <2>5. /\ Object(r) /\ DOMAIN r = Fields
        /\ \A f \in Fields \ {"sig"} : r[f] = x[f]
        /\ r.sig = [by |-> r.issuer, over |-> Unsigned(r)]
    <3>1. \A key : LET s == Sign(x, key) IN
                   /\ Object(s) /\ DOMAIN s = Fields
                   /\ \A f \in Fields \ {"sig"} : s[f] = x[f]
                   /\ s.sig = [by |-> key, over |-> Unsigned(s)]
      BY <2>2, SignIs
    <3> QED BY <2>1, <3>1, Zenon
  <2>6. r.seq = x.seq /\ r.prev = x.prev /\ r.hidden = x.hidden
    BY <2>5 DEF Fields
  <2>7. Object(r.hidden)
    <3>1. r.hidden = <<>>
      BY <2>2, <2>6
    <3>2. Object(<<>>)
      BY DEF Object
    <3> QED BY <3>1, <3>2
  <2>8. Whole(r)
    BY <2>1, <2>5, <2>7 DEF Whole
  <2>9. r.seq = i - 1 /\ r.prev = (IF i = 1 THEN None ELSE Digest(rs[i - 1])) /\ r.hidden = <<>>
    BY <2>2, <2>3, <2>4, <2>6
  <2> QED BY <2>1, <2>5, <2>8, <2>9 DEF SealedAt
<1> QED BY <1>1, <1>3 DEF Version

-----------------------------------------------------------------------------
(* redact *)

\* A receipt whose fields at S have been redacted.
LEMMA HiddenIs ==
  ASSUME NEW rs, NEW i \in DOMAIN rs, Whole(rs[i]), NEW S, S \subseteq Redactable(rs)
  PROVE  LET r == rs[i]
             h == Hidden(rs[i], i, S, rs)
         IN /\ Whole(h)
            /\ \A f \in Fields \ {"body", "hidden"} : h[f] = r[f]
            /\ (\A p \in S : p[1] # i) => h = r
            /\ \A f \in DOMAIN h.hidden :
                 \/ <<i, f>> \in S /\ h.hidden[f].commit = Opening(rs, <<i, f>>)
                 \/ f \in DOMAIN r.hidden /\ h.hidden[f] = r.hidden[f]
<1> DEFINE r == rs[i]
           fields == {f \in DOMAIN r.body \cup DOMAIN r.hidden : <<i, f>> \in S}
           body == [f \in DOMAIN r.body \ fields |-> r.body[f]]
           New(f) == [commit |-> Opening(rs, <<i, f>>), erased |-> FALSE]
           hidden == [f \in DOMAIN r.hidden \cup fields |-> IF f \in fields THEN New(f) ELSE r.hidden[f]]
           h == [r EXCEPT !.body = body, !.hidden = hidden]
<1>1. h = Hidden(rs[i], i, S, rs)
  BY DEF Hidden
<1>2. \A f \in fields : <<i, f>> \in S
  OBVIOUS
<1>3. "shape" \notin fields
  BY DEF Redactable
<1>4. (\A p \in S : p[1] # i) => fields = {}
  OBVIOUS
<1>5. \A f : New(f).commit = Opening(rs, <<i, f>>)
  OBVIOUS
<1> HIDE DEF fields, New
<1>6. /\ Object(r) /\ DOMAIN r = Fields /\ Object(r.body) /\ Object(r.hidden)
      /\ "shape" \in DOMAIN r.body /\ r.body.shape # "float"
  BY DEF Whole, Encodable
<1>7. /\ Object(body) /\ "shape" \in DOMAIN body /\ body.shape = r.body.shape
  BY <1>3, <1>6 DEF Object
<1>8. Object(hidden) /\ DOMAIN hidden = DOMAIN r.hidden \cup fields
  BY DEF Object
<1>9. \A f \in DOMAIN hidden :
        \/ <<i, f>> \in S /\ hidden[f].commit = Opening(rs, <<i, f>>)
        \/ f \in DOMAIN r.hidden /\ hidden[f] = r.hidden[f]
  <2> TAKE f \in DOMAIN hidden
  <2>1. CASE f \in fields
    BY <1>2, <1>5, <2>1
  <2>2. CASE f \notin fields
    BY <2>2
  <2> QED BY <2>1, <2>2
<1>10. fields = {} => body = r.body /\ hidden = r.hidden
  <2>1. ASSUME fields = {} PROVE body = [f \in DOMAIN r.body |-> r.body[f]]
    BY <2>1
  <2>2. ASSUME fields = {} PROVE hidden = [f \in DOMAIN r.hidden |-> r.hidden[f]]
    BY <2>2
  <2> HIDE DEF body, hidden
  <2> QED BY <1>6, <2>1, <2>2 DEF Object
<1> HIDE DEF body, hidden, r
<1>11. /\ DOMAIN h = Fields /\ Object(h) /\ h.body = body /\ h.hidden = hidden
       /\ \A f \in Fields \ {"body", "hidden"} : h[f] = r[f]
  <2>1. "body" \in Fields /\ "hidden" \in Fields /\ "body" # "hidden"
    BY DEF Fields
  <2>2. DOMAIN h = Fields /\ h.body = body /\ h.hidden = hidden
    BY <1>6, <2>1
  <2>3. \A f \in Fields \ {"body", "hidden"} : h[f] = r[f]
    BY <1>6
  <2>4. Object(h)
    BY <1>6 DEF Object
  <2> QED BY <2>2, <2>3, <2>4
<1> HIDE DEF h
<1>12. Whole(h)
  BY <1>6, <1>7, <1>8, <1>11 DEF Whole, Encodable
<1>13. fields = {} => h = r
  <2> SUFFICES ASSUME fields = {} PROVE h = r
    OBVIOUS
  <2>1. \A f \in Fields : h[f] = r[f]
    BY <1>10, <1>11
  <2> QED BY <1>6, <1>11, <2>1 DEF Object
<1>14. \A f \in DOMAIN h.hidden :
        \/ <<i, f>> \in S /\ h.hidden[f].commit = Opening(rs, <<i, f>>)
        \/ f \in DOMAIN r.hidden /\ h.hidden[f] = r.hidden[f]
  BY <1>9, <1>11
<1> QED BY <1>1, <1>4, <1>11, <1>12, <1>13, <1>14 DEF r

Foremost(S) == Least({p[1] : p \in S})

Redacted(rs, S, key) ==
    ResignTail([i \in DOMAIN rs |-> Hidden(rs[i], i, S, rs)], Foremost(S), key)

\* A version redacted and signed again is a version, and each of its commitments
\* opens to what stood there, or stood there before; before the first place that is
\* redacted nothing changes, and elsewhere only links, signatures and what is hidden.
LEMMA RedactedIsVersion ==
  ASSUME NEW rs, Version(rs), NEW S, S \subseteq Redactable(rs), S # {},
         NEW key \in Issuers,
         \A i \in Foremost(S)..Len(rs) : rs[i].issuer = key
  PROVE  LET t == Redacted(rs, S, key) IN
         /\ Version(t)
         /\ \A i \in DOMAIN t : \A f \in DOMAIN t[i].hidden :
              \/ <<i, f>> \in S /\ t[i].hidden[f].commit = Opening(rs, <<i, f>>)
              \/ /\ i \in DOMAIN rs /\ f \in DOMAIN rs[i].hidden
                 /\ t[i].hidden[f] = rs[i].hidden[f]
         /\ DOMAIN t = DOMAIN rs
         /\ \A i \in DOMAIN t : \A f \in Fields \ {"prev", "sig"} :
              t[i][f] = Hidden(rs[i], i, S, rs)[f]
         /\ \A i \in DOMAIN t : i < Foremost(S) => t[i] = rs[i]
         /\ \A p \in S : Foremost(S) <= p[1]
         /\ \E p \in S : Foremost(S) = p[1]
<1> DEFINE start == Foremost(S)
           hidden == [i \in DOMAIN rs |-> Hidden(rs[i], i, S, rs)]
           t == ResignTail(hidden, start, key)
           n == Len(rs)
<1>1. rs # <<>> /\ List(rs) /\ n \in Nat /\ DOMAIN rs = 1..n /\ \A i \in 1..n : SealedAt(rs, i)
  BY ListHas DEF Version
<1>2. n # 0
  BY <1>1, ListHas
<1>3. /\ start \in 1..n /\ \A p \in S : start <= p[1]
      /\ \E p \in S : start = p[1]
  <2>1. \A p \in S : p[1] \in 1..n
    BY <1>1 DEF Redactable
  <2> DEFINE P == {p[1] : p \in S}
  <2>2. P \subseteq 1..n /\ P # {} /\ \A p \in S : p[1] \in P
    BY <2>1
  <2>3. start = Least(P)
    BY DEF Foremost
  <2>4. \A x \in P : \E p \in S : x = p[1]
    OBVIOUS
  <2> HIDE DEF P, start
  <2>5. P \subseteq Nat
    BY <1>1, <2>2
  <2>6. start \in P /\ \A x \in P : start <= x
    BY <2>2, <2>3, <2>5, HasLeast
  <2> QED BY <2>2, <2>4, <2>6
<1> DEFINE H(i) == Hidden(rs[i], i, S, rs)
<1>4. \A i \in 1..n : hidden[i] = H(i)
  BY <1>1
<1>5. DOMAIN hidden = 1..n
  BY <1>1
<1>6. \A i \in 1..n :
        /\ Whole(H(i))
        /\ \A f \in Fields \ {"body", "hidden"} : H(i)[f] = rs[i][f]
        /\ (\A p \in S : p[1] # i) => H(i) = rs[i]
        /\ \A f \in DOMAIN H(i).hidden :
             \/ <<i, f>> \in S /\ H(i).hidden[f].commit = Opening(rs, <<i, f>>)
             \/ f \in DOMAIN rs[i].hidden /\ H(i).hidden[f] = rs[i].hidden[f]
  <2> TAKE i \in 1..n
  <2>1. i \in DOMAIN rs /\ Whole(rs[i])
    BY <1>1 DEF SealedAt
  <2> QED BY <2>1, HiddenIs
<1>7. /\ DOMAIN t = 1..n /\ t = [i \in 1..n |-> t[i]]
      /\ \A i \in 1..n : t[i] = IF i < start THEN hidden[i] ELSE Resigned(hidden, i, t[i - 1], key)
  <2> HIDE DEF hidden, start
  <2> QED BY <1>1, <1>5, ResignTailIs
<1> HIDE DEF t, hidden, start, H, n
<1>8. List(t) /\ Len(t) = n
  BY <1>1, <1>7, ListIs
<1>9. \A i \in 1..n : i < start => t[i] = rs[i]
  <2> TAKE i \in 1..n
  <2> HAVE i < start
  <2>1. \A p \in S : p[1] # i
    <3>1. \A p \in S : start <= p[1] /\ start \in Nat /\ i \in Nat
      BY <1>1, <1>3
    <3> QED BY <3>1
  <2>2. H(i) = rs[i]
    BY <1>6, <2>1
  <2> QED BY <1>4, <1>7, <2>2
<1>10. ASSUME NEW i \in 1..n, ~(i < start)
       PROVE  /\ Object(t[i]) /\ DOMAIN t[i] = Fields
              /\ \A f \in Fields \ {"seq", "prev", "sig"} : t[i][f] = H(i)[f]
              /\ t[i].seq = i - 1
              /\ t[i].prev = IF i = 1 THEN None ELSE Digest(t[i - 1])
              /\ t[i].sig = [by |-> key, over |-> Unsigned(t[i])]
  <2> DEFINE before == t[i - 1]
             prev == IF i = 1 THEN None ELSE Digest(before)
             x == [hidden[i] EXCEPT !.seq = i - 1, !.prev = prev]
  <2>1. t[i] = Sign(x, key)
    BY <1>7, <1>10 DEF Resigned
  <2>2. DOMAIN hidden[i] = Fields
    BY <1>4, <1>6, <1>10 DEF Whole
  <2> HIDE DEF before, prev
  <2>3. /\ DOMAIN x = Fields /\ x.seq = i - 1 /\ x.prev = prev
        /\ \A f \in Fields \ {"seq", "prev"} : x[f] = hidden[i][f]
    <3>1. "seq" \in Fields /\ "prev" \in Fields
      BY DEF Fields
    <3> QED BY <2>2, <3>1
  <2> HIDE DEF x
  <2>4. /\ Object(t[i]) /\ DOMAIN t[i] = Fields
        /\ \A f \in Fields \ {"sig"} : t[i][f] = x[f]
        /\ t[i].sig = [by |-> key, over |-> Unsigned(t[i])]
    <3>1. LET s == Sign(x, key) IN
          /\ Object(s) /\ DOMAIN s = Fields
          /\ \A f \in Fields \ {"sig"} : s[f] = x[f]
          /\ s.sig = [by |-> key, over |-> Unsigned(s)]
      BY <2>3, SignIs
    <3> QED BY <2>1, <3>1, Zenon
  <2>5. t[i].seq = i - 1 /\ t[i].prev = prev
    BY <2>3, <2>4 DEF Fields
  <2>6. \A f \in Fields \ {"seq", "prev", "sig"} : t[i][f] = H(i)[f]
    BY <1>4, <2>3, <2>4
  <2> QED BY <2>4, <2>5, <2>6 DEF prev, before
<1>11. \A i \in 1..n : SealedAt(t, i)
  <2> TAKE i \in 1..n
  <2>1. CASE i < start
    <3>1. i # 1 => i - 1 \in 1..n /\ i - 1 < start
      BY <1>1, <1>3, <2>1
    <3>2. t[i] = rs[i] /\ (i # 1 => t[i - 1] = rs[i - 1])
      BY <1>9, <2>1, <3>1
    <3> QED BY <1>1, <3>2 DEF SealedAt
  <2>2. CASE ~(i < start)
    <3>1. rs[i].issuer = key
      <4>1. i \in start..n
        BY <1>1, <1>3, <2>2
      <4> QED BY <4>1 DEF start, n
    <3>2. H(i).issuer = rs[i].issuer
      BY <1>6 DEF Fields
    <3>3. t[i].issuer = H(i).issuer /\ t[i].body = H(i).body /\ t[i].hidden = H(i).hidden
      <4>1. \A f \in Fields \ {"seq", "prev", "sig"} : t[i][f] = H(i)[f]
        BY <1>10, <2>2
      <4> QED BY <4>1 DEF Fields
    <3>4. Whole(t[i])
      BY <1>6, <1>10, <2>2, <3>3, ZenonT(60) DEF Whole, Encodable
    <3> QED BY <1>10, <2>2, <3>1, <3>2, <3>3, <3>4 DEF SealedAt
  <2> QED BY <2>1, <2>2
<1>12. t # <<>>
  BY <1>2, <1>8
<1>13. \A i \in 1..n : \A f \in DOMAIN t[i].hidden :
         \/ <<i, f>> \in S /\ t[i].hidden[f].commit = Opening(rs, <<i, f>>)
         \/ f \in DOMAIN rs[i].hidden /\ t[i].hidden[f] = rs[i].hidden[f]
  <2> TAKE i \in 1..n
  <2>1. CASE i < start
    BY <1>9, <2>1
  <2>2. CASE ~(i < start)
    <3>1. t[i].hidden = H(i).hidden
      BY <1>10, <2>2, ZenonT(60) DEF Fields
    <3> QED BY <1>6, <3>1
  <2> QED BY <2>1, <2>2
<1>14. Version(t)
  BY <1>7, <1>8, <1>11, <1>12 DEF Version
<1>15. t = Redacted(rs, S, key)
  BY DEF t, hidden, start, Redacted
<1>16. \A i \in 1..n : \A f \in Fields \ {"prev", "sig"} : t[i][f] = H(i)[f]
  <2> TAKE i \in 1..n
  <2>1. rs[i].seq = i - 1 /\ t[i].seq = i - 1
    BY <1>1, <1>11 DEF SealedAt
  <2>2. H(i).seq = t[i].seq
    BY <1>6, <2>1 DEF Fields
  <2>3. CASE i < start
    <3>1. \A p \in S : p[1] # i
      <4>1. \A p \in S : start <= p[1] /\ start \in Nat /\ i \in Nat
        BY <1>1, <1>3
      <4> QED BY <2>3, <4>1
    <3> QED BY <1>6, <1>9, <2>3, <3>1
  <2>4. CASE ~(i < start)
    BY <1>10, <2>2, <2>4, ZenonT(60)
  <2> QED BY <2>3, <2>4
<1>17. start = Foremost(S) /\ \A i \in 1..n : H(i) = Hidden(rs[i], i, S, rs)
  BY DEF start, H
<1>18. DOMAIN t = DOMAIN rs /\ DOMAIN t = 1..n
  BY <1>1, <1>7
<1>19. \A i \in DOMAIN t : \A f \in Fields \ {"prev", "sig"} : t[i][f] = Hidden(rs[i], i, S, rs)[f]
  BY <1>16, <1>17, <1>18
<1>20. \A i \in DOMAIN t : i < Foremost(S) => t[i] = rs[i]
  BY <1>9, <1>17, <1>18
<1>21. (\A p \in S : Foremost(S) <= p[1]) /\ \E p \in S : Foremost(S) = p[1]
  BY <1>3, <1>17
<1>22. \A i \in DOMAIN t : \A f \in DOMAIN t[i].hidden :
         \/ <<i, f>> \in S /\ t[i].hidden[f].commit = Opening(rs, <<i, f>>)
         \/ i \in DOMAIN rs /\ f \in DOMAIN rs[i].hidden /\ t[i].hidden[f] = rs[i].hidden[f]
  BY <1>13, <1>18
<1> QED BY <1>14, <1>15, <1>18, <1>19, <1>20, <1>21, <1>22

-----------------------------------------------------------------------------
(* The inductive invariant *)

Members == {"spec", "task", "receipts", "disclosure", "anchors", "revocations", "head", "malformed"}

\* Every receipt of the bundle is one that an issuer signed, perhaps altered since,
\* or the holder's own.
VouchedFor(r) ==
    /\ Object(r) /\ DOMAIN r = Fields
    /\ \/ \E v \in versions : \E j \in DOMAIN v : r.sig = v[j].sig
       \/ r.issuer = Holder /\ DOMAIN r.hidden = {}

BundleInv ==
    /\ DOMAIN bundle = Members
    /\ List(bundle.receipts)
    /\ \A i \in DOMAIN bundle.receipts : VouchedFor(bundle.receipts[i])

VersionsInv == \A v \in versions : Version(v)

\* A redaction of a version commits to what stood there in some version.
CommitInv ==
    \A v \in versions : \A i \in DOMAIN v : \A f \in DOMAIN v[i].hidden :
      \E w \in versions :
        /\ <<i, f>> \in Redactable(w)
        /\ v[i].hidden[f].commit[2] = Value(w, <<i, f>>)

\* The tool only works on what nobody has moved.
UntouchedInv == moves = 0 => bundle.receipts \in versions

IInv == moves \in Nat /\ BundleInv /\ VersionsInv /\ CommitInv /\ UntouchedInv

\* A receipt that TaskChain.add made has no redacted field.
LEMMA NothingRedacted == DOMAIN <<>> = {}
<1>1. <<>> \in Seq(Nat) /\ Len(<<>>) = 0
  BY EmptySeq
<1>2. \A s \in Seq(Nat) : Len(s) = 0 => DOMAIN s = {}
  OBVIOUS
<1> QED BY <1>1, <1>2, Zenon

\* The invariant holds at first: the issuers have signed one version, and nothing is
\* redacted.
LEMMA InitInv == DisclosureAssumption /\ Init => IInv
<1> SUFFICES ASSUME DisclosureAssumption, Init PROVE IInv
  OBVIOUS
<1> DEFINE rs == origin.receipts
<1>1. /\ Issued(rs)
      /\ bundle = [BundleOf(rs, origin.task, origin.spec) EXCEPT !.head = origin.head,
                                                                 !.anchors = origin.anchors]
      /\ bundle = origin
      /\ versions = {rs} /\ moves = 0
  BY DEF DisclosureAssumption, Init
<1>2. Version(rs) /\ \A i \in DOMAIN rs : rs[i].hidden = <<>>
  BY <1>1, StoryIsVersion
<1>3. DOMAIN bundle = Members /\ bundle.receipts = rs
  BY <1>1 DEF BundleOf, Members
<1> HIDE DEF rs
<1>4. \A i \in DOMAIN rs : VouchedFor(rs[i])
  BY <1>1, <1>2 DEF VouchedFor, Version, SealedAt, Whole
<1>5. BundleInv
  BY <1>2, <1>3, <1>4 DEF BundleInv, Version
<1>6. CommitInv
  <2>1. \A v \in versions : \A i \in DOMAIN v : DOMAIN v[i].hidden = {}
    <3>1. DOMAIN <<>> = {}
      BY NothingRedacted
    <3> QED BY <1>1, <1>2, <3>1
  <2> QED BY <2>1 DEF CommitInv
<1>7. VersionsInv /\ UntouchedInv /\ moves \in Nat
  BY <1>1, <1>2, <1>3 DEF VersionsInv, UntouchedInv
<1> QED BY <1>5, <1>6, <1>7 DEF IInv

\* What is vouched for stays so.
LEMMA VouchingStays ==
  ASSUME versions \subseteq versions', NEW r, VouchedFor(r)
  PROVE  VouchedFor(r)'
BY DEF VouchedFor

\* A holder's step: other receipts, each vouched for, and nothing signed anew.
LEMMA MoveKeeps ==
  ASSUME IInv, NEW rs, List(rs), \A i \in DOMAIN rs : VouchedFor(rs[i]), Move(rs)
  PROVE  IInv'
<1>1. /\ moves' = moves + 1 /\ versions' = versions
      /\ bundle' = [bundle EXCEPT !.receipts = rs]
  BY DEF Move
<1>2. DOMAIN bundle' = Members /\ bundle'.receipts = rs
  BY <1>1 DEF IInv, BundleInv, Members
<1>3. \A i \in DOMAIN rs : VouchedFor(rs[i])'
  BY <1>1 DEF VouchedFor
<1>4. BundleInv'
  BY <1>2, <1>3 DEF BundleInv
<1>5. VersionsInv' /\ CommitInv'
  BY <1>1 DEF IInv, VersionsInv, CommitInv
<1>6. moves' \in Nat /\ UntouchedInv'
  BY <1>1 DEF IInv, UntouchedInv
<1> QED BY <1>4, <1>5, <1>6 DEF IInv

\* A step that leaves the receipts alone.
LEMMA RestKeeps ==
  ASSUME IInv, DOMAIN bundle' = DOMAIN bundle, bundle'.receipts = bundle.receipts,
         versions' = versions, moves' \in {moves, moves + 1}
  PROVE  IInv'
<1>1. \A r : VouchedFor(r) => VouchedFor(r)'
  BY DEF VouchedFor
<1>2. BundleInv'
  BY <1>1 DEF IInv, BundleInv
<1>3. VersionsInv' /\ CommitInv'
  BY DEF IInv, VersionsInv, CommitInv
<1>4. moves' \in Nat /\ UntouchedInv'
  BY DEF IInv, UntouchedInv
<1> QED BY <1>2, <1>3, <1>4 DEF IInv

\* redact keeps the invariant.
LEMMA RedactKeeps ==
  ASSUME IInv, NEW key \in Issuers, Redact(key)
  PROVE  IInv'
<1> DEFINE rs == bundle.receipts
<1>1. PICK S \in SUBSET Redactable(rs) :
        /\ S # {}
        /\ \A i \in Foremost(S)..Len(rs) : rs[i].issuer = key
        /\ bundle' = [bundle EXCEPT !.receipts = Redacted(rs, S, key)]
  BY DEF Redact, Redacted, Foremost
<1>2. /\ moves = 0 /\ moves' = moves
      /\ versions' = versions \cup {bundle'.receipts}
  BY DEF Redact
<1>3. rs \in versions /\ Version(rs)
  BY <1>2 DEF IInv, UntouchedInv, VersionsInv
<1>4. PICK t : t = Redacted(rs, S, key)
  OBVIOUS
<1>5. /\ Version(t)
      /\ \A i \in DOMAIN t : \A f \in DOMAIN t[i].hidden :
           \/ <<i, f>> \in S /\ t[i].hidden[f].commit = Opening(rs, <<i, f>>)
           \/ /\ i \in DOMAIN rs /\ f \in DOMAIN rs[i].hidden
              /\ t[i].hidden[f] = rs[i].hidden[f]
  <2> DEFINE x == bundle.receipts
  <2>1. S \subseteq Redactable(x) /\ S # {} /\ key \in Issuers /\ Version(x)
    BY <1>1, <1>3
  <2>2. \A i \in Foremost(S)..Len(x) : x[i].issuer = key
    BY <1>1
  <2> HIDE DEF x
  <2>3. /\ Version(Redacted(x, S, key))
        /\ \A i \in DOMAIN Redacted(x, S, key) : \A f \in DOMAIN Redacted(x, S, key)[i].hidden :
              \/ <<i, f>> \in S /\ Redacted(x, S, key)[i].hidden[f].commit = Opening(x, <<i, f>>)
              \/ /\ i \in DOMAIN x /\ f \in DOMAIN x[i].hidden
                 /\ Redacted(x, S, key)[i].hidden[f] = x[i].hidden[f]
    BY <2>1, <2>2, RedactedIsVersion
  <2> QED BY <1>4, <2>3 DEF x
<1>6. DOMAIN bundle' = Members /\ bundle'.receipts = t
  <2>1. bundle' = [bundle EXCEPT !.receipts = t]
    BY <1>1, <1>4
  <2> QED BY <2>1 DEF IInv, BundleInv, Members
<1>7. versions' = versions \cup {t}
  BY <1>2, <1>6
<1>8. \A i \in DOMAIN t : VouchedFor(t[i])'
  BY <1>5, <1>7 DEF VouchedFor, Version, SealedAt, Whole
<1>9. BundleInv'
  BY <1>5, <1>6, <1>8 DEF BundleInv, Version
<1>10. VersionsInv'
  BY <1>5, <1>7 DEF IInv, VersionsInv
<1>11. CommitInv'
  <2> SUFFICES ASSUME NEW v \in versions', NEW i \in DOMAIN v, NEW f \in DOMAIN v[i].hidden
               PROVE  \E w \in versions' :
                        /\ <<i, f>> \in Redactable(w)
                        /\ v[i].hidden[f].commit[2] = Value(w, <<i, f>>)
    BY DEF CommitInv
  <2>1. CASE v \in versions
    <3>1. \E w \in versions : /\ <<i, f>> \in Redactable(w)
                              /\ v[i].hidden[f].commit[2] = Value(w, <<i, f>>)
      BY <2>1 DEF IInv, CommitInv
    <3> QED BY <1>7, <3>1
  <2>2. CASE v = t
    <3>1. CASE <<i, f>> \in S /\ t[i].hidden[f].commit = Opening(rs, <<i, f>>)
      <4>1. <<i, f>> \in Redactable(rs)
        BY <1>1, <3>1
      <4>2. t[i].hidden[f].commit[2] = Value(rs, <<i, f>>)
        BY <3>1 DEF Opening
      <4> QED BY <1>3, <1>7, <2>2, <4>1, <4>2
    <3>2. CASE /\ i \in DOMAIN rs /\ f \in DOMAIN rs[i].hidden
               /\ t[i].hidden[f] = rs[i].hidden[f]
      <4>1. \E w \in versions : /\ <<i, f>> \in Redactable(w)
                                /\ rs[i].hidden[f].commit[2] = Value(w, <<i, f>>)
        BY <1>3, <3>2 DEF IInv, CommitInv
      <4> QED BY <1>7, <2>2, <3>2, <4>1
    <3> QED BY <1>5, <2>2, <3>1, <3>2
  <2> QED BY <1>7, <2>1, <2>2
<1>12. moves' \in Nat /\ UntouchedInv'
  BY <1>2, <1>6, <1>7 DEF IInv, UntouchedInv
<1> QED BY <1>9, <1>10, <1>11, <1>12 DEF IInv

\* A list with another receipt at a place.
LEMMA ReplacedIs ==
  ASSUME NEW rs, List(rs), NEW i, NEW x
  PROVE  LET s == [rs EXCEPT ![i] = x] IN
         List(s) /\ \A k \in DOMAIN s : s[k] = x \/ (k \in DOMAIN rs /\ s[k] = rs[k])
<1> DEFINE s == [rs EXCEPT ![i] = x]
<1>1. Len(rs) \in Nat /\ DOMAIN rs = 1..Len(rs)
  BY ListHas
<1>2. DOMAIN s = 1..Len(rs) /\ s = [k \in 1..Len(rs) |-> s[k]]
  BY <1>1
<1>3. \A k \in DOMAIN s : s[k] = x \/ (k \in DOMAIN rs /\ s[k] = rs[k])
  BY <1>1
<1> HIDE DEF s
<1>4. List(s)
  BY <1>1, <1>2, ListIs
<1> QED BY <1>3, <1>4 DEF s

\* Leaving a receipt out keeps the invariant.
LEMMA LeaveOutKeeps ==
  ASSUME IInv, LeaveOut
  PROVE  IInv'
<1>1. PICK i \in DOMAIN bundle.receipts : Move(DropReceipt(bundle.receipts, i))
  BY DEF LeaveOut
<1>2. PICK rs : rs = bundle.receipts
  OBVIOUS
<1>3. PICK s : s = DropReceipt(rs, i)
  OBVIOUS
<1>4. /\ Len(rs) \in Nat /\ DOMAIN rs = 1..Len(rs)
      /\ \A k \in DOMAIN rs : VouchedFor(rs[k])
  BY <1>2, ListHas DEF IInv, BundleInv
<1>5. Len(rs) - 1 \in Nat /\ i \in 1..Len(rs)
  BY <1>1, <1>2, <1>4
<1>6. s = [j \in 1..(Len(rs) - 1) |-> rs[IF j < i THEN j ELSE j + 1]]
  BY <1>3 DEF DropReceipt
<1>7. s = [j \in 1..(Len(rs) - 1) |-> s[j]] /\ DOMAIN s = 1..(Len(rs) - 1)
  BY <1>6
<1>8. List(s)
  BY <1>5, <1>7, ListIs
<1>9. \A j \in DOMAIN s : VouchedFor(s[j])
  <2> TAKE j \in DOMAIN s
  <2>1. (IF j < i THEN j ELSE j + 1) \in DOMAIN rs
    BY <1>4, <1>5, <1>7
  <2>2. s[j] = rs[IF j < i THEN j ELSE j + 1]
    BY <1>6
  <2> QED BY <1>4, <2>1, <2>2
<1> QED BY <1>1, <1>2, <1>3, <1>8, <1>9, MoveKeeps

\* Exchanging two receipts keeps the invariant.
LEMMA ExchangeKeeps ==
  ASSUME IInv, Exchange
  PROVE  IInv'
<1>1. PICK i \in DOMAIN bundle.receipts, j \in DOMAIN bundle.receipts :
        Move(Swap(bundle.receipts, i, j))
  BY DEF Exchange
<1>2. PICK rs : rs = bundle.receipts
  OBVIOUS
<1>3. PICK s : s = [rs EXCEPT ![i] = rs[j]]
  OBVIOUS
<1>4. PICK t : t = [s EXCEPT ![j] = rs[i]]
  OBVIOUS
<1>5. List(rs) /\ \A k \in DOMAIN rs : VouchedFor(rs[k])
  BY <1>2 DEF IInv, BundleInv
<1>6. List(s) /\ \A k \in DOMAIN s : VouchedFor(s[k])
  <2>1. List(s) /\ \A k \in DOMAIN s : s[k] = rs[j] \/ (k \in DOMAIN rs /\ s[k] = rs[k])
    BY <1>3, <1>5, ReplacedIs
  <2> QED BY <1>1, <1>2, <1>5, <2>1
<1>7. List(t) /\ \A k \in DOMAIN t : VouchedFor(t[k])
  <2>1. List(t) /\ \A k \in DOMAIN t : t[k] = rs[i] \/ (k \in DOMAIN s /\ t[k] = s[k])
    BY <1>4, <1>6, ReplacedIs
  <2> QED BY <1>1, <1>2, <1>5, <1>6, <2>1
<1>8. t = Swap(bundle.receipts, i, j)
  BY <1>2, <1>3, <1>4 DEF Swap
<1> QED BY <1>1, <1>7, <1>8, MoveKeeps

\* Any receipt of a version is vouched for.
LEMMA VersionsAreVouchedFor ==
  ASSUME IInv, NEW v \in versions
  PROVE  List(v) /\ \A i \in DOMAIN v : VouchedFor(v[i])
BY DEF IInv, VersionsInv, Version, SealedAt, Whole, VouchedFor

\* Splicing in a receipt of another version keeps the invariant.
LEMMA SpliceKeeps ==
  ASSUME IInv, Splice
  PROVE  IInv'
<1>1. PICK v \in versions, i \in DOMAIN bundle.receipts :
        i \in DOMAIN v /\ Move([bundle.receipts EXCEPT ![i] = v[i]])
  BY DEF Splice
<1>2. PICK rs : rs = bundle.receipts
  OBVIOUS
<1>3. PICK s : s = [rs EXCEPT ![i] = v[i]]
  OBVIOUS
<1>4. List(rs) /\ \A k \in DOMAIN rs : VouchedFor(rs[k])
  BY <1>2 DEF IInv, BundleInv
<1>5. List(s) /\ \A k \in DOMAIN s : s[k] = v[i] \/ (k \in DOMAIN rs /\ s[k] = rs[k])
  BY <1>3, <1>4, ReplacedIs
<1>6. \A k \in DOMAIN s : VouchedFor(s[k])
  BY <1>1, <1>4, <1>5, VersionsAreVouchedFor
<1> QED BY <1>1, <1>2, <1>3, <1>5, <1>6, MoveKeeps

\* Restoring what was there before keeps the invariant.
LEMMA RestoreKeeps ==
  ASSUME IInv, Restore
  PROVE  IInv'
<1>1. PICK v \in versions : Move(v)
  BY DEF Restore
<1> QED BY <1>1, VersionsAreVouchedFor, MoveKeeps

\* Whatever is altered in a receipt but its signature and its issuer.
LEMMA AlteredIsVouchedFor ==
  ASSUME NEW r, VouchedFor(r), NEW s, DOMAIN s = DOMAIN r, Object(s),
         s.sig = r.sig, s.issuer = r.issuer, s.hidden = r.hidden \/ DOMAIN r.hidden # {}
  PROVE  VouchedFor(s)
BY DEF VouchedFor

\* Altering a receipt keeps the invariant.
LEMMA AlterKeeps ==
  ASSUME IInv, Alter
  PROVE  IInv'
<1>1. PICK rs : rs = bundle.receipts
  OBVIOUS
<1>2. List(rs) /\ \A k \in DOMAIN rs : VouchedFor(rs[k])
  BY <1>1 DEF IInv, BundleInv
<1>3. ASSUME NEW i \in DOMAIN rs, NEW x, VouchedFor(x), Move([rs EXCEPT ![i] = x])
      PROVE  IInv'
  <2>1. PICK s : s = [rs EXCEPT ![i] = x]
    OBVIOUS
  <2>2. List(s) /\ \A k \in DOMAIN s : s[k] = x \/ (k \in DOMAIN rs /\ s[k] = rs[k])
    BY <1>2, <2>1, ReplacedIs
  <2>3. \A k \in DOMAIN s : VouchedFor(s[k])
    BY <1>2, <1>3, <2>2
  <2> QED BY <1>3, <2>1, <2>2, <2>3, MoveKeeps
<1>4. PICK i \in DOMAIN rs :
        \/ Move([rs EXCEPT ![i].at = @ + 1])
        \/ \E f \in DOMAIN rs[i].hidden : Move([rs EXCEPT ![i] = Uncovered(rs[i], f)])
  BY <1>1 DEF Alter
<1>5. PICK r : r = rs[i]
  OBVIOUS
<1>6. VouchedFor(r) /\ Object(r) /\ DOMAIN r = Fields
  BY <1>2, <1>5 DEF VouchedFor
<1>7. CASE Move([rs EXCEPT ![i].at = @ + 1])
  <2>1. PICK x : x = [r EXCEPT !.at = @ + 1]
    OBVIOUS
  <2>2. /\ DOMAIN x = DOMAIN r /\ Object(x)
        /\ x.sig = r.sig /\ x.issuer = r.issuer /\ x.hidden = r.hidden
    BY <1>6, <2>1 DEF Object, Fields
  <2>3. VouchedFor(x)
    BY <1>6, <2>2, AlteredIsVouchedFor
  <2>4. [rs EXCEPT ![i].at = @ + 1] = [rs EXCEPT ![i] = x]
    BY <1>5, <2>1
  <2> QED BY <1>3, <1>7, <2>3, <2>4
<1>8. ASSUME NEW f \in DOMAIN rs[i].hidden, Move([rs EXCEPT ![i] = Uncovered(rs[i], f)])
      PROVE  IInv'
  <2>1. PICK x : x = Uncovered(r, f)
    OBVIOUS
  <2>2. /\ DOMAIN x = DOMAIN r /\ Object(x)
        /\ x.sig = r.sig /\ x.issuer = r.issuer
    <3> DEFINE committed == r.hidden[f].commit[2]
    <3>1. CASE committed[1] = "redaction"
      <4>1. x = [r EXCEPT !.hidden[f] = committed[3]]
        BY <2>1, <3>1 DEF Uncovered
      <4> HIDE DEF committed
      <4> QED BY <1>6, <4>1 DEF Object, Fields
    <3>2. CASE committed[1] # "redaction"
      <4>1. x = [r EXCEPT !.hidden = Without(@, f), !.body = With(@, f, committed[3])]
        BY <2>1, <3>2 DEF Uncovered
      <4> HIDE DEF committed
      <4> QED BY <1>6, <4>1 DEF Object, Fields
    <3> QED BY <3>1, <3>2
  <2>3. DOMAIN r.hidden # {}
    BY <1>5, <1>8
  <2>4. VouchedFor(x)
    BY <1>6, <2>2, <2>3, AlteredIsVouchedFor
  <2> QED BY <1>3, <1>5, <1>8, <2>1, <2>4
<1> QED BY <1>4, <1>7, <1>8

\* Appending a receipt of the holder's own keeps the invariant.
LEMMA AppendOwnKeeps ==
  ASSUME IInv, AppendOwn
  PROVE  IInv'
<1>1. PICK rs : rs = bundle.receipts
  OBVIOUS
<1>2. PICK x : x = NextReceipt(rs, Len(rs), bundle.task, 6, "task.termination", Holder, 1, [shape |-> "ok"])
  OBVIOUS
<1>3. Move(Append(rs, x))
  BY <1>1, <1>2 DEF AppendOwn
<1>4. /\ List(rs) /\ \A k \in DOMAIN rs : VouchedFor(rs[k])
      /\ Len(rs) \in Nat /\ DOMAIN rs = 1..Len(rs)
  BY <1>1, ListHas DEF IInv, BundleInv
<1>5. VouchedFor(x)
  <2> DEFINE prev == IF rs = <<>> THEN None ELSE Digest(rs[Len(rs)])
             e == NewEnvelope(Len(rs), bundle.task, 6, "task.termination", Holder, 1, Len(rs), prev,
                              [shape |-> "ok"])
  <2>1. x = Sign(e, Holder)
    BY <1>2 DEF NextReceipt
  <2>2. DOMAIN e = Fields /\ e.issuer = Holder /\ e.hidden = <<>>
    BY DEF NewEnvelope, Fields
  <2> HIDE DEF e
  <2>3. LET s == Sign(e, Holder) IN
        /\ Object(s) /\ DOMAIN s = Fields
        /\ \A f \in Fields \ {"sig"} : s[f] = e[f]
        /\ s.sig = [by |-> Holder, over |-> Unsigned(s)]
    BY <2>2, SignIs
  <2>4. Object(x) /\ DOMAIN x = Fields /\ \A f \in Fields \ {"sig"} : x[f] = e[f]
    BY <2>1, <2>3
  <2>5. x.issuer = Holder /\ x.hidden = <<>>
    BY <2>2, <2>4 DEF Fields
  <2> QED BY <2>4, <2>5, NothingRedacted DEF VouchedFor
<1>6. PICK s : s = Append(rs, x)
  OBVIOUS
<1>7. /\ DOMAIN s = 1..(Len(rs) + 1)
      /\ \A k \in 1..(Len(rs) + 1) : s[k] = IF k = Len(rs) + 1 THEN x ELSE rs[k]
      /\ s = [k \in 1..(Len(rs) + 1) |-> s[k]]
  <2> DEFINE T == {rs[i] : i \in DOMAIN rs} \cup {x}
  <2>1. rs \in Seq(T) /\ x \in T
    <3>1. \A k \in 1..Len(rs) : rs[k] \in T
      BY <1>4
    <3>2. rs = [k \in 1..Len(rs) |-> rs[k]]
      BY <1>4, ListHas
    <3>3. x \in T
      OBVIOUS
    <3> HIDE DEF T
    <3>4. [k \in 1..Len(rs) |-> rs[k]] \in Seq(T)
      BY <1>4, <3>1
    <3> QED BY <3>2, <3>3, <3>4, Zenon
  <2> HIDE DEF T
  <2>2. s \in Seq(T) /\ Len(s) = Len(rs) + 1
    BY <1>6, <2>1
  <2>3. \A k \in 1..(Len(rs) + 1) : s[k] = IF k = Len(rs) + 1 THEN x ELSE rs[k]
    BY <1>4, <1>6, <2>1
  <2> QED BY <2>2, <2>3
<1>8. List(s)
  BY <1>4, <1>7, ListIs
<1>9. \A k \in DOMAIN s : VouchedFor(s[k])
  BY <1>4, <1>5, <1>7
<1> QED BY <1>3, <1>6, <1>8, <1>9, MoveKeeps

\* Every step keeps the invariant.
LEMMA StepKeeps == DisclosureAssumption /\ IInv /\ [Next]_vars => IInv'
<1> SUFFICES ASSUME IInv, [Next]_vars PROVE IInv'
  OBVIOUS
<1>1. ASSUME NEW key \in Issuers, Redact(key) PROVE IInv'
  BY <1>1, RedactKeeps
<1>2. ASSUME Reveal PROVE IInv'
  <2>1. PICK m : bundle' = [bundle EXCEPT !.disclosure = Updated(@, m)]
    BY <1>2 DEF Reveal, Attach
  <2>2. DOMAIN bundle' = DOMAIN bundle /\ bundle'.receipts = bundle.receipts
    BY <2>1 DEF IInv, BundleInv, Members
  <2> QED BY <1>2, <2>2, RestKeeps DEF Reveal
<1>3. ASSUME Lie PROVE IInv'
  <2>1. PICK p, entry : bundle' = [bundle EXCEPT !.disclosure[p] = entry]
    BY <1>3 DEF Lie
  <2>2. DOMAIN bundle' = DOMAIN bundle /\ bundle'.receipts = bundle.receipts
    BY <2>1 DEF IInv, BundleInv, Members
  <2> QED BY <1>3, <2>2, RestKeeps DEF Lie
<1>4. ASSUME Mangle PROVE IInv'
  <2>1. PICK member : bundle' = [bundle EXCEPT !.malformed = @ \cup {member}]
    BY <1>4 DEF Mangle
  <2>2. DOMAIN bundle' = DOMAIN bundle /\ bundle'.receipts = bundle.receipts
    BY <2>1 DEF IInv, BundleInv, Members
  <2> QED BY <1>4, <2>2, RestKeeps DEF Mangle
<1>5. ASSUME UNCHANGED vars PROVE IInv'
  BY <1>5, RestKeeps DEF vars
<1> QED BY <1>1, <1>2, <1>3, <1>4, <1>5, LeaveOutKeeps, ExchangeKeeps, SpliceKeeps, RestoreKeeps,
           AlterKeeps, AppendOwnKeeps DEF Next

\* The invariant holds throughout: the holder moves only what issuers signed and
\* what it signed itself.
THEOREM DisclosureInductive == Spec => []IInv
BY DisclosureAssumption, InitInv, StepKeeps, PTL DEF Spec

-----------------------------------------------------------------------------
(* What a verdict says *)

\* UNTRUSTED is the verdict whenever there is an error, TRUSTED only when there is
\* nothing.
LEMMA VerdictIs ==
  ASSUME NEW errors, NEW insufficient, NEW provisional
  PROVE  LET verdict == Result(errors, insufficient, provisional).verdict IN
         /\ verdict # "UNTRUSTED" => errors = {}
         /\ verdict = "TRUSTED" => errors = {} /\ insufficient = {} /\ provisional = {}
<1> DEFINE verdict == Verdict(errors, insufficient, provisional)
<1>1. Result(errors, insufficient, provisional).verdict = verdict
  BY DEF Result
<1>2. CASE errors # {}
  BY <1>1, <1>2 DEF Verdict
<1>3. CASE errors = {} /\ insufficient # {}
  <2>1. verdict = "INSUFFICIENT_EVIDENCE"
    BY <1>3 DEF Verdict
  <2> QED BY <1>1, <1>3, <2>1
<1>4. CASE errors = {} /\ insufficient = {} /\ provisional # {}
  <2>1. verdict = "PROVISIONAL"
    BY <1>4 DEF Verdict
  <2> QED BY <1>1, <1>4, <2>1
<1>5. CASE errors = {} /\ insufficient = {} /\ provisional = {}
  BY <1>5
<1> QED BY <1>2, <1>3, <1>4, <1>5

\* What a bundle that is not UNTRUSTED, or is TRUSTED, has passed.
LEMMA Passed ==
  ASSUME NEW b
  PROVE  LET verdict == VerifyBundle(b, {}, FALSE).verdict IN
         /\ verdict # "UNTRUSTED" =>
              /\ b.receipts # <<>>
              /\ ShapeErrors(b) = {} /\ RedactionErrors(b) = {} /\ HeadErrors(b) = {}
              /\ \A i \in DOMAIN b.receipts : EnvelopeErrors(b, i) = {}
         /\ verdict = "TRUSTED" => verdict # "UNTRUSTED" /\ Withheld(b) = {}
<1> DEFINE rs == b.receipts
           envelopes == UNION {EnvelopeErrors(b, i) : i \in DOMAIN rs}
           more == CrossRecordErrors(rs) \cup AgreementErrors(rs) \cup AuthorityErrors(rs)
           yet == AttestationErrors(rs) \cup ProvenanceErrors(rs) \cup RevocationErrors(b, {})
                    \cup AnchorErrors(b)
           errors == ShapeErrors(b) \cup envelopes
             \cup CrossRecordErrors(rs) \cup AgreementErrors(rs) \cup AuthorityErrors(rs)
             \cup RedactionErrors(b) \cup AttestationErrors(rs) \cup ProvenanceErrors(rs)
             \cup RevocationErrors(b, {}) \cup AnchorErrors(b) \cup HeadErrors(b)
           erased == When(\E p \in Withheld(b) : Redaction(rs, p).erased, "erased_content")
           kept == When(\E p \in Withheld(b) : ~Redaction(rs, p).erased, "redacted_without_disclosure")
           insufficient == AgreementInsufficient(rs) \cup AuthorityInsufficient(rs) \cup erased
           provisional == AgreementProvisional(rs) \cup AuthorityProvisional(rs) \cup kept
                            \cup AnchorProvisional(b, FALSE)
<1>1. \/ \E code : VerifyBundle(b, {}, FALSE) = Result({code}, {}, {})
      \/ rs # <<>> /\ VerifyBundle(b, {}, FALSE) = Result(errors, insufficient, provisional)
  BY DEF VerifyBundle
<1>2. errors = {} => /\ ShapeErrors(b) = {} /\ RedactionErrors(b) = {} /\ HeadErrors(b) = {}
                     /\ envelopes = {}
  <2> HIDE DEF envelopes
  <2> QED OBVIOUS
<1>3. envelopes = {} => \A i \in DOMAIN rs : EnvelopeErrors(b, i) = {}
  OBVIOUS
<1>4. insufficient = {} /\ provisional = {} => Withheld(b) = {}
  <2>1. erased = {} /\ kept = {} => Withheld(b) = {}
    BY DEF When
  <2> HIDE DEF erased, kept
  <2> QED BY <2>1
<1> HIDE DEF errors, insufficient, provisional, envelopes
<1>5. CASE \E code : VerifyBundle(b, {}, FALSE) = Result({code}, {}, {})
  <2>1. PICK code : VerifyBundle(b, {}, FALSE) = Result({code}, {}, {})
    BY <1>5
  <2>2. PICK e : e = {code}
    OBVIOUS
  <2>3. e # {}
    BY <2>2
  <2>4. Result(e, {}, {}).verdict = "UNTRUSTED"
    BY <2>3, VerdictIs
  <2>5. VerifyBundle(b, {}, FALSE).verdict = "UNTRUSTED"
    BY <2>1, <2>2, <2>4
  <2> QED BY <2>5
<1>6. CASE rs # <<>> /\ VerifyBundle(b, {}, FALSE) = Result(errors, insufficient, provisional)
  <2>1. LET verdict == Result(errors, insufficient, provisional).verdict IN
        /\ verdict # "UNTRUSTED" => errors = {}
        /\ verdict = "TRUSTED" => errors = {} /\ insufficient = {} /\ provisional = {}
    BY VerdictIs
  <2> QED BY <1>2, <1>3, <1>4, <1>6, <2>1
<1> QED BY <1>1, <1>5, <1>6

\* A chain whose envelopes are in order: what each receipt says of itself.
InOrder(rs) ==
    \A i \in DOMAIN rs :
      /\ rs[i].seq = i - 1
      /\ rs[i].prev = IF i = 1 THEN None ELSE Digest(rs[i - 1])
      /\ Encodable(rs[i])
      /\ rs[i].sig = [by |-> rs[i].issuer, over |-> Unsigned(rs[i])]

\* Without an error in an envelope the chain is in order: positions, links, signatures.
LEMMA EnvelopesInOrder ==
  ASSUME NEW b, List(b.receipts), \A i \in DOMAIN b.receipts : EnvelopeErrors(b, i) = {}
  PROVE  InOrder(b.receipts)
<1> DEFINE rs == b.receipts
<1>1. Len(rs) \in Nat /\ DOMAIN rs = 1..Len(rs)
  BY ListHas
<1>2. \A i \in DOMAIN rs : /\ KnownType(rs[i].type, rs[i].spec)
                           /\ LinkErrors(rs, i) = {} /\ SignatureErrors(rs[i]) = {}
  <2> TAKE i \in DOMAIN rs
  <2> DEFINE r == rs[i]
  <2>1. EnvelopeErrors(b, i) = {}
    OBVIOUS
  <2>2. EnvelopeErrors(b, i) =
          When(r.spec \notin Specs, "version_unsupported")
          \cup When(r.task # b.task, "task_mismatch")
          \cup IF ~KnownType(r.type, r.spec) THEN {"unknown_type"}
               ELSE When(\E f \in RequiredFields(r.type, r.spec) : ~Has(r, f), "malformed")
                    \cup BodyErrors(r)
                    \cup When(~ValidTime(r.at) \/ ~Encodable(r), "malformed")
                    \cup LinkErrors(rs, i)
                    \cup SignatureErrors(r)
    BY DEF EnvelopeErrors
  <2> HIDE DEF r, rs
  <2>3. KnownType(r.type, r.spec)
    BY <2>1, <2>2
  <2>4. LinkErrors(rs, i) = {} /\ SignatureErrors(r) = {}
    BY <2>1, <2>2, <2>3
  <2> QED BY <2>3, <2>4 DEF r
<1> HIDE DEF rs
<1>3. ASSUME NEW i \in DOMAIN rs
      PROVE  /\ rs[i].seq = i - 1
             /\ rs[i].prev = IF i = 1 THEN None ELSE Digest(rs[i - 1])
  <2> DEFINE before == {j \in 1..(i - 1) : KnownType(rs[j].type, rs[j].spec)}
  <2>1. i \in Nat /\ i >= 1 /\ \A j \in 1..(i - 1) : j \in DOMAIN rs
    BY <1>1, <1>3
  <2>2. before = 1..(i - 1)
    BY <1>2, <2>1
  <2>3. ExpectedPrev(rs, i) = IF before = {} THEN None ELSE Digest(rs[Greatest(before)])
    BY DEF ExpectedPrev
  <2> HIDE DEF before
  <2>4. i # 1 => before # {} /\ Greatest(before) = i - 1
    <3> SUFFICES ASSUME i # 1 PROVE before # {} /\ Greatest(before) = i - 1
      OBVIOUS
    <3>1. i - 1 \in before /\ \A y \in before : y \in Int /\ i - 1 >= y
      BY <2>1, <2>2
    <3>2. \A x \in before : (\A y \in before : x >= y) => x = i - 1
      BY <2>1, <3>1
    <3> QED BY <3>1, <3>2 DEF Greatest
  <2>5. i = 1 => before = {}
    BY <2>2
  <2>6. rs[i].seq = i - 1 /\ rs[i].prev = ExpectedPrev(rs, i)
    BY <1>2, <1>3 DEF LinkErrors, When
  <2> QED BY <2>3, <2>4, <2>5, <2>6
<1>4. \A i \in DOMAIN rs : /\ Encodable(rs[i])
                           /\ rs[i].sig = [by |-> rs[i].issuer, over |-> Unsigned(rs[i])]
  BY <1>2 DEF SignatureErrors, SignatureVerifies, When
<1> QED BY <1>3, <1>4 DEF InOrder, rs

\* A signed receipt is the one of the version, and so is all that it stands behind.
LEMMA PrefixIsSigned ==
  ASSUME NEW rs, List(rs), InOrder(rs),
         \A k \in DOMAIN rs : Object(rs[k]) /\ DOMAIN rs[k] = Fields,
         NEW v, Version(v), NEW i \in DOMAIN rs, i \in DOMAIN v, Unsigned(rs[i]) = Unsigned(v[i])
  PROVE  \A j \in 1..i : rs[j] = v[j]
<1>1. /\ Len(rs) \in Nat /\ DOMAIN rs = 1..Len(rs)
      /\ Len(v) \in Nat /\ DOMAIN v = 1..Len(v)
  BY ListHas DEF Version
<1>2. i \in Nat /\ \A k \in 1..i : k \in DOMAIN rs /\ k \in DOMAIN v
  BY <1>1
<1>3. \A k \in DOMAIN v : SealedAt(v, k)
  BY DEF Version
<1>4. ASSUME NEW k \in 1..i, Unsigned(rs[k]) = Unsigned(v[k])
      PROVE  rs[k] = v[k]
  <2>1. /\ Object(rs[k]) /\ DOMAIN rs[k] = Fields
        /\ Object(v[k]) /\ DOMAIN v[k] = Fields
    BY <1>2, <1>3 DEF SealedAt, Whole
  <2>2. \A f \in Fields \ {"sig"} : rs[k][f] = v[k][f]
    BY <1>4, <2>1, SameSigned
  <2>3. rs[k].issuer = v[k].issuer
    BY <2>2 DEF Fields
  <2>4. rs[k].sig = v[k].sig
    <3>1. rs[k].sig = [by |-> rs[k].issuer, over |-> Unsigned(rs[k])]
      BY <1>2 DEF InOrder
    <3>2. v[k].sig = [by |-> v[k].issuer, over |-> Unsigned(v[k])]
      BY <1>2, <1>3 DEF SealedAt
    <3> QED BY <1>4, <2>3, <3>1, <3>2
  <2> QED BY <1>4, <2>1, <2>4, SameSigned
<1>5. ASSUME NEW k \in 1..i, k # 1, rs[k] = v[k]
      PROVE  rs[k - 1] = v[k - 1]
  <2>1. k - 1 \in 1..i
    BY <1>2, <1>5
  <2>2. Digest(rs[k - 1]) = Digest(v[k - 1])
    <3>1. rs[k].prev = Digest(rs[k - 1])
      BY <1>2, <1>5 DEF InOrder
    <3>2. v[k].prev = Digest(v[k - 1])
      BY <1>2, <1>3, <1>5 DEF SealedAt
    <3> QED BY <1>5, <3>1, <3>2
  <2>3. Encodable(rs[k - 1]) /\ Encodable(v[k - 1])
    BY <1>2, <1>3, <2>1 DEF InOrder, SealedAt, Whole
  <2>4. Unsigned(rs[k - 1]) = Unsigned(v[k - 1])
    BY <2>2, <2>3 DEF Digest
  <2> QED BY <1>4, <2>1, <2>4
<1> DEFINE Differ == {m \in 0..(i - 1) : rs[i - m] # v[i - m]}
<1>6. Differ = {}
  <2> SUFFICES ASSUME Differ # {} PROVE FALSE
    OBVIOUS
  <2>1. Differ \subseteq Nat
    BY <1>2
  <2> DEFINE m == Least(Differ)
  <2>2. m \in Differ /\ \A y \in Differ : m <= y
    <3> HIDE DEF Differ
    <3> QED BY <2>1, HasLeast
  <2> HIDE DEF m
  <2>3. m \in 0..(i - 1) /\ rs[i - m] # v[i - m]
    BY <2>2
  <2>4. m # 0
    <3>1. i \in 1..i /\ i - 0 = i
      BY <1>1, <1>2
    <3>2. rs[i] = v[i]
      BY <1>4, <3>1
    <3> QED BY <1>2, <2>3, <3>1, <3>2
  <2>5. m - 1 \in 0..(i - 1) /\ m - 1 \notin Differ
    <3>1. m - 1 \in 0..(i - 1) /\ ~(m <= m - 1)
      BY <1>2, <2>3, <2>4
    <3> HIDE DEF Differ
    <3> QED BY <2>2, <3>1
  <2>6. rs[i - (m - 1)] = v[i - (m - 1)]
    BY <2>5
  <2>7. i - (m - 1) \in 1..i /\ i - (m - 1) # 1 /\ i - (m - 1) - 1 = i - m
    BY <1>2, <2>3, <2>4
  <2>8. rs[i - (m - 1) - 1] = v[i - (m - 1) - 1]
    BY <1>5, <2>6, <2>7
  <2> QED BY <2>3, <2>7, <2>8
<1> TAKE j \in 1..i
<1>7. i - j \in 0..(i - 1) /\ i - (i - j) = j
  BY <1>2
<1>8. i - j \notin Differ
  BY <1>6
<1>9. rs[i - (i - j)] = v[i - (i - j)]
  BY <1>7, <1>8
<1> QED BY <1>7, <1>9

\* A bundle with the receipts of the store that is not UNTRUSTED: every receipt
\* but the holder's own stands in some version, behind the same receipts.
LEMMA ReceiptsStand ==
  ASSUME IInv, NEW b, b.receipts = bundle.receipts,
         VerifyBundle(b, {}, FALSE).verdict # "UNTRUSTED"
  PROVE  /\ InOrder(b.receipts)
         /\ \A i \in DOMAIN b.receipts :
              \/ b.receipts[i].issuer = Holder /\ DOMAIN b.receipts[i].hidden = {}
              \/ \E v \in versions : i \in DOMAIN v /\ \A j \in 1..i : b.receipts[j] = v[j]
<1> DEFINE rs == b.receipts
<1>1. List(rs) /\ \A k \in DOMAIN rs : VouchedFor(rs[k])
  BY DEF IInv, BundleInv
<1>2. \A i \in DOMAIN rs : EnvelopeErrors(b, i) = {}
  BY Passed
<1>3. InOrder(rs)
  BY <1>1, <1>2, EnvelopesInOrder
<1> HIDE DEF rs
<1>4. ASSUME NEW i \in DOMAIN rs, ~(rs[i].issuer = Holder /\ DOMAIN rs[i].hidden = {})
      PROVE  \E v \in versions : i \in DOMAIN v /\ \A j \in 1..i : rs[j] = v[j]
  <2>1. PICK v \in versions : \E k \in DOMAIN v : rs[i].sig = v[k].sig
    BY <1>1, <1>4 DEF VouchedFor
  <2>2. PICK k \in DOMAIN v : rs[i].sig = v[k].sig
    BY <2>1
  <2>3. Version(v) /\ SealedAt(v, k)
    BY <2>2 DEF IInv, VersionsInv, Version
  <2>4. rs[i].sig = [by |-> rs[i].issuer, over |-> Unsigned(rs[i])]
    BY <1>3 DEF InOrder
  <2>5. v[k].sig = [by |-> v[k].issuer, over |-> Unsigned(v[k])]
    BY <2>3 DEF SealedAt
  <2>6. Unsigned(rs[i]) = Unsigned(v[k])
    <3>1. rs[i].sig.over = Unsigned(rs[i]) /\ v[k].sig.over = Unsigned(v[k])
      BY <2>4, <2>5
    <3> QED BY <2>2, <3>1
  <2>7. \A n \in DOMAIN rs : Object(rs[n]) /\ DOMAIN rs[n] = Fields
    BY <1>1 DEF VouchedFor
  <2>8. Object(v[k]) /\ DOMAIN v[k] = Fields
    BY <2>3 DEF SealedAt, Whole
  <2>9. rs[i].seq = v[k].seq
    <3>1. \A f \in Fields \ {"sig"} : rs[i][f] = v[k][f]
      BY <2>6, <2>7, <2>8, SameSigned
    <3> QED BY <3>1 DEF Fields
  <2>10. i - 1 = k - 1
    BY <1>3, <2>3, <2>9 DEF InOrder, SealedAt
  <2>11. i = k
    <3>1. i \in Int /\ k \in Int
      BY <1>1, <2>2, <2>3, ListHas DEF Version
    <3> QED BY <2>10, <3>1
  <2> QED BY <1>1, <1>3, <2>2, <2>3, <2>6, <2>7, <2>11, PrefixIsSigned
<1> QED BY <1>3, <1>4 DEF rs

-----------------------------------------------------------------------------
(* The theorems *)

\* Unless the verdict is UNTRUSTED, each issuer's receipt stands exactly behind the
\* receipts it was signed behind, whatever a holder makes of the versions it has.
THEOREM ReceiptsVouchForPrefixes == Spec => []SignedInContext
<1>1. Holder \notin Issuers
  BY DisclosureAssumption DEF DisclosureAssumption
<1>2. IInv => SignedInContext
  <2> SUFFICES ASSUME IInv, Outcome.verdict # "UNTRUSTED",
                      NEW i \in DOMAIN bundle.receipts, bundle.receipts[i].issuer \in Issuers
               PROVE  \E v \in versions : i <= Len(v) /\ \A j \in 1..i : bundle.receipts[j] = v[j]
    BY DEF SignedInContext
  <2>1. bundle.receipts[i].issuer # Holder
    BY <1>1
  <2>2. PICK v \in versions : i \in DOMAIN v /\ \A j \in 1..i : bundle.receipts[j] = v[j]
    BY <2>1, ReceiptsStand DEF Outcome
  <2>3. i <= Len(v)
    <3>1. DOMAIN v = 1..Len(v)
      BY <2>2, ListHas DEF IInv, VersionsInv, Version
    <3> QED BY <2>2, <3>1
  <2> QED BY <2>2, <2>3
<1> QED BY <1>2, DisclosureInductive, PTL

\* What is disclosed in a bundle that is not UNTRUSTED is what an issuer redacted at
\* that place, and a TRUSTED bundle withholds nothing.
THEOREM DisclosuresAreCommitted == Spec => []DisclosedIsCommitted
<1>1. IInv => DisclosedIsCommitted
  <2> SUFFICES ASSUME IInv PROVE DisclosedIsCommitted
    OBVIOUS
  <2>1. \A p \in Places(bundle.receipts) :
          Outcome.verdict # "UNTRUSTED" => ~RedactedRequired(bundle.receipts, p)
    BY Passed DEF Outcome, RedactionErrors, When
  <2>2. ASSUME Outcome.verdict # "UNTRUSTED", NEW p \in Places(bundle.receipts) \cap Disclosed(bundle)
        PROVE  \E v \in versions : p \in Redactable(v) /\ bundle.disclosure[p][2] = Value(v, p)
    <3>1. PICK i \in DOMAIN bundle.receipts : \E f \in DOMAIN bundle.receipts[i].hidden : p = <<i, f>>
      BY <2>2 DEF Places
    <3>2. PICK f \in DOMAIN bundle.receipts[i].hidden : p = <<i, f>>
      BY <3>1
    <3>3. bundle.disclosure[p] = bundle.receipts[i].hidden[f].commit
      <4>1. RedactionErrors(bundle) = {}
        BY <2>2, Passed DEF Outcome
      <4>2. CommitMatches(bundle.disclosure[p], Redaction(bundle.receipts, p))
        BY <2>1, <2>2, <4>1 DEF RedactionErrors, When
      <4> QED BY <3>2, <4>2 DEF CommitMatches, Redaction
    <3>4. PICK v \in versions : i \in DOMAIN v /\ \A j \in 1..i : bundle.receipts[j] = v[j]
      BY <2>2, <3>2, ReceiptsStand DEF Outcome
    <3>5. i \in 1..i
      BY <3>4, ListHas DEF IInv, VersionsInv, Version
    <3>6. bundle.receipts[i] = v[i]
      BY <3>4, <3>5
    <3>7. PICK w \in versions : /\ <<i, f>> \in Redactable(w)
                                /\ v[i].hidden[f].commit[2] = Value(w, <<i, f>>)
      BY <3>2, <3>4, <3>6 DEF IInv, CommitInv
    <3> QED BY <3>2, <3>3, <3>6, <3>7
  <2>3. ASSUME Outcome.verdict = "TRUSTED"
        PROVE  Places(bundle.receipts) \subseteq Disclosed(bundle)
    <3>1. Withheld(bundle) = {} /\ Outcome.verdict # "UNTRUSTED"
      BY <2>3, Passed DEF Outcome
    <3> QED BY <2>1, <3>1 DEF Withheld
  <2> QED BY <2>2, <2>3 DEF DisclosedIsCommitted
<1> QED BY <1>1, DisclosureInductive, PTL

\* With the head of a version from elsewhere, no other chain passes.
THEOREM HeadsPinChains == "of" \notin DOMAIN None => (Spec => []HeadPinsChain)
<1> SUFFICES ASSUME "of" \notin DOMAIN None PROVE Spec => []HeadPinsChain
  OBVIOUS
<1>1. IInv => HeadPinsChain
  <2> SUFFICES ASSUME IInv, NEW v \in versions
               PROVE  LET pinned == [bundle EXCEPT !.head = [of |-> HeadOf(v), anchored |-> None]]
                      IN bundle.receipts # <<>> /\ VerifyBundle(pinned, {}, FALSE).verdict # "UNTRUSTED"
                           => bundle.receipts = v
    BY DEF HeadPinsChain
  <2> DEFINE head == [of |-> HeadOf(v), anchored |-> None]
             pinned == [bundle EXCEPT !.head = head]
  <2> SUFFICES ASSUME VerifyBundle(pinned, {}, FALSE).verdict # "UNTRUSTED"
               PROVE  bundle.receipts = v
    OBVIOUS
  <2>1. head.of = HeadOf(v) /\ head # None
    OBVIOUS
  <2> HIDE DEF head
  <2>2. pinned.receipts = bundle.receipts /\ pinned.head = head
    BY DEF IInv, BundleInv, Members
  <2> HIDE DEF pinned
  <2>3. PICK rs : rs = bundle.receipts
    OBVIOUS
  <2>4. /\ rs # <<>> /\ List(rs) /\ Len(rs) \in Nat /\ DOMAIN rs = 1..Len(rs)
        /\ rs = [i \in 1..Len(rs) |-> rs[i]]
    BY <2>2, <2>3, Passed, ListHas DEF IInv, BundleInv
  <2>5. /\ Version(v) /\ v # <<>> /\ List(v) /\ Len(v) \in Nat /\ DOMAIN v = 1..Len(v)
        /\ v = [i \in 1..Len(v) |-> v[i]]
    BY ListHas DEF IInv, VersionsInv, Version
  <2>6. Len(rs) # 0 /\ Len(v) # 0
    BY <2>4, <2>5
  <2>7. InOrder(rs)
    BY <2>2, <2>3, ReceiptsStand
  <2> DEFINE last == rs[Len(rs)]
             top == v[Len(v)]
  <2>8. Encodable(last) /\ last.seq = Len(rs) - 1
    <3>1. Len(rs) \in DOMAIN rs
      BY <2>4, <2>6
    <3> QED BY <2>7, <3>1 DEF InOrder
  <2>9. Encodable(top) /\ top.seq = Len(v) - 1
    <3>1. Len(v) \in DOMAIN v
      BY <2>5, <2>6
    <3> QED BY <2>5, <3>1 DEF Version, SealedAt, Whole
  <2>10. head.of = HeadOf(rs)
    <3>1. ShapeErrors(pinned) = {} /\ HeadErrors(pinned) = {}
      BY Passed
    <3>2. "chain_head" \notin pinned.malformed
      BY <3>1 DEF ShapeErrors, When
    <3> QED BY <2>1, <2>2, <2>3, <2>8, <3>1, <3>2 DEF HeadErrors
  <2>11. last.seq = top.seq /\ Digest(last) = Digest(top)
    <3>1. /\ HeadOf(rs).seq = last.seq /\ HeadOf(rs).digest = Digest(last)
          /\ HeadOf(v).seq = top.seq /\ HeadOf(v).digest = Digest(top)
      BY DEF HeadOf
    <3> QED BY <2>1, <2>10, <3>1
  <2>12. Len(rs) = Len(v)
    <3>1. Len(rs) - 1 = Len(v) - 1
      BY <2>8, <2>9, <2>11
    <3>2. Len(rs) \in Int /\ Len(v) \in Int
      BY <2>4, <2>5
    <3>3. \A m, n \in Int : m - 1 = n - 1 => m = n
      OBVIOUS
    <3> QED BY <3>1, <3>2, <3>3, Zenon
  <2>13. Unsigned(last) = Unsigned(top)
    BY <2>8, <2>9, <2>11 DEF Digest
  <2>14. \A k \in DOMAIN rs : Object(rs[k]) /\ DOMAIN rs[k] = Fields
    BY <2>3 DEF IInv, BundleInv, VouchedFor
  <2>15. \A j \in 1..Len(rs) : rs[j] = v[j]
    <3>1. Len(rs) \in DOMAIN rs /\ Len(rs) \in DOMAIN v
      BY <2>4, <2>5, <2>6, <2>12
    <3> QED BY <2>4, <2>5, <2>7, <2>12, <2>13, <2>14, <3>1, PrefixIsSigned
  <2>16. rs = v
    BY <2>4, <2>5, <2>12, <2>15
  <2> QED BY <2>3, <2>16
<1> QED BY <1>1, DisclosureInductive, PTL

-----------------------------------------------------------------------------
(* The verdict, from the lists of its codes *)

\* The errors of a bundle that verify_bundle does not return early for, and what it
\* lists besides.
ErrorsOf(b) ==
    LET rs == b.receipts IN
    ShapeErrors(b) \cup (UNION {EnvelopeErrors(b, i) : i \in DOMAIN rs})
      \cup CrossRecordErrors(rs) \cup AgreementErrors(rs) \cup AuthorityErrors(rs)
      \cup RedactionErrors(b) \cup AttestationErrors(rs) \cup ProvenanceErrors(rs)
      \cup RevocationErrors(b, {}) \cup AnchorErrors(b) \cup HeadErrors(b)

InsufficientOf(b) ==
    AgreementInsufficient(b.receipts) \cup AuthorityInsufficient(b.receipts)
      \cup When(\E p \in Withheld(b) : Redaction(b.receipts, p).erased, "erased_content")

ProvisionalOf(b) ==
    AgreementProvisional(b.receipts) \cup AuthorityProvisional(b.receipts)
      \cup When(\E p \in Withheld(b) : ~Redaction(b.receipts, p).erased, "redacted_without_disclosure")
      \cup AnchorProvisional(b, FALSE)

Early(b) ==
    b.malformed \cap {"bundle", "depth", "too_many"} # {} \/ b.spec \notin Specs \/ b.receipts = <<>>

\* The verdict: an early return or an error makes it UNTRUSTED, missing evidence
\* keeps it below PROVISIONAL, and anything else below TRUSTED.
LEMMA VerdictOf ==
  ASSUME NEW b
  PROVE  VerifyBundle(b, {}, FALSE).verdict =
           IF Early(b) \/ ErrorsOf(b) # {} THEN "UNTRUSTED"
           ELSE IF InsufficientOf(b) # {} THEN "INSUFFICIENT_EVIDENCE"
           ELSE IF ProvisionalOf(b) # {} THEN "PROVISIONAL" ELSE "TRUSTED"
<1>1. ASSUME NEW e, NEW i, NEW p
      PROVE  Result(e, i, p).verdict =
               IF e # {} THEN "UNTRUSTED" ELSE IF i # {} THEN "INSUFFICIENT_EVIDENCE"
               ELSE IF p # {} THEN "PROVISIONAL" ELSE "TRUSTED"
  <2>1. Result(e, i, p).verdict = Verdict(e, i, p)
    BY DEF Result
  <2> QED BY <2>1 DEF Verdict
<1>2. CASE Early(b)
  <2>1. \E code : VerifyBundle(b, {}, FALSE) = Result({code}, {}, {})
    BY <1>2 DEF VerifyBundle, Early
  <2>2. PICK code : VerifyBundle(b, {}, FALSE) = Result({code}, {}, {})
    BY <2>1
  <2>3. PICK e : e = {code}
    OBVIOUS
  <2>4. e # {}
    BY <2>3
  <2>5. Result(e, {}, {}).verdict = "UNTRUSTED"
    BY <1>1, <2>4
  <2> QED BY <1>2, <2>2, <2>3, <2>5
<1>3. CASE ~Early(b)
  <2>1. VerifyBundle(b, {}, FALSE) = Result(ErrorsOf(b), InsufficientOf(b), ProvisionalOf(b))
    BY <1>3 DEF VerifyBundle, Early, ErrorsOf, InsufficientOf, ProvisionalOf
  <2>2. Result(ErrorsOf(b), InsufficientOf(b), ProvisionalOf(b)).verdict =
           IF ErrorsOf(b) # {} THEN "UNTRUSTED" ELSE IF InsufficientOf(b) # {} THEN "INSUFFICIENT_EVIDENCE"
           ELSE IF ProvisionalOf(b) # {} THEN "PROVISIONAL" ELSE "TRUSTED"
    BY <1>1
  <2> QED BY <1>3, <2>1, <2>2
<1> QED BY <1>2, <1>3

\* Without errors no check has found any.
LEMMA NoErrors ==
  ASSUME NEW b
  PROVE  ErrorsOf(b) = {} <=>
           LET rs == b.receipts IN
           /\ ShapeErrors(b) = {} /\ \A i \in DOMAIN rs : EnvelopeErrors(b, i) = {}
           /\ CrossRecordErrors(rs) = {} /\ AgreementErrors(rs) = {} /\ AuthorityErrors(rs) = {}
           /\ RedactionErrors(b) = {} /\ AttestationErrors(rs) = {} /\ ProvenanceErrors(rs) = {}
           /\ RevocationErrors(b, {}) = {} /\ AnchorErrors(b) = {} /\ HeadErrors(b) = {}
<1> DEFINE envelopes == UNION {EnvelopeErrors(b, i) : i \in DOMAIN b.receipts}
<1>1. envelopes = {} <=> \A i \in DOMAIN b.receipts : EnvelopeErrors(b, i) = {}
  OBVIOUS
<1>2. ErrorsOf(b) = ShapeErrors(b) \cup envelopes
      \cup CrossRecordErrors(b.receipts) \cup AgreementErrors(b.receipts) \cup AuthorityErrors(b.receipts)
      \cup RedactionErrors(b) \cup AttestationErrors(b.receipts) \cup ProvenanceErrors(b.receipts)
      \cup RevocationErrors(b, {}) \cup AnchorErrors(b) \cup HeadErrors(b)
  BY DEF ErrorsOf
<1> HIDE DEF envelopes
<1> QED BY <1>1, <1>2

-----------------------------------------------------------------------------
(* The sample attacks of the threat matrix *)

\* A position that is wrong, or a signature over something else, is an error.
LEMMA EnvelopeRefuses ==
  ASSUME NEW b, NEW i \in DOMAIN b.receipts,
         b.receipts[i].seq # i - 1 \/ ~SignatureVerifies(b.receipts[i])
  PROVE  Refused(b)
<1> DEFINE r == b.receipts[i]
<1>1. EnvelopeErrors(b, i) =
          When(r.spec \notin Specs, "version_unsupported")
          \cup When(r.task # b.task, "task_mismatch")
          \cup IF ~KnownType(r.type, r.spec) THEN {"unknown_type"}
               ELSE When(\E f \in RequiredFields(r.type, r.spec) : ~Has(r, f), "malformed")
                    \cup BodyErrors(r)
                    \cup When(~ValidTime(r.at) \/ ~Encodable(r), "malformed")
                    \cup LinkErrors(b.receipts, i)
                    \cup SignatureErrors(r)
  BY DEF EnvelopeErrors
<1>2. LinkErrors(b.receipts, i) # {} \/ SignatureErrors(r) # {}
  BY DEF LinkErrors, SignatureErrors, When
<1> HIDE DEF r
<1>3. EnvelopeErrors(b, i) # {}
  BY <1>1, <1>2
<1>4. ErrorsOf(b) # {}
  BY <1>3, NoErrors
<1> QED BY <1>4, VerdictOf DEF Refused

\* A chain whose receipts are whole.
Orderly(rs) == List(rs) /\ InOrder(rs) /\ \A k \in DOMAIN rs : Object(rs[k]) /\ DOMAIN rs[k] = Fields

\* Two receipts exchanged: one has another's position.
LEMMA ReorderingsRefused ==
  ASSUME NEW b, Orderly(b.receipts), "receipts" \in DOMAIN b, NEW c \in Reorderings(b.receipts)
  PROVE  Refused(WithReceipts(b, c))
<1> DEFINE rs == b.receipts
<1>1. PICK i \in DOMAIN rs, j \in DOMAIN rs : c = Swap(rs, i, j) /\ c # rs
  BY DEF Reorderings
<1>2. Len(rs) \in Nat /\ DOMAIN rs = 1..Len(rs) /\ rs = [k \in 1..Len(rs) |-> rs[k]]
  BY ListHas DEF Orderly
<1> HIDE DEF rs
<1>3. DOMAIN c = DOMAIN rs /\ c[j] = rs[i] /\ c = [k \in DOMAIN rs |-> c[k]]
      /\ \A k \in DOMAIN rs : c[k] = IF k = j THEN rs[i] ELSE IF k = i THEN rs[j] ELSE rs[k]
  BY <1>1, <1>2 DEF Swap
<1>4. i # j
  <2> SUFFICES ASSUME i = j PROVE FALSE
    OBVIOUS
  <2>1. \A k \in DOMAIN rs : c[k] = rs[k]
    BY <1>3
  <2> QED BY <1>1, <1>2, <1>3, <2>1
<1>5. c[j].seq # j - 1
  <2>1. rs[i].seq = i - 1
    BY <1>1 DEF Orderly, InOrder, rs
  <2> QED BY <1>1, <1>2, <1>3, <1>4, <2>1
<1>6. WithReceipts(b, c).receipts = c
  BY DEF WithReceipts
<1> QED BY <1>1, <1>3, <1>5, <1>6, EnvelopeRefuses

\* A receipt left out: the next one has a wrong position.
LEMMA DeletionsRefused ==
  ASSUME NEW b, Orderly(b.receipts), "receipts" \in DOMAIN b, NEW c \in MiddleDeletions(b.receipts)
  PROVE  Refused(WithReceipts(b, c))
<1> DEFINE rs == b.receipts
<1>1. PICK i \in 2..(Len(rs) - 1) : c = DropReceipt(rs, i)
  BY DEF MiddleDeletions
<1>2. Len(rs) \in Nat /\ DOMAIN rs = 1..Len(rs)
  BY ListHas DEF Orderly
<1> HIDE DEF rs
<1>3. i \in DOMAIN c /\ c[i] = rs[i + 1] /\ i + 1 \in DOMAIN rs /\ i \in Int
  BY <1>1, <1>2 DEF DropReceipt
<1>4. c[i].seq # i - 1
  <2>1. rs[i + 1].seq = (i + 1) - 1
    BY <1>3 DEF Orderly, InOrder, rs
  <2> QED BY <1>3, <2>1
<1>5. WithReceipts(b, c).receipts = c
  BY DEF WithReceipts
<1> QED BY <1>3, <1>4, <1>5, EnvelopeRefuses

\* A chain in which one receipt is changed, and the change does not show in a position.
LEMMA SameChain ==
  ASSUME NEW rs, Orderly(rs), NEW c, DOMAIN c = DOMAIN rs, c = [k \in DOMAIN rs |-> c[k]],
         \A k \in DOMAIN rs : Object(c[k]) /\ DOMAIN c[k] = Fields /\ \A f \in Fields : c[k][f] = rs[k][f]
  PROVE  c = rs
<1>1. \A k \in DOMAIN rs : c[k] = rs[k]
  BY DEF Orderly, Object
<1>2. rs = [k \in DOMAIN rs |-> rs[k]]
  BY ListHas DEF Orderly
<1> QED BY <1>1, <1>2

\* Another position: it is not the one the receipt is at.
LEMMA SequencesRefused ==
  ASSUME NEW b, Orderly(b.receipts), "receipts" \in DOMAIN b, NEW c \in SequenceChanges(b.receipts)
  PROVE  Refused(WithReceipts(b, c))
<1> DEFINE rs == b.receipts
<1>1. PICK i \in DOMAIN rs, n \in 0..Len(rs) : c = [rs EXCEPT ![i].seq = n] /\ c # rs
  BY DEF SequenceChanges
<1>2. Orderly(rs) /\ rs = [k \in DOMAIN rs |-> rs[k]]
  BY ListHas DEF Orderly
<1> HIDE DEF rs
<1>3. PICK x : x = [rs[i] EXCEPT !.seq = n]
  OBVIOUS
<1>4. c = [rs EXCEPT ![i] = x]
  BY <1>1, <1>3
<1>5. DOMAIN c = DOMAIN rs /\ c = [k \in DOMAIN rs |-> c[k]]
      /\ \A k \in DOMAIN rs : c[k] = IF k = i THEN x ELSE rs[k]
  BY <1>2, <1>4
<1>6. Object(x) /\ DOMAIN x = Fields /\ x.seq = n /\ \A f \in Fields \ {"seq"} : x[f] = rs[i][f]
  BY <1>1, <1>2, <1>3 DEF Orderly, Object, Fields
<1>7. rs[i].seq = i - 1
  BY <1>1, <1>2 DEF Orderly, InOrder
<1>8. n # i - 1
  <2> SUFFICES ASSUME n = i - 1 PROVE FALSE
    OBVIOUS
  <2>1. \A f \in Fields : x[f] = rs[i][f]
    BY <1>6, <1>7
  <2>2. \A k \in DOMAIN rs : Object(c[k]) /\ DOMAIN c[k] = Fields /\ \A f \in Fields : c[k][f] = rs[k][f]
    BY <1>2, <1>5, <1>6, <2>1 DEF Orderly
  <2>3. c = rs
    BY <1>2, <1>5, <2>2, SameChain
  <2> QED BY <1>1, <2>3
<1>9. i \in DOMAIN c /\ c[i].seq # i - 1
  BY <1>1, <1>5, <1>6, <1>8
<1>10. WithReceipts(b, c).receipts = c
  BY DEF WithReceipts
<1> QED BY <1>9, <1>10, EnvelopeRefuses

\* Another body under the old signature.
LEMMA BodyRefused ==
  ASSUME NEW b, Orderly(b.receipts), "receipts" \in DOMAIN b, NEW i \in DOMAIN b.receipts,
         NEW body, body # b.receipts[i].body,
         NEW c, c = [b.receipts EXCEPT ![i].body = body]
  PROVE  Refused(WithReceipts(b, c))
<1> DEFINE rs == b.receipts
<1>1. PICK x : x = [rs[i] EXCEPT !.body = body]
  OBVIOUS
<1>2. Orderly(rs) /\ rs = [k \in DOMAIN rs |-> rs[k]]
  BY ListHas DEF Orderly
<1>3. i \in DOMAIN c /\ c[i] = x
  BY <1>1, <1>2
<1>4. Object(x) /\ DOMAIN x = Fields /\ x.body = body /\ x.sig = rs[i].sig /\ x.issuer = rs[i].issuer
  BY <1>1, <1>2 DEF Orderly, Object, Fields
<1>5. rs[i].sig = [by |-> rs[i].issuer, over |-> Unsigned(rs[i])]
  BY <1>2 DEF Orderly, InOrder
<1>6. Unsigned(x) # Unsigned(rs[i])
  <2>1. Unsigned(x).body = body /\ Unsigned(rs[i]).body = rs[i].body
    BY <1>2, <1>4 DEF Unsigned, Orderly, Fields
  <2> QED BY <2>1
<1>7. ~SignatureVerifies(x)
  <2> SUFFICES ASSUME x.sig = [by |-> x.issuer, over |-> Unsigned(x)] PROVE FALSE
    BY DEF SignatureVerifies
  <2>1. x.sig.over = Unsigned(x) /\ rs[i].sig.over = Unsigned(rs[i])
    BY <1>5
  <2> QED BY <1>4, <1>6, <2>1
<1>8. WithReceipts(b, c).receipts = c
  BY DEF WithReceipts
<1> QED BY <1>3, <1>7, <1>8, EnvelopeRefuses

\* A field added or left out: the signature is over another body.
LEMMA ContentsRefused ==
  ASSUME NEW b, Orderly(b.receipts), "receipts" \in DOMAIN b, NEW c \in ContentChanges(b.receipts)
  PROVE  Refused(WithReceipts(b, c))
<1> DEFINE rs == b.receipts
<1>1. Orderly(rs) /\ rs = [k \in DOMAIN rs |-> rs[k]]
  BY ListHas DEF Orderly
<1>2. ASSUME NEW i \in DOMAIN rs, c # rs,
             c = [rs EXCEPT ![i].body = With(@, "tampered_field", "other")]
      PROVE  Refused(WithReceipts(b, c))
  <2> DEFINE body == With(rs[i].body, "tampered_field", "other")
  <2>1. c = [rs EXCEPT ![i].body = body]
    BY <1>2
  <2> HIDE DEF body
  <2>2. body # rs[i].body
    <3> SUFFICES ASSUME body = rs[i].body PROVE FALSE
      OBVIOUS
    <3>1. PICK x : x = [rs[i] EXCEPT !.body = body]
      OBVIOUS
    <3>2. c = [rs EXCEPT ![i] = x]
      BY <2>1, <3>1
    <3> HIDE DEF rs
    <3>3. DOMAIN c = DOMAIN rs /\ c = [k \in DOMAIN rs |-> c[k]]
          /\ \A k \in DOMAIN rs : c[k] = IF k = i THEN x ELSE rs[k]
      BY <1>1, <3>2
    <3>4. Object(x) /\ DOMAIN x = Fields /\ \A f \in Fields : x[f] = rs[i][f]
      BY <1>1, <1>2, <3>1 DEF Orderly, Object, Fields
    <3>5. \A k \in DOMAIN rs : Object(c[k]) /\ DOMAIN c[k] = Fields /\ \A f \in Fields : c[k][f] = rs[k][f]
      BY <1>1, <3>3, <3>4 DEF Orderly
    <3> QED BY <1>1, <1>2, <3>3, <3>5, SameChain
  <2> QED BY <2>1, <2>2, BodyRefused
<1>3. ASSUME NEW i \in DOMAIN rs, NEW f \in DOMAIN rs[i].body, c = [rs EXCEPT ![i].body = Without(@, f)]
      PROVE  Refused(WithReceipts(b, c))
  <2> DEFINE body == Without(rs[i].body, f)
  <2>1. c = [rs EXCEPT ![i].body = body]
    BY <1>3
  <2>2. f \notin DOMAIN body
    BY DEF Without
  <2> HIDE DEF body
  <2>3. body # rs[i].body
    BY <1>3, <2>2
  <2> QED BY <2>1, <2>3, BodyRefused
<1>4. \/ c # rs /\ \E i \in DOMAIN rs : c = [rs EXCEPT ![i].body = With(@, "tampered_field", "other")]
      \/ \E i \in DOMAIN rs : \E f \in DOMAIN rs[i].body : c = [rs EXCEPT ![i].body = Without(@, f)]
  <2> DEFINE A == {[rs EXCEPT ![i].body = With(@, "tampered_field", "other")] : i \in DOMAIN rs}
             B(i) == {[rs EXCEPT ![i].body = Without(@, f)] :
                        f \in DOMAIN rs[i].body \ ({"shape"} \cup Required(rs[i].type))}
  <2>1. ContentChanges(rs) = (A \ {rs}) \cup UNION {B(i) : i \in DOMAIN rs}
    BY Zenon DEF ContentChanges
  <2>2. CASE c \in A /\ c # rs
    BY <2>2, Zenon
  <2>3. CASE \E i \in DOMAIN rs : c \in B(i)
    <3>1. PICK i \in DOMAIN rs : c \in B(i)
      BY <2>3
    <3>2. \E f \in DOMAIN rs[i].body : c = [rs EXCEPT ![i].body = Without(@, f)]
      BY <3>1, Zenon
    <3> QED BY <3>2, Zenon
  <2>4. c \in ContentChanges(rs)
    OBVIOUS
  <2> HIDE DEF A, B, rs
  <2>5. (c \in A /\ c # rs) \/ \E i \in DOMAIN rs : c \in B(i)
    BY <2>1, <2>4
  <2> QED BY <2>2, <2>3, <2>5
<1> QED BY <1>2, <1>3, <1>4

-----------------------------------------------------------------------------
(* A bundle without its last receipts *)

\* s is what rs begins with.
Beginning(s, rs) ==
    List(s) /\ List(rs) /\ DOMAIN s \subseteq DOMAIN rs /\ \A i \in DOMAIN s : s[i] = rs[i]

\* The records of a beginning are records of the whole.
LEMMA BeginningRecords ==
  ASSUME NEW s, NEW rs, Beginning(s, rs), NEW type
  PROVE  /\ Indexes(s, type) = Indexes(rs, type) \cap DOMAIN s
         /\ OfType(s, type) \subseteq OfType(rs, type)
         /\ \A n : Bound(s, n) \subseteq Bound(rs, n)
<1>1. Indexes(s, type) = Indexes(rs, type) \cap DOMAIN s
  BY DEF Beginning, Indexes
<1>2. OfType(s, type) \subseteq OfType(rs, type)
  BY <1>1 DEF Beginning, OfType, Indexes
<1>3. \A n : Bound(s, n) \subseteq Bound(rs, n)
  BY DEF Beginning, Bound
<1> QED BY <1>1, <1>2, <1>3

\* In an orderly chain a digest is that of one receipt.
LEMMA DigestsAreUnique ==
  ASSUME NEW rs, Orderly(rs), NEW i \in DOMAIN rs, NEW j \in DOMAIN rs,
         Unsigned(rs[i]) = Unsigned(rs[j])
  PROVE  i = j
<1>1. \A f \in Fields \ {"sig"} : rs[i][f] = rs[j][f]
  BY SameSigned DEF Orderly
<1>2. rs[i].seq = rs[j].seq
  BY <1>1 DEF Fields
<1>3. rs[i].seq = i - 1 /\ rs[j].seq = j - 1
  BY DEF Orderly, InOrder
<1>4. DOMAIN rs = 1..Len(rs) /\ Len(rs) \in Nat
  BY ListHas DEF Orderly
<1>5. i \in Int /\ j \in Int
  BY <1>4
<1>6. i - 1 = j - 1
  BY <1>2, <1>3
<1>7. \A x, y \in Int : x - 1 = y - 1 => x = y
  OBVIOUS
<1> QED BY <1>5, <1>6, <1>7

\* What resolves in a beginning resolves to the same record in the whole.
LEMMA BeginningResolves ==
  ASSUME NEW s, NEW rs, Beginning(s, rs), Orderly(rs), NEW type, NEW ref,
         Resolve(s, type, ref) # None
  PROVE  Resolve(rs, type, ref) = Resolve(s, type, ref)
<1> DEFINE Found(q) == {r \in OfType(q, type) : Encodable(r) /\ Digest(r) = ref}
<1>1. \A q : Resolve(q, type, ref) =
          IF ref = None \/ Found(q) = {} THEN None ELSE CHOOSE r \in Found(q) : TRUE
  BY DEF Resolve
<1>2. Found(s) \subseteq Found(rs)
  BY BeginningRecords
<1>3. \A x, y \in Found(rs) : x = y
  <2> TAKE x, y \in Found(rs)
  <2>1. PICK i \in DOMAIN rs : x = rs[i]
    BY DEF OfType, Indexes
  <2>2. PICK j \in DOMAIN rs : y = rs[j]
    BY DEF OfType, Indexes
  <2>3. Unsigned(x) = ref /\ Unsigned(y) = ref
    BY DEF Digest
  <2> QED BY <2>1, <2>2, <2>3, DigestsAreUnique
<1> HIDE DEF Found
<1>4. ref # None /\ Found(s) # {}
  BY <1>1
<1>5. PICK x : x \in Found(s)
  BY <1>4
<1>6. Found(s) = {x} /\ Found(rs) = {x}
  BY <1>2, <1>3, <1>5
<1> QED BY <1>1, <1>4, <1>6

\* No error appears in the agreements of a beginning.
LEMMA BeginningAgrees ==
  ASSUME NEW s, NEW rs, Beginning(s, rs), Orderly(rs), AgreementErrors(rs) = {}
  PROVE  AgreementErrors(s) = {}
<1> DEFINE Offered(q) == {x \in OfType(q, "agreement.accept") : OfferOf(q, x) # None}
           Accepted(q) == {x \in Bound(q, 4) : AcceptOf(q, x) # None}
           Late(r, a) == When(Earlier(r.at, a.at), "agreement_before_accept")
                         \cup When(Get(a, "offeree") \notin {None, r.issuer}, "agreement_issuer_mismatch")
<1>1. \A q : AgreementErrors(q) = (UNION {AcceptErrors(a, OfferOf(q, a)) : a \in Offered(q)})
                 \cup UNION {Late(r, AcceptOf(q, r)) : r \in Accepted(q)}
  BY Zenon DEF AgreementErrors
<1>2. \A x \in Offered(s) : x \in Offered(rs) /\ OfferOf(rs, x) = OfferOf(s, x)
  BY BeginningRecords, BeginningResolves DEF OfferOf
<1>3. \A x \in Accepted(s) : x \in Accepted(rs) /\ AcceptOf(rs, x) = AcceptOf(s, x)
  BY BeginningRecords, BeginningResolves DEF AcceptOf
<1> HIDE DEF Offered, Accepted, Late
<1>4. \A x \in Offered(rs) : AcceptErrors(x, OfferOf(rs, x)) = {}
  BY <1>1
<1>5. \A x \in Accepted(rs) : Late(x, AcceptOf(rs, x)) = {}
  BY <1>1
<1>6. (UNION {AcceptErrors(a, OfferOf(s, a)) : a \in Offered(s)}) = {}
  BY <1>2, <1>4
<1>7. (UNION {Late(r, AcceptOf(s, r)) : r \in Accepted(s)}) = {}
  BY <1>3, <1>5
<1> QED BY <1>1, <1>6, <1>7

\* No error appears in the authority of a beginning.
LEMMA BeginningAuthorizes ==
  ASSUME NEW s, NEW rs, Beginning(s, rs), Orderly(rs), AuthorityErrors(rs) = {}
  PROVE  AuthorityErrors(s) = {}
<1> DEFINE Granted(q) == {x \in Bound(q, 6) : GrantOf(q, x) # None}
           Over(r, g) == When(Earlier(r.at, Effective(g)), "authority_before_grant")
                         \cup When(Get(g, "agent") \notin {None, r.issuer}, "authority_agent_mismatch")
                         \cup When(Earlier(GetTime(g, "expires_at"), r.at), "authority_expired")
<1>1. \A q : AuthorityErrors(q) = UNION {Over(r, GrantOf(q, r)) : r \in Granted(q)}
  BY Zenon DEF AuthorityErrors
<1>2. \A x \in Granted(s) : x \in Granted(rs) /\ GrantOf(rs, x) = GrantOf(s, x)
  BY BeginningRecords, BeginningResolves DEF GrantOf
<1> HIDE DEF Granted, Over
<1>3. \A x \in Granted(rs) : Over(x, GrantOf(rs, x)) = {}
  BY <1>1
<1> QED BY <1>1, <1>2, <1>3

\* Nor in the other rules about several records, if the pass and the termination
\* are in the beginning.
LEMMA BeginningCrosses ==
  ASSUME NEW s, NEW rs, Beginning(s, rs), CrossRecordErrors(rs) = {},
         Indexes(s, "session.pass.created") # {}, Indexes(s, "task.termination") # {}
  PROVE  CrossRecordErrors(s) = {}
<1> DEFINE Passes(q) == Indexes(q, "session.pass.created")
           P(q) == q[Least(Passes(q))]
           Policy(q, p) == When(\E r \in OfType(q, "task.decision") :
              Get(r, "policy_version") # Get(p, "policy_version"), "policy_mismatch")
           Cap(q, p) == When(\E r \in OfType(q, "settlement") :
                   /\ CapOf(p) # None
                   /\ \/ Get(r, "amount").currency # CapOf(p).currency
                      \/ Get(r, "amount").minor > CapOf(p).minor, "cap_exceeded")
           Gate(q) == When(\E i \in Indexes(q, "settlement") :
                   /\ Get(q[i], "gated_on_delivery") = TRUE
                   /\ ~DeliveredBefore(q, i), "delivery_before_settlement")
           Term(q) == When(Indexes(q, "task.termination") = {}, "missing_termination")
<1>1. \A q : Passes(q) # {} => CrossRecordErrors(q) = Policy(q, P(q)) \cup Cap(q, P(q)) \cup Gate(q) \cup Term(q)
  BY Zenon DEF CrossRecordErrors
<1>2. Passes(s) = Passes(rs) \cap DOMAIN s /\ Passes(rs) \subseteq Nat
      /\ DOMAIN s = 1..Len(s) /\ Len(s) \in Nat /\ DOMAIN rs = 1..Len(rs) /\ Len(rs) \in Nat
  BY BeginningRecords, ListHas DEF Beginning, Indexes
<1>3. Least(Passes(s)) = Least(Passes(rs)) /\ Least(Passes(s)) \in DOMAIN s
  <2>1. PICK a, c : a = Least(Passes(s)) /\ c = Least(Passes(rs))
    OBVIOUS
  <2>2. Passes(s) # {} /\ Passes(s) \subseteq Nat /\ Passes(rs) # {} /\ Passes(rs) \subseteq Nat
    BY <1>2
  <2> HIDE DEF Passes
  <2>3. a \in Passes(s) /\ \A y \in Passes(s) : a <= y
    BY <2>1, <2>2, HasLeast
  <2>4. c \in Passes(rs) /\ \A y \in Passes(rs) : c <= y
    BY <2>1, <2>2, HasLeast
  <2>5. PICK n, m : n = Len(s) /\ m = Len(rs)
    OBVIOUS
  <2>6. n \in Nat /\ m \in Nat /\ DOMAIN s = 1..n /\ DOMAIN rs = 1..m
    BY <1>2, <2>5
  <2>7. Passes(s) = Passes(rs) \cap 1..n /\ Passes(rs) \subseteq 1..m
    BY <1>2, <2>6 DEF Passes, Indexes
  <2>8. a \in Nat /\ c \in Nat /\ a <= n /\ c >= 1
    BY <2>3, <2>4, <2>6, <2>7
  <2>9. c <= a
    BY <2>3, <2>4, <2>7
  <2>10. c \in Passes(s)
    BY <2>4, <2>8, <2>6, <2>7, <2>9
  <2>11. a <= c
    BY <2>3, <2>10
  <2>12. a = c
    BY <2>8, <2>9, <2>11
  <2>13. a \in DOMAIN s
    BY <2>3, <2>6, <2>7
  <2> QED BY <2>1, <2>12, <2>13
<1>4. P(s) = P(rs)
  BY <1>3 DEF Beginning
<1>5. Passes(rs) # {}
  BY <1>2
<1>6. Policy(rs, P(rs)) = {} /\ Cap(rs, P(rs)) = {} /\ Gate(rs) = {}
  BY <1>1, <1>5
<1>7. Policy(s, P(rs)) = {}
  BY <1>6, BeginningRecords DEF When
<1>8. Cap(s, P(rs)) = {}
  BY <1>6, BeginningRecords DEF When
<1>9. Gate(s) = {}
  <2>1. \A i \in Indexes(s, "settlement") : i \in Indexes(rs, "settlement") /\ s[i] = rs[i] /\ i \in DOMAIN s
    BY BeginningRecords DEF Beginning
  <2>2. \A i \in DOMAIN s : DeliveredBefore(rs, i) => DeliveredBefore(s, i)
    <3> TAKE i \in DOMAIN s
    <3> HAVE DeliveredBefore(rs, i)
    <3>1. PICK j \in Indexes(rs, "delivery.attestation") : j < i
      BY DEF DeliveredBefore
    <3>2. j \in DOMAIN rs
      BY DEF Indexes
    <3>3. DOMAIN s = 1..Len(s) /\ Len(s) \in Nat /\ DOMAIN rs = 1..Len(rs) /\ Len(rs) \in Nat
      BY <1>2
    <3>4. j \in DOMAIN s
      BY <3>1, <3>2, <3>3
    <3> QED BY <3>1, <3>4, BeginningRecords DEF DeliveredBefore
  <2> QED BY <1>6, <2>1, <2>2 DEF When
<1>10. Term(s) = {}
  BY DEF When
<1>11. Passes(s) # {}
  OBVIOUS
<1>12. CrossRecordErrors(s) = Policy(s, P(s)) \cup Cap(s, P(s)) \cup Gate(s) \cup Term(s)
  BY <1>1, <1>11
<1> HIDE DEF Passes, P, Policy, Cap, Gate, Term
<1> QED BY <1>4, <1>7, <1>8, <1>9, <1>10, <1>12

\* A nonempty set of numbers with a bound has a greatest element.
LEMMA HasGreatest ==
  ASSUME NEW n \in Int, NEW S, S \subseteq Int, S # {}, \A y \in S : y <= n
  PROVE  Greatest(S) \in S /\ \A y \in S : Greatest(S) >= y
<1> DEFINE Back == {n - x : x \in S}
<1>1. Back \subseteq Nat /\ Back # {}
  <2>1. \A x \in S : n - x \in Nat
    OBVIOUS
  <2> QED BY <2>1, Zenon
<1>2. PICK m : m = Least(Back)
  OBVIOUS
<1>3. \A y \in S : n - y \in Back
  OBVIOUS
<1>4. m \in Back => \E x \in S : m = n - x
  OBVIOUS
<1> HIDE DEF Back
<1>5. m \in Back /\ \A y \in Back : m <= y
  BY <1>1, <1>2, HasLeast
<1>6. PICK x \in S : m = n - x
  BY <1>4, <1>5
<1>7. \A y \in S : n - x <= n - y
  BY <1>3, <1>5, <1>6
<1>8. \A y \in S : x >= y
  BY <1>7
<1> QED BY <1>6, <1>8 DEF Greatest

\* Nor in what one receipt, or one redaction, or a revocation can be wrong about.
LEMMA BeginningSingles ==
  ASSUME NEW p, NEW b, Beginning(p.receipts, b.receipts),
         \A f \in Members \ {"receipts"} : p[f] = b[f], ErrorsOf(b) = {}
  PROVE  /\ ShapeErrors(p) = {} /\ \A i \in DOMAIN p.receipts : EnvelopeErrors(p, i) = {}
         /\ RedactionErrors(p) = {} /\ AttestationErrors(p.receipts) = {}
         /\ ProvenanceErrors(p.receipts) = {} /\ RevocationErrors(p, {}) = {}
<1> DEFINE s == p.receipts
           rs == b.receipts
<1>1. p.task = b.task /\ p.malformed = b.malformed /\ p.revocations = b.revocations
      /\ p.disclosure = b.disclosure
  BY DEF Members
<1>2. /\ ShapeErrors(b) = {} /\ RedactionErrors(b) = {} /\ AttestationErrors(rs) = {}
      /\ ProvenanceErrors(rs) = {} /\ RevocationErrors(b, {}) = {}
      /\ \A i \in DOMAIN rs : EnvelopeErrors(b, i) = {}
  BY NoErrors
<1>3. /\ DOMAIN s \subseteq DOMAIN rs /\ \A i \in DOMAIN s : s[i] = rs[i]
      /\ Len(s) \in Nat /\ DOMAIN s = 1..Len(s)
  BY ListHas DEF Beginning
<1>4. ShapeErrors(p) = {}
  BY <1>1, <1>2 DEF ShapeErrors
<1>5. ASSUME NEW i \in DOMAIN s PROVE EnvelopeErrors(p, i) = {}
  <2>1. \A j \in 1..(i - 1) : s[j] = rs[j]
    BY <1>3
  <2>2. {j \in 1..(i - 1) : KnownType(s[j].type, s[j].spec)} = {j \in 1..(i - 1) : KnownType(rs[j].type, rs[j].spec)}
    BY <2>1
  <2>3. PICK before : before = {j \in 1..(i - 1) : KnownType(s[j].type, s[j].spec)}
    OBVIOUS
  <2>4. before # {} => s[Greatest(before)] = rs[Greatest(before)]
    <3>1. i \in Nat /\ before \subseteq 1..(i - 1)
      BY <1>3, <2>3
    <3>2. i - 1 \in Int /\ before \subseteq Int /\ \A y \in before : y <= i - 1
      BY <3>1
    <3>3. before # {} => Greatest(before) \in before
      BY <3>2, HasGreatest
    <3> QED BY <2>1, <3>1, <3>3
  <2>5. ExpectedPrev(s, i) = ExpectedPrev(rs, i)
    BY <2>2, <2>3, <2>4 DEF ExpectedPrev
  <2>6. EnvelopeErrors(p, i) = EnvelopeErrors(b, i)
    BY <1>1, <1>3, <2>5 DEF EnvelopeErrors, LinkErrors
  <2> QED BY <1>2, <1>3, <2>6
<1>6. RedactionErrors(p) = {}
  <2>1. \A q \in Places(s) : q \in Places(rs) /\ s[q[1]] = rs[q[1]]
    BY <1>3 DEF Places
  <2>2. Disclosed(p) = Disclosed(b)
    BY <1>1 DEF Disclosed
  <2> HIDE DEF s, rs
  <2>3. \A q \in Places(s) : (RedactedRequired(s, q) <=> RedactedRequired(rs, q)) /\ Redaction(s, q) = Redaction(rs, q)
    BY <2>1 DEF RedactedRequired, Redaction
  <2> QED BY <1>1, <1>2, <2>1, <2>2, <2>3 DEF RedactionErrors, When, s, rs
<1>7. AttestationErrors(s) = {} /\ ProvenanceErrors(s) = {}
  BY <1>2, BeginningRecords DEF AttestationErrors, ProvenanceErrors, When
<1>8. RevocationErrors(p, {}) = {}
  <2>1. MergeStatements(p, {}) = MergeStatements(b, {})
    BY <1>1 DEF MergeStatements
  <2> QED BY <1>1, <1>2, <1>3, <2>1 DEF RevocationErrors, When
<1> QED BY <1>4, <1>5, <1>6, <1>7, <1>8

\* Where an anchor holds for a beginning and for the whole, it holds for what is
\* between them.
LEMMA BeginningAnchored ==
  ASSUME NEW s, NEW q, NEW rs, Orderly(rs), Beginning(s, q), Beginning(q, rs), Beginning(s, rs),
         NEW a, AnchorHolds(s, a), AnchorHolds(rs, a)
  PROVE  AnchorHolds(q, a)
<1> DEFINE Targets(x) == {i \in DOMAIN x : x[i].id = a.target}
<1>1. \A x : AnchorHolds(x, a) <=> /\ Targets(x) # {} /\ Encodable(x[Greatest(Targets(x))])
                                  /\ a.hash = Digest(x[Greatest(Targets(x))])
  BY DEF AnchorHolds
<1>2. /\ Len(s) \in Nat /\ DOMAIN s = 1..Len(s)
      /\ Len(q) \in Nat /\ DOMAIN q = 1..Len(q)
      /\ Len(rs) \in Nat /\ DOMAIN rs = 1..Len(rs)
  BY ListHas DEF Beginning
<1>3. Targets(s) \subseteq Targets(q) /\ Targets(q) \subseteq Targets(rs)
  BY DEF Beginning
<1>4. Targets(s) \subseteq DOMAIN s /\ Targets(q) \subseteq DOMAIN q /\ Targets(rs) \subseteq DOMAIN rs
  OBVIOUS
<1>5. \A i \in Targets(rs) \cap DOMAIN q : i \in Targets(q)
  BY DEF Beginning
<1> HIDE DEF Targets
<1>6. /\ Targets(s) # {} /\ Encodable(s[Greatest(Targets(s))]) /\ a.hash = Digest(s[Greatest(Targets(s))])
      /\ Encodable(rs[Greatest(Targets(rs))]) /\ a.hash = Digest(rs[Greatest(Targets(rs))])
  BY <1>1
<1>7. PICK g, h, e : g = Greatest(Targets(s)) /\ h = Greatest(Targets(rs)) /\ e = Greatest(Targets(q))
  OBVIOUS
<1>8. g \in Targets(s)
  <2>1. Targets(s) \subseteq Int /\ Targets(s) # {} /\ \A y \in Targets(s) : y <= Len(s)
    BY <1>2, <1>4, <1>6
  <2> QED BY <1>2, <1>7, <2>1, HasGreatest
<1>9. h \in Targets(rs) /\ \A y \in Targets(rs) : h >= y
  <2>1. Targets(rs) \subseteq Int /\ Targets(rs) # {} /\ \A y \in Targets(rs) : y <= Len(rs)
    BY <1>2, <1>3, <1>4, <1>6
  <2> QED BY <1>2, <1>7, <2>1, HasGreatest
<1>10. e \in Targets(q) /\ \A y \in Targets(q) : e >= y
  <2>1. Targets(q) \subseteq Int /\ Targets(q) # {} /\ \A y \in Targets(q) : y <= Len(q)
    BY <1>2, <1>3, <1>4, <1>6
  <2> QED BY <1>2, <1>7, <2>1, HasGreatest
<1>11. g = h
  <2>1. s[g] = rs[g] /\ g \in DOMAIN rs /\ h \in DOMAIN rs
    BY <1>4, <1>8, <1>9 DEF Beginning
  <2>2. Unsigned(rs[g]) = Unsigned(rs[h])
    BY <1>6, <1>7, <2>1 DEF Digest
  <2> QED BY <2>1, <2>2, DigestsAreUnique
<1>12. e = g
  <2>1. e \in Int /\ g \in Int
    BY <1>2, <1>4, <1>8, <1>10
  <2>2. e >= g /\ g >= e
    BY <1>3, <1>8, <1>9, <1>10, <1>11
  <2> QED BY <2>1, <2>2
<1>13. q[g] = s[g]
  BY <1>4, <1>8 DEF Beginning
<1>14. Targets(q) # {}
  BY <1>10
<1> QED BY <1>1, <1>6, <1>7, <1>12, <1>13, <1>14

\* What passes whole and with only a beginning of its receipts also passes with any
\* longer beginning.
LEMMA BetweenPasses ==
  ASSUME NEW b, NEW p, NEW m, Orderly(b.receipts),
         Beginning(p.receipts, m.receipts), Beginning(m.receipts, b.receipts),
         Beginning(p.receipts, b.receipts),
         \A f \in Members \ {"receipts"} : p[f] = b[f] /\ m[f] = b[f],
         p.receipts # <<>>, Len(p.receipts) # Len(b.receipts),
         ~Refused(b), ~Refused(p)
  PROVE  ~Refused(m)
<1> DEFINE s == p.receipts
           q == m.receipts
           rs == b.receipts
<1>1. ErrorsOf(b) = {} /\ ~Early(b) /\ ErrorsOf(p) = {} /\ ~Early(p)
  BY VerdictOf DEF Refused
<1>2. /\ Len(s) \in Nat /\ DOMAIN s = 1..Len(s)
      /\ Len(q) \in Nat /\ DOMAIN q = 1..Len(q)
      /\ Len(rs) \in Nat /\ DOMAIN rs = 1..Len(rs)
  BY ListHas DEF Beginning
<1>3. /\ p.malformed = b.malformed /\ m.malformed = b.malformed
      /\ p.anchors = b.anchors /\ m.anchors = b.anchors
      /\ p.head = b.head /\ m.head = b.head /\ m.spec = b.spec
  BY DEF Members
<1>4. CrossRecordErrors(q) = {}
  <2>1. CrossRecordErrors(s) = {} /\ CrossRecordErrors(rs) = {}
    BY <1>1, NoErrors
  <2>2. Indexes(s, "session.pass.created") # {} /\ Indexes(s, "task.termination") # {}
    <3>1. Indexes(s, "session.pass.created") # {}
      BY <2>1 DEF CrossRecordErrors
    <3>2. When(Indexes(s, "task.termination") = {}, "missing_termination") \subseteq CrossRecordErrors(s)
      BY <3>1 DEF CrossRecordErrors
    <3> QED BY <2>1, <3>1, <3>2 DEF When
  <2>3. Indexes(q, "session.pass.created") # {} /\ Indexes(q, "task.termination") # {}
    BY <2>2, BeginningRecords
  <2> QED BY <2>1, <2>3, BeginningCrosses
<1>5. AgreementErrors(q) = {} /\ AuthorityErrors(q) = {}
  BY <1>1, NoErrors, BeginningAgrees, BeginningAuthorizes
<1>6. AnchorErrors(m) = {}
  <2>1. AnchorErrors(p) = {} /\ AnchorErrors(b) = {}
    BY <1>1, NoErrors
  <2>2. "anchors" \notin b.malformed => \A a \in b.anchors :
           AnchorHolds(s, a) /\ AnchorHolds(rs, a) /\ a.kind \in AnchorTypes \cup {None}
    BY <1>3, <2>1 DEF AnchorErrors, When
  <2>3. "anchors" \notin b.malformed => \A a \in b.anchors : AnchorHolds(q, a)
    BY <2>2, BeginningAnchored
  <2> QED BY <1>3, <2>2, <2>3 DEF AnchorErrors, When
<1>7. b.head = None
  <2> SUFFICES ASSUME b.head # None PROVE FALSE
    OBVIOUS
  <2>1. HeadErrors(p) = {} /\ HeadErrors(b) = {} /\ ShapeErrors(b) = {}
    BY <1>1, NoErrors
  <2>2. "chain_head" \notin b.malformed
    BY <2>1 DEF ShapeErrors, When
  <2>3. Len(s) \in DOMAIN s /\ Len(rs) \in DOMAIN rs
    <3>1. Len(s) # 0
      <4> SUFFICES ASSUME Len(s) = 0 PROVE FALSE
        OBVIOUS
      <4>1. s \in Seq({s[i] : i \in DOMAIN s})
        BY DEF Beginning, List
      <4> QED BY <4>1
    <3> QED BY <1>2, <3>1 DEF Beginning
  <2>4. s[Len(s)] = rs[Len(s)] /\ Len(s) \in DOMAIN rs
    BY <2>3 DEF Beginning
  <2>5. Encodable(s[Len(s)]) /\ Encodable(rs[Len(rs)])
    BY <2>3, <2>4 DEF Orderly, InOrder
  <2>6. b.head.of = HeadOf(s) /\ b.head.of = HeadOf(rs)
    BY <1>3, <2>1, <2>2, <2>5 DEF HeadErrors
  <2>7. rs[Len(s)].seq = rs[Len(rs)].seq
    BY <2>4, <2>6 DEF HeadOf
  <2>8. rs[Len(s)].seq = Len(s) - 1 /\ rs[Len(rs)].seq = Len(rs) - 1
    BY <2>3, <2>4 DEF Orderly, InOrder
  <2>9. Len(s) - 1 = Len(rs) - 1
    BY <2>7, <2>8
  <2> QED BY <1>2, <2>9
<1>8. HeadErrors(m) = {}
  BY <1>3, <1>7 DEF HeadErrors
<1>9. ErrorsOf(m) = {}
  BY <1>1, <1>4, <1>5, <1>6, <1>8, BeginningSingles, NoErrors
<1>10. ~Early(m)
  <2>1. q # <<>>
    <3>1. s \in Seq({s[i] : i \in DOMAIN s})
      BY DEF Beginning, List
    <3>2. 1 \in DOMAIN s
      BY <3>1
    <3>3. 1 \in DOMAIN q
      BY <3>2 DEF Beginning
    <3> QED BY <3>3, NothingRedacted
  <2> QED BY <1>1, <1>3, <2>1 DEF Early
<1> QED BY <1>9, <1>10, VerdictOf DEF Refused
\* If the chain without its last receipt is refused, so is every shorter one.
LEMMA TruncationsRefused ==
  ASSUME NEW b, DOMAIN b = Members, Orderly(b.receipts), ~Refused(b), Refused(TruncateTail(b)),
         NEW c \in Truncations(b.receipts)
  PROVE  Refused(WithReceipts(b, c))
<1> DEFINE rs == b.receipts
<1>1. PICK k \in 1..(Len(rs) - 1) : c = SubSeq(rs, 1, k)
  BY DEF Truncations
<1>2. Len(rs) \in Nat /\ DOMAIN rs = 1..Len(rs) /\ rs \in Seq({rs[i] : i \in DOMAIN rs})
  BY ListHas DEF Orderly, List
<1> HIDE DEF rs
<1>3. PICK n : n = Len(rs) - 1
  OBVIOUS
<1>4. n \in Nat /\ k \in Nat /\ k <= n /\ k >= 1 /\ Len(rs) = n + 1 /\ DOMAIN rs = 1..(n + 1)
  BY <1>1, <1>2, <1>3
<1>5. PICK q : q = DropReceipt(rs, Len(rs))
  OBVIOUS
<1>6. List(q) /\ DOMAIN q = 1..n /\ \A i \in 1..n : q[i] = rs[i]
  <2>1. q = [j \in 1..n |-> rs[IF j < n + 1 THEN j ELSE j + 1]]
    BY <1>3, <1>4, <1>5 DEF DropReceipt
  <2>2. q = [j \in 1..n |-> q[j]]
    BY <2>1
  <2> QED BY <1>4, <2>1, <2>2, ListIs
<1>7. List(c) /\ DOMAIN c = 1..k /\ Len(c) = k /\ \A i \in 1..k : c[i] = rs[i]
  <2>1. c = [j \in 1..k |-> rs[j]]
    BY <1>1, <1>2, <1>4
  <2>2. c = [j \in 1..k |-> c[j]]
    BY <2>1
  <2> QED BY <1>4, <2>1, <2>2, ListIs
<1>8. TruncateTail(b) = WithReceipts(b, q)
  BY <1>4, <1>5 DEF TruncateTail, rs
<1>9. Beginning(c, q) /\ Beginning(q, rs) /\ Beginning(c, rs)
  BY <1>4, <1>6, <1>7 DEF Beginning, Orderly, rs
<1>10. \A x : /\ WithReceipts(b, x).receipts = x
              /\ \A f \in Members \ {"receipts"} : WithReceipts(b, x)[f] = b[f]
  BY DEF WithReceipts, Members
<1>11. c # <<>>
  BY <1>4, <1>7, NothingRedacted
<1>12. Len(c) # Len(rs)
  BY <1>4, <1>7
<1>13. PICK p, m : p = WithReceipts(b, c) /\ m = WithReceipts(b, q)
  OBVIOUS
<1>14. /\ p.receipts = c /\ m.receipts = q
       /\ \A f \in Members \ {"receipts"} : p[f] = b[f] /\ m[f] = b[f]
  BY <1>10, <1>13
<1>15. ~Refused(p) => ~Refused(m)
  BY <1>9, <1>11, <1>12, <1>14, BetweenPasses DEF rs
<1> QED BY <1>8, <1>13, <1>15

-----------------------------------------------------------------------------
(* What a passing report says *)

\* A bundle that is not UNTRUSTED is orderly, so that all of this holds of it.
LEMMA SampleIs ==
  ASSUME IInv, ~Refused(bundle)
  PROVE  SampleSpeaksForAll
<1>1. Orderly(bundle.receipts)
  <2>1. bundle.receipts = bundle.receipts /\ VerifyBundle(bundle, {}, FALSE).verdict # "UNTRUSTED"
    BY DEF Refused
  <2> QED BY <2>1, ReceiptsStand DEF Orderly, IInv, BundleInv, VouchedFor
<1>2. DOMAIN bundle = Members /\ "receipts" \in DOMAIN bundle
  BY DEF IInv, BundleInv, Members
<1>3. "T02" \in Report(bundle, FALSE).safe => Refused(TruncateTail(bundle))
  <2>1. Report(bundle, FALSE).safe = {t \in Threats \ {"T09", "T10"} : Refused(Attack(bundle, t))}
                \cup When(OffstoreAnchor(bundle, FALSE), "T09")
                \cup When(OffstoreAnchor(bundle, FALSE) /\ ErasureCommitment(bundle), "T10")
    BY DEF Report
  <2>2. "T02" \in Report(bundle, FALSE).safe => Refused(Attack(bundle, "T02"))
    BY <2>1 DEF When
  <2>3. Attack(bundle, "T02") = TruncateTail(bundle)
    BY DEF Attack
  <2> QED BY <2>2, <2>3
<1>4. \A c \in ContentChanges(bundle.receipts) : Refused(WithReceipts(bundle, c))
  BY <1>1, <1>2, ContentsRefused
<1>5. \A c \in MiddleDeletions(bundle.receipts) : Refused(WithReceipts(bundle, c))
  BY <1>1, <1>2, DeletionsRefused
<1>6. \A c \in Reorderings(bundle.receipts) : Refused(WithReceipts(bundle, c))
  BY <1>1, <1>2, ReorderingsRefused
<1>7. \A c \in SequenceChanges(bundle.receipts) : Refused(WithReceipts(bundle, c))
  BY <1>1, <1>2, SequencesRefused
<1>8. "T02" \in Report(bundle, FALSE).safe =>
        \A c \in Truncations(bundle.receipts) : Refused(WithReceipts(bundle, c))
  BY <1>1, <1>2, <1>3, TruncationsRefused
<1> QED BY <1>4, <1>5, <1>6, <1>7, <1>8 DEF SampleSpeaksForAll

\* The attack the threat report tries speaks for all of its class, whatever the bundle:
\* a changed field, a deletion, a reordering and another position break a signature, a
\* link or a position, and if a shorter chain passed then so would the one without its
\* last receipt (pacmi.py, evaluate_pacmi).
THEOREM SamplesSpeakForAll == Spec => []SampleSpeaksForAll
<1>1. IInv => SampleSpeaksForAll
  <2> SUFFICES ASSUME IInv, Sound(Outcome) \/ CheckMain("ok", bundle, "empty") = 0
               PROVE  SampleSpeaksForAll
    BY DEF SampleSpeaksForAll
  <2>1. ~Refused(bundle)
    <3>1. CASE Sound(Outcome)
      BY <3>1 DEF Sound, Outcome, Refused
    <3>2. CASE CheckMain("ok", bundle, "empty") = 0
      <4>1. PICK report : report = Report(bundle, "empty" = "ok")
        OBVIOUS
      <4>2. CheckMain("ok", bundle, "empty") =
              IF "ok" # "ok" \/ "empty" \in {"missing", "bad"} THEN 2
              ELSE IF report.verdict = "CONFORMANT" THEN 0 ELSE 1
        BY <4>1, Zenon DEF CheckMain
      <4>3. report.verdict = "CONFORMANT"
        BY <3>2, <4>2
      <4>4. \A given : Refused(bundle) => Report(bundle, given).verdict = "NONCONFORMANT"
        BY DEF Report
      <4> QED BY <4>1, <4>3, <4>4
    <3> QED BY <3>1, <3>2
  <2> QED BY <2>1, SampleIs
<1> QED BY <1>1, DisclosureInductive, PTL

-----------------------------------------------------------------------------
(* What redact leaves *)

\* What redact never changes, besides body, redactions, link and signature.
Kept == {"id", "task", "spec", "type", "issuer", "at", "seq"}

\* v is r with some fields redacted that may be.
Covers(v, r) ==
    /\ \A f \in Kept : v[f] = r[f]
    /\ DOMAIN r.body = DOMAIN v.body \cup DOMAIN v.hidden
    /\ DOMAIN v.body \cap DOMAIN v.hidden = {}
    /\ \A f \in DOMAIN v.body : v.body[f] = r.body[f]
    /\ DOMAIN v.hidden \cap ({"shape"} \cup Unredactable(r.type)) = {}
    /\ \A f \in DOMAIN v.hidden : v.hidden[f].erased = FALSE

\* Until the holder moves, the bundle is the one of the origin but for what has been
\* redacted, and before the first redacted place nothing is changed.
CoverInv ==
    moves = 0 =>
      LET bs == bundle.receipts
          os == origin.receipts
      IN /\ \A f \in Members \ {"receipts", "disclosure"} : bundle[f] = origin[f]
         /\ DOMAIN bs = DOMAIN os
         /\ \A i \in DOMAIN bs :
              /\ Covers(bs[i], os[i])
              /\ bs[i] = os[i] \/ \E j \in 1..i : DOMAIN bs[j].hidden # {}

\* Until then, the map opens each redacted place, and nothing else.
OpeningInv ==
    moves = 0 =>
      /\ DOMAIN opening = Places(bundle.receipts)
      /\ \A p \in DOMAIN opening : Redaction(bundle.receipts, p).commit = opening[p]
      /\ redactions # 0 => DOMAIN opening # {}

ToolInv == origin \in Stories /\ redactions \in Nat /\ CoverInv /\ OpeningInv

\* The body and the redactions of a receipt whose fields at S have been redacted.
LEMMA HiddenHas ==
  ASSUME NEW rs, NEW i \in DOMAIN rs, Whole(rs[i]), NEW S, S \subseteq Redactable(rs)
  PROVE  LET r == rs[i]
             h == Hidden(rs[i], i, S, rs)
         IN /\ \A f : f \in DOMAIN h.body <=> f \in DOMAIN r.body /\ <<i, f>> \notin S
            /\ \A f \in DOMAIN h.body : h.body[f] = r.body[f]
            /\ \A f : f \in DOMAIN h.hidden <=> f \in DOMAIN r.hidden \/ <<i, f>> \in S
            /\ \A f \in DOMAIN h.hidden :
                 h.hidden[f] = IF <<i, f>> \in S THEN [commit |-> Opening(rs, <<i, f>>), erased |-> FALSE]
                               ELSE r.hidden[f]
<1> DEFINE r == rs[i]
           fields == {f \in DOMAIN r.body \cup DOMAIN r.hidden : <<i, f>> \in S}
           body == [f \in DOMAIN r.body \ fields |-> r.body[f]]
           New(f) == [commit |-> Opening(rs, <<i, f>>), erased |-> FALSE]
           hidden == [f \in DOMAIN r.hidden \cup fields |-> IF f \in fields THEN New(f) ELSE r.hidden[f]]
           h == [r EXCEPT !.body = body, !.hidden = hidden]
<1>1. h = Hidden(rs[i], i, S, rs)
  BY DEF Hidden
<1>2. h.body = body /\ h.hidden = hidden
  BY DEF Whole, Fields
<1>3. \A f : <<i, f>> \in S => f \in fields
  BY DEF Redactable
<1>4. \A f \in fields : <<i, f>> \in S
  OBVIOUS
<1>5. \A f : New(f) = [commit |-> Opening(rs, <<i, f>>), erased |-> FALSE]
  OBVIOUS
<1> HIDE DEF fields, New, h
<1>6. /\ \A f : f \in DOMAIN h.body <=> f \in DOMAIN r.body /\ <<i, f>> \notin S
      /\ \A f \in DOMAIN h.body : h.body[f] = r.body[f]
  BY <1>2, <1>3, <1>4
<1>7. /\ \A f : f \in DOMAIN h.hidden <=> f \in DOMAIN r.hidden \/ <<i, f>> \in S
      /\ \A f \in DOMAIN h.hidden : h.hidden[f] = IF <<i, f>> \in S THEN New(f) ELSE r.hidden[f]
  BY <1>2, <1>3, <1>4
<1> QED BY <1>1, <1>5, <1>6, <1>7

\* A redacted receipt still covers what it covered.
LEMMA HiddenCovers ==
  ASSUME NEW rs, NEW i \in DOMAIN rs, Whole(rs[i]), NEW S, S \subseteq Redactable(rs),
         NEW r, Covers(rs[i], r),
         NEW v, \A f \in Fields \ {"prev", "sig"} : v[f] = Hidden(rs[i], i, S, rs)[f]
  PROVE  Covers(v, r)
<1>1. PICK h : h = Hidden(rs[i], i, S, rs)
  OBVIOUS
<1>2. PICK u : u = rs[i]
  OBVIOUS
<1>3. /\ \A f : f \in DOMAIN h.body <=> f \in DOMAIN u.body /\ <<i, f>> \notin S
      /\ \A f \in DOMAIN h.body : h.body[f] = u.body[f]
      /\ \A f : f \in DOMAIN h.hidden <=> f \in DOMAIN u.hidden \/ <<i, f>> \in S
      /\ \A f \in DOMAIN h.hidden :
           h.hidden[f] = IF <<i, f>> \in S THEN [commit |-> Opening(rs, <<i, f>>), erased |-> FALSE]
                         ELSE u.hidden[f]
  BY <1>1, <1>2, HiddenHas
<1>4. v.body = h.body /\ v.hidden = h.hidden /\ \A f \in Kept : v[f] = h[f]
  BY <1>1 DEF Fields, Kept
<1>5. \A f \in Kept : h[f] = u[f]
  BY <1>1, <1>2, HiddenIs DEF Fields, Kept
<1>6. \A f : <<i, f>> \in S => f \in DOMAIN u.body \cup DOMAIN u.hidden /\ f # "shape"
                               /\ f \notin Unredactable(u.type)
  BY <1>2 DEF Redactable
<1>7. Covers(u, r) /\ u.type = r.type
  BY <1>2 DEF Covers, Kept
<1>8. \A f \in Kept : v[f] = r[f]
  BY <1>4, <1>5, <1>7 DEF Covers
<1>9. DOMAIN r.body = DOMAIN h.body \cup DOMAIN h.hidden
  BY <1>3, <1>6, <1>7 DEF Covers
<1>10. DOMAIN h.body \cap DOMAIN h.hidden = {}
  BY <1>3, <1>7 DEF Covers
<1>11. \A f \in DOMAIN h.body : h.body[f] = r.body[f]
  BY <1>3, <1>7 DEF Covers
<1>12. DOMAIN h.hidden \cap ({"shape"} \cup Unredactable(r.type)) = {}
  BY <1>3, <1>6, <1>7 DEF Covers
<1>13. \A f \in DOMAIN h.hidden : h.hidden[f].erased = FALSE
  <2> TAKE f \in DOMAIN h.hidden
  <2>1. CASE <<i, f>> \in S
    <3>1. h.hidden[f] = [commit |-> Opening(rs, <<i, f>>), erased |-> FALSE]
      BY <1>3, <2>1
    <3> QED BY <3>1
  <2>2. CASE <<i, f>> \notin S
    <3>1. f \in DOMAIN u.hidden /\ h.hidden[f] = u.hidden[f]
      BY <1>3, <2>2
    <3> QED BY <1>7, <3>1 DEF Covers
  <2> QED BY <2>1, <2>2
<1> QED BY <1>4, <1>8, <1>9, <1>10, <1>11, <1>12, <1>13 DEF Covers

\* What is first signed covers itself, and there is nothing to open.
LEMMA InitTool == DisclosureAssumption /\ Init => ToolInv
<1> SUFFICES ASSUME DisclosureAssumption, Init PROVE ToolInv
  OBVIOUS
<1> DEFINE rs == origin.receipts
<1>1. /\ origin \in Stories /\ Issued(rs) /\ bundle = origin
      /\ opening = <<>> /\ redactions = 0
  BY DEF DisclosureAssumption, Init
<1>2. \A i \in DOMAIN rs : rs[i].hidden = <<>>
  BY <1>1, StoryIsVersion
<1>3. \A i \in DOMAIN rs : DOMAIN rs[i].hidden = {}
  BY <1>2, NothingRedacted
<1> HIDE DEF rs
<1>4. \A i \in DOMAIN rs : Covers(rs[i], rs[i])
  BY <1>3 DEF Covers
<1>5. Places(rs) = {}
  <2> SUFFICES ASSUME NEW p \in Places(rs) PROVE FALSE
    OBVIOUS
  <2>1. PICK i \in DOMAIN rs : p \in {<<i, f>> : f \in DOMAIN rs[i].hidden}
    BY DEF Places
  <2> QED BY <1>3, <2>1
<1>6. CoverInv
  BY <1>1, <1>4 DEF CoverInv, rs
<1>7. OpeningInv
  <2>1. DOMAIN opening = {} /\ Places(bundle.receipts) = {} /\ redactions = 0
    <3>1. Places(bundle.receipts) = {}
      BY <1>1, <1>5 DEF rs
    <3>2. DOMAIN opening = {}
      BY <1>1, NothingRedacted
    <3>3. redactions = 0
      BY <1>1
    <3> QED BY <3>1, <3>2, <3>3
  <2> QED BY <2>1 DEF OpeningInv
<1> QED BY <1>1, <1>6, <1>7 DEF ToolInv

\* redact leaves such a bundle.
LEMMA RedactLeaves ==
  ASSUME IInv, ToolInv, NEW key \in Issuers, Redact(key)
  PROVE  ToolInv'
<1>1. PICK rs : rs = bundle.receipts
  OBVIOUS
<1>2. PICK S \in SUBSET Redactable(rs) :
        /\ S # {}
        /\ \A i \in Foremost(S)..Len(rs) : rs[i].issuer = key
        /\ bundle' = [bundle EXCEPT !.receipts = Redacted(rs, S, key)]
        /\ opening' = Updated(opening, [p \in S |-> Opening(rs, p)])
  BY <1>1 DEF Redact, Redacted, Foremost
<1>3. /\ moves = 0 /\ moves' = 0 /\ origin' = origin /\ redactions' = redactions + 1
  BY DEF Redact
<1>4. Version(rs)
  BY <1>1, <1>3 DEF IInv, UntouchedInv, VersionsInv
<1>5. PICK t : t = Redacted(rs, S, key)
  OBVIOUS
<1>6. /\ DOMAIN t = DOMAIN rs
      /\ \A i \in DOMAIN t : \A f \in Fields \ {"prev", "sig"} : t[i][f] = Hidden(rs[i], i, S, rs)[f]
      /\ \A i \in DOMAIN t : i < Foremost(S) => t[i] = rs[i]
      /\ \A p \in S : Foremost(S) <= p[1]
      /\ \E p \in S : Foremost(S) = p[1]
  BY <1>2, <1>4, <1>5, RedactedIsVersion
<1>7. DOMAIN bundle = Members /\ DOMAIN bundle' = Members /\ bundle'.receipts = t
      /\ \A f \in Members \ {"receipts"} : bundle'[f] = bundle[f]
  BY <1>2, <1>5 DEF IInv, BundleInv, Members
<1>8. \A i \in DOMAIN rs : Whole(rs[i])
  BY <1>4 DEF Version, SealedAt
<1>9. DOMAIN rs = 1..Len(rs) /\ Len(rs) \in Nat
  BY <1>4, ListHas DEF Version
<1>10. \A i \in DOMAIN t :
         /\ \A f : f \in DOMAIN t[i].hidden <=> f \in DOMAIN rs[i].hidden \/ <<i, f>> \in S
         /\ \A f \in DOMAIN t[i].hidden :
              t[i].hidden[f] = IF <<i, f>> \in S THEN [commit |-> Opening(rs, <<i, f>>), erased |-> FALSE]
                               ELSE rs[i].hidden[f]
  <2> TAKE i \in DOMAIN t
  <2>1. t[i].hidden = Hidden(rs[i], i, S, rs).hidden
    BY <1>6 DEF Fields
  <2>2. i \in DOMAIN rs /\ Whole(rs[i]) /\ S \subseteq Redactable(rs)
    BY <1>2, <1>6, <1>8
  <2> QED BY <2>1, <2>2, HiddenHas
<1>11. \A p \in S : p[1] \in DOMAIN rs /\ p = <<p[1], p[2]>>
  BY <1>2 DEF Redactable
<1>12. CoverInv'
  <2> DEFINE os == origin.receipts
  <2>1. /\ \A f \in Members \ {"receipts", "disclosure"} : bundle[f] = origin[f]
        /\ DOMAIN rs = DOMAIN os
        /\ \A i \in DOMAIN rs :
              /\ Covers(rs[i], os[i])
              /\ rs[i] = os[i] \/ \E j \in 1..i : DOMAIN rs[j].hidden # {}
    BY <1>1, <1>3 DEF ToolInv, CoverInv
  <2>2. \A i \in DOMAIN t : Covers(t[i], os[i])
    <3> TAKE i \in DOMAIN t
    <3>1. i \in DOMAIN rs /\ Whole(rs[i]) /\ S \subseteq Redactable(rs)
      BY <1>2, <1>6, <1>8
    <3>2. Covers(rs[i], os[i])
      BY <2>1, <3>1
    <3>3. PICK v : v = t[i]
      OBVIOUS
    <3>4. \A f \in Fields \ {"prev", "sig"} : v[f] = Hidden(rs[i], i, S, rs)[f]
      BY <1>6, <3>3
    <3> HIDE DEF os
    <3>5. Covers(v, os[i])
      BY <3>1, <3>2, <3>4, HiddenCovers
    <3> QED BY <3>3, <3>5
  <2>3. ASSUME NEW i \in DOMAIN t
        PROVE  t[i] = os[i] \/ \E j \in 1..i : DOMAIN t[j].hidden # {}
    <3>1. CASE i < Foremost(S)
      <4>1. t[i] = rs[i] /\ i \in DOMAIN rs
        BY <1>6, <3>1
      <4>2. CASE \E j \in 1..i : DOMAIN rs[j].hidden # {}
        <5>1. PICK j \in 1..i : DOMAIN rs[j].hidden # {}
          BY <4>2
        <5>2. j \in DOMAIN t
          BY <1>6, <1>9, <4>1
        <5> QED BY <1>10, <5>1, <5>2
      <4> QED BY <2>1, <4>1, <4>2
    <3>2. CASE ~(i < Foremost(S))
      <4>1. PICK p \in S : Foremost(S) = p[1]
        BY <1>6
      <4>2. p[1] \in DOMAIN t /\ <<p[1], p[2]>> \in S
        BY <1>6, <1>11
      <4>3. p[2] \in DOMAIN t[p[1]].hidden
        BY <1>10, <4>2
      <4>4. p[1] \in 1..i
        BY <1>6, <1>9, <3>2, <4>1, <4>2
      <4> QED BY <4>3, <4>4
    <3> QED BY <3>1, <3>2
  <2>4. \A f \in Members \ {"receipts", "disclosure"} : bundle'[f] = origin'[f]
    BY <1>3, <1>7, <2>1
  <2> QED BY <1>3, <1>6, <1>7, <2>1, <2>2, <2>3, <2>4 DEF CoverInv
<1>13. OpeningInv'
  <2> DEFINE new == [p \in S |-> Opening(rs, p)]
  <2>1. /\ DOMAIN opening' = S \cup DOMAIN opening
        /\ \A p \in DOMAIN opening' : opening'[p] = IF p \in S THEN Opening(rs, p) ELSE opening[p]
    BY <1>2 DEF Updated
  <2>2. DOMAIN opening = Places(rs) /\ \A p \in DOMAIN opening : Redaction(rs, p).commit = opening[p]
    BY <1>1, <1>3 DEF ToolInv, OpeningInv
  <2>3. Places(t) = S \cup Places(rs)
    <3>1. ASSUME NEW p \in Places(t) PROVE p \in S \cup Places(rs)
      <4>1. PICK i \in DOMAIN t : \E f \in DOMAIN t[i].hidden : p = <<i, f>>
        BY DEF Places
      <4>2. PICK f \in DOMAIN t[i].hidden : p = <<i, f>>
        BY <4>1
      <4> QED BY <1>6, <1>10, <4>2 DEF Places
    <3>2. ASSUME NEW p \in S PROVE p \in Places(t)
      <4>1. p[1] \in DOMAIN t /\ p = <<p[1], p[2]>>
        BY <1>6, <1>11
      <4>2. p[2] \in DOMAIN t[p[1]].hidden
        BY <1>10, <4>1
      <4> QED BY <4>1, <4>2 DEF Places
    <3>3. ASSUME NEW p \in Places(rs) PROVE p \in Places(t)
      <4>1. PICK i \in DOMAIN rs : \E f \in DOMAIN rs[i].hidden : p = <<i, f>>
        BY DEF Places
      <4>2. PICK f \in DOMAIN rs[i].hidden : p = <<i, f>>
        BY <4>1
      <4> QED BY <1>6, <1>10, <4>2 DEF Places
    <3> QED BY <3>1, <3>2, <3>3
  <2>4. ASSUME NEW p \in Places(t)
        PROVE  Redaction(t, p).commit = opening'[p]
    <3>1. PICK i \in DOMAIN t : \E f \in DOMAIN t[i].hidden : p = <<i, f>>
      BY DEF Places
    <3>2. PICK f \in DOMAIN t[i].hidden : p = <<i, f>>
      BY <3>1
    <3>3. Redaction(t, p) = t[i].hidden[f] /\ Redaction(rs, p) = rs[i].hidden[f]
      BY <3>2 DEF Redaction
    <3>4. CASE p \in S
      <4>1. t[i].hidden[f] = [commit |-> Opening(rs, p), erased |-> FALSE]
        BY <1>10, <3>2, <3>4
      <4>2. opening'[p] = Opening(rs, p)
        BY <2>1, <3>4
      <4> QED BY <3>3, <4>1, <4>2
    <3>5. CASE p \notin S
      <4>1. p \in DOMAIN opening /\ p \in Places(rs)
        BY <2>2, <2>3, <3>5
      <4>2. opening'[p] = opening[p]
        BY <2>1, <3>5, <4>1
      <4>3. t[i].hidden[f] = rs[i].hidden[f]
        BY <1>10, <3>2, <3>5
      <4> QED BY <2>2, <3>3, <4>1, <4>2, <4>3
    <3> QED BY <3>4, <3>5
  <2> QED BY <1>2, <1>7, <2>1, <2>2, <2>3, <2>4 DEF OpeningInv
<1>14. origin' \in Stories /\ redactions' \in Nat
  BY <1>3 DEF ToolInv
<1> QED BY <1>12, <1>13, <1>14 DEF ToolInv

\* A step of the holder's besides revealing is no longer the tool's.
LEMMA MovesLeave ==
  ASSUME moves \in Nat, moves' = moves + 1, ToolInv, origin' = origin, redactions' = redactions
  PROVE  ToolInv'
BY DEF ToolInv, CoverInv, OpeningInv

\* Revealing changes the disclosures only.
LEMMA RevealLeaves ==
  ASSUME IInv, ToolInv, Reveal
  PROVE  ToolInv'
<1>1. PICK m : bundle' = [bundle EXCEPT !.disclosure = Updated(@, m)]
  BY DEF Reveal, Attach
<1>2. bundle'.receipts = bundle.receipts
      /\ \A f \in Members \ {"receipts", "disclosure"} : bundle'[f] = bundle[f]
  BY <1>1 DEF IInv, BundleInv, Members
<1>3. UNCHANGED <<origin, opening, versions, redactions, moves>>
  BY DEF Reveal
<1> QED BY <1>2, <1>3 DEF ToolInv, CoverInv, OpeningInv

\* Every step keeps it.
LEMMA StepLeaves == IInv /\ ToolInv /\ [Next]_vars => ToolInv'
<1> SUFFICES ASSUME IInv, ToolInv, [Next]_vars PROVE ToolInv'
  OBVIOUS
<1>1. ASSUME NEW key \in Issuers, Redact(key) PROVE ToolInv'
  BY <1>1, RedactLeaves
<1>2. CASE Reveal
  BY <1>2, RevealLeaves
<1>3. moves \in Nat
  BY DEF IInv
<1>4. ASSUME NEW rs, Move(rs) PROVE ToolInv'
  BY <1>3, <1>4, MovesLeave DEF Move
<1>5. CASE LeaveOut \/ Exchange \/ Splice \/ Restore \/ Alter \/ AppendOwn
  <2>1. \E rs : Move(rs)
    BY <1>5 DEF LeaveOut, Exchange, Splice, Restore, Alter, AppendOwn
  <2> QED BY <1>4, <2>1
<1>6. CASE Lie \/ Mangle
  BY <1>3, <1>6, MovesLeave DEF Lie, Mangle
<1>7. CASE UNCHANGED vars
  BY <1>7 DEF vars, ToolInv, CoverInv, OpeningInv
<1> QED BY <1>1, <1>2, <1>5, <1>6, <1>7 DEF Next

\* Until the holder moves, the bundle is what the redaction tool makes of the origin.
THEOREM ToolInductive == Spec => [](IInv /\ ToolInv)
BY DisclosureAssumption, InitInv, InitTool, StepKeeps, StepLeaves, PTL DEF Spec

-----------------------------------------------------------------------------
(* A chain and what the tool has made of it *)

\* bs is what the tool has made of os, of which nothing was redacted.
Tooled(bs, os) ==
    /\ Version(bs) /\ Version(os)
    /\ DOMAIN bs = DOMAIN os
    /\ \A i \in DOMAIN bs :
         /\ os[i].hidden = <<>>
         /\ Covers(bs[i], os[i])
         /\ bs[i] = os[i] \/ \E j \in 1..i : DOMAIN bs[j].hidden # {}

\* The reachable bundles are such.
LEMMA BundleIsTooled ==
  ASSUME DisclosureAssumption, IInv, ToolInv, moves = 0
  PROVE  /\ Tooled(bundle.receipts, origin.receipts)
         /\ \A f \in Members \ {"receipts", "disclosure"} : bundle[f] = origin[f]
         /\ origin.malformed = {} /\ origin.revocations = {} /\ KnowsNoSalt(origin)
<1>1. origin \in Stories /\ Issued(origin.receipts) /\ KnowsNoSalt(origin)
      /\ origin = [BundleOf(origin.receipts, origin.task, origin.spec) EXCEPT !.head = origin.head,
                                                                             !.anchors = origin.anchors]
  BY DEF ToolInv, DisclosureAssumption
<1>2. origin.malformed = {} /\ origin.revocations = {}
  <2>1. PICK o : o = BundleOf(origin.receipts, origin.task, origin.spec)
    OBVIOUS
  <2>2. DOMAIN o = Members /\ o.malformed = {} /\ o.revocations = {}
    BY <2>1 DEF BundleOf, Members
  <2>3. PICK h, a : h = origin.head /\ a = origin.anchors
    OBVIOUS
  <2>4. origin = [o EXCEPT !.head = h, !.anchors = a]
    BY <1>1, <2>1, <2>3, Zenon
  <2>5. PICK x : x = [o EXCEPT !.head = h]
    OBVIOUS
  <2>6. origin = [x EXCEPT !.anchors = a]
    BY <2>4, <2>5
  <2>7. DOMAIN x = Members /\ x.malformed = {} /\ x.revocations = {}
    BY <2>2, <2>5 DEF Members
  <2> QED BY <2>6, <2>7 DEF Members
<1>3. Version(origin.receipts) /\ \A i \in DOMAIN origin.receipts : origin.receipts[i].hidden = <<>>
  BY <1>1, StoryIsVersion
<1>4. Version(bundle.receipts)
  BY DEF IInv, UntouchedInv, VersionsInv
<1> QED BY <1>1, <1>2, <1>3, <1>4 DEF Tooled, ToolInv, CoverInv

\* A version is in order.
LEMMA VersionIsOrderly ==
  ASSUME NEW v, Version(v)
  PROVE  Orderly(v)
BY DEF Version, SealedAt, Whole, Orderly, InOrder

\* A digest names one receipt, at one place, and all before it.
LEMMA SameDigest ==
  ASSUME NEW bs, Version(bs), NEW v, Version(v), NEW i \in DOMAIN bs, NEW j \in DOMAIN v,
         Unsigned(bs[i]) = Unsigned(v[j])
  PROVE  i = j /\ \A k \in 1..i : bs[k] = v[k]
<1>1. Orderly(bs) /\ Orderly(v)
  BY VersionIsOrderly
<1>2. /\ DOMAIN bs = 1..Len(bs) /\ Len(bs) \in Nat
      /\ DOMAIN v = 1..Len(v) /\ Len(v) \in Nat
  BY <1>1, ListHas DEF Orderly
<1>3. i = j
  <2>1. \A f \in Fields \ {"sig"} : bs[i][f] = v[j][f]
    BY <1>1, SameSigned DEF Orderly
  <2>2. bs[i].seq = v[j].seq
    BY <2>1 DEF Fields
  <2>3. bs[i].seq = i - 1 /\ v[j].seq = j - 1
    BY <1>1 DEF Orderly, InOrder
  <2>4. i - 1 = j - 1
    BY <2>2, <2>3
  <2>5. \A x, y \in Int : x - 1 = y - 1 => x = y
    OBVIOUS
  <2>6. i \in Int /\ j \in Int
    BY <1>2
  <2> QED BY <2>4, <2>5, <2>6
<1>4. \A k \in 1..i : bs[k] = v[k]
  BY <1>1, <1>3, PrefixIsSigned DEF Orderly
<1> QED BY <1>3, <1>4

\* A receipt with one of the first digests is the one that was first there.
LEMMA FirstStays ==
  ASSUME \A b \in Stories : Issued(b.receipts), NEW bs, NEW os, Tooled(bs, os), NEW i \in DOMAIN bs,
         Unsigned(bs[i]) \in FirstDigests
  PROVE  bs[i] = os[i]
<1>1. \E b \in Stories : \E j \in DOMAIN b.receipts : Unsigned(bs[i]) = Digest(b.receipts[j])
  <2>1. PICK b \in Stories : Unsigned(bs[i]) \in {Digest(b.receipts[j]) : j \in DOMAIN b.receipts}
    BY DEF FirstDigests
  <2> QED BY <2>1
<1>2. \E v : /\ Version(v) /\ \A k \in DOMAIN v : v[k].hidden = <<>>
             /\ \E j \in DOMAIN v : Unsigned(bs[i]) = Unsigned(v[j])
  <2>1. PICK b \in Stories : \E j \in DOMAIN b.receipts : Unsigned(bs[i]) = Digest(b.receipts[j])
    BY <1>1
  <2>2. Version(b.receipts) /\ \A k \in DOMAIN b.receipts : b.receipts[k].hidden = <<>>
    BY StoryIsVersion
  <2>3. \A k \in DOMAIN b.receipts : Digest(b.receipts[k]) = Unsigned(b.receipts[k])
    BY <2>2 DEF Digest, Version, SealedAt, Whole
  <2> QED BY <2>1, <2>2, <2>3
<1>3. PICK v : /\ Version(v) /\ \A k \in DOMAIN v : v[k].hidden = <<>>
               /\ \E j \in DOMAIN v : Unsigned(bs[i]) = Unsigned(v[j])
  BY <1>2
<1>4. PICK j \in DOMAIN v : Unsigned(bs[i]) = Unsigned(v[j])
  BY <1>3
<1>5. Version(bs) /\ Version(v)
  BY <1>3 DEF Tooled
<1>6. i = j /\ \A k \in 1..i : bs[k] = v[k]
  BY <1>4, <1>5, SameDigest
<1>7. \A k \in 1..i : k \in DOMAIN v
  <2>1. DOMAIN v = 1..Len(v) /\ Len(v) \in Nat
    BY <1>5, ListHas DEF Version
  <2>2. j \in DOMAIN v /\ i = j
    BY <1>4, <1>6
  <2> QED BY <2>1, <2>2
<1>8. \A k \in 1..i : DOMAIN bs[k].hidden = {}
  BY <1>3, <1>6, <1>7, NothingRedacted
<1> QED BY <1>8 DEF Tooled

\* Fields that are there in a covered receipt, and that are the same.
LEMMA CoversHas ==
  ASSUME NEW v, NEW r, Covers(v, r), r.hidden = <<>>
  PROVE  /\ \A f : Has(v, f) <=> Has(r, f)
         /\ \A f : f \notin DOMAIN v.hidden => Get(v, f) = Get(r, f) /\ GetTime(v, f) = GetTime(r, f)
         /\ \A f \in Unredactable(r.type) : f \notin DOMAIN v.hidden
         /\ "shape" \in DOMAIN r.body => v.body.shape = r.body.shape
         /\ \A f \in DOMAIN v.hidden : Has(r, f) /\ Get(v, f) = None /\ GetTime(v, f) = BadTime
<1>1. DOMAIN r.hidden = {}
  BY NothingRedacted
<1>2. \A f : Has(v, f) <=> Has(r, f)
  BY <1>1 DEF Has, Covers
<1>3. \A f : f \notin DOMAIN v.hidden => (f \in DOMAIN v.body <=> f \in DOMAIN r.body)
  BY DEF Covers
<1>4. \A f : f \notin DOMAIN v.hidden => Get(v, f) = Get(r, f) /\ GetTime(v, f) = GetTime(r, f)
  BY <1>3 DEF Get, GetTime, Covers
<1>5. \A f \in Unredactable(r.type) : f \notin DOMAIN v.hidden
  BY DEF Covers
<1>6. "shape" \in DOMAIN r.body => v.body.shape = r.body.shape
  BY DEF Covers
<1>7. \A f \in DOMAIN v.hidden : Has(r, f) /\ Get(v, f) = None /\ GetTime(v, f) = BadTime
  BY DEF Covers, Has, Get, GetTime
<1> QED BY <1>2, <1>4, <1>5, <1>6, <1>7

\* In a version, what resolves is there, and what is there resolves.
LEMMA ResolveIs ==
  ASSUME NEW v, Version(v), NEW type, NEW ref
  PROVE  /\ Resolve(v, type, ref) # None =>
              \E j \in DOMAIN v : /\ Resolve(v, type, ref) = v[j] /\ v[j].type = type
                                  /\ Unsigned(v[j]) = ref /\ ref # None
         /\ \A j \in DOMAIN v :
              v[j].type = type /\ Unsigned(v[j]) = ref /\ ref # None => Resolve(v, type, ref) = v[j]
<1> DEFINE Found == {r \in OfType(v, type) : Encodable(r) /\ Digest(r) = ref}
<1>1. Resolve(v, type, ref) = IF ref = None \/ Found = {} THEN None ELSE CHOOSE r \in Found : TRUE
  BY DEF Resolve
<1>2. \A r \in Found : \E j \in DOMAIN v : r = v[j] /\ v[j].type = type /\ Unsigned(v[j]) = ref
  BY DEF OfType, Indexes, Digest
<1>3. \A j \in DOMAIN v : v[j].type = type /\ Unsigned(v[j]) = ref => v[j] \in Found
  BY DEF OfType, Indexes, Digest, Version, SealedAt, Whole
<1>4. \A r, s \in Found : r = s
  <2> TAKE r, s \in Found
  <2>1. PICK i \in DOMAIN v : r = v[i] /\ Unsigned(v[i]) = ref
    BY <1>2
  <2>2. PICK j \in DOMAIN v : s = v[j] /\ Unsigned(v[j]) = ref
    BY <1>2
  <2> QED BY <2>1, <2>2, VersionIsOrderly, DigestsAreUnique
<1> HIDE DEF Found
<1>5. ASSUME NEW j \in DOMAIN v, v[j].type = type, Unsigned(v[j]) = ref, ref # None
      PROVE  Resolve(v, type, ref) = v[j]
  <2>1. v[j] \in Found
    BY <1>3, <1>5
  <2>2. Found = {v[j]}
    BY <1>4, <2>1
  <2> QED BY <1>1, <1>5, <2>2
<1>6. ASSUME Resolve(v, type, ref) # None
      PROVE  \E j \in DOMAIN v : /\ Resolve(v, type, ref) = v[j] /\ v[j].type = type
                                 /\ Unsigned(v[j]) = ref /\ ref # None
  <2>1. ref # None /\ Found # {}
    BY <1>1, <1>6
  <2>2. PICK r : r \in Found
    BY <2>1
  <2>3. PICK j \in DOMAIN v : r = v[j] /\ v[j].type = type /\ Unsigned(v[j]) = ref
    BY <1>2, <2>2
  <2> QED BY <1>5, <2>1, <2>3
<1> QED BY <1>5, <1>6

\* What the tool leaves of the kinds and order of records.
LEMMA TooledRecords ==
  ASSUME NEW bs, NEW os, Tooled(bs, os)
  PROVE  /\ \A type : Indexes(bs, type) = Indexes(os, type)
         /\ \A i : DeliveredBefore(bs, i) <=> DeliveredBefore(os, i)
         /\ \A i \in DOMAIN bs : /\ Covers(bs[i], os[i]) /\ os[i].hidden = <<>>
                                 /\ \A f \in Kept : bs[i][f] = os[i][f]
                                 /\ "shape" \in DOMAIN os[i].body
<1>1. \A i \in DOMAIN bs : /\ Covers(bs[i], os[i]) /\ os[i].hidden = <<>>
                           /\ \A f \in Kept : bs[i][f] = os[i][f]
                           /\ "shape" \in DOMAIN os[i].body
  BY DEF Tooled, Covers, Version, SealedAt, Whole
<1>2. \A type : Indexes(bs, type) = Indexes(os, type)
  BY <1>1 DEF Indexes, Tooled, Kept
<1>3. \A i : DeliveredBefore(bs, i) <=> DeliveredBefore(os, i)
  BY <1>2 DEF DeliveredBefore
<1> QED BY <1>1, <1>2, <1>3

\* Null is no signature, no amount and no receipt.
NoneIsNoRecord == DOMAIN None \cap {"by", "currency", "id"} = {}

\* The link expected of a receipt, where every type is known, is to the one before it.
LEMMA ExpectedPrevIs ==
  ASSUME NEW rs, List(rs), \A j \in DOMAIN rs : KnownType(rs[j].type, rs[j].spec), NEW i \in DOMAIN rs
  PROVE  ExpectedPrev(rs, i) = IF i = 1 THEN None ELSE Digest(rs[i - 1])
<1> DEFINE before == {j \in 1..(i - 1) : KnownType(rs[j].type, rs[j].spec)}
<1>1. DOMAIN rs = 1..Len(rs) /\ Len(rs) \in Nat
  BY ListHas
<1>2. i \in Nat /\ i >= 1 /\ \A j \in 1..(i - 1) : j \in DOMAIN rs
  BY <1>1
<1>3. before = 1..(i - 1)
  BY <1>2
<1>4. ExpectedPrev(rs, i) = IF before = {} THEN None ELSE Digest(rs[Greatest(before)])
  BY DEF ExpectedPrev
<1> HIDE DEF before
<1>5. i # 1 => before # {} /\ Greatest(before) = i - 1
  <2> SUFFICES ASSUME i # 1 PROVE before # {} /\ Greatest(before) = i - 1
    OBVIOUS
  <2>1. i - 1 \in before /\ \A y \in before : y \in Int /\ i - 1 >= y
    BY <1>2, <1>3
  <2>2. \A x \in before : (\A y \in before : x >= y) => x = i - 1
    BY <1>2, <2>1
  <2> QED BY <2>1, <2>2 DEF Greatest
<1>6. i = 1 => before = {}
  BY <1>3
<1> QED BY <1>4, <1>5, <1>6

\* What a receipt of a version is signed for, a verifier finds.
LEMMA SealIsFound ==
  ASSUME NoneIsNoRecord, NEW v, Version(v),
         \A j \in DOMAIN v : KnownType(v[j].type, v[j].spec), NEW i \in DOMAIN v
  PROVE  LinkErrors(v, i) = {} /\ SignatureErrors(v[i]) = {} /\ Encodable(v[i])
<1>1. Orderly(v) /\ Encodable(v[i])
  BY VersionIsOrderly DEF Version, SealedAt, Whole
<1>2. v[i].prev = ExpectedPrev(v, i) /\ v[i].seq = i - 1
  BY <1>1, ExpectedPrevIs, ZenonT(60) DEF Orderly, InOrder
<1>3. v[i].sig = [by |-> v[i].issuer, over |-> Unsigned(v[i])]
  BY <1>1 DEF Orderly, InOrder
<1>4. v[i].sig # None
  <2>1. "by" \in DOMAIN v[i].sig
    BY <1>3
  <2> QED BY <2>1 DEF NoneIsNoRecord
<1> QED BY <1>1, <1>2, <1>3, <1>4 DEF LinkErrors, SignatureErrors, SignatureVerifies, When

\* The rules about single bodies: hiding a time of an authority shows.
LEMMA BodyLifted ==
  ASSUME NEW v, NEW r, Covers(v, r), r.hidden = <<>>, "shape" \in DOMAIN r.body, BodyErrors(v) = {}
  PROVE  BodyErrors(r) = {}
<1> DEFINE checked(x) == \/ x.spec \in {5, 6} /\ x.type \in {"session.pass.created", "task.execution",
                                                             "state.commitment"}
                         \/ x.spec = 6 /\ x.type = "authority.grant"
           grant(x) == x.spec = 6 /\ x.type = "authority.grant"
           bad(x) == checked(x) /\ (x.body.shape = "bad" \/ DOMAIN x.hidden \cap Shaped # {})
           late(x) == \/ ~ValidTime(GetTime(x, "granted_at"))
                      \/ Has(x, "expires_at") /\ ~ValidTime(GetTime(x, "expires_at"))
                      \/ Has(x, "expires_at") /\ GetTime(x, "expires_at") <= GetTime(x, "granted_at")
<1>1. \A x : BodyErrors(x) = When(bad(x), "malformed") \cup When(grant(x) /\ late(x), "malformed")
  BY DEF BodyErrors
<1>2. v.spec = r.spec /\ v.type = r.type
  BY DEF Covers, Kept
<1>3. v.body.shape = r.body.shape /\ DOMAIN r.hidden = {}
  BY CoversHas, NothingRedacted
<1>4. ~bad(v) /\ ~(grant(v) /\ late(v))
  BY <1>1 DEF When
<1>5. ~bad(r)
  BY <1>2, <1>3, <1>4
<1>6. ~(grant(r) /\ late(r))
  <2> SUFFICES ASSUME grant(r) PROVE ~late(r)
    OBVIOUS
  <2>1. grant(v) /\ ~late(v)
    BY <1>2, <1>4
  <2>2. "granted_at" \in Unredactable(r.type)
    BY DEF Unredactable, Required
  <2>3. GetTime(v, "granted_at") = GetTime(r, "granted_at") /\ (Has(v, "expires_at") <=> Has(r, "expires_at"))
    BY <2>2, CoversHas
  <2>4. "expires_at" \notin DOMAIN v.hidden
    <3>1. "expires_at" \in DOMAIN v.hidden => Has(v, "expires_at") /\ GetTime(v, "expires_at") = BadTime
      BY CoversHas
    <3>2. ~ValidTime(BadTime)
      BY DEF ValidTime, BadTime
    <3> QED BY <2>1, <3>1, <3>2
  <2>5. GetTime(v, "expires_at") = GetTime(r, "expires_at")
    BY <2>4, CoversHas
  <2> QED BY <2>1, <2>3, <2>5
<1> HIDE DEF checked, grant, bad, late
<1> QED BY <1>1, <1>5, <1>6 DEF When

\* So do the rules about envelopes.
LEMMA EnvelopesLifted ==
  ASSUME NoneIsNoRecord, NEW b, NEW o, Tooled(b.receipts, o.receipts), b.task = o.task,
         \A i \in DOMAIN b.receipts : EnvelopeErrors(b, i) = {}, NEW i \in DOMAIN o.receipts
  PROVE  EnvelopeErrors(o, i) = {}
<1>1. PICK bs, os : bs = b.receipts /\ os = o.receipts
  OBVIOUS
<1>2. Tooled(bs, os) /\ DOMAIN bs = DOMAIN os
  BY <1>1 DEF Tooled
<1>3. \A j \in DOMAIN bs :
        /\ bs[j].spec \in Specs /\ bs[j].task = b.task /\ KnownType(bs[j].type, bs[j].spec)
        /\ \A f \in RequiredFields(bs[j].type, bs[j].spec) : Has(bs[j], f)
        /\ BodyErrors(bs[j]) = {} /\ ValidTime(bs[j].at)
  <2> TAKE j \in DOMAIN bs
  <2>1. EnvelopeErrors(b, j) = {}
    BY <1>1
  <2>2. EnvelopeErrors(b, j) =
          When(bs[j].spec \notin Specs, "version_unsupported")
          \cup When(bs[j].task # b.task, "task_mismatch")
          \cup IF ~KnownType(bs[j].type, bs[j].spec) THEN {"unknown_type"}
               ELSE When(\E f \in RequiredFields(bs[j].type, bs[j].spec) : ~Has(bs[j], f), "malformed")
                    \cup BodyErrors(bs[j])
                    \cup When(~ValidTime(bs[j].at) \/ ~Encodable(bs[j]), "malformed")
                    \cup LinkErrors(bs, j)
                    \cup SignatureErrors(bs[j])
    BY <1>1 DEF EnvelopeErrors
  <2>3. KnownType(bs[j].type, bs[j].spec)
    BY <2>1, <2>2
  <2> QED BY <2>1, <2>2, <2>3 DEF When
<1>4. \A j \in DOMAIN os : \A f \in Kept : bs[j][f] = os[j][f]
  BY <1>2, TooledRecords
<1>5. \A j \in DOMAIN os : KnownType(os[j].type, os[j].spec)
  BY <1>2, <1>3, <1>4 DEF Kept
<1>6. LinkErrors(os, i) = {} /\ SignatureErrors(os[i]) = {} /\ Encodable(os[i])
  BY <1>1, <1>2, <1>5, SealIsFound DEF Tooled
<1>7. Covers(bs[i], os[i]) /\ os[i].hidden = <<>> /\ "shape" \in DOMAIN os[i].body
  BY <1>1, <1>2, TooledRecords
<1>8. BodyErrors(os[i]) = {}
  BY <1>1, <1>2, <1>3, <1>7, BodyLifted
<1>9. /\ os[i].spec = bs[i].spec /\ os[i].type = bs[i].type /\ os[i].task = bs[i].task
       /\ os[i].at = bs[i].at /\ i \in DOMAIN bs
  BY <1>1, <1>2, <1>4 DEF Kept
<1>10. \A f \in RequiredFields(os[i].type, os[i].spec) : Has(os[i], f)
  BY <1>3, <1>7, <1>9, CoversHas
<1>11. os[i].spec \in Specs /\ os[i].task = o.task /\ ValidTime(os[i].at)
  BY <1>3, <1>9
<1>12. EnvelopeErrors(o, i) =
          When(os[i].spec \notin Specs, "version_unsupported")
          \cup When(os[i].task # o.task, "task_mismatch")
          \cup IF ~KnownType(os[i].type, os[i].spec) THEN {"unknown_type"}
               ELSE When(\E f \in RequiredFields(os[i].type, os[i].spec) : ~Has(os[i], f), "malformed")
                    \cup BodyErrors(os[i])
                    \cup When(~ValidTime(os[i].at) \/ ~Encodable(os[i]), "malformed")
                    \cup LinkErrors(os, i)
                    \cup SignatureErrors(os[i])
  BY <1>1 DEF EnvelopeErrors
<1>13. KnownType(os[i].type, os[i].spec)
  BY <1>1, <1>5
<1> QED BY <1>6, <1>8, <1>10, <1>11, <1>12, <1>13 DEF When

\* So do the rules about several records, if every payment names its currency: a
\* redacted cap has none.
LEMMA CrossLifted ==
  ASSUME NoneIsNoRecord, NEW bs, NEW os, Tooled(bs, os),
         \A r \in OfType(os, "settlement") : Get(r, "amount").currency # None,
         CrossRecordErrors(bs) = {}
  PROVE  CrossRecordErrors(os) = {}
<1> DEFINE Passes(q) == Indexes(q, "session.pass.created")
           P(q) == q[Least(Passes(q))]
           Policy(q, p) == \E r \in OfType(q, "task.decision") :
              Get(r, "policy_version") # Get(p, "policy_version")
           Cap(q, p) == \E r \in OfType(q, "settlement") :
                   /\ CapOf(p) # None
                   /\ \/ Get(r, "amount").currency # CapOf(p).currency
                      \/ Get(r, "amount").minor > CapOf(p).minor
           Gate(q) == \E i \in Indexes(q, "settlement") :
                   /\ Get(q[i], "gated_on_delivery") = TRUE
                   /\ ~DeliveredBefore(q, i)
           End(q) == Indexes(q, "task.termination") = {}
<1>1. \A q : CrossRecordErrors(q) = IF Passes(q) = {} THEN {"malformed"} ELSE
         When(Policy(q, P(q)), "policy_mismatch") \cup When(Cap(q, P(q)), "cap_exceeded")
         \cup When(Gate(q), "delivery_before_settlement") \cup When(End(q), "missing_termination")
  BY Zenon DEF CrossRecordErrors
<1>2. Passes(bs) = Passes(os) /\ (End(bs) <=> End(os)) /\ DOMAIN bs = DOMAIN os
  <2>1. \A type : Indexes(bs, type) = Indexes(os, type)
    BY TooledRecords, Zenon
  <2>2. DOMAIN bs = DOMAIN os
    BY DEF Tooled
  <2> QED BY <2>1, <2>2
<1>3. PICK n : n = Least(Passes(os))
  OBVIOUS
<1>4. P(bs) = bs[n] /\ P(os) = os[n]
  BY <1>2, <1>3
<1>5. \A i \in DOMAIN os : /\ Covers(bs[i], os[i]) /\ os[i].hidden = <<>>
                           /\ bs[i].type = os[i].type
  BY <1>2, TooledRecords DEF Kept
<1>6. \A i \in DOMAIN os : \A f \in Required(os[i].type) : Get(bs[i], f) = Get(os[i], f)
  BY <1>5, CoversHas DEF Unredactable
<1> HIDE DEF Policy, Cap, Gate, End
<1>7. Passes(bs) # {}
  BY <1>1
<1> HIDE DEF Passes
<1>8. ~Policy(bs, P(bs)) /\ ~Cap(bs, P(bs)) /\ ~Gate(bs) /\ ~End(bs)
  BY <1>1, <1>7 DEF When
<1> HIDE DEF P
<1>9. n \in DOMAIN os /\ os[n].type = "session.pass.created"
  <2>1. Passes(os) # {} /\ Passes(os) \subseteq DOMAIN os
    BY <1>2, <1>7 DEF Passes, Indexes
  <2>2. DOMAIN os = 1..Len(os) /\ Len(os) \in Nat
    BY ListHas DEF Tooled, Version
  <2>3. Passes(os) \subseteq Nat
    BY <2>1, <2>2
  <2>4. n \in Passes(os)
    BY <1>3, <2>1, <2>3, HasLeast
  <2> QED BY <2>4 DEF Passes, Indexes
<1>10. ~Policy(os, P(os))
  <2>1. Get(bs[n], "policy_version") = Get(os[n], "policy_version")
    BY <1>6, <1>9 DEF Required
  <2>2. ASSUME NEW r \in OfType(os, "task.decision") PROVE Get(r, "policy_version") = Get(os[n], "policy_version")
    <3>1. PICK i \in DOMAIN os : r = os[i] /\ os[i].type = "task.decision"
      BY DEF OfType, Indexes
    <3>2. bs[i] \in OfType(bs, "task.decision")
      BY <1>2, <1>5, <3>1 DEF OfType, Indexes
    <3>3. Get(bs[i], "policy_version") = Get(os[i], "policy_version")
      BY <1>6, <3>1 DEF Required
    <3> QED BY <1>4, <1>8, <2>1, <3>1, <3>2, <3>3 DEF Policy
  <2> QED BY <1>4, <2>2 DEF Policy
<1>11. ~Gate(os)
  <2> SUFFICES ASSUME NEW i \in Indexes(os, "settlement"), Get(os[i], "gated_on_delivery") = TRUE
               PROVE  DeliveredBefore(os, i)
    BY DEF Gate
  <2>1. i \in DOMAIN os /\ os[i].type = "settlement" /\ i \in Indexes(bs, "settlement")
    BY TooledRecords DEF Indexes
  <2>2. Get(bs[i], "gated_on_delivery") = TRUE
    BY <1>6, <2>1 DEF Required
  <2> QED BY <1>8, <2>1, <2>2, TooledRecords DEF Gate
<1>12. ~Cap(os, P(os))
  <2> SUFFICES ASSUME NEW r \in OfType(os, "settlement"), CapOf(os[n]) # None
               PROVE  /\ Get(r, "amount").currency = CapOf(os[n]).currency
                      /\ ~(Get(r, "amount").minor > CapOf(os[n]).minor)
    BY <1>4 DEF Cap
  <2>1. PICK i \in DOMAIN os : r = os[i] /\ os[i].type = "settlement"
    BY DEF OfType, Indexes
  <2>2. bs[i] \in OfType(bs, "settlement")
    BY <1>2, <1>5, <2>1 DEF OfType, Indexes
  <2>3. Get(bs[i], "amount") = Get(r, "amount")
    BY <1>6, <2>1 DEF Required
  <2>4. CapOf(bs[n]) # None => /\ Get(r, "amount").currency = CapOf(bs[n]).currency
                               /\ ~(Get(r, "amount").minor > CapOf(bs[n]).minor)
    BY <1>4, <1>8, <2>2, <2>3 DEF Cap
  <2>5. DOMAIN os[n].hidden = {} /\ CapOf(os[n]) = Get(os[n], "spend_cap")
    BY <1>5, <1>9, NothingRedacted DEF CapOf
  <2>6. CASE "spend_cap" \in DOMAIN bs[n].hidden
    <3>1. PICK cap : cap = CapOf(bs[n])
      OBVIOUS
    <3>2. cap = [currency |-> None, minor |-> 0]
      BY <2>6, <3>1 DEF CapOf
    <3>3. "currency" \in DOMAIN cap /\ cap.currency = None
      BY <3>2
    <3>4. cap # None
      BY <3>3 DEF NoneIsNoRecord
    <3> QED BY <2>4, <3>1, <3>3, <3>4
  <2>7. CASE "spend_cap" \notin DOMAIN bs[n].hidden
    <3>1. CapOf(bs[n]) = CapOf(os[n])
      BY <1>5, <1>9, <2>5, <2>7, CoversHas DEF CapOf
    <3> QED BY <2>4, <3>1
  <2> QED BY <2>6, <2>7
<1>13. ~End(os) /\ Passes(os) # {}
  BY <1>2, <1>7, <1>8
<1> QED BY <1>1, <1>10, <1>11, <1>12, <1>13 DEF When

\* A reference that resolves before and after resolves to the same record.
LEMMA SameReference ==
  ASSUME NEW bs, NEW os, Tooled(bs, os), NEW type, NEW ref,
         Resolve(bs, type, ref) # None, Resolve(os, type, ref) # None
  PROVE  Resolve(bs, type, ref) = Resolve(os, type, ref)
<1>1. Version(bs) /\ Version(os)
  BY DEF Tooled
<1>2. PICK i \in DOMAIN bs : Resolve(bs, type, ref) = bs[i] /\ Unsigned(bs[i]) = ref
  BY <1>1, ResolveIs
<1>3. PICK j \in DOMAIN os : Resolve(os, type, ref) = os[j] /\ Unsigned(os[j]) = ref
  BY <1>1, ResolveIs
<1>4. i = j /\ \A k \in 1..i : bs[k] = os[k]
  BY <1>1, <1>2, <1>3, SameDigest
<1>5. i \in 1..i
  <2>1. DOMAIN bs = 1..Len(bs) /\ Len(bs) \in Nat
    BY <1>1, ListHas DEF Version
  <2> QED BY <2>1
<1> QED BY <1>2, <1>3, <1>4, <1>5

\* The records of the origin that a rule about references looks at.
LEMMA TooledBound ==
  ASSUME NEW bs, NEW os, Tooled(bs, os)
  PROVE  /\ \A type : \A r \in OfType(os, type) :
              \E i \in DOMAIN os : r = os[i] /\ os[i].type = type /\ bs[i] \in OfType(bs, type)
         /\ \A n : \A r \in Bound(os, n) : \E i \in DOMAIN os : r = os[i] /\ bs[i] \in Bound(bs, n)
<1>1. /\ DOMAIN bs = DOMAIN os
      /\ \A i \in DOMAIN os : bs[i].type = os[i].type /\ bs[i].spec = os[i].spec
  BY TooledRecords, SMTT(40) DEF Tooled, Kept
<1>2. ASSUME NEW type, NEW r \in OfType(os, type)
      PROVE  \E i \in DOMAIN os : r = os[i] /\ os[i].type = type /\ bs[i] \in OfType(bs, type)
  BY <1>1 DEF OfType, Indexes
<1>3. ASSUME NEW n, NEW r \in Bound(os, n)
      PROVE  \E i \in DOMAIN os : r = os[i] /\ bs[i] \in Bound(bs, n)
  BY <1>1 DEF Bound
<1> QED BY <1>2, <1>3

\* Hiding a reference or the party it was accepted by shows.
LEMMA AgreementLifted ==
  ASSUME NEW bs, NEW os, Tooled(bs, os), AgreementErrors(bs) = {}, AgreementInsufficient(bs) = {}
  PROVE  AgreementErrors(os) = {}
<1> DEFINE Offered(q) == {x \in OfType(q, "agreement.accept") : OfferOf(q, x) # None}
           Accepted(q) == {x \in Bound(q, 4) : AcceptOf(q, x) # None}
           Late(r, a) == When(Earlier(r.at, a.at), "agreement_before_accept")
                         \cup When(Get(a, "offeree") \notin {None, r.issuer}, "agreement_issuer_mismatch")
<1>1. \A q : AgreementErrors(q) = (UNION {AcceptErrors(a, OfferOf(q, a)) : a \in Offered(q)})
                 \cup UNION {Late(r, AcceptOf(q, r)) : r \in Accepted(q)}
  BY Zenon DEF AgreementErrors
<1>2. /\ \A a \in OfType(bs, "agreement.accept") : OfferOf(bs, a) # None
      /\ \A r \in Bound(bs, 4) : Has(r, "agreement_ref") => AcceptOf(bs, r) # None
  BY DEF AgreementInsufficient, When
<1> HIDE DEF Offered, Accepted
<1>3. /\ \A a \in Offered(bs) : AcceptErrors(a, OfferOf(bs, a)) = {}
      /\ \A r \in Accepted(bs) : Late(r, AcceptOf(bs, r)) = {}
  BY <1>1
<1>4. \A i \in DOMAIN os : /\ Covers(bs[i], os[i]) /\ os[i].hidden = <<>>
                           /\ \A f \in Kept : bs[i][f] = os[i][f]
  BY TooledRecords, SMTT(40) DEF Tooled
<1>5. ASSUME NEW a \in Offered(os) PROVE AcceptErrors(a, OfferOf(os, a)) = {}
  <2>1. a \in OfType(os, "agreement.accept") /\ OfferOf(os, a) # None
    BY DEF Offered
  <2>2. PICK i \in DOMAIN os : /\ a = os[i] /\ os[i].type = "agreement.accept"
                               /\ bs[i] \in OfType(bs, "agreement.accept")
    BY <2>1, TooledBound
  <2>3. PICK v : v = bs[i]
    OBVIOUS
  <2>4. Covers(v, a) /\ a.hidden = <<>> /\ \A f \in Kept : v[f] = a[f]
    BY <1>4, <2>2, <2>3
  <2>5. a.type = "agreement.accept" /\ v \in OfType(bs, "agreement.accept") /\ OfferOf(bs, v) # None
    BY <1>2, <2>2, <2>3
  <2>6. Get(v, "offer_ref") = Get(a, "offer_ref") /\ Get(v, "terms") = Get(a, "terms")
    <3>1. "offer_ref" \in Unredactable(a.type) /\ "terms" \in Unredactable(a.type)
      BY <2>5 DEF Unredactable, Required
    <3> QED BY <2>4, <3>1, CoversHas
  <2>7. OfferOf(bs, v) = OfferOf(os, a)
    BY <2>1, <2>5, <2>6, SameReference DEF OfferOf
  <2>8. PICK o : o = OfferOf(os, a)
    OBVIOUS
  <2>9. AcceptErrors(v, o) = {}
    BY <1>3, <2>5, <2>7, <2>8 DEF Offered
  <2>10. v.at = a.at /\ v.spec = a.spec /\ v.issuer = a.issuer
    BY <2>4 DEF Kept
  <2>11. a.spec < 4 \/ Get(v, "offeree") # None
    BY <2>9, <2>10 DEF AcceptErrors
  <2>12. a.spec < 4 \/ Get(v, "offeree") = Get(a, "offeree")
    BY <2>4, <2>11, CoversHas
  <2>13. AcceptErrors(a, o) = AcceptErrors(v, o)
    <3>1. CASE a.spec < 4
      BY <2>6, <2>10, <3>1 DEF AcceptErrors
    <3>2. CASE Get(v, "offeree") = Get(a, "offeree")
      BY <2>6, <2>10, <3>2 DEF AcceptErrors, OffereeAgrees
    <3> QED BY <2>12, <3>1, <3>2
  <2> QED BY <2>8, <2>9, <2>13
<1>6. ASSUME NEW r \in Accepted(os) PROVE Late(r, AcceptOf(os, r)) = {}
  <2>1. r \in Bound(os, 4) /\ AcceptOf(os, r) # None
    BY DEF Accepted
  <2>2. PICK i \in DOMAIN os : r = os[i] /\ bs[i] \in Bound(bs, 4)
    BY <2>1, TooledBound
  <2>3. PICK v : v = bs[i]
    OBVIOUS
  <2>4. Covers(v, r) /\ r.hidden = <<>> /\ v \in Bound(bs, 4)
    BY <1>4, <2>2, <2>3
  <2>5. v.at = r.at /\ v.issuer = r.issuer
    BY <1>4, <2>2, <2>3 DEF Kept
  <2>6. Get(r, "agreement_ref") # None
    BY <2>1 DEF AcceptOf, Resolve
  <2>7. Has(r, "agreement_ref")
    BY <2>6 DEF Get, Has
  <2>8. AcceptOf(bs, v) # None
    BY <1>2, <2>4, <2>7, CoversHas
  <2>9. Get(v, "agreement_ref") # None
    BY <2>8 DEF AcceptOf, Resolve
  <2>10. Get(v, "agreement_ref") = Get(r, "agreement_ref")
    BY <2>4, <2>9, CoversHas
  <2>11. AcceptOf(bs, v) = AcceptOf(os, r)
    BY <2>1, <2>8, <2>10, SameReference DEF AcceptOf
  <2>12. Late(v, AcceptOf(bs, v)) = {}
    BY <1>3, <2>4, <2>8 DEF Accepted
  <2> QED BY <2>5, <2>11, <2>12
<1> HIDE DEF Late
<1>7. (UNION {AcceptErrors(a, OfferOf(os, a)) : a \in Offered(os)}) = {}
  BY <1>5
<1>8. (UNION {Late(r, AcceptOf(os, r)) : r \in Accepted(os)}) = {}
  BY <1>6
<1> QED BY <1>1, <1>7, <1>8

\* So does hiding a reference to an authority.
LEMMA AuthorityLifted ==
  ASSUME NEW bs, NEW os, Tooled(bs, os), AuthorityErrors(bs) = {}, AuthorityInsufficient(bs) = {}
  PROVE  AuthorityErrors(os) = {}
<1> DEFINE Granted(q) == {x \in Bound(q, 6) : GrantOf(q, x) # None}
           Over(r, g) == When(Earlier(r.at, Effective(g)), "authority_before_grant")
                         \cup When(Get(g, "agent") \notin {None, r.issuer}, "authority_agent_mismatch")
                         \cup When(Earlier(GetTime(g, "expires_at"), r.at), "authority_expired")
<1>1. \A q : AuthorityErrors(q) = UNION {Over(r, GrantOf(q, r)) : r \in Granted(q)}
  BY Zenon DEF AuthorityErrors
<1>2. \A r \in Bound(bs, 6) : Has(r, "authority_ref") => GrantOf(bs, r) # None
  BY DEF AuthorityInsufficient, When
<1> HIDE DEF Granted
<1>3. \A r \in Granted(bs) : Over(r, GrantOf(bs, r)) = {}
  BY <1>1
<1>4. \A i \in DOMAIN os : /\ Covers(bs[i], os[i]) /\ os[i].hidden = <<>>
                           /\ \A f \in Kept : bs[i][f] = os[i][f]
  BY TooledRecords, SMTT(40) DEF Tooled
<1>5. ASSUME NEW r \in Granted(os) PROVE Over(r, GrantOf(os, r)) = {}
  <2>1. r \in Bound(os, 6) /\ GrantOf(os, r) # None
    BY DEF Granted
  <2>2. PICK i \in DOMAIN os : r = os[i] /\ bs[i] \in Bound(bs, 6)
    BY <2>1, TooledBound
  <2>3. PICK v : v = bs[i]
    OBVIOUS
  <2>4. Covers(v, r) /\ r.hidden = <<>> /\ v \in Bound(bs, 6)
    BY <1>4, <2>2, <2>3
  <2>5. v.at = r.at /\ v.issuer = r.issuer
    BY <1>4, <2>2, <2>3 DEF Kept
  <2>6. Get(r, "authority_ref") # None
    BY <2>1 DEF GrantOf, Resolve
  <2>7. Has(r, "authority_ref")
    BY <2>6 DEF Get, Has
  <2>8. GrantOf(bs, v) # None
    BY <1>2, <2>4, <2>7, CoversHas
  <2>9. Get(v, "authority_ref") # None
    BY <2>8 DEF GrantOf, Resolve
  <2>10. Get(v, "authority_ref") = Get(r, "authority_ref")
    BY <2>4, <2>9, CoversHas
  <2>11. GrantOf(bs, v) = GrantOf(os, r)
    BY <2>1, <2>8, <2>10, SameReference DEF GrantOf
  <2>12. Over(v, GrantOf(bs, v)) = {}
    BY <1>3, <2>4, <2>8 DEF Granted
  <2> QED BY <2>5, <2>11, <2>12
<1> HIDE DEF Over
<1> QED BY <1>1, <1>5

\* A receipt that hides nothing of what it covers has its body.
LEMMA NothingHidden ==
  ASSUME NEW v, NEW r, Covers(v, r), Object(v.body), Object(r.body), DOMAIN v.hidden = {}
  PROVE  v.body = r.body
<1>1. DOMAIN v.body = DOMAIN r.body /\ \A f \in DOMAIN v.body : v.body[f] = r.body[f]
  BY DEF Covers
<1> QED BY <1>1 DEF Object

\* Before salts are drawn nobody signs a redacted body: what a counterparty signed
\* hides nothing.
LEMMA AttestationLifted ==
  ASSUME NEW bs, NEW os, Tooled(bs, os), AttestationErrors(bs) = {},
         \A i \in DOMAIN os : "attestation" \in DOMAIN os[i].body /\ os[i].body.attestation # None
                                => os[i].body.attestation.over[2] = <<>>
  PROVE  AttestationErrors(os) = {}
<1> SUFFICES ASSUME NEW r \in OfType(os, "delivery.attestation"), Get(r, "attestation") # None
             PROVE  Get(r, "attestation") = [by |-> Get(r, "attestation").by, over |-> AttestationView(r)]
  BY DEF AttestationErrors, When
<1>1. PICK i \in DOMAIN os : /\ r = os[i] /\ os[i].type = "delivery.attestation"
                             /\ bs[i] \in OfType(bs, "delivery.attestation")
  BY TooledBound
<1>2. PICK v : v = bs[i]
  OBVIOUS
<1>3. Covers(v, r) /\ r.hidden = <<>> /\ Object(v.body) /\ Object(r.body) /\ Object(v.hidden)
  BY <1>1, <1>2 DEF Tooled, Version, SealedAt, Whole
<1>4. Get(v, "attestation") = Get(r, "attestation")
  <2>1. "attestation" \in Unredactable(r.type)
    BY <1>1 DEF Unredactable
  <2> QED BY <1>3, <2>1, CoversHas
<1>5. PICK a : a = Get(r, "attestation")
  OBVIOUS
<1>6. a = [by |-> a.by, over |-> AttestationView(v)]
  BY <1>1, <1>2, <1>4, <1>5 DEF AttestationErrors, When
<1>7. a.over = <<Without(v.body, "attestation"), v.hidden>>
  BY <1>6 DEF AttestationView
<1>8. a.over[2] = <<>>
  <2>1. "attestation" \in DOMAIN r.body /\ a = r.body.attestation
    BY <1>5 DEF Get
  <2> QED BY <1>1, <1>5, <2>1
<1>9. v.hidden = <<>>
  BY <1>7, <1>8
<1>10. v.body = r.body
  BY <1>3, <1>9, NothingRedacted, NothingHidden
<1>11. AttestationView(v) = AttestationView(r)
  BY <1>3, <1>9, <1>10 DEF AttestationView
<1> QED BY <1>5, <1>6, <1>11

\* The provenance of a decision cannot be hidden.
LEMMA ProvenanceLifted ==
  ASSUME NEW bs, NEW os, Tooled(bs, os), ProvenanceErrors(bs) = {}
  PROVE  ProvenanceErrors(os) = {}
<1> SUFFICES ASSUME NEW r \in OfType(os, "task.decision")
             PROVE  Get(r, "input_provenance") \in {None, "sha256", "merkle-sha256"}
  BY DEF ProvenanceErrors, When
<1>1. PICK i \in DOMAIN os : /\ r = os[i] /\ os[i].type = "task.decision"
                             /\ bs[i] \in OfType(bs, "task.decision")
  BY TooledBound
<1>2. PICK v : v = bs[i]
  OBVIOUS
<1>3. Covers(v, r) /\ r.hidden = <<>>
  BY <1>1, <1>2 DEF Tooled
<1>4. Get(v, "input_provenance") = Get(r, "input_provenance")
  <2>1. "input_provenance" \in Unredactable(r.type)
    BY <1>1 DEF Unredactable, Required
  <2> QED BY <1>3, <2>1, CoversHas
<1> QED BY <1>1, <1>2, <1>4 DEF ProvenanceErrors, When

\* A digest is no null.
LEMMA DigestIsSome ==
  ASSUME NoneIsNoRecord, NEW v, Version(v), NEW i \in DOMAIN v
  PROVE  Digest(v[i]) = Unsigned(v[i]) /\ Unsigned(v[i]) # None
<1>1. DOMAIN v[i] = Fields /\ Encodable(v[i])
  BY DEF Version, SealedAt, Whole
<1>2. "id" \in DOMAIN Unsigned(v[i])
  BY <1>1 DEF Unsigned, Fields
<1> QED BY <1>1, <1>2 DEF Digest, NoneIsNoRecord

\* An anchor names the same place before and after.
LEMMA AnchorTarget ==
  ASSUME NEW bs, NEW os, Tooled(bs, os), NEW a
  PROVE  \/ ~AnchorHolds(bs, a) /\ ~AnchorHolds(os, a)
         \/ \E g \in DOMAIN os : /\ AnchorHolds(bs, a) <=> a.hash = Digest(bs[g])
                                 /\ AnchorHolds(os, a) <=> a.hash = Digest(os[g])
<1> DEFINE Targets(x) == {i \in DOMAIN x : x[i].id = a.target}
<1>1. \A x : AnchorHolds(x, a) <=> /\ Targets(x) # {} /\ Encodable(x[Greatest(Targets(x))])
                                  /\ a.hash = Digest(x[Greatest(Targets(x))])
  BY DEF AnchorHolds
<1>2. DOMAIN bs = DOMAIN os /\ \A i \in DOMAIN os : bs[i].id = os[i].id
  BY TooledRecords DEF Tooled, Kept
<1>3. Targets(bs) = Targets(os)
  BY <1>2
<1>4. DOMAIN os = 1..Len(os) /\ Len(os) \in Nat
  BY ListHas DEF Tooled, Version
<1>5. Targets(os) \subseteq Int /\ \A y \in Targets(os) : y <= Len(os)
  BY <1>4
<1>6. \A i \in DOMAIN os : Encodable(os[i]) /\ Encodable(bs[i])
  BY <1>2 DEF Tooled, Version, SealedAt, Whole
<1>7. Targets(os) \subseteq DOMAIN os
  OBVIOUS
<1> HIDE DEF Targets
<1>8. CASE Targets(os) = {}
  BY <1>1, <1>3, <1>8
<1>9. CASE Targets(os) # {}
  <2>1. PICK g : g = Greatest(Targets(os))
    OBVIOUS
  <2>2. g \in DOMAIN os
    BY <1>4, <1>5, <1>7, <1>9, <2>1, HasGreatest
  <2>3. (AnchorHolds(bs, a) <=> a.hash = Digest(bs[g])) /\ (AnchorHolds(os, a) <=> a.hash = Digest(os[g]))
    BY <1>1, <1>3, <1>6, <1>9, <2>1, <2>2
  <2> QED BY <2>2, <2>3
<1> QED BY <1>8, <1>9

\* An anchor made before holds after only where nothing changed.
LEMMA AnchorsLifted ==
  ASSUME NoneIsNoRecord, \A b \in Stories : Issued(b.receipts), NEW bs, NEW os, Tooled(bs, os),
         NEW a, a.hash \in FirstDigests \cup {None}, AnchorHolds(bs, a)
  PROVE  AnchorHolds(os, a)
<1>1. PICK g \in DOMAIN os : /\ AnchorHolds(bs, a) <=> a.hash = Digest(bs[g])
                             /\ AnchorHolds(os, a) <=> a.hash = Digest(os[g])
  BY AnchorTarget
<1>2. g \in DOMAIN bs /\ Version(bs)
  BY <1>1 DEF Tooled
<1>3. Digest(bs[g]) = Unsigned(bs[g]) /\ Unsigned(bs[g]) # None
  BY <1>2, DigestIsSome
<1>4. Unsigned(bs[g]) \in FirstDigests
  BY <1>1, <1>3
<1>5. bs[g] = os[g]
  BY <1>2, <1>4, FirstStays
<1> QED BY <1>1, <1>5

\* A head of the first chain holds after only if nothing changed.
LEMMA HeadLifted ==
  ASSUME NoneIsNoRecord, \A b \in Stories : Issued(b.receipts), NEW b, NEW o, Tooled(b.receipts, o.receipts),
         b.head = o.head, b.malformed = o.malformed, HeadErrors(b) = {},
         "chain_head" \notin b.malformed,
         o.head # None => o.head.of.digest \in FirstDigests \cup {None}
  PROVE  HeadErrors(o) = {}
<1>1. PICK bs, os : bs = b.receipts /\ os = o.receipts
  OBVIOUS
<1>2. Version(bs) /\ Version(os) /\ DOMAIN bs = DOMAIN os
  BY <1>1 DEF Tooled
<1>3. /\ DOMAIN bs = 1..Len(bs) /\ Len(bs) \in Nat
      /\ DOMAIN os = 1..Len(os) /\ Len(os) \in Nat
  BY <1>2, ListHas DEF Version
<1>4. Len(bs) = Len(os)
  <2>1. PICK m, k : m = Len(bs) /\ k = Len(os)
    OBVIOUS
  <2>2. m \in Nat /\ k \in Nat /\ 1..m = 1..k
    BY <1>2, <1>3, <2>1
  <2>3. m = k
    <3>1. m > 0 => m \in 1..m
      BY <2>2
    <3>2. k > 0 => k \in 1..k
      BY <2>2
    <3>3. m > 0 => m \in 1..k
      BY <2>2, <3>1
    <3>4. k > 0 => k \in 1..m
      BY <2>2, <3>2
    <3>5. (m > 0 => m <= k) /\ (k > 0 => k <= m /\ m > 0)
      BY <2>2, <3>3, <3>4
    <3> QED BY <2>2, <3>5
  <2> QED BY <2>1, <2>3
<1>5. PICK n : n = Len(os)
  OBVIOUS
<1>6. n \in DOMAIN bs /\ n \in DOMAIN os
  <2>1. Len(bs) # 0
    BY <1>2, ListHas, EmptySeq DEF Version, List
  <2> QED BY <1>3, <1>4, <1>5, <2>1
<1>7. CASE o.head = None
  BY <1>7 DEF HeadErrors
<1>8. CASE o.head # None
  <2>1. Encodable(bs[n]) /\ Encodable(os[n])
    BY <1>2, <1>6 DEF Version, SealedAt, Whole
  <2>2. b.head.of = HeadOf(bs)
    BY <1>1, <1>4, <1>5, <1>8, <2>1 DEF HeadErrors
  <2>3. HeadOf(bs).digest = Unsigned(bs[n])
    BY <1>4, <1>5, <2>1 DEF HeadOf, Digest
  <2>4. Unsigned(bs[n]) \in FirstDigests
    <3>1. Unsigned(bs[n]) # None
      BY <1>2, <1>6, DigestIsSome
    <3> QED BY <1>8, <2>2, <2>3, <3>1
  <2>5. bs[n] = os[n]
    BY <1>1, <1>6, <2>4, FirstStays
  <2>6. HeadOf(bs) = HeadOf(os)
    BY <1>4, <1>5, <2>5 DEF HeadOf
  <2>7. HeadErrors(o) = HeadErrors(b)
    BY <1>1, <1>4, <1>5, <2>1, <2>6 DEF HeadErrors
  <2> QED BY <2>7
<1> QED BY <1>7, <1>8

\* What had an error or an early return before still has one, or lacks evidence.
LEMMA NothingLifted ==
  ASSUME NoneIsNoRecord, DisclosureAssumption, IInv, ToolInv, moves = 0, Denominated(origin),
         ~Early(bundle), ErrorsOf(bundle) = {}, InsufficientOf(bundle) = {}
  PROVE  ~Early(origin) /\ ErrorsOf(origin) = {}
<1>1. PICK b, o : b = bundle /\ o = origin
  OBVIOUS
<1>2. /\ Tooled(b.receipts, o.receipts)
      /\ b.spec = o.spec /\ b.task = o.task /\ b.anchors = o.anchors /\ b.revocations = o.revocations
      /\ b.head = o.head /\ b.malformed = o.malformed
      /\ o.malformed = {} /\ o.revocations = {} /\ KnowsNoSalt(o)
  BY <1>1, BundleIsTooled DEF Members
<1>3. \A story \in Stories : Issued(story.receipts)
  BY DEF DisclosureAssumption
<1>4. PICK bs, os : bs = b.receipts /\ os = o.receipts
  OBVIOUS
<1>5. Tooled(bs, os)
  BY <1>2, <1>4
<1>6. /\ \A i \in DOMAIN bs : EnvelopeErrors(b, i) = {}
      /\ CrossRecordErrors(bs) = {} /\ AgreementErrors(bs) = {} /\ AuthorityErrors(bs) = {}
      /\ AttestationErrors(bs) = {} /\ ProvenanceErrors(bs) = {}
      /\ AnchorErrors(b) = {} /\ HeadErrors(b) = {}
  BY <1>1, <1>4, NoErrors
<1>7. AgreementInsufficient(bs) = {} /\ AuthorityInsufficient(bs) = {}
  BY <1>1, <1>4 DEF InsufficientOf
<1>8. ShapeErrors(o) = {}
  BY <1>2 DEF ShapeErrors, When
<1>9. \A i \in DOMAIN os : EnvelopeErrors(o, i) = {}
  BY <1>2, <1>4, <1>6, EnvelopesLifted
<1>10. CrossRecordErrors(os) = {}
  BY <1>1, <1>4, <1>5, <1>6, CrossLifted DEF Denominated
<1>11. AgreementErrors(os) = {} /\ AuthorityErrors(os) = {}
  BY <1>5, <1>6, <1>7, AgreementLifted, AuthorityLifted
<1>12. RedactionErrors(o) = {}
  <2>1. \A i \in DOMAIN os : DOMAIN os[i].hidden = {}
    BY <1>5, NothingRedacted DEF Tooled
  <2>2. Places(os) = {}
    <3> SUFFICES ASSUME NEW p \in Places(os) PROVE FALSE
      OBVIOUS
    <3>1. PICK i \in DOMAIN os : p \in {<<i, f>> : f \in DOMAIN os[i].hidden}
      BY DEF Places
    <3> QED BY <2>1, <3>1
  <2> QED BY <1>4, <2>2 DEF RedactionErrors, When
<1>13. AttestationErrors(os) = {}
  <2>1. \A i \in DOMAIN os : "attestation" \in DOMAIN os[i].body /\ os[i].body.attestation # None
                                => os[i].body.attestation.over[2] = <<>>
    BY <1>2, <1>4 DEF KnowsNoSalt
  <2> QED BY <1>5, <1>6, <2>1, AttestationLifted
<1>14. ProvenanceErrors(os) = {}
  BY <1>5, <1>6, ProvenanceLifted
<1>15. RevocationErrors(o, {}) = {}
  <2>1. MergeStatements(o, {}) = {}
    BY <1>2 DEF MergeStatements
  <2> QED BY <1>2, <2>1 DEF RevocationErrors, When
<1>16. AnchorErrors(o) = {}
  <2>1. \A a \in o.anchors : AnchorHolds(bs, a) /\ a.kind \in AnchorTypes \cup {None}
    BY <1>2, <1>4, <1>6 DEF AnchorErrors, When
  <2>2. \A a \in o.anchors : a.hash \in FirstDigests \cup {None}
    BY <1>2 DEF KnowsNoSalt
  <2>3. \A a \in o.anchors : AnchorHolds(os, a)
    BY <1>3, <1>5, <2>1, <2>2, AnchorsLifted
  <2> QED BY <1>4, <2>1, <2>3 DEF AnchorErrors, When
<1>17. HeadErrors(o) = {}
  <2>1. o.head # None => o.head.of.digest \in FirstDigests \cup {None}
    BY <1>2 DEF KnowsNoSalt
  <2> QED BY <1>2, <1>3, <1>6, <2>1, HeadLifted
<1>18. ErrorsOf(o) = {}
  BY <1>4, <1>8, <1>9, <1>10, <1>11, <1>12, <1>13, <1>14, <1>15, <1>16, <1>17, NoErrors
<1>19. ~Early(o)
  BY <1>1, <1>2 DEF Early, Tooled, Version
<1> QED BY <1>1, <1>18, <1>19

-----------------------------------------------------------------------------
(* What hiding does not help *)

\* Redacting and disclosing do not lift a bundle out of UNTRUSTED: what a rule reads
\* is either required, and so there, or missed (disclose.py, redact; verify.py).
THEOREM HidingDoesNotHelp == NoneIsNoRecord => (Spec => []HidingNeverHelps)
<1> SUFFICES ASSUME NoneIsNoRecord PROVE Spec => []HidingNeverHelps
  OBVIOUS
<1>1. IInv /\ ToolInv => HidingNeverHelps
  <2> SUFFICES ASSUME IInv, ToolInv, moves = 0, Denominated(origin), First.verdict = "UNTRUSTED",
                      Sound(Outcome)
               PROVE  FALSE
    BY DEF HidingNeverHelps
  <2>1. ~Early(bundle) /\ ErrorsOf(bundle) = {} /\ InsufficientOf(bundle) = {}
    BY VerdictOf DEF Sound, Outcome
  <2>2. Early(origin) \/ ErrorsOf(origin) # {}
    BY VerdictOf DEF First
  <2> QED BY <2>1, <2>2, DisclosureAssumption, NothingLifted
<1> QED BY <1>1, ToolInductive, PTL

-----------------------------------------------------------------------------
(* Chains that read alike *)

\* The optional fields some rule reads.
RuleFields == {"spend_cap", "offeree", "agreement_ref", "authority_ref", "expires_at"} \cup Shaped

\* v and r are the same for every rule about single fields.
Reads(v, r) ==
    /\ \A f \in Kept : v[f] = r[f]
    /\ \A f : Has(v, f) <=> Has(r, f)
    /\ \A f \in Unredactable(r.type) \cup RuleFields : Get(v, f) = Get(r, f) /\ GetTime(v, f) = GetTime(r, f)
    /\ v.body.shape = r.body.shape
    /\ DOMAIN v.hidden \cap RuleFields = {} /\ DOMAIN r.hidden \cap RuleFields = {}

\* A reference leads to the same record in both chains, at the same place.
Leads(p, q, ref) ==
    \A type : /\ Resolve(p, type, ref) = Resolve(q, type, ref)
              /\ \A k \in DOMAIN p : Resolve(p, type, ref) = p[k] <=> Resolve(q, type, ref) = q[k]

\* Two chains that the rules about references and order cannot tell apart.
Alike(p, q) ==
    /\ DOMAIN p = DOMAIN q
    /\ \A i \in DOMAIN p : Reads(p[i], q[i])
    /\ \A i \in DOMAIN p : \A f \in References \cap (Unredactable(p[i].type) \cup RuleFields) :
         Leads(p, q, Get(p[i], f))

\* Neither comes first.
LEMMA AlikeBack ==
  ASSUME NEW p, NEW q, Alike(p, q)
  PROVE  Alike(q, p)
<1>1. \A i \in DOMAIN p : Reads(q[i], p[i])
  BY DEF Alike, Reads, Kept
<1>2. \A i \in DOMAIN p : \A f \in References \cap (Unredactable(p[i].type) \cup RuleFields) :
         Get(p[i], f) = Get(q[i], f) /\ p[i].type = q[i].type
  BY <1>1 DEF Reads, Kept
<1>3. \A i \in DOMAIN p : p[i].type = q[i].type
  BY <1>1 DEF Reads, Kept
<1>4. \A ref : Leads(p, q, ref) => Leads(q, p, ref)
  BY DEF Leads, Alike
<1> QED BY <1>1, <1>2, <1>3, <1>4 DEF Alike

\* Their records of a type, and those that are bound, stand at the same places.
LEMMA AlikeRecords ==
  ASSUME NEW p, NEW q, Alike(p, q)
  PROVE  /\ \A type : Indexes(p, type) = Indexes(q, type)
         /\ \A type : \A r \in OfType(q, type) :
              \E i \in DOMAIN q : r = q[i] /\ q[i].type = type /\ p[i] \in OfType(p, type)
         /\ \A n : \A r \in Bound(q, n) : \E i \in DOMAIN q : r = q[i] /\ p[i] \in Bound(p, n)
<1>1. /\ DOMAIN p = DOMAIN q
      /\ \A i \in DOMAIN q : p[i].type = q[i].type /\ p[i].spec = q[i].spec
  BY DEF Alike, Reads, Kept
<1>2. ASSUME NEW type, NEW r \in OfType(q, type)
      PROVE  \E i \in DOMAIN q : r = q[i] /\ q[i].type = type /\ p[i] \in OfType(p, type)
  BY <1>1 DEF OfType, Indexes
<1>3. ASSUME NEW n, NEW r \in Bound(q, n)
      PROVE  \E i \in DOMAIN q : r = q[i] /\ p[i] \in Bound(p, n)
  BY <1>1 DEF Bound
<1>4. \A type : Indexes(p, type) = Indexes(q, type)
  BY <1>1 DEF Indexes
<1> QED BY <1>2, <1>3, <1>4

\* What their records refer to.
LEMMA AlikeRefer ==
  ASSUME NEW p, NEW q, Alike(p, q), NEW i \in DOMAIN p
  PROVE  /\ p[i].type = "agreement.accept" => OfferOf(p, p[i]) = OfferOf(q, q[i])
         /\ AcceptOf(p, p[i]) = AcceptOf(q, q[i])
         /\ GrantOf(p, p[i]) = GrantOf(q, q[i])
         /\ \A k \in DOMAIN p : /\ AcceptOf(p, p[i]) = p[k] <=> AcceptOf(q, q[i]) = q[k]
                                /\ GrantOf(p, p[i]) = p[k] <=> GrantOf(q, q[i]) = q[k]
<1>1. \A f \in References \cap (Unredactable(p[i].type) \cup RuleFields) :
         Get(p[i], f) = Get(q[i], f) /\ Leads(p, q, Get(p[i], f))
  BY DEF Alike, Reads, Kept
<1>2. "agreement_ref" \in References \cap RuleFields /\ "authority_ref" \in References \cap RuleFields
  BY DEF References, RuleFields
<1>3. ASSUME p[i].type = "agreement.accept" PROVE "offer_ref" \in References \cap Unredactable(p[i].type)
  BY <1>3 DEF References, Unredactable, Required
<1>4. p[i].type = "agreement.accept" => OfferOf(p, p[i]) = OfferOf(q, q[i])
  BY <1>1, <1>3 DEF OfferOf, Leads
<1>5. /\ AcceptOf(p, p[i]) = AcceptOf(q, q[i])
      /\ \A k \in DOMAIN p : AcceptOf(p, p[i]) = p[k] <=> AcceptOf(q, q[i]) = q[k]
  BY <1>1, <1>2 DEF AcceptOf, Leads
<1>6. /\ GrantOf(p, p[i]) = GrantOf(q, q[i])
      /\ \A k \in DOMAIN p : GrantOf(p, p[i]) = p[k] <=> GrantOf(q, q[i]) = q[k]
  BY <1>1, <1>2 DEF GrantOf, Leads
<1> QED BY <1>4, <1>5, <1>6

\* The rules about offers and acceptances: no more errors in one than in the other.
LEMMA AlikeAgree ==
  ASSUME NEW p, NEW q, Alike(p, q)
  PROVE  AgreementErrors(p) = {} => AgreementErrors(q) = {}
<1> DEFINE Offered(s) == {x \in OfType(s, "agreement.accept") : OfferOf(s, x) # None}
           Accepted(s) == {x \in Bound(s, 4) : AcceptOf(s, x) # None}
           Late(r, a) == When(Earlier(r.at, a.at), "agreement_before_accept")
                         \cup When(Get(a, "offeree") \notin {None, r.issuer}, "agreement_issuer_mismatch")
<1>1. \A s : AgreementErrors(s) = (UNION {AcceptErrors(a, OfferOf(s, a)) : a \in Offered(s)})
                 \cup UNION {Late(r, AcceptOf(s, r)) : r \in Accepted(s)}
  BY Zenon DEF AgreementErrors
<1> SUFFICES ASSUME AgreementErrors(p) = {} PROVE AgreementErrors(q) = {}
  OBVIOUS
<1> HIDE DEF Offered, Accepted
<1>2. /\ \A a \in Offered(p) : AcceptErrors(a, OfferOf(p, a)) = {}
      /\ \A r \in Accepted(p) : Late(r, AcceptOf(p, r)) = {}
  BY <1>1
<1>3. ASSUME NEW a \in Offered(q) PROVE AcceptErrors(a, OfferOf(q, a)) = {}
  <2>1. a \in OfType(q, "agreement.accept") /\ OfferOf(q, a) # None
    BY <1>3 DEF Offered
  <2>2. PICK i \in DOMAIN q : /\ a = q[i] /\ q[i].type = "agreement.accept"
                              /\ p[i] \in OfType(p, "agreement.accept")
    BY <2>1, AlikeRecords
  <2>3. Reads(p[i], a) /\ i \in DOMAIN p
    BY <2>2 DEF Alike
  <2>4. OfferOf(p, p[i]) = OfferOf(q, a)
    BY <2>2, <2>3, AlikeRefer DEF Reads, Kept
  <2>5. AcceptErrors(p[i], OfferOf(p, p[i])) = {}
    BY <1>2, <2>1, <2>2, <2>4 DEF Offered
  <2>6. PICK v, o : v = p[i] /\ o = OfferOf(q, a)
    OBVIOUS
  <2>7. /\ v.at = a.at /\ v.spec = a.spec /\ v.issuer = a.issuer
        /\ Get(v, "terms") = Get(a, "terms") /\ Get(v, "offeree") = Get(a, "offeree")
    <3>1. "terms" \in Unredactable(a.type) /\ "offeree" \in RuleFields
      BY <2>2 DEF Unredactable, Required, RuleFields
    <3> QED BY <2>3, <2>6, <3>1 DEF Reads, Kept
  <2>8. AcceptErrors(a, o) = AcceptErrors(v, o)
    BY <2>7 DEF AcceptErrors, OffereeAgrees
  <2> QED BY <2>4, <2>5, <2>6, <2>8
<1>4. ASSUME NEW r \in Accepted(q) PROVE Late(r, AcceptOf(q, r)) = {}
  <2>1. r \in Bound(q, 4) /\ AcceptOf(q, r) # None
    BY <1>4 DEF Accepted
  <2>2. PICK i \in DOMAIN q : r = q[i] /\ p[i] \in Bound(p, 4)
    BY <2>1, AlikeRecords
  <2>3. Reads(p[i], r) /\ i \in DOMAIN p
    BY <2>2 DEF Alike
  <2>4. AcceptOf(p, p[i]) = AcceptOf(q, r)
    BY <2>2, <2>3, AlikeRefer
  <2>5. Late(p[i], AcceptOf(p, p[i])) = {}
    BY <1>2, <2>1, <2>2, <2>4 DEF Accepted
  <2>6. p[i].at = r.at /\ p[i].issuer = r.issuer
    BY <2>3 DEF Reads, Kept
  <2> QED BY <2>4, <2>5, <2>6
<1> HIDE DEF Late
<1>5. (UNION {AcceptErrors(a, OfferOf(q, a)) : a \in Offered(q)}) = {}
  BY <1>3
<1>6. (UNION {Late(r, AcceptOf(q, r)) : r \in Accepted(q)}) = {}
  BY <1>4
<1> QED BY <1>1, <1>5, <1>6

\* What is missing of agreements, and what is not referred to.
LEMMA AlikeIncomplete ==
  ASSUME NEW p, NEW q, Alike(p, q)
  PROVE  /\ AgreementInsufficient(p) = {} => AgreementInsufficient(q) = {}
         /\ AgreementProvisional(p) = {} => AgreementProvisional(q) = {}
<1>1. ASSUME AgreementInsufficient(p) = {} PROVE AgreementInsufficient(q) = {}
  <2>1. /\ \A a \in OfType(p, "agreement.accept") : OfferOf(p, a) # None
        /\ \A r \in Bound(p, 4) : Has(r, "agreement_ref") => AcceptOf(p, r) # None
    BY <1>1 DEF AgreementInsufficient, When
  <2>2. ASSUME NEW a \in OfType(q, "agreement.accept") PROVE OfferOf(q, a) # None
    <3>1. PICK i \in DOMAIN q : /\ a = q[i] /\ q[i].type = "agreement.accept"
                                /\ p[i] \in OfType(p, "agreement.accept")
      BY <2>2, AlikeRecords
    <3>2. Reads(p[i], a) /\ i \in DOMAIN p
      BY <3>1 DEF Alike
    <3> QED BY <2>1, <3>1, <3>2, AlikeRefer DEF Reads, Kept
  <2>3. ASSUME NEW r \in Bound(q, 4), Has(r, "agreement_ref") PROVE AcceptOf(q, r) # None
    <3>1. PICK i \in DOMAIN q : r = q[i] /\ p[i] \in Bound(p, 4)
      BY <2>3, AlikeRecords
    <3>2. Reads(p[i], r) /\ i \in DOMAIN p
      BY <3>1 DEF Alike
    <3>3. Has(p[i], "agreement_ref")
      BY <2>3, <3>2 DEF Reads
    <3>4. AcceptOf(p, p[i]) = AcceptOf(q, r)
      BY <3>1, <3>2, AlikeRefer
    <3> QED BY <2>1, <3>1, <3>3, <3>4
  <2> QED BY <2>2, <2>3 DEF AgreementInsufficient, When
<1>2. ASSUME AgreementProvisional(p) = {} PROVE AgreementProvisional(q) = {}
  <2> DEFINE accepts(s) == {a \in OfType(s, "agreement.accept") : a.spec >= 4 /\ Encodable(a)}
             Waits(r, a) == ~Has(r, "agreement_ref") /\ Get(a, "offeree") = r.issuer /\ Follows(r, a)
  <2>1. \A s : AgreementProvisional(s) =
          When(\E a \in accepts(s) : \A r \in Bound(s, 4) : AcceptOf(s, r) # a, "agreement_unreferenced")
          \cup When(\E r \in Bound(s, 4), a \in accepts(s) : Waits(r, a), "missing_agreement_ref")
    BY DEF AgreementProvisional
  <2>2. ASSUME NEW a \in accepts(q)
        PROVE  \E k \in DOMAIN q : a = q[k] /\ p[k] \in accepts(p) /\ Reads(p[k], a)
    <3>1. PICK k \in DOMAIN q : a = q[k] /\ p[k] \in OfType(p, "agreement.accept")
      BY <2>2, AlikeRecords
    <3>2. Reads(p[k], a)
      BY <3>1 DEF Alike
    <3>3. p[k].spec = a.spec /\ (Encodable(p[k]) <=> Encodable(a))
      BY <3>2 DEF Reads, Kept, Encodable
    <3> QED BY <2>2, <3>1, <3>2, <3>3
  <2> HIDE DEF accepts, Waits
  <2>3. /\ \A a \in accepts(p) : \E r \in Bound(p, 4) : AcceptOf(p, r) = a
        /\ \A r \in Bound(p, 4), a \in accepts(p) : ~Waits(r, a)
    BY <1>2, <2>1 DEF When
  <2>4. ASSUME NEW a \in accepts(q) PROVE \E r \in Bound(q, 4) : AcceptOf(q, r) = a
    <3>1. PICK k \in DOMAIN q : a = q[k] /\ p[k] \in accepts(p)
      BY <2>2, <2>4
    <3>2. PICK r \in Bound(p, 4) : AcceptOf(p, r) = p[k]
      BY <2>3, <3>1
    <3>3. PICK i \in DOMAIN p : r = p[i] /\ q[i] \in Bound(q, 4)
      BY <3>2, AlikeBack, AlikeRecords
    <3>4. AcceptOf(q, q[i]) = q[k]
      BY <3>1, <3>2, <3>3, AlikeRefer DEF Alike
    <3> QED BY <3>1, <3>3, <3>4
  <2>5. ASSUME NEW r \in Bound(q, 4), NEW a \in accepts(q) PROVE ~Waits(r, a)
    <3>1. PICK k \in DOMAIN q : a = q[k] /\ p[k] \in accepts(p) /\ Reads(p[k], a)
      BY <2>2, <2>5
    <3>2. PICK i \in DOMAIN q : r = q[i] /\ p[i] \in Bound(p, 4)
      BY <2>5, AlikeRecords
    <3>3. Reads(p[i], r)
      BY <3>2 DEF Alike
    <3>4. ~Waits(p[i], p[k])
      BY <2>3, <3>1, <3>2
    <3>5. /\ p[i].at = r.at /\ p[i].issuer = r.issuer /\ p[k].at = a.at
          /\ Has(p[i], "agreement_ref") <=> Has(r, "agreement_ref")
          /\ Get(p[k], "offeree") = Get(a, "offeree")
      BY <3>1, <3>3 DEF Reads, Kept, RuleFields
    <3> QED BY <3>4, <3>5 DEF Waits, Follows
  <2> QED BY <2>1, <2>4, <2>5 DEF When
<1> QED BY <1>1, <1>2

\* The rules about authorities.
LEMMA AlikeAuthorize ==
  ASSUME NEW p, NEW q, Alike(p, q)
  PROVE  /\ AuthorityErrors(p) = {} => AuthorityErrors(q) = {}
         /\ AuthorityInsufficient(p) = {} => AuthorityInsufficient(q) = {}
         /\ AuthorityProvisional(p) = {} => AuthorityProvisional(q) = {}
<1>1. ASSUME AuthorityErrors(p) = {} PROVE AuthorityErrors(q) = {}
  <2> DEFINE Granted(s) == {x \in Bound(s, 6) : GrantOf(s, x) # None}
             Over(r, g) == When(Earlier(r.at, Effective(g)), "authority_before_grant")
                           \cup When(Get(g, "agent") \notin {None, r.issuer}, "authority_agent_mismatch")
                           \cup When(Earlier(GetTime(g, "expires_at"), r.at), "authority_expired")
  <2>1. \A s : AuthorityErrors(s) = UNION {Over(r, GrantOf(s, r)) : r \in Granted(s)}
    BY Zenon DEF AuthorityErrors
  <2> HIDE DEF Granted
  <2>2. \A r \in Granted(p) : Over(r, GrantOf(p, r)) = {}
    BY <1>1, <2>1
  <2>3. ASSUME NEW r \in Granted(q) PROVE Over(r, GrantOf(q, r)) = {}
    <3>1. r \in Bound(q, 6) /\ GrantOf(q, r) # None
      BY <2>3 DEF Granted
    <3>2. PICK i \in DOMAIN q : r = q[i] /\ p[i] \in Bound(p, 6)
      BY <3>1, AlikeRecords
    <3>3. Reads(p[i], r) /\ i \in DOMAIN p
      BY <3>2 DEF Alike
    <3>4. GrantOf(p, p[i]) = GrantOf(q, r)
      BY <3>2, <3>3, AlikeRefer
    <3>5. Over(p[i], GrantOf(p, p[i])) = {}
      BY <2>2, <3>1, <3>2, <3>4 DEF Granted
    <3>6. p[i].at = r.at /\ p[i].issuer = r.issuer
      BY <3>3 DEF Reads, Kept
    <3> QED BY <3>4, <3>5, <3>6
  <2> HIDE DEF Over
  <2> QED BY <2>1, <2>3
<1>2. ASSUME AuthorityInsufficient(p) = {} PROVE AuthorityInsufficient(q) = {}
  <2>1. \A r \in Bound(p, 6) : Has(r, "authority_ref") => GrantOf(p, r) # None
    BY <1>2 DEF AuthorityInsufficient, When
  <2>2. ASSUME NEW r \in Bound(q, 6), Has(r, "authority_ref") PROVE GrantOf(q, r) # None
    <3>1. PICK i \in DOMAIN q : r = q[i] /\ p[i] \in Bound(p, 6)
      BY <2>2, AlikeRecords
    <3>2. Reads(p[i], r) /\ i \in DOMAIN p
      BY <3>1 DEF Alike
    <3>3. Has(p[i], "authority_ref")
      BY <2>2, <3>2 DEF Reads
    <3>4. GrantOf(p, p[i]) = GrantOf(q, r)
      BY <3>1, <3>2, AlikeRefer
    <3> QED BY <2>1, <3>1, <3>3, <3>4
  <2> QED BY <2>2 DEF AuthorityInsufficient, When
<1>3. ASSUME AuthorityProvisional(p) = {} PROVE AuthorityProvisional(q) = {}
  <2>1. \A g \in OfType(p, "authority.grant") : Encodable(g) => \E r \in Bound(p, 6) : GrantOf(p, r) = g
    BY <1>3 DEF AuthorityProvisional, When
  <2>2. ASSUME NEW g \in OfType(q, "authority.grant"), Encodable(g)
        PROVE  \E r \in Bound(q, 6) : GrantOf(q, r) = g
    <3>1. PICK k \in DOMAIN q : g = q[k] /\ p[k] \in OfType(p, "authority.grant")
      BY <2>2, AlikeRecords
    <3>2. Reads(p[k], g)
      BY <3>1 DEF Alike
    <3>3. Encodable(p[k])
      BY <2>2, <3>2 DEF Reads, Encodable
    <3>4. PICK r \in Bound(p, 6) : GrantOf(p, r) = p[k]
      BY <2>1, <3>1, <3>3
    <3>5. PICK i \in DOMAIN p : r = p[i] /\ q[i] \in Bound(q, 6)
      BY <3>4, AlikeBack, AlikeRecords
    <3>6. GrantOf(q, q[i]) = q[k]
      BY <3>1, <3>4, <3>5, AlikeRefer DEF Alike
    <3> QED BY <3>1, <3>5, <3>6
  <2> QED BY <2>2 DEF AuthorityProvisional, When
<1> QED BY <1>1, <1>2, <1>3

\* The rules about several records.
LEMMA AlikeCross ==
  ASSUME NEW p, NEW q, Alike(p, q), NEW n \in Nat, DOMAIN p = 1..n
  PROVE  CrossRecordErrors(p) = {} => CrossRecordErrors(q) = {}
<1> SUFFICES ASSUME CrossRecordErrors(p) = {} PROVE CrossRecordErrors(q) = {}
  OBVIOUS
<1> DEFINE Passes(s) == Indexes(s, "session.pass.created")
           P(s) == s[Least(Passes(s))]
           Policy(s, x) == \E r \in OfType(s, "task.decision") :
              Get(r, "policy_version") # Get(x, "policy_version")
           Cap(s, x) == \E r \in OfType(s, "settlement") :
                   /\ CapOf(x) # None
                   /\ \/ Get(r, "amount").currency # CapOf(x).currency
                      \/ Get(r, "amount").minor > CapOf(x).minor
           Gate(s) == \E i \in Indexes(s, "settlement") :
                   /\ Get(s[i], "gated_on_delivery") = TRUE
                   /\ ~DeliveredBefore(s, i)
           End(s) == Indexes(s, "task.termination") = {}
<1>1. \A s : CrossRecordErrors(s) = IF Passes(s) = {} THEN {"malformed"} ELSE
         When(Policy(s, P(s)), "policy_mismatch") \cup When(Cap(s, P(s)), "cap_exceeded")
         \cup When(Gate(s), "delivery_before_settlement") \cup When(End(s), "missing_termination")
  BY Zenon DEF CrossRecordErrors
<1>2. /\ DOMAIN p = DOMAIN q
      /\ \A type : Indexes(p, type) = Indexes(q, type)
      /\ \A i \in DOMAIN q : Reads(p[i], q[i])
  BY AlikeRecords DEF Alike
<1>3. Passes(p) = Passes(q) /\ (End(p) <=> End(q))
  BY <1>2
<1>4. PICK m : m = Least(Passes(q))
  OBVIOUS
<1>5. P(p) = p[m] /\ P(q) = q[m]
  BY <1>3, <1>4
<1> HIDE DEF Policy, Cap, Gate, End
<1>6. Passes(p) # {}
  BY <1>1
<1> HIDE DEF Passes
<1>7. ~Policy(p, P(p)) /\ ~Cap(p, P(p)) /\ ~Gate(p) /\ ~End(p)
  BY <1>1, <1>6 DEF When
<1> HIDE DEF P
<1>8. m \in DOMAIN q /\ q[m].type = "session.pass.created"
  <2>1. Passes(q) # {} /\ Passes(q) \subseteq DOMAIN q
    BY <1>3, <1>6 DEF Passes, Indexes
  <2>2. Passes(q) \subseteq Nat
    BY <1>2, <2>1
  <2>3. m \in Passes(q)
    BY <1>4, <2>1, <2>2, HasLeast
  <2> QED BY <2>3 DEF Passes, Indexes
<1>9. \A i \in DOMAIN q : \A f \in Required(q[i].type) : Get(p[i], f) = Get(q[i], f)
  BY <1>2 DEF Reads, Unredactable
<1>10. ~Policy(q, P(q))
  <2>1. Get(p[m], "policy_version") = Get(q[m], "policy_version")
    BY <1>8, <1>9 DEF Required
  <2>2. ASSUME NEW r \in OfType(q, "task.decision") PROVE Get(r, "policy_version") = Get(q[m], "policy_version")
    <3>1. PICK i \in DOMAIN q : r = q[i] /\ q[i].type = "task.decision" /\ p[i] \in OfType(p, "task.decision")
      BY AlikeRecords
    <3>2. Get(p[i], "policy_version") = Get(q[i], "policy_version")
      BY <1>9, <3>1 DEF Required
    <3> QED BY <1>5, <1>7, <2>1, <3>1, <3>2 DEF Policy
  <2> QED BY <1>5, <2>2 DEF Policy
<1>11. ~Gate(q)
  <2> SUFFICES ASSUME NEW i \in Indexes(q, "settlement"), Get(q[i], "gated_on_delivery") = TRUE
               PROVE  DeliveredBefore(q, i)
    BY DEF Gate
  <2>1. i \in DOMAIN q /\ q[i].type = "settlement" /\ i \in Indexes(p, "settlement")
    BY <1>2 DEF Indexes
  <2>2. Get(p[i], "gated_on_delivery") = TRUE
    BY <1>9, <2>1 DEF Required
  <2>3. DeliveredBefore(p, i)
    BY <1>7, <2>1, <2>2 DEF Gate
  <2> QED BY <1>2, <2>3 DEF DeliveredBefore
<1>12. ~Cap(q, P(q))
  <2> SUFFICES ASSUME NEW r \in OfType(q, "settlement"), CapOf(q[m]) # None
               PROVE  /\ Get(r, "amount").currency = CapOf(q[m]).currency
                      /\ ~(Get(r, "amount").minor > CapOf(q[m]).minor)
    BY <1>5 DEF Cap
  <2>1. PICK i \in DOMAIN q : r = q[i] /\ q[i].type = "settlement" /\ p[i] \in OfType(p, "settlement")
    BY AlikeRecords
  <2>2. Get(p[i], "amount") = Get(r, "amount")
    BY <1>9, <2>1 DEF Required
  <2>3. CapOf(p[m]) = CapOf(q[m])
    BY <1>2, <1>8 DEF CapOf, Reads, RuleFields
  <2> QED BY <1>5, <1>7, <2>1, <2>2, <2>3 DEF Cap
<1> QED BY <1>1, <1>3, <1>6, <1>7, <1>10, <1>11, <1>12 DEF When

\* The rules about one body.
LEMMA AlikeBodies ==
  ASSUME NEW v, NEW r, Reads(v, r)
  PROVE  BodyErrors(v) = BodyErrors(r)
<1> DEFINE checked(x) == \/ x.spec \in {5, 6} /\ x.type \in {"session.pass.created", "task.execution",
                                                             "state.commitment"}
                         \/ x.spec = 6 /\ x.type = "authority.grant"
           grant(x) == x.spec = 6 /\ x.type = "authority.grant"
           bad(x) == checked(x) /\ (x.body.shape = "bad" \/ DOMAIN x.hidden \cap Shaped # {})
           late(x) == \/ ~ValidTime(GetTime(x, "granted_at"))
                      \/ Has(x, "expires_at") /\ ~ValidTime(GetTime(x, "expires_at"))
                      \/ Has(x, "expires_at") /\ GetTime(x, "expires_at") <= GetTime(x, "granted_at")
<1>1. \A x : BodyErrors(x) = When(bad(x), "malformed") \cup When(grant(x) /\ late(x), "malformed")
  BY DEF BodyErrors
<1>2. v.spec = r.spec /\ v.type = r.type
  BY DEF Reads, Kept
<1>3. v.body.shape = r.body.shape /\ DOMAIN r.hidden \cap Shaped = {} /\ DOMAIN v.hidden \cap Shaped = {}
  BY DEF Reads, RuleFields
<1>4. bad(v) <=> bad(r)
  BY <1>2, <1>3
<1>5. grant(v) <=> grant(r)
  BY <1>2
<1>6. ASSUME grant(r) PROVE late(v) <=> late(r)
  <2>1. "granted_at" \in Unredactable(r.type) /\ "expires_at" \in RuleFields
    BY <1>6 DEF Unredactable, Required, RuleFields
  <2>2. /\ GetTime(v, "granted_at") = GetTime(r, "granted_at")
        /\ GetTime(v, "expires_at") = GetTime(r, "expires_at")
        /\ Has(v, "expires_at") <=> Has(r, "expires_at")
    BY <2>1 DEF Reads
  <2> QED BY <2>2
<1> HIDE DEF bad, grant, late
<1> QED BY <1>1, <1>4, <1>5, <1>6 DEF When

\* The rule about the provenance of decisions.
LEMMA AlikeProvenance ==
  ASSUME NEW p, NEW q, Alike(p, q)
  PROVE  ProvenanceErrors(p) = {} => ProvenanceErrors(q) = {}
<1> SUFFICES ASSUME ProvenanceErrors(p) = {}, NEW r \in OfType(q, "task.decision")
             PROVE  Get(r, "input_provenance") \in {None, "sha256", "merkle-sha256"}
  BY DEF ProvenanceErrors, When
<1>1. PICK i \in DOMAIN q : /\ r = q[i] /\ q[i].type = "task.decision"
                            /\ p[i] \in OfType(p, "task.decision")
  BY AlikeRecords
<1>2. Reads(p[i], r)
  BY <1>1 DEF Alike
<1>3. Get(p[i], "input_provenance") = Get(r, "input_provenance")
  <2>1. "input_provenance" \in Unredactable(r.type)
    BY <1>1 DEF Unredactable, Required
  <2> QED BY <1>2, <2>1 DEF Reads
<1> QED BY <1>1, <1>3 DEF ProvenanceErrors, When

\* What a counterparty signed, if no attested body has changed.
LEMMA AlikeAttested ==
  ASSUME NEW p, NEW q, Alike(p, q),
         \A i \in DOMAIN q : Get(q[i], "attestation") # None =>
            p[i].body = q[i].body /\ p[i].hidden = q[i].hidden
  PROVE  AttestationErrors(p) = {} => AttestationErrors(q) = {}
<1> SUFFICES ASSUME AttestationErrors(p) = {}, NEW r \in OfType(q, "delivery.attestation"),
                    Get(r, "attestation") # None
             PROVE  Get(r, "attestation") = [by |-> Get(r, "attestation").by, over |-> AttestationView(r)]
  BY DEF AttestationErrors, When
<1>1. PICK i \in DOMAIN q : /\ r = q[i] /\ p[i] \in OfType(p, "delivery.attestation")
  BY AlikeRecords
<1>2. p[i].body = r.body /\ p[i].hidden = r.hidden
  BY <1>1
<1>3. Get(p[i], "attestation") = Get(r, "attestation") /\ AttestationView(p[i]) = AttestationView(r)
  BY <1>2 DEF Get, AttestationView
<1> QED BY <1>1, <1>3 DEF AttestationErrors, When

-----------------------------------------------------------------------------
(* What is disclosed again *)

\* bs is what the tool has made of os with nothing hidden that a rule reads, and
\* nothing changed before start.
Unread(bs, os, start) ==
    /\ Tooled(bs, os)
    /\ \A i \in DOMAIN os : /\ DOMAIN bs[i].hidden \cap RuleFields = {}
                            /\ "attestation" \in DOMAIN os[i].body => DOMAIN bs[i].hidden = {}
                            /\ i < start => bs[i] = os[i]

\* A digest from the first chains, and of nothing that was signed again.
Settled(os, start, ref) ==
    /\ ref \in FirstDigests \cup {None}
    /\ \A k \in DOMAIN os : k >= start => Unsigned(os[k]) # ref

\* Where one receipt stands, no other does.
LEMMA ReceiptsDiffer ==
  ASSUME NoneIsNoRecord, NEW v, Version(v), NEW i \in DOMAIN v
  PROVE  v[i] # None /\ \A j \in DOMAIN v : v[i] = v[j] => i = j
<1>1. v[i] # None
  <2>1. "id" \in DOMAIN v[i]
    BY DEF Version, SealedAt, Whole, Fields
  <2> QED BY <2>1 DEF NoneIsNoRecord
<1> QED BY <1>1, VersionIsOrderly, DigestsAreUnique

\* What refers to nothing that was signed again leads where it did.
LEMMA SettledLeads ==
  ASSUME NoneIsNoRecord, \A b \in Stories : Issued(b.receipts), NEW bs, NEW os, NEW start \in Nat,
         Unread(bs, os, start), NEW ref, Settled(os, start, ref)
  PROVE  Leads(bs, os, ref)
<1> SUFFICES ASSUME NEW type
             PROVE  /\ Resolve(bs, type, ref) = Resolve(os, type, ref)
                    /\ \A k \in DOMAIN bs : Resolve(bs, type, ref) = bs[k] <=> Resolve(os, type, ref) = os[k]
  BY DEF Leads
<1>1. /\ Tooled(bs, os) /\ Version(bs) /\ Version(os) /\ DOMAIN bs = DOMAIN os
      /\ \A i \in DOMAIN os : i < start => bs[i] = os[i]
  BY DEF Unread, Tooled
<1>2. DOMAIN os = 1..Len(os) /\ Len(os) \in Nat
  BY <1>1, ListHas DEF Version
<1>3. CASE \E j \in DOMAIN os : Resolve(bs, type, ref) = bs[j] /\ Resolve(os, type, ref) = os[j] /\ bs[j] = os[j]
  <2>1. PICK j \in DOMAIN os : Resolve(bs, type, ref) = bs[j] /\ Resolve(os, type, ref) = os[j] /\ bs[j] = os[j]
    BY <1>3
  <2>2. \A k \in DOMAIN bs : (bs[j] = bs[k] => j = k) /\ (os[j] = os[k] => j = k)
    BY <1>1, ReceiptsDiffer
  <2> QED BY <2>1, <2>2
<1>4. CASE Resolve(bs, type, ref) = None /\ Resolve(os, type, ref) = None
  BY <1>1, <1>4, ReceiptsDiffer
<1>5. ASSUME Resolve(os, type, ref) # None
      PROVE  \E j \in DOMAIN os : Resolve(bs, type, ref) = bs[j] /\ Resolve(os, type, ref) = os[j] /\ bs[j] = os[j]
  <2>1. PICK j \in DOMAIN os : /\ Resolve(os, type, ref) = os[j] /\ os[j].type = type
                               /\ Unsigned(os[j]) = ref /\ ref # None
    BY <1>1, <1>5, ResolveIs
  <2>2. j < start
    BY <1>2, <2>1 DEF Settled
  <2>3. bs[j] = os[j] /\ j \in DOMAIN bs
    BY <1>1, <2>2
  <2>4. Resolve(bs, type, ref) = bs[j]
    BY <1>1, <2>1, <2>3, ResolveIs
  <2> QED BY <2>1, <2>3, <2>4
<1>6. ASSUME Resolve(bs, type, ref) # None
      PROVE  \E j \in DOMAIN os : Resolve(bs, type, ref) = bs[j] /\ Resolve(os, type, ref) = os[j] /\ bs[j] = os[j]
  <2>1. PICK j \in DOMAIN bs : /\ Resolve(bs, type, ref) = bs[j] /\ bs[j].type = type
                               /\ Unsigned(bs[j]) = ref /\ ref # None
    BY <1>1, <1>6, ResolveIs
  <2>2. Unsigned(bs[j]) \in FirstDigests
    BY <2>1 DEF Settled
  <2>3. bs[j] = os[j] /\ j \in DOMAIN os
    BY <1>1, <2>2, FirstStays
  <2>4. Resolve(os, type, ref) = os[j]
    BY <1>1, <2>1, <2>3, ResolveIs
  <2> QED BY <2>1, <2>3, <2>4
<1> QED BY <1>3, <1>4, <1>5, <1>6

\* So the two chains read alike.
LEMMA UnreadAlike ==
  ASSUME NoneIsNoRecord, \A b \in Stories : Issued(b.receipts), NEW bs, NEW os, NEW start \in Nat,
         Unread(bs, os, start),
         \A i \in DOMAIN os : \A f \in References : Settled(os, start, Get(os[i], f))
  PROVE  Alike(bs, os)
<1>1. Tooled(bs, os) /\ DOMAIN bs = DOMAIN os
  BY DEF Unread, Tooled
<1>2. ASSUME NEW i \in DOMAIN os PROVE Reads(bs[i], os[i])
  <2>1. PICK v, r : v = bs[i] /\ r = os[i]
    OBVIOUS
  <2>2. Covers(v, r) /\ r.hidden = <<>> /\ (\A f \in Kept : v[f] = r[f]) /\ "shape" \in DOMAIN r.body
    BY <1>1, <2>1, TooledRecords
  <2>3. DOMAIN v.hidden \cap RuleFields = {}
    BY <2>1 DEF Unread
  <2>4. DOMAIN r.hidden = {}
    BY <2>2, NothingRedacted
  <2>5. /\ \A f : Has(v, f) <=> Has(r, f)
        /\ \A f : f \notin DOMAIN v.hidden => Get(v, f) = Get(r, f) /\ GetTime(v, f) = GetTime(r, f)
        /\ \A f \in Unredactable(r.type) : f \notin DOMAIN v.hidden
        /\ v.body.shape = r.body.shape
    BY <2>2, CoversHas
  <2>6. \A f \in Unredactable(r.type) \cup RuleFields : f \notin DOMAIN v.hidden
    BY <2>3, <2>5
  <2>7. Reads(v, r)
    BY <2>2, <2>3, <2>4, <2>5, <2>6 DEF Reads
  <2> QED BY <2>1, <2>7
<1>3. ASSUME NEW i \in DOMAIN bs, NEW f \in References \cap (Unredactable(bs[i].type) \cup RuleFields)
      PROVE  Leads(bs, os, Get(bs[i], f))
  <2>1. i \in DOMAIN os /\ Reads(bs[i], os[i])
    BY <1>1, <1>2
  <2>2. Get(bs[i], f) = Get(os[i], f)
    BY <2>1 DEF Reads, Kept
  <2>3. Settled(os, start, Get(os[i], f))
    BY <2>1
  <2>4. Leads(bs, os, Get(os[i], f))
    BY <2>3, SettledLeads
  <2> QED BY <2>2, <2>4
<1> QED BY <1>1, <1>2, <1>3 DEF Alike

\* An anchor of nothing that was signed again holds as before.
LEMMA SettledAnchors ==
  ASSUME NoneIsNoRecord, \A b \in Stories : Issued(b.receipts), NEW bs, NEW os, NEW start \in Nat,
         Unread(bs, os, start), NEW a, Settled(os, start, a.hash)
  PROVE  AnchorHolds(bs, a) <=> AnchorHolds(os, a)
<1>1. /\ Tooled(bs, os) /\ Version(bs) /\ Version(os) /\ DOMAIN bs = DOMAIN os
      /\ \A i \in DOMAIN os : i < start => bs[i] = os[i]
  BY DEF Unread, Tooled
<1>2. SUFFICES ASSUME NEW g \in DOMAIN os, AnchorHolds(bs, a) <=> a.hash = Digest(bs[g]),
                      AnchorHolds(os, a) <=> a.hash = Digest(os[g])
               PROVE  AnchorHolds(bs, a) <=> AnchorHolds(os, a)
  BY <1>1, AnchorTarget
<1>3. DOMAIN os = 1..Len(os) /\ Len(os) \in Nat
  BY <1>1, ListHas DEF Version
<1>4. /\ Digest(bs[g]) = Unsigned(bs[g]) /\ Unsigned(bs[g]) # None
      /\ Digest(os[g]) = Unsigned(os[g]) /\ Unsigned(os[g]) # None
  BY <1>1, <1>2, DigestIsSome
<1>5. ASSUME a.hash = Digest(bs[g]) PROVE bs[g] = os[g]
  <2>1. Unsigned(bs[g]) \in FirstDigests
    BY <1>4, <1>5 DEF Settled
  <2> QED BY <1>1, <1>2, <2>1, FirstStays
<1>6. ASSUME a.hash = Digest(os[g]) PROVE bs[g] = os[g]
  <2>1. g < start
    BY <1>2, <1>3, <1>4, <1>6 DEF Settled
  <2> QED BY <1>1, <1>2, <2>1
<1> QED BY <1>2, <1>5, <1>6

\* Single receipts have the errors they had.
LEMMA SameEnvelopes ==
  ASSUME NoneIsNoRecord, NEW d, NEW o, d.task = o.task,
         Tooled(d.receipts, o.receipts), Alike(d.receipts, o.receipts),
         \A j \in DOMAIN o.receipts : KnownType(o.receipts[j].type, o.receipts[j].spec),
         NEW i \in DOMAIN o.receipts
  PROVE  EnvelopeErrors(d, i) = EnvelopeErrors(o, i)
<1> DEFINE Errors(b, rs, x) ==
             When(x.spec \notin Specs, "version_unsupported")
             \cup When(x.task # b.task, "task_mismatch")
             \cup IF ~KnownType(x.type, x.spec) THEN {"unknown_type"}
                  ELSE When(\E f \in RequiredFields(x.type, x.spec) : ~Has(x, f), "malformed")
                       \cup BodyErrors(x)
                       \cup When(~ValidTime(x.at) \/ ~Encodable(x), "malformed")
                       \cup LinkErrors(rs, i)
                       \cup SignatureErrors(x)
<1>1. PICK bs, os : bs = d.receipts /\ os = o.receipts
  OBVIOUS
<1>2. /\ Version(bs) /\ Version(os) /\ DOMAIN bs = DOMAIN os
      /\ \A j \in DOMAIN os : Reads(bs[j], os[j])
  BY <1>1 DEF Tooled, Alike
<1>3. \A j \in DOMAIN os : bs[j].type = os[j].type /\ bs[j].spec = os[j].spec
  BY <1>2 DEF Reads, Kept
<1>4. /\ \A j \in DOMAIN os : KnownType(os[j].type, os[j].spec)
      /\ \A j \in DOMAIN bs : KnownType(bs[j].type, bs[j].spec)
  BY <1>1, <1>2, <1>3
<1>5. PICK v, r : v = bs[i] /\ r = os[i]
  OBVIOUS
<1>6. /\ LinkErrors(bs, i) = {} /\ SignatureErrors(v) = {} /\ Encodable(v)
      /\ LinkErrors(os, i) = {} /\ SignatureErrors(r) = {} /\ Encodable(r)
  BY <1>1, <1>2, <1>4, <1>5, SealIsFound
<1>7. Reads(v, r) /\ BodyErrors(v) = BodyErrors(r)
  BY <1>1, <1>2, <1>5, AlikeBodies
<1>8. /\ v.spec = r.spec /\ v.type = r.type /\ v.task = r.task /\ v.at = r.at
      /\ \A f : Has(v, f) <=> Has(r, f)
  BY <1>7 DEF Reads, Kept
<1>9. \A b : EnvelopeErrors(b, i) = Errors(b, b.receipts, b.receipts[i])
  BY Zenon DEF EnvelopeErrors
<1>10. (\E f \in RequiredFields(v.type, v.spec) : ~Has(v, f)) <=> \E f \in RequiredFields(r.type, r.spec) : ~Has(r, f)
  BY <1>8
<1>11. When(\E f \in RequiredFields(v.type, v.spec) : ~Has(v, f), "malformed")
         = When(\E f \in RequiredFields(r.type, r.spec) : ~Has(r, f), "malformed")
  BY <1>10 DEF When
<1>12. When(~ValidTime(v.at) \/ ~Encodable(v), "malformed") = When(~ValidTime(r.at) \/ ~Encodable(r), "malformed")
  BY <1>6, <1>8 DEF When
<1>13. d.receipts[i] = v /\ o.receipts[i] = r /\ d.receipts = bs /\ o.receipts = os
  BY <1>1, <1>5
<1>14. EnvelopeErrors(d, i) = Errors(d, bs, v) /\ EnvelopeErrors(o, i) = Errors(o, os, r)
  <2> HIDE DEF Errors
  <2> QED BY <1>9, <1>13
<1>15. /\ When(v.spec \notin Specs, "version_unsupported") = When(r.spec \notin Specs, "version_unsupported")
       /\ When(v.task # d.task, "task_mismatch") = When(r.task # o.task, "task_mismatch")
       /\ KnownType(v.type, v.spec) /\ KnownType(r.type, r.spec)
  BY <1>1, <1>2, <1>4, <1>5, <1>8
<1> QED BY <1>6, <1>7, <1>11, <1>12, <1>14, <1>15, ZenonT(60)

\* The first place that is open, and what the property says of it.
LEMMA OpeningUnread ==
  ASSUME NoneIsNoRecord, NEW o, NEW bs, Tooled(bs, o.receipts), KnowsNoSalt(o),
         Places(bs) # {}, Places(bs) \cap ReadByRules(o) = {},
         NEW start, start = Least({p[1] : p \in Places(bs)}), ~ReferredFrom(o, start)
  PROVE  /\ start \in Nat /\ Unread(bs, o.receipts, start)
         /\ \A i \in DOMAIN o.receipts : \A f \in References :
              Settled(o.receipts, start, Get(o.receipts[i], f))
         /\ \A a \in o.anchors : Settled(o.receipts, start, a.hash)
         /\ o.head = None
<1>1. PICK os : os = o.receipts
  OBVIOUS
<1>2. Tooled(bs, os) /\ KnowsNoSalt(o)
  BY <1>1
<1>3. /\ DOMAIN bs = DOMAIN os /\ DOMAIN os = 1..Len(os) /\ Len(os) \in Nat
      /\ \A i \in DOMAIN os : bs[i] = os[i] \/ \E j \in 1..i : DOMAIN bs[j].hidden # {}
      /\ \A i \in DOMAIN os : Covers(bs[i], os[i]) /\ os[i].hidden = <<>>
  BY <1>2, ListHas DEF Tooled, Version
<1>4. \A i \in DOMAIN bs : \A f \in DOMAIN bs[i].hidden : <<i, f>> \in Places(bs)
  BY DEF Places
<1>5. start \in Nat /\ \A p \in Places(bs) : start <= p[1]
  <2> DEFINE T == {p[1] : p \in Places(bs)}
  <2>1. \A p \in Places(bs) : p[1] \in DOMAIN bs
    BY DEF Places
  <2>2. T \subseteq Nat /\ T # {}
    BY <1>3, <2>1
  <2>3. start = Least(T)
    OBVIOUS
  <2>4. \A p \in Places(bs) : p[1] \in T
    OBVIOUS
  <2> HIDE DEF T
  <2> QED BY <2>2, <2>3, <2>4, HasLeast
<1>6. ASSUME NEW i \in DOMAIN os, i < start PROVE bs[i] = os[i]
  <2> SUFFICES ASSUME NEW j \in 1..i, DOMAIN bs[j].hidden # {} PROVE FALSE
    BY <1>3
  <2>1. PICK f : f \in DOMAIN bs[j].hidden
    OBVIOUS
  <2>2. j \in DOMAIN bs /\ j <= i
    BY <1>3
  <2>3. start <= j
    BY <1>4, <1>5, <2>1, <2>2
  <2> QED BY <1>3, <1>5, <1>6, <2>2, <2>3
<1>7. \A i \in DOMAIN os : \A f \in DOMAIN bs[i].hidden :
         f \notin RuleFields /\ "attestation" \notin DOMAIN os[i].body
  <2> TAKE i \in DOMAIN os
  <2> TAKE f \in DOMAIN bs[i].hidden
  <2>1. f \in DOMAIN os[i].body /\ f # "shape" /\ f \notin Unredactable(os[i].type)
    BY <1>3 DEF Covers
  <2>2. <<i, f>> \in Redactable(o.receipts)
    BY <1>1, <2>1 DEF Redactable
  <2>3. <<i, f>> \notin ReadByRules(o)
    BY <1>3, <1>4
  <2> QED BY <1>1, <2>2, <2>3 DEF ReadByRules, RuleFields
<1>8. Unread(bs, os, start)
  BY <1>2, <1>6, <1>7 DEF Unread
<1> DEFINE Late(rs) == {Digest(rs[i]) : i \in start..Len(rs)}
           Held(rs) == UNION {{Get(rs[i], f) : f \in References \cap DOMAIN rs[i].body} : i \in DOMAIN rs}
           late == Late(os)
           held == Held(os)
<1>9. /\ held \cap late = {} /\ {a.hash : a \in o.anchors} \cap late = {}
       /\ o.head = None
  <2>1. ReferredFrom(o, start)
          <=> (Held(o.receipts) \cup {a.hash : a \in o.anchors}) \cap Late(o.receipts) # {} \/ o.head # None
    BY Zenon DEF ReferredFrom
  <2> HIDE DEF Held, Late
  <2> QED BY <1>1, <2>1
<1>10. \A k \in DOMAIN os : Digest(os[k]) = Unsigned(os[k]) /\ Unsigned(os[k]) # None
  BY <1>2, DigestIsSome DEF Tooled
<1>11. \A k \in DOMAIN os : k >= start => Unsigned(os[k]) \in late
  <2> TAKE k \in DOMAIN os
  <2>1. k >= start => k \in start..Len(os)
    BY <1>3, <1>5
  <2> QED BY <1>10, <2>1
<1>12. Settled(os, start, None)
  BY <1>10 DEF Settled
<1>13. ASSUME NEW i \in DOMAIN os, NEW f \in References PROVE Settled(os, start, Get(os[i], f))
  <2>1. CASE f \notin DOMAIN os[i].body
    BY <1>12, <2>1 DEF Get
  <2>2. CASE f \in DOMAIN os[i].body
    <3>1. Get(os[i], f) \in held
      BY <2>2
    <3>2. Get(os[i], f) \notin late
      <4> HIDE DEF held, late
      <4> QED BY <1>9, <3>1
    <3>3. Get(os[i], f) \in FirstDigests \cup {None}
      BY <1>1, <1>2, <2>2 DEF KnowsNoSalt, Get
    <3>4. \A k \in DOMAIN os : k >= start => Unsigned(os[k]) # Get(os[i], f)
      <4> HIDE DEF late
      <4> QED BY <1>11, <3>2
    <3> QED BY <3>3, <3>4 DEF Settled
  <2> QED BY <2>1, <2>2
<1>14. ASSUME NEW a \in o.anchors PROVE Settled(os, start, a.hash)
  <2>1. a.hash \notin late
    <3>1. a.hash \in {x.hash : x \in o.anchors}
      OBVIOUS
    <3> HIDE DEF held, late
    <3> QED BY <1>9, <3>1
  <2>2. a.hash \in FirstDigests \cup {None}
    BY <1>2 DEF KnowsNoSalt
  <2>3. \A k \in DOMAIN os : k >= start => Unsigned(os[k]) # a.hash
    <3> HIDE DEF late
    <3> QED BY <1>11, <2>1
  <2> QED BY <2>2, <2>3 DEF Settled
<1> QED BY <1>1, <1>5, <1>8, <1>9, <1>13, <1>14

\* Every type of a first chain is known to TaskChain.add.
LEMMA IssuedIsKnown ==
  ASSUME NEW rs, Issued(rs), NEW i \in DOMAIN rs
  PROVE  KnownType(rs[i].type, rs[i].spec)
BY DEF Issued, BodyValid

\* The rest of what the verifier finds, in both bundles.
LEMMA FoundInBoth ==
  ASSUME NEW p, NEW q, Alike(p, q), NEW n \in Nat, DOMAIN p = 1..n,
         \A i \in DOMAIN q : Get(q[i], "attestation") # None =>
            p[i].body = q[i].body /\ p[i].hidden = q[i].hidden,
         \A i \in DOMAIN q : Get(p[i], "attestation") # None =>
            p[i].body = q[i].body /\ p[i].hidden = q[i].hidden
  PROVE  /\ CrossRecordErrors(p) = {} <=> CrossRecordErrors(q) = {}
         /\ AgreementErrors(p) = {} <=> AgreementErrors(q) = {}
         /\ AuthorityErrors(p) = {} <=> AuthorityErrors(q) = {}
         /\ AttestationErrors(p) = {} <=> AttestationErrors(q) = {}
         /\ ProvenanceErrors(p) = {} <=> ProvenanceErrors(q) = {}
         /\ AgreementInsufficient(p) = {} <=> AgreementInsufficient(q) = {}
         /\ AuthorityInsufficient(p) = {} <=> AuthorityInsufficient(q) = {}
         /\ AgreementProvisional(p) = {} <=> AgreementProvisional(q) = {}
         /\ AuthorityProvisional(p) = {} <=> AuthorityProvisional(q) = {}
<1>1. Alike(q, p) /\ DOMAIN q = 1..n
  BY AlikeBack DEF Alike
<1>2. CrossRecordErrors(p) = {} <=> CrossRecordErrors(q) = {}
  BY <1>1, AlikeCross
<1>3. AgreementErrors(p) = {} <=> AgreementErrors(q) = {}
  BY <1>1, AlikeAgree
<1>4. /\ AuthorityErrors(p) = {} <=> AuthorityErrors(q) = {}
      /\ AuthorityInsufficient(p) = {} <=> AuthorityInsufficient(q) = {}
      /\ AuthorityProvisional(p) = {} <=> AuthorityProvisional(q) = {}
  BY <1>1, AlikeAuthorize
<1>5. /\ AgreementInsufficient(p) = {} <=> AgreementInsufficient(q) = {}
      /\ AgreementProvisional(p) = {} <=> AgreementProvisional(q) = {}
  BY <1>1, AlikeIncomplete
<1>6. ProvenanceErrors(p) = {} <=> ProvenanceErrors(q) = {}
  BY <1>1, AlikeProvenance
<1>7. AttestationErrors(p) = {} => AttestationErrors(q) = {}
  BY AlikeAttested
<1>8. AttestationErrors(q) = {} => AttestationErrors(p) = {}
  <2>1. \A i \in DOMAIN p : Get(p[i], "attestation") # None =>
            q[i].body = p[i].body /\ q[i].hidden = p[i].hidden
    BY <1>1
  <2> QED BY <1>1, <2>1, AlikeAttested
<1> QED BY <1>2, <1>3, <1>4, <1>5, <1>6, <1>7, <1>8

\* No body that a counterparty signed has changed.
LEMMA AttestedUnread ==
  ASSUME NEW bs, NEW os, NEW start, Unread(bs, os, start), NEW i \in DOMAIN os,
         Get(os[i], "attestation") # None \/ Get(bs[i], "attestation") # None
  PROVE  bs[i].body = os[i].body /\ bs[i].hidden = os[i].hidden
<1>1. PICK v, r : v = bs[i] /\ r = os[i]
  OBVIOUS
<1>2. Covers(v, r) /\ r.hidden = <<>> /\ Object(v.body) /\ Object(r.body) /\ Object(v.hidden)
  BY <1>1 DEF Unread, Tooled, Version, SealedAt, Whole
<1>3. "attestation" \in DOMAIN r.body
  BY <1>1, <1>2 DEF Get, Covers
<1>4. DOMAIN v.hidden = {}
  BY <1>1, <1>3 DEF Unread
<1>5. v.body = r.body
  BY <1>2, <1>4, NothingHidden
<1>6. v.hidden = <<>>
  BY <1>2, <1>4, NothingRedacted DEF Object
<1> QED BY <1>1, <1>2, <1>5, <1>6

\* A bundle that reads alike, and that discloses what it hides, has the same verdict.
LEMMA SameVerdict ==
  ASSUME NoneIsNoRecord, \A b \in Stories : Issued(b.receipts), NEW d, NEW o, NEW start \in Nat,
         Unread(d.receipts, o.receipts, start), Issued(o.receipts),
         \A i \in DOMAIN o.receipts : \A f \in References :
           Settled(o.receipts, start, Get(o.receipts[i], f)),
         \A a \in o.anchors : Settled(o.receipts, start, a.hash),
         d.spec = o.spec, d.task = o.task, d.anchors = o.anchors, d.revocations = o.revocations,
         d.head = o.head, d.malformed = o.malformed,
         o.head = None, o.malformed = {}, o.revocations = {},
         \A p \in Places(d.receipts) :
           p \in DOMAIN d.disclosure /\ d.disclosure[p] = Redaction(d.receipts, p).commit
  PROVE  VerifyBundle(d, {}, FALSE).verdict = VerifyBundle(o, {}, FALSE).verdict
<1>1. PICK bs, os : bs = d.receipts /\ os = o.receipts
  OBVIOUS
<1>2. Unread(bs, os, start) /\ Tooled(bs, os) /\ Alike(bs, os)
  BY <1>1, UnreadAlike DEF Unread
<1>3. DOMAIN bs = DOMAIN os /\ DOMAIN os = 1..Len(os) /\ Len(os) \in Nat /\ bs # <<>> /\ os # <<>>
  BY <1>2, ListHas DEF Tooled, Version
<1>4. /\ CrossRecordErrors(bs) = {} <=> CrossRecordErrors(os) = {}
      /\ AgreementErrors(bs) = {} <=> AgreementErrors(os) = {}
      /\ AuthorityErrors(bs) = {} <=> AuthorityErrors(os) = {}
      /\ AttestationErrors(bs) = {} <=> AttestationErrors(os) = {}
      /\ ProvenanceErrors(bs) = {} <=> ProvenanceErrors(os) = {}
      /\ AgreementInsufficient(bs) = {} <=> AgreementInsufficient(os) = {}
      /\ AuthorityInsufficient(bs) = {} <=> AuthorityInsufficient(os) = {}
      /\ AgreementProvisional(bs) = {} <=> AgreementProvisional(os) = {}
      /\ AuthorityProvisional(bs) = {} <=> AuthorityProvisional(os) = {}
  <2>1. \A i \in DOMAIN os : Get(os[i], "attestation") # None \/ Get(bs[i], "attestation") # None
                               => bs[i].body = os[i].body /\ bs[i].hidden = os[i].hidden
    BY <1>2, AttestedUnread
  <2> QED BY <1>2, <1>3, <2>1, FoundInBoth
<1>5. \A i \in DOMAIN os : EnvelopeErrors(d, i) = EnvelopeErrors(o, i)
  <2>1. \A j \in DOMAIN o.receipts : KnownType(o.receipts[j].type, o.receipts[j].spec)
    BY IssuedIsKnown
  <2> QED BY <1>1, <1>2, <2>1, SameEnvelopes
<1>6. ShapeErrors(d) = {} /\ ShapeErrors(o) = {}
  BY DEF ShapeErrors, When
<1>7. \A p \in Places(bs) : ~RedactedRequired(bs, p)
  <2> TAKE p \in Places(bs)
  <2>1. PICK i \in DOMAIN bs : \E f \in DOMAIN bs[i].hidden : p = <<i, f>>
    BY DEF Places
  <2>2. PICK f \in DOMAIN bs[i].hidden : p = <<i, f>>
    BY <2>1
  <2>3. Covers(bs[i], os[i]) /\ bs[i].type = os[i].type
    BY <1>2, TooledRecords DEF Kept
  <2> QED BY <2>2, <2>3 DEF RedactedRequired, Covers
<1>8. Places(os) = {}
  <2> SUFFICES ASSUME NEW p \in Places(os) PROVE FALSE
    OBVIOUS
  <2>1. PICK i \in DOMAIN os : p \in {<<i, f>> : f \in DOMAIN os[i].hidden}
    BY DEF Places
  <2>2. DOMAIN os[i].hidden = {}
    BY <1>2, <1>3, NothingRedacted DEF Tooled
  <2> QED BY <2>1, <2>2
<1>9. Disclosed(d) = DOMAIN d.disclosure
  BY DEF Disclosed
<1>10. RedactionErrors(d) = {} /\ RedactionErrors(o) = {}
  <2>1. RedactionErrors(d) = {}
    BY <1>1, <1>7 DEF RedactionErrors, CommitMatches, When
  <2>2. RedactionErrors(o) = {}
    BY <1>1, <1>8 DEF RedactionErrors, When
  <2> QED BY <2>1, <2>2
<1>11. Withheld(d) = {} /\ Withheld(o) = {}
  BY <1>1, <1>8, <1>9 DEF Withheld
<1>12. RevocationErrors(d, {}) = {} /\ RevocationErrors(o, {}) = {}
  <2>1. MergeStatements(d, {}) = {} /\ MergeStatements(o, {}) = {}
    BY DEF MergeStatements
  <2> QED BY <2>1 DEF RevocationErrors, When
<1>13. AnchorErrors(d) = {} <=> AnchorErrors(o) = {}
  <2>1. \A a \in o.anchors : AnchorHolds(bs, a) <=> AnchorHolds(os, a)
    BY <1>1, <1>2, SettledAnchors
  <2> QED BY <1>1, <2>1 DEF AnchorErrors, When
<1>14. HeadErrors(d) = {} /\ HeadErrors(o) = {}
  BY DEF HeadErrors
<1>15. ErrorsOf(d) = {} <=> ErrorsOf(o) = {}
  <2>1. (\A i \in DOMAIN bs : EnvelopeErrors(d, i) = {}) <=> \A i \in DOMAIN os : EnvelopeErrors(o, i) = {}
    BY <1>3, <1>5
  <2>2. ErrorsOf(d) = {} <=>
           /\ ShapeErrors(d) = {} /\ \A i \in DOMAIN bs : EnvelopeErrors(d, i) = {}
           /\ CrossRecordErrors(bs) = {} /\ AgreementErrors(bs) = {} /\ AuthorityErrors(bs) = {}
           /\ RedactionErrors(d) = {} /\ AttestationErrors(bs) = {} /\ ProvenanceErrors(bs) = {}
           /\ RevocationErrors(d, {}) = {} /\ AnchorErrors(d) = {} /\ HeadErrors(d) = {}
    BY <1>1, NoErrors
  <2>3. ErrorsOf(o) = {} <=>
           /\ ShapeErrors(o) = {} /\ \A i \in DOMAIN os : EnvelopeErrors(o, i) = {}
           /\ CrossRecordErrors(os) = {} /\ AgreementErrors(os) = {} /\ AuthorityErrors(os) = {}
           /\ RedactionErrors(o) = {} /\ AttestationErrors(os) = {} /\ ProvenanceErrors(os) = {}
           /\ RevocationErrors(o, {}) = {} /\ AnchorErrors(o) = {} /\ HeadErrors(o) = {}
    BY <1>1, NoErrors
  <2> QED BY <1>4, <1>6, <1>10, <1>12, <1>13, <1>14, <2>1, <2>2, <2>3
<1>16. InsufficientOf(d) = {} <=> InsufficientOf(o) = {}
  <2>1. /\ When(\E p \in Withheld(d) : Redaction(d.receipts, p).erased, "erased_content") = {}
        /\ When(\E p \in Withheld(o) : Redaction(o.receipts, p).erased, "erased_content") = {}
    BY <1>11 DEF When
  <2> QED BY <1>1, <1>4, <2>1 DEF InsufficientOf
<1>17. ProvisionalOf(d) = {} <=> ProvisionalOf(o) = {}
  <2>1. /\ When(\E p \in Withheld(d) : ~Redaction(d.receipts, p).erased, "redacted_without_disclosure") = {}
        /\ When(\E p \in Withheld(o) : ~Redaction(o.receipts, p).erased, "redacted_without_disclosure") = {}
    BY <1>11 DEF When
  <2>2. AnchorProvisional(d, FALSE) = {} /\ AnchorProvisional(o, FALSE) = {}
    BY DEF AnchorProvisional, When
  <2> QED BY <1>1, <1>4, <2>1, <2>2 DEF ProvisionalOf
<1>18. Early(d) <=> Early(o)
  BY <1>1, <1>3 DEF Early
<1> HIDE DEF NoneIsNoRecord
<1> QED BY <1>15, <1>16, <1>17, <1>18, VerdictOf

\* Without lists of revocations the command gives the verdict of verify_bundle.
LEMMA CommandVerdict ==
  ASSUME NEW b
  PROVE  VerifyMain("ok", b, <<>>, FALSE).result.verdict = VerifyBundle(b, {}, FALSE).verdict
<1>1. Unusable(<<>>) = None
  <2>1. {i \in DOMAIN <<>> : LoadError(<<>>[i]) # None} = {}
    BY NothingRedacted
  <2> QED BY <2>1 DEF Unusable
<1>2. External(<<>>) = {}
  <2> SUFFICES ASSUME NEW x \in External(<<>>) PROVE FALSE
    OBVIOUS
  <2>1. PICK i \in DOMAIN <<>> : x \in <<>>[i].statements
    BY DEF External
  <2> QED BY <2>1, NothingRedacted
<1>3. PICK result : result = VerifyBundle(b, External(<<>>), FALSE)
  OBVIOUS
<1>4. PICK code : code = IF result.verdict = "TRUSTED" THEN 0 ELSE 1
  OBVIOUS
<1>5. VerifyMain("ok", b, <<>>, FALSE) = [exit |-> code, result |-> result]
  BY <1>1, <1>3, <1>4 DEF VerifyMain
<1>6. VerifyMain("ok", b, <<>>, FALSE).result = result
  <2>1. PICK m : m = VerifyMain("ok", b, <<>>, FALSE)
    OBVIOUS
  <2>2. m = [exit |-> code, result |-> result]
    BY <1>5, <2>1
  <2>3. m.result = result
    BY <2>2
  <2> QED BY <2>1, <2>3, Zenon
<1> QED BY <1>2, <1>3, <1>6

\* A bundle with the whole map attached opens every place that is redacted in it.
LEMMA AttachedIs ==
  ASSUME IInv, ToolInv, moves = 0
  PROVE  LET d == Attach(bundle, opening) IN
         /\ d.receipts = bundle.receipts
         /\ \A f \in Members \ {"receipts", "disclosure"} : d[f] = origin[f]
         /\ \A p \in Places(d.receipts) :
              p \in DOMAIN d.disclosure /\ d.disclosure[p] = Redaction(d.receipts, p).commit
<1>1. PICK d : d = Attach(bundle, opening)
  OBVIOUS
<1>2. /\ d.disclosure = Updated(bundle.disclosure, opening)
      /\ \A f \in Members \ {"disclosure"} : d[f] = bundle[f]
  BY <1>1 DEF Attach, IInv, BundleInv, Members
<1>3. d.receipts = bundle.receipts
  BY <1>2 DEF Members
<1>4. \A f \in Members \ {"receipts", "disclosure"} : d[f] = origin[f]
  BY <1>2 DEF ToolInv, CoverInv
<1>5. /\ DOMAIN opening = Places(bundle.receipts)
      /\ \A p \in DOMAIN opening : Redaction(bundle.receipts, p).commit = opening[p]
  BY DEF ToolInv, OpeningInv
<1>6. \A p \in DOMAIN opening : p \in DOMAIN d.disclosure /\ d.disclosure[p] = opening[p]
  BY <1>2 DEF Updated
<1>7. \A p \in Places(d.receipts) :
         p \in DOMAIN d.disclosure /\ d.disclosure[p] = Redaction(d.receipts, p).commit
  BY <1>3, <1>5, <1>6
<1> QED BY <1>1, <1>3, <1>4, <1>7

\* A bundle that was redacted with the tool and is disclosed again in full has its
\* first verdict, if no rule reads what was redacted and nothing refers to a receipt
\* that was signed again (disclose.py, redact and attach; the verify command).
THEOREM DisclosingRestoresUnread == NoneIsNoRecord => (Spec => []DisclosureRestoresUnread)
<1> SUFFICES ASSUME NoneIsNoRecord PROVE Spec => []DisclosureRestoresUnread
  OBVIOUS
<1>1. IInv /\ ToolInv => DisclosureRestoresUnread
  <2> SUFFICES ASSUME IInv, ToolInv, moves = 0, redactions > 0,
                      DOMAIN opening \cap ReadByRules(origin) = {},
                      ~ReferredFrom(origin, Least({p[1] : p \in DOMAIN opening}))
               PROVE  VerifyMain("ok", Attach(bundle, opening), <<>>, FALSE).result.verdict
                        = VerifyBundle(origin, {}, FALSE).verdict
    BY DEF DisclosureRestoresUnread, VerifyDisclosed, First
  <2>1. PICK d, o, start : /\ d = Attach(bundle, opening) /\ o = origin
                           /\ start = Least({p[1] : p \in DOMAIN opening})
    OBVIOUS
  <2>2. /\ Tooled(d.receipts, o.receipts) /\ KnowsNoSalt(o)
        /\ o.malformed = {} /\ o.revocations = {} /\ Issued(o.receipts)
    BY <2>1, DisclosureAssumption, BundleIsTooled, AttachedIs DEF ToolInv, DisclosureAssumption
  <2>3. /\ \A f \in Members \ {"receipts", "disclosure"} : d[f] = o[f]
        /\ \A p \in Places(d.receipts) :
             p \in DOMAIN d.disclosure /\ d.disclosure[p] = Redaction(d.receipts, p).commit
        /\ d.receipts = bundle.receipts
    BY <2>1, AttachedIs
  <2>4. DOMAIN opening = Places(d.receipts) /\ DOMAIN opening # {}
    <3>1. redactions # 0
      BY DEF ToolInv
    <3> QED BY <2>3, <3>1 DEF ToolInv, OpeningInv
  <2>5. ~ReferredFrom(o, start) /\ Places(d.receipts) \cap ReadByRules(o) = {}
        /\ start = Least({p[1] : p \in Places(d.receipts)}) /\ Places(d.receipts) # {}
    BY <2>1, <2>4
  <2>6. /\ start \in Nat /\ Unread(d.receipts, o.receipts, start)
        /\ \A i \in DOMAIN o.receipts : \A f \in References :
             Settled(o.receipts, start, Get(o.receipts[i], f))
        /\ \A a \in o.anchors : Settled(o.receipts, start, a.hash)
        /\ o.head = None
    BY <2>2, <2>5, OpeningUnread
  <2>7. \A b \in Stories : Issued(b.receipts)
    BY DisclosureAssumption DEF DisclosureAssumption
  <2>8. /\ d.spec = o.spec /\ d.task = o.task /\ d.anchors = o.anchors
        /\ d.revocations = o.revocations /\ d.head = o.head /\ d.malformed = o.malformed
    BY <2>3 DEF Members
  <2>9. VerifyBundle(d, {}, FALSE).verdict = VerifyBundle(o, {}, FALSE).verdict
    BY <2>2, <2>3, <2>6, <2>7, <2>8, SameVerdict
  <2> QED BY <2>1, <2>9, CommandVerdict
<1> QED BY <1>1, ToolInductive, PTL
===============================================================================
