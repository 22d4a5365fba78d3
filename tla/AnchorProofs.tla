------------------------------ MODULE AnchorProofs ------------------------------
(***************************************************************************)
(* Theorems about Anchor, for every set of bundles, operations and block   *)
(* heights, every limit of the parser and proofs of any length.            *)
(*                                                                         *)
(* The parser keeps a stack; the properties speak of the tokens read.  The *)
(* inductive invariant joins the two.  Places that are still open are      *)
(* numbered from the outermost one; the stack has one call for each, and   *)
(* the topmost call has two while it is in a branch (StackIs).  WayTo is   *)
(* the set of operations that will be on the way to what is read at a      *)
(* place; the call of that place has their message and, as its depth,      *)
(* their number.  What a token does to these sets is WaysAfter: a fork     *)
(* opens a place with the way of the last one, an operation is added to    *)
(* the way to the last place, an attestation forgets that place.           *)
(*                                                                         *)
(* The messages of the positions are a function defined by recursion.  The *)
(* invariant only says that there is a function that satisfies the         *)
(* equation (Solves), which each token extends by its own position; that   *)
(* there is but one is shown by its least difference (OneSolution).        *)
(***************************************************************************)
EXTENDS Anchor, SequenceTheorems, FiniteSetTheorems, WellFoundedInduction, TLAPS

-----------------------------------------------------------------------------
(* The inductive invariant *)

\* The operations that will be on the way to what is read at place p.
WayTo(t, p) ==
    {j \in DOMAIN t : /\ t[j].token = "op" /\ OpenPlaces(t, j) <= p
                      /\ \A k \in j..Len(t) : OpenPlaces(t, k) >= OpenPlaces(t, j)}

Solves(d, t, msgs) == msgs = [i \in DOMAIN t |-> Behind(d, t, msgs, OnTheWay(t, i))]

Last(f) == f[Len(f)]
CallOf(f, p) == f[IF p <= Len(f) THEN p ELSE Len(f)]

\* Calls are places, each with its message and its depth.
StackIs(d, t, f, msgs) ==
    /\ OpenPlaces(t, Len(t)) = Len(f) + (IF f # <<>> /\ Last(f).forked THEN 1 ELSE 0)
    /\ \A c \in 1..(Len(f) - 1) : f[c].forked = FALSE
    /\ \A p \in 1..OpenPlaces(t, Len(t)) :
         /\ CallOf(f, p).msg = Behind(d, t, msgs, WayTo(t, p))
         /\ CallOf(f, p).depth = Cardinality(WayTo(t, p))

Leaf(msg, a) == [msg |-> msg, kind |-> a.kind, height |-> a.height]

\* Leaves are attestations in their order.
LeavesAre(t, l, msgs) ==
    /\ Len(l) = Count(t, "att", Len(t))
    /\ \A i \in DOMAIN t : t[i].token = "att" =>
         /\ Count(t, "att", i) \in DOMAIN l
         /\ l[Count(t, "att", i)] = Leaf(msgs[i], t[i])
    /\ \A n \in DOMAIN l : \E i \in DOMAIN t : t[i].token = "att" /\ Count(t, "att", i) = n

Truthful == failure \in {"none", "truncated", "trailing_data"}

TreeInv(msgs) ==
    /\ Solves(digest, tokens, msgs)
    /\ Truthful => StackIs(digest, tokens, frames, msgs)
    /\ LeavesAre(tokens, leaves, msgs)

\* The limits stop the parser where they should, and nothing else says so.
Shallow(t) ==
    \A i \in DOMAIN t : t[i].token = "op" => Cardinality(OnTheWay(t, i)) < MaxDepth

TooDeep(t) ==
    \E i \in DOMAIN t : t[i].token = "op" /\ Cardinality(OnTheWay(t, i)) = MaxDepth

Ordinary(code) == code \notin {"invalid_result", "recursion_limit", "too_many_nodes"}

LimitsAre(t, count, code) ==
    /\ code \notin {"invalid_result", "recursion_limit"} => Shallow(t)
    /\ code = "recursion_limit" => TooDeep(t)
    /\ code = "too_many_nodes" => Count(t, "op", Len(t)) = MaxNodes
    /\ Ordinary(code) => count = 1 + Count(t, "op", Len(t)) /\ count <= MaxNodes

LimitInv == LimitsAre(tokens, nodes, failure)

IsSeq(s) == \E S : s \in Seq(S)
IsBytes(msg) == IsSeq(msg) /\ msg # <<>>

IsCall(c) ==
    /\ c = [msg |-> c.msg, depth |-> c.depth, forked |-> c.forked]
    /\ IsBytes(c.msg) /\ Len(c.msg) <= MaxBytes
    /\ c.depth \in 0..MaxDepth /\ c.forked \in BOOLEAN

Calls(f) == IsSeq(f) /\ \A c \in DOMAIN f : IsCall(f[c])

Codes == {"none", "invalid_result", "recursion_limit", "too_many_nodes", "bad_token", "truncated", "trailing_data"}

StateInv ==
    /\ digest \in Known
    /\ IsSeq(tokens) /\ IsSeq(leaves) /\ Calls(frames)
    /\ \A n \in DOMAIN leaves : IsBytes(leaves[n].msg)
    /\ pc \in {"reading", "read", "answered"} /\ failure \in Codes
    /\ pc = "reading" => failure = "none"
    /\ \A i \in DOMAIN tokens : tokens[i].token = "op" => tokens[i].op \in Ops

AnswerInv ==
    pc = "answered" =>
      /\ answer.source \in Sources /\ answer.headers \in HeaderSets
      /\ answer.result = CliResult(answer.source, answer.headers)

IInv == StateInv /\ AnswerInv /\ LimitInv /\ \E msgs : TreeInv(msgs)

-----------------------------------------------------------------------------
(* Sequences, and greatest elements *)

\* What appending to a sequence gives.
LEMMA AppendIs ==
  ASSUME NEW t, IsSeq(t), NEW x
  PROVE  /\ IsSeq(Append(t, x)) /\ Len(t) \in Nat /\ DOMAIN t = 1..Len(t)
         /\ Len(Append(t, x)) = Len(t) + 1 /\ DOMAIN Append(t, x) = 1..(Len(t) + 1)
         /\ \A i \in 1..Len(t) : Append(t, x)[i] = t[i]
         /\ Append(t, x)[Len(t) + 1] = x
<1>1. PICK S : t \in Seq(S)
  BY DEF IsSeq
<1>2. t \in Seq(S \cup {x}) /\ x \in S \cup {x}
  BY <1>1
<1>3. Append(t, x) \in Seq(S \cup {x})
  BY <1>2
<1> QED BY <1>2, <1>3 DEF IsSeq

\* A nonempty set of positions has a greatest element, which the model's operator yields.
LEMMA HasGreatest ==
  ASSUME NEW n \in Nat, NEW S, S \subseteq 1..n, S # {}
  PROVE  Greatest(S) \in S /\ \A y \in S : Greatest(S) >= y
<1> DEFINE Above == OpToRel(<, Nat)
           D == {n - x : x \in S}
<1>1. D \subseteq Nat /\ D # {}
  <2>1. \A x \in S : n - x \in Nat
    OBVIOUS
  <2> QED BY <2>1, Zenon
<1>2. \A y \in S : n - y \in D
  OBVIOUS
<1>3. PICK e \in D : \A y \in D : <<y, e>> \notin Above
  BY <1>1, NatLessThanWellFounded, WFMin
<1>4. \A y \in D : y < e => <<y, e>> \in Above
  BY <1>1 DEF OpToRel
<1> HIDE DEF Above
<1>5. \A y \in D : ~(y < e)
  BY <1>3, <1>4
<1>6. PICK x \in S : e = n - x
  BY <1>3
<1> HIDE DEF D
<1>7. \A y \in S : x >= y
  <2>1. \A y \in S : ~(n - y < n - x)
    BY <1>5, <1>6, <1>2
  <2>2. \A y \in S : y \in Int
    OBVIOUS
  <2> QED BY <2>1, <2>2
<1> QED BY <1>7, Zenon DEF Greatest

\* The greatest of a set of numbers that has one.
LEMMA GreatestIs ==
  ASSUME NEW S \in SUBSET Int, NEW m \in S, \A x \in S : x <= m
  PROVE  Greatest(S) = m
<1>1. m \in S /\ \A y \in S : m >= y
  OBVIOUS
<1>2. Greatest(S) \in S /\ \A y \in S : Greatest(S) >= y
  BY <1>1, Zenon DEF Greatest
<1>3. PICK g : g = Greatest(S)
  OBVIOUS
<1>4. g \in Int /\ m \in Int /\ m >= g /\ g >= m
  <2>1. g \in S /\ m >= g /\ g >= m
    BY <1>1, <1>2, <1>3, Zenon
  <2> QED BY <2>1
<1>5. g = m
  BY <1>4
<1> QED BY <1>3, <1>5, Zenon

-----------------------------------------------------------------------------
(* Counting tokens *)

\* How many of a kind there are among the first k, and among one more.
LEMMA CountStep ==
  ASSUME NEW t, NEW name, NEW k \in Nat
  PROVE  /\ Count(t, name, k) \in Nat
         /\ Count(t, name, k + 1) = Count(t, name, k) + (IF t[k + 1].token = name THEN 1 ELSE 0)
<1> DEFINE C == {i \in 1..k : t[i].token = name}
           D == {i \in 1..(k + 1) : t[i].token = name}
<1>1. IsFiniteSet(C)
  <2>1. IsFiniteSet(1..k)
    BY FS_Interval
  <2> QED BY <2>1, FS_Subset
<1>2. Cardinality(C) \in Nat
  BY <1>1, FS_CardinalityType
<1>3. Count(t, name, k) = Cardinality(C) /\ Count(t, name, k + 1) = Cardinality(D)
  BY Zenon DEF Count
<1>4. t[k + 1].token = name => D = C \cup {k + 1} /\ k + 1 \notin C
  OBVIOUS
<1>5. t[k + 1].token # name => D = C
  OBVIOUS
<1> HIDE DEF C, D
<1>6. CASE t[k + 1].token = name
  <2>1. Cardinality(D) = Cardinality(C) + 1
    BY <1>1, <1>6, <1>4, FS_AddElement
  <2> QED BY <1>2, <1>6, <1>3, <2>1
<1>7. CASE t[k + 1].token # name
  BY <1>2, <1>7, <1>3, <1>5
<1> QED BY <1>6, <1>7

\* There are none among no tokens.
LEMMA CountNone ==
  ASSUME NEW t, NEW name
  PROVE  Count(t, name, 0) = 0
<1>1. {i \in 1..0 : t[i].token = name} = {}
  OBVIOUS
<1> QED BY <1>1, FS_EmptySet DEF Count

\* A token that is appended changes no earlier count.
LEMMA CountAppend ==
  ASSUME NEW t, IsSeq(t), NEW x, NEW name, NEW k \in 0..Len(t)
  PROVE  Count(Append(t, x), name, k) = Count(t, name, k)
<1>1. {i \in 1..k : Append(t, x)[i].token = name} = {i \in 1..k : t[i].token = name}
  <2>1. \A i \in 1..k : Append(t, x)[i] = t[i]
    BY AppendIs
  <2> QED BY <2>1
<1> QED BY <1>1 DEF Count

\* Among all.
LEMMA CountAll ==
  ASSUME NEW t, IsSeq(t), NEW x, NEW name
  PROVE  /\ Count(t, name, Len(t)) \in Nat
         /\ Count(Append(t, x), name, Len(t) + 1)
               = Count(t, name, Len(t)) + (IF x.token = name THEN 1 ELSE 0)
<1>1. Len(t) \in Nat /\ Len(t) \in 0..Len(t) /\ Append(t, x)[Len(t) + 1] = x
  BY AppendIs
<1>2. Count(Append(t, x), name, Len(t)) = Count(t, name, Len(t))
  BY <1>1, CountAppend
<1> DEFINE u == Append(t, x)
<1>3. Count(u, name, Len(t) + 1) = Count(u, name, Len(t)) + (IF u[Len(t) + 1].token = name THEN 1 ELSE 0)
  BY <1>1, CountStep
<1>4. Count(t, name, Len(t)) \in Nat
  BY <1>1, CountStep
<1> QED BY <1>1, <1>2, <1>3, <1>4

\* The places a token opens and closes.
LEMMA OpenAppend ==
  ASSUME NEW t, IsSeq(t), NEW x
  PROVE  /\ \A k \in 0..Len(t) : OpenPlaces(t, k) \in Int /\ OpenPlaces(Append(t, x), k) = OpenPlaces(t, k)
         /\ OpenPlaces(Append(t, x), Len(t) + 1)
               = OpenPlaces(t, Len(t)) + (IF x.token = "fork" THEN 1 ELSE 0) - (IF x.token = "att" THEN 1 ELSE 0)
<1>1. Len(t) \in Nat
  BY AppendIs
<1>2. \A k \in 0..Len(t) : OpenPlaces(t, k) \in Int
  BY <1>1, CountStep DEF OpenPlaces
<1>3. \A k \in 0..Len(t) : OpenPlaces(Append(t, x), k) = OpenPlaces(t, k)
  BY CountAppend DEF OpenPlaces
<1>4. OpenPlaces(Append(t, x), Len(t) + 1)
        = OpenPlaces(t, Len(t)) + (IF x.token = "fork" THEN 1 ELSE 0) - (IF x.token = "att" THEN 1 ELSE 0)
  BY CountAll DEF OpenPlaces
<1> QED BY <1>2, <1>3, <1>4

-----------------------------------------------------------------------------
(* Ways *)

\* Operations on the way are earlier ones, and some finite number.
LEMMA WaysAreEarlier ==
  ASSUME NEW t, IsSeq(t), NEW i \in 1..(Len(t) + 1), NEW p
  PROVE  /\ OnTheWay(t, i) \subseteq 1..(i - 1) /\ WayTo(t, p) \subseteq 1..Len(t)
         /\ IsFiniteSet(WayTo(t, p)) /\ Cardinality(WayTo(t, p)) \in Nat
<1>1. OnTheWay(t, i) \subseteq 1..(i - 1)
  BY DEF OnTheWay
<1>2. WayTo(t, p) \subseteq 1..Len(t) /\ Len(t) \in Nat
  BY AppendIs DEF WayTo
<1>3. IsFiniteSet(WayTo(t, p))
  <2>1. IsFiniteSet(1..Len(t))
    BY <1>2, FS_Interval
  <2> QED BY <1>2, <2>1, FS_Subset
<1> QED BY <1>1, <1>2, <1>3, FS_CardinalityType

\* A token that is appended changes no earlier way.
LEMMA WayAppend ==
  ASSUME NEW t, IsSeq(t), NEW x, NEW i \in 1..(Len(t) + 1)
  PROVE  OnTheWay(Append(t, x), i) = OnTheWay(t, i)
<1> DEFINE u == Append(t, x)
<1>1. Len(t) \in Nat /\ \A j \in 1..Len(t) : u[j] = t[j]
  BY AppendIs
<1>2. \A k \in 0..Len(t) : OpenPlaces(u, k) = OpenPlaces(t, k)
  BY OpenAppend
<1> HIDE DEF u
<1>3. \A j \in 1..(i - 1) : /\ u[j] = t[j] /\ OpenPlaces(u, j) = OpenPlaces(t, j)
                            /\ \A k \in j..(i - 1) : OpenPlaces(u, k) = OpenPlaces(t, k)
  <2>1. \A j \in 1..(i - 1) : j \in 1..Len(t) /\ j \in 0..Len(t) /\ \A k \in j..(i - 1) : k \in 0..Len(t)
    BY <1>1
  <2> QED BY <1>1, <1>2, <2>1, Zenon
<1>4. OnTheWay(u, i) = OnTheWay(t, i)
  BY <1>3 DEF OnTheWay
<1> QED BY <1>4 DEF u

\* What is read next is read at the last open place.
LEMMA NextWay ==
  ASSUME NEW t, IsSeq(t)
  PROVE  OnTheWay(t, Len(t) + 1) = WayTo(t, OpenPlaces(t, Len(t)))
<1>1. Len(t) \in Nat /\ DOMAIN t = 1..Len(t)
  BY AppendIs
<1>2. \A k \in 0..Len(t) : OpenPlaces(t, k) \in Int
  BY OpenAppend
<1>3. (Len(t) + 1) - 1 = Len(t)
  BY <1>1
<1>4. \A j \in 1..Len(t) : (\A k \in j..Len(t) : OpenPlaces(t, k) >= OpenPlaces(t, j))
                             => OpenPlaces(t, j) <= OpenPlaces(t, Len(t))
  <2> SUFFICES ASSUME NEW j \in 1..Len(t), \A k \in j..Len(t) : OpenPlaces(t, k) >= OpenPlaces(t, j)
               PROVE  OpenPlaces(t, j) <= OpenPlaces(t, Len(t))
    OBVIOUS
  <2>1. Len(t) \in j..Len(t) /\ j \in 0..Len(t) /\ Len(t) \in 0..Len(t)
    BY <1>1
  <2>2. OpenPlaces(t, Len(t)) >= OpenPlaces(t, j)
    BY <2>1
  <2> QED BY <1>2, <2>1, <2>2
<1> QED BY <1>1, <1>3, <1>4 DEF OnTheWay, WayTo

\* What a token does to the ways that go on.
LEMMA WaysAfter ==
  ASSUME NEW t, IsSeq(t), NEW x, NEW p \in Int
  PROVE  LET last == OpenPlaces(t, Len(t))
             u == Append(t, x)
         IN /\ x.token = "fork" /\ p <= last => WayTo(u, p) = WayTo(t, p)
            /\ x.token = "fork" => WayTo(u, last + 1) = WayTo(t, last)
            /\ x.token = "att" /\ p < last => WayTo(u, p) = WayTo(t, p)
            /\ x.token = "op" /\ p < last => WayTo(u, p) = WayTo(t, p)
            /\ x.token = "op" => WayTo(u, last) = WayTo(t, last) \cup {Len(t) + 1}
<1> DEFINE last == OpenPlaces(t, Len(t))
           u == Append(t, x)
           n == Len(t) + 1
           change == (IF x.token = "fork" THEN 1 ELSE 0) - (IF x.token = "att" THEN 1 ELSE 0)
           O(k) == OpenPlaces(t, k)
           On(j, q) == t[j].token = "op" /\ O(j) <= q /\ \A k \in j..Len(t) : O(k) >= O(j)
<1>1. /\ Len(t) \in Nat /\ DOMAIN t = 1..Len(t) /\ DOMAIN u = 1..n /\ Len(u) = n
      /\ u[n] = x /\ \A j \in 1..Len(t) : u[j] = t[j]
  BY AppendIs
<1>2. \A k \in 0..Len(t) : O(k) \in Int /\ OpenPlaces(u, k) = O(k)
  BY OpenAppend
<1>3. OpenPlaces(u, n) = last + change /\ last \in Int /\ change \in Int
  <2>1. OpenPlaces(u, n) = last + (IF x.token = "fork" THEN 1 ELSE 0) - (IF x.token = "att" THEN 1 ELSE 0)
    BY OpenAppend
  <2>2. last \in Int
    BY <1>1, <1>2
  <2> QED BY <2>1, <2>2
<1>4. \A q : WayTo(t, q) = {j \in 1..Len(t) : On(j, q)}
  BY <1>1, Zenon DEF WayTo
<1>5. ASSUME NEW q \in Int, NEW j \in 1..Len(t)
      PROVE  j \in WayTo(u, q) <=> On(j, q) /\ O(j) <= last + change
  <2>1. j \in WayTo(u, q) <=> /\ t[j].token = "op" /\ O(j) <= q
                              /\ \A k \in j..n : OpenPlaces(u, k) >= O(j)
    <3>1. j \in 1..n /\ j \in 0..Len(t)
      BY <1>1
    <3> QED BY <1>1, <1>2, <3>1, Zenon DEF WayTo
  <2>2. \A k : k \in j..n <=> k \in j..Len(t) \/ k = n
    BY <1>1
  <2>3. \A k \in j..Len(t) : OpenPlaces(u, k) = O(k)
    <3>1. \A k \in j..Len(t) : k \in 0..Len(t)
      BY <1>1
    <3> QED BY <1>2, <3>1, Zenon
  <2>4. (\A k \in j..n : OpenPlaces(u, k) >= O(j))
          <=> (\A k \in j..Len(t) : O(k) >= O(j)) /\ OpenPlaces(u, n) >= O(j)
    BY <2>2, <2>3, Zenon
  <2>5. O(j) \in Int /\ (OpenPlaces(u, n) >= O(j) <=> O(j) <= last + change)
    <3>1. O(j) \in Int
      BY <1>1, <1>2
    <3> HIDE DEF O, last, change, u
    <3> QED BY <1>3, <3>1
  <2> QED BY <2>1, <2>4, <2>5, Zenon
<1>6. ASSUME NEW q \in Int
      PROVE  n \in WayTo(u, q) <=> x.token = "op" /\ last + change <= q
  <2>1. \A k : k \in n..n <=> k = n
    BY <1>1
  <2>2. n \in 1..n
    BY <1>1
  <2>3. OpenPlaces(u, n) >= OpenPlaces(u, n)
    BY <1>3
  <2> HIDE DEF u, n, last, change
  <2> QED BY <1>1, <1>3, <2>1, <2>2, <2>3, Zenon DEF WayTo
<1>7. \A q : WayTo(u, q) \subseteq 1..Len(t) \cup {n}
  BY <1>1 DEF WayTo
<1>8. \A q : \A j \in 1..Len(t) : On(j, q) => O(j) \in Int /\ O(j) <= last
  <2> SUFFICES ASSUME NEW q, NEW j \in 1..Len(t), On(j, q) PROVE O(j) \in Int /\ O(j) <= last
    OBVIOUS
  <2>1. Len(t) \in j..Len(t) /\ j \in 0..Len(t)
    BY <1>1
  <2>2. last >= O(j)
    BY <2>1
  <2> QED BY <1>2, <1>3, <2>1, <2>2
<1>9. n \notin 1..Len(t) /\ \A q : n \notin WayTo(t, q)
  BY <1>1, <1>4
<1>10. \A q, j : j \in WayTo(t, q) <=> j \in 1..Len(t) /\ On(j, q)
  BY <1>4
<1>11. \A j \in 1..Len(t), q \in Int : On(j, q) <=> On(j, last) /\ O(j) <= q
  BY <1>8 DEF On
<1> HIDE DEF On, u, n, last, O, change
<1>12. change \in {-1, 0, 1} /\ (x.token = "fork" => change = 1) /\ (x.token = "att" => change = -1)
       /\ (x.token = "op" => change = 0)
  BY DEF change
<1>13. ASSUME NEW q \in Int, q <= last, q <= last + change, x.token # "op" \/ q < last + change
       PROVE  WayTo(u, q) = WayTo(t, q)
  <2>1. ASSUME NEW j \in 1..Len(t) PROVE j \in WayTo(u, q) <=> j \in WayTo(t, q)
    <3>1. On(j, q) => O(j) \in Int /\ O(j) <= q
      BY <1>8, <1>11, <1>3, <2>1
    <3> QED BY <1>3, <1>5, <1>10, <1>13, <2>1, <3>1
  <2>2. n \notin WayTo(u, q)
    BY <1>3, <1>6, <1>13
  <2> QED BY <1>7, <1>9, <1>10, <2>1, <2>2
<1>14. ASSUME x.token = "fork" PROVE WayTo(u, last + 1) = WayTo(t, last)
  <2>1. ASSUME NEW j \in 1..Len(t) PROVE j \in WayTo(u, last + 1) <=> j \in WayTo(t, last)
    <3>1. On(j, last + 1) <=> On(j, last)
      BY <1>3, <1>8, <1>11, <2>1
    <3>2. On(j, last) => O(j) \in Int /\ O(j) <= last
      BY <1>8, <2>1
    <3> QED BY <1>3, <1>5, <1>10, <1>12, <1>14, <2>1, <3>1, <3>2
  <2>2. n \notin WayTo(u, last + 1)
    BY <1>3, <1>6, <1>14
  <2> QED BY <1>7, <1>9, <1>10, <2>1, <2>2
<1>15. ASSUME x.token = "op" PROVE WayTo(u, last) = WayTo(t, last) \cup {n}
  <2>1. ASSUME NEW j \in 1..Len(t) PROVE j \in WayTo(u, last) <=> j \in WayTo(t, last)
    <3>1. On(j, last) => O(j) \in Int /\ O(j) <= last
      BY <1>8, <2>1
    <3> QED BY <1>3, <1>5, <1>10, <1>12, <1>15, <2>1, <3>1
  <2>2. n \in WayTo(u, last)
    BY <1>3, <1>6, <1>12, <1>15
  <2> QED BY <1>7, <1>9, <1>10, <2>1, <2>2
<1>16. x.token = "fork" /\ p <= last => WayTo(u, p) = WayTo(t, p)
  BY <1>3, <1>12, <1>13
<1>17. x.token \in {"att", "op"} /\ p < last => WayTo(u, p) = WayTo(t, p)
  BY <1>3, <1>12, <1>13
<1> QED BY <1>14, <1>15, <1>16, <1>17, Zenon DEF u, n, last

-----------------------------------------------------------------------------
(* Messages *)

\* Two proofs and their messages agree on the first n tokens.
Agree(n, u, w, t, m) == \A i \in 1..n : u[i] = t[i] /\ w[i] = m[i]

\* The message behind a way depends on the messages of its operations only.
LEMMA BehindSame ==
  ASSUME NEW d, NEW n \in Nat, NEW t, NEW m, NEW u, NEW w, Agree(n, u, w, t, m),
         NEW way \in SUBSET (1..n)
  PROVE  Behind(d, u, w, way) = Behind(d, t, m, way)
<1>1. CASE way = {}
  BY <1>1 DEF Behind
<1>2. CASE way # {}
  <2>1. Greatest(way) \in 1..n
    BY <1>2, HasGreatest
  <2>2. u[Greatest(way)] = t[Greatest(way)] /\ w[Greatest(way)] = m[Greatest(way)]
    BY <2>1, Zenon DEF Agree
  <2> QED BY <2>2, Zenon DEF Behind
<1> QED BY <1>1, <1>2

\* The messages with that of one more position.
Extended(d, t, m) ==
    [i \in 1..(Len(t) + 1) |-> IF i <= Len(t) THEN m[i] ELSE Behind(d, t, m, OnTheWay(t, Len(t) + 1))]

\* Behind any way of the shorter proof is what was.
SameBehind(d, u, w, t, m) ==
    \A way \in SUBSET (1..Len(t)) : Behind(d, u, w, way) = Behind(d, t, m, way)

\* They solve the equation for the longer proof.
LEMMA ExtendedSolves ==
  ASSUME NEW d, NEW t, IsSeq(t), NEW m, Solves(d, t, m), NEW x
  PROVE  /\ Solves(d, Append(t, x), Extended(d, t, m))
         /\ Agree(Len(t), Append(t, x), Extended(d, t, m), t, m)
         /\ Extended(d, t, m)[Len(t) + 1] = Behind(d, t, m, OnTheWay(t, Len(t) + 1))
         /\ SameBehind(d, Append(t, x), Extended(d, t, m), t, m)
<1> DEFINE u == Append(t, x)
           w == Extended(d, t, m)
           n == Len(t) + 1
<1>1. /\ Len(t) \in Nat /\ DOMAIN t = 1..Len(t) /\ DOMAIN u = 1..n /\ \A j \in 1..Len(t) : u[j] = t[j]
  BY AppendIs
<1>2. \A i \in 1..Len(t) : w[i] = m[i]
  BY <1>1 DEF Extended
<1>3. w[n] = Behind(d, t, m, OnTheWay(t, n))
  BY <1>1 DEF Extended
<1>4. \A way \in SUBSET (1..Len(t)) : Behind(d, u, w, way) = Behind(d, t, m, way)
  <2> HIDE DEF u, w
  <2>1. Agree(Len(t), u, w, t, m)
    BY <1>1, <1>2 DEF Agree
  <2> QED BY <1>1, <2>1, BehindSame
<1>5. \A i \in 1..n : OnTheWay(u, i) = OnTheWay(t, i) /\ OnTheWay(t, i) \in SUBSET (1..Len(t))
  <2> SUFFICES ASSUME NEW i \in 1..n PROVE OnTheWay(u, i) = OnTheWay(t, i) /\ OnTheWay(t, i) \in SUBSET (1..Len(t))
    OBVIOUS
  <2>1. OnTheWay(t, i) \subseteq 1..(i - 1)
    BY WaysAreEarlier
  <2>2. 1..(i - 1) \subseteq 1..Len(t)
    BY <1>1
  <2> QED BY <2>1, <2>2, WayAppend
<1>6. \A i \in 1..Len(t) : m[i] = Behind(d, t, m, OnTheWay(t, i))
  BY <1>1 DEF Solves
<1>7. \A i \in 1..n : w[i] = Behind(d, u, w, OnTheWay(u, i))
  <2> SUFFICES ASSUME NEW i \in 1..n PROVE w[i] = Behind(d, u, w, OnTheWay(u, i))
    OBVIOUS
  <2>1. Behind(d, u, w, OnTheWay(u, i)) = Behind(d, t, m, OnTheWay(t, i))
    BY <1>4, <1>5
  <2>2. CASE i \in 1..Len(t)
    BY <1>2, <1>6, <2>1, <2>2, Zenon
  <2>3. CASE i = n
    BY <1>3, <2>1, <2>3, Zenon
  <2> QED BY <1>1, <2>2, <2>3
<1>8. w = [i \in DOMAIN u |-> w[i]]
  BY <1>1, Zenon DEF Extended
<1> HIDE DEF u, w
<1>9. Solves(d, u, w)
  BY <1>1, <1>7, <1>8 DEF Solves
<1>10. SameBehind(d, u, w, t, m)
  BY <1>4 DEF SameBehind
<1>11. Agree(Len(t), u, w, t, m)
  BY <1>1, <1>2, Zenon DEF Agree
<1> QED BY <1>3, <1>9, <1>10, <1>11, Zenon DEF u, w, n

\* The equation of the messages has at most one solution.
LEMMA OneSolution ==
  ASSUME NEW d, NEW t, IsSeq(t), NEW m, Solves(d, t, m), NEW w, Solves(d, t, w)
  PROVE  m = w
<1>1. Len(t) \in Nat /\ DOMAIN t = 1..Len(t)
  BY AppendIs
<1>2. \A i \in 1..Len(t) : m[i] = Behind(d, t, m, OnTheWay(t, i)) /\ w[i] = Behind(d, t, w, OnTheWay(t, i))
  BY <1>1 DEF Solves
<1> DEFINE D == {i \in 1..Len(t) : m[i] # w[i]}
<1>3. D = {}
  <2> SUFFICES ASSUME D # {} PROVE FALSE
    OBVIOUS
  <2> DEFINE Above == OpToRel(<, Nat)
  <2>1. D \subseteq Nat
    BY <1>1
  <2>2. PICK i \in D : \A y \in D : <<y, i>> \notin Above
    BY <2>1, NatLessThanWellFounded, WFMin
  <2>3. \A y \in D : y < i => <<y, i>> \in Above
    BY <2>1 DEF OpToRel
  <2> HIDE DEF Above
  <2>4. \A j \in 1..(i - 1) : m[j] = w[j]
    <3> SUFFICES ASSUME NEW j \in 1..(i - 1) PROVE m[j] = w[j]
      OBVIOUS
    <3>1. j \in 1..Len(t) /\ j < i
      BY <1>1
    <3> QED BY <2>2, <2>3, <3>1
  <2>5. OnTheWay(t, i) \subseteq 1..(i - 1) /\ i - 1 \in Nat
    <3>1. i \in 1..(Len(t) + 1)
      BY <1>1
    <3> QED BY <3>1, WaysAreEarlier
  <2>6. Behind(d, t, m, OnTheWay(t, i)) = Behind(d, t, w, OnTheWay(t, i))
    <3>1. Agree(i - 1, t, m, t, w)
      BY <2>4 DEF Agree
    <3>2. OnTheWay(t, i) \in SUBSET (1..(i - 1))
      BY <2>5
    <3> QED BY <2>5, <3>1, <3>2, BehindSame
  <2> QED BY <1>2, <2>6
<1>4. \A i \in 1..Len(t) : m[i] = w[i]
  BY <1>3
<1> QED BY <1>1, <1>4 DEF Solves

\* A solution is what the model computes.
LEMMA MessagesAre ==
  ASSUME NEW d, NEW t, IsSeq(t), NEW m, Solves(d, t, m)
  PROVE  Messages(d, t) = m
<1> DEFINE Solution(w) == w = [i \in DOMAIN t |-> Behind(d, t, w, OnTheWay(t, i))]
<1>1. Messages(d, t) = CHOOSE w : Solution(w)
  BY DEF Messages
<1>2. Solution(m)
  BY DEF Solves
<1>3. Solution(Messages(d, t))
  <2> HIDE DEF Solution
  <2> QED BY <1>1, <1>2, Zenon
<1>4. Solves(d, t, Messages(d, t))
  BY <1>3 DEF Solves
<1> QED BY <1>4, OneSolution

-----------------------------------------------------------------------------
(* The stack *)

\* What every field of a call is.
LEMMA CallFields ==
  ASSUME NEW f, Calls(f)
  PROVE  /\ Len(f) \in Nat /\ DOMAIN f = 1..Len(f) /\ (f # <<>> => Len(f) \in DOMAIN f)
         /\ \A c \in 1..Len(f) :
              /\ f[c] = [msg |-> f[c].msg, depth |-> f[c].depth, forked |-> f[c].forked]
              /\ IsBytes(f[c].msg) /\ Len(f[c].msg) <= MaxBytes
              /\ f[c].depth \in 0..MaxDepth /\ f[c].forked \in BOOLEAN
<1>1. Len(f) \in Nat /\ DOMAIN f = 1..Len(f) /\ (f # <<>> => Len(f) \in DOMAIN f)
  BY DEF Calls, IsSeq
<1> QED BY <1>1, Zenon DEF Calls, IsCall

\* The topmost call is the one that reads at the last open place.
LEMMA TopReads ==
  ASSUME NEW d, NEW t, IsSeq(t), NEW f, Calls(f), f # <<>>, NEW m, StackIs(d, t, f, m)
  PROVE  /\ OpenPlaces(t, Len(t)) \in Nat \ {0}
         /\ Last(f).msg = Behind(d, t, m, OnTheWay(t, Len(t) + 1))
         /\ Last(f).depth = Cardinality(OnTheWay(t, Len(t) + 1))
<1> DEFINE last == OpenPlaces(t, Len(t))
<1>1. Len(f) \in Nat \ {0}
  BY CallFields
<1>2. last = Len(f) \/ last = Len(f) + 1
  BY <1>1 DEF StackIs
<1>3. CallOf(f, last) = Last(f)
  BY <1>1, <1>2 DEF CallOf, Last
<1>4. last \in 1..last
  BY <1>1, <1>2
<1>5. CallOf(f, last).msg = Behind(d, t, m, WayTo(t, last)) /\ CallOf(f, last).depth = Cardinality(WayTo(t, last))
  BY <1>4, Zenon DEF StackIs
<1>6. OnTheWay(t, Len(t) + 1) = WayTo(t, last)
  BY NextWay
<1> HIDE DEF last
<1> QED BY <1>1, <1>2, <1>3, <1>5, <1>6 DEF last

\* All calls but the topmost.
ButTop(f) == SubSeq(f, 1, Len(f) - 1)

\* They are as they were.
LEMMA ButTopIs ==
  ASSUME NEW f, IsSeq(f), f # <<>>
  PROVE  /\ IsSeq(ButTop(f)) /\ Len(ButTop(f)) = Len(f) - 1 /\ DOMAIN ButTop(f) = 1..(Len(f) - 1)
         /\ \A k \in 1..(Len(f) - 1) : ButTop(f)[k] = f[k]
<1>1. PICK S : f \in Seq(S)
  BY DEF IsSeq
<1>2. Len(f) \in Nat /\ Len(f) # 0 /\ Len(f) - 1 \in Nat
  BY <1>1, EmptySeq
<1>3. \A k \in 1..(Len(f) - 1) : k \in 1..Len(f)
  BY <1>2
<1>4. ButTop(f) = [k \in 1..(Len(f) - 1) |-> f[k]]
  <2>1. 1 + (Len(f) - 1) - 1 = Len(f) - 1 /\ \A k \in Int : k + 1 - 1 = k
    BY <1>2
  <2> QED BY <1>1, <1>2, <2>1 DEF ButTop
<1>5. ButTop(f) \in [1..(Len(f) - 1) -> S]
  BY <1>1, <1>3, <1>4
<1>6. ButTop(f) \in Seq(S) /\ Len(ButTop(f)) = Len(f) - 1
  BY <1>2, <1>5, SeqDef, LenProperties
<1> QED BY <1>4, <1>6 DEF IsSeq

\* The calls with another one in the place of the topmost.
Retop(f, c) == Append(ButTop(f), c)

\* Putting another call in the place of the topmost one.
LEMMA Retopped ==
  \A f, c : Calls(f) /\ f # <<>> /\ IsCall(c) =>
    /\ Calls(Retop(f, c)) /\ Len(Retop(f, c)) = Len(f) /\ Retop(f, c)[Len(f)] = c
    /\ \A k \in 1..(Len(f) - 1) : Retop(f, c)[k] = f[k]
<1> SUFFICES ASSUME NEW f, NEW c, Calls(f), f # <<>>, IsCall(c)
             PROVE  /\ Calls(Retop(f, c)) /\ Len(Retop(f, c)) = Len(f) /\ Retop(f, c)[Len(f)] = c
                    /\ \A k \in 1..(Len(f) - 1) : Retop(f, c)[k] = f[k]
  BY Zenon
<1>1. PICK g : g = Retop(f, c)
  OBVIOUS
<1>2. Len(f) \in Nat /\ Len(f) \in 1..Len(f) /\ DOMAIN f = 1..Len(f)
  BY CallFields
<1>3. PICK b : b = ButTop(f)
  OBVIOUS
<1>4. IsSeq(b) /\ Len(b) = Len(f) - 1 /\ \A k \in 1..(Len(f) - 1) : b[k] = f[k]
  BY <1>2, <1>3, ButTopIs DEF Calls
<1>5. /\ IsSeq(g) /\ DOMAIN g = 1..(Len(b) + 1) /\ Len(g) = Len(b) + 1
      /\ g[Len(b) + 1] = c /\ \A k \in 1..Len(b) : g[k] = b[k]
  BY <1>1, <1>3, <1>4, AppendIs DEF Retop
<1>6. /\ Len(g) = Len(f) /\ DOMAIN g = 1..Len(f) /\ g[Len(f)] = c
      /\ \A k \in 1..(Len(f) - 1) : g[k] = f[k]
  BY <1>2, <1>5, <1>4
<1>7. \A k \in 1..Len(f) : IsCall(g[k])
  <2>1. \A k \in 1..Len(f) : k \in 1..(Len(f) - 1) \/ k = Len(f)
    <3>1. \A n \in Nat : \A k \in 1..n : k \in 1..(n - 1) \/ k = n
      OBVIOUS
    <3> QED BY <1>2, <3>1, Zenon
  <2>2. \A k \in 1..(Len(f) - 1) : IsCall(f[k])
    BY <1>2 DEF Calls
  <2> QED BY <1>6, <2>1, <2>2, Zenon
<1>8. Calls(g)
  BY <1>5, <1>6, <1>7 DEF Calls
<1> QED BY <1>1, <1>6, <1>8, Zenon

\* A call of which only its branch is changed.
Mark(c, forked) == [c EXCEPT !.forked = forked]

\* It is a call with the same message and depth.
LEMMA MarkedCall ==
  ASSUME NEW c, IsCall(c), NEW mark \in BOOLEAN
  PROVE  /\ IsCall(Mark(c, mark)) /\ Mark(c, mark).msg = c.msg /\ Mark(c, mark).depth = c.depth
         /\ Mark(c, mark).forked = mark
<1>1. c = [msg |-> c.msg, depth |-> c.depth, forked |-> c.forked]
  BY DEF IsCall
<1>2. PICK h : h = Mark(c, mark)
  OBVIOUS
<1>3. h = [msg |-> c.msg, depth |-> c.depth, forked |-> mark]
  BY <1>1, <1>2 DEF Mark
<1>4. h.msg = c.msg /\ h.depth = c.depth /\ h.forked = mark
  BY <1>3
<1>5. IsCall(h)
  BY <1>3, <1>4 DEF IsCall
<1> QED BY <1>2, <1>4, <1>5, Zenon

\* The call of an open place.
LEMMA CallIs ==
  /\ \A f : \A n \in Nat : Len(f) = n => \A p \in 1..n : CallOf(f, p) = f[p]
  /\ \A f : \A n \in Nat : Len(f) = n => CallOf(f, n + 1) = f[n]
<1>1. \A n \in Nat : /\ ~(n + 1 <= n) /\ \A p \in 1..n : p <= n
  OBVIOUS
<1>2. \A f, n, p : n \in Nat /\ Len(f) = n /\ p \in 1..n => CallOf(f, p) = f[p]
  BY <1>1, Zenon DEF CallOf
<1>3. \A f, n : n \in Nat /\ Len(f) = n => CallOf(f, n + 1) = f[n]
  BY <1>1, Zenon DEF CallOf
<1> QED BY <1>2, <1>3, Zenon

\* A branch in the topmost call.
LEMMA ForkKeepsStack ==
  ASSUME NEW d, NEW t, IsSeq(t), NEW f, Calls(f), f # <<>>, NEW m, StackIs(d, t, f, m), Solves(d, t, m),
         ~Last(f).forked, NEW x, x.token = "fork",
         NEW g, g = Retop(f, Mark(Last(f), TRUE))
  PROVE  Calls(g) /\ StackIs(d, Append(t, x), g, Extended(d, t, m))
<1> DEFINE last == OpenPlaces(t, Len(t))
           u == Append(t, x)
           w == Extended(d, t, m)
<1>1. Len(f) \in Nat /\ Len(f) # 0 /\ Len(f) \in 1..Len(f)
  BY CallFields
<1>2. DOMAIN f = 1..Len(f)
  BY CallFields
<1>3. PICK top : top = Mark(Last(f), TRUE)
  OBVIOUS
<1>4. IsCall(top) /\ top.msg = f[Len(f)].msg /\ top.depth = f[Len(f)].depth /\ top.forked = TRUE
  <2>1. IsCall(Last(f))
    BY <1>2, <1>1 DEF Calls, Last
  <2>2. /\ IsCall(top) /\ top.msg = Last(f).msg /\ top.depth = Last(f).depth /\ top.forked = TRUE
    BY <1>3, <2>1, MarkedCall, Zenon
  <2> QED BY <2>2, Zenon DEF Last
<1>5. /\ Calls(g) /\ Len(g) = Len(f) /\ g[Len(f)] = top
      /\ \A k \in 1..(Len(f) - 1) : g[k] = f[k]
  <2>1. g = Retop(f, top)
    BY <1>3, Zenon
  <2>2. /\ Calls(Retop(f, top)) /\ Len(Retop(f, top)) = Len(f) /\ Retop(f, top)[Len(f)] = top
        /\ \A k \in 1..(Len(f) - 1) : Retop(f, top)[k] = f[k]
    <3>1. IsCall(top) /\ Calls(f) /\ f # <<>>
      BY <1>4
    <3> QED BY <3>1, Retopped, ZenonT(40)
  <2> QED BY <2>1, <2>2, Zenon
<1>6. \A c \in 1..Len(f) : g[c].msg = f[c].msg /\ g[c].depth = f[c].depth
  <2>1. \A c \in 1..Len(f) : c \in 1..(Len(f) - 1) \/ c = Len(f)
    <3>1. \A n \in Nat : \A c \in 1..n : c \in 1..(n - 1) \/ c = n
      OBVIOUS
    <3> QED BY <1>1, <3>1, Zenon
  <2> QED BY <1>4, <1>5, <2>1, Zenon
<1> HIDE DEF u, w
<1>7. last = Len(f)
  BY <1>1 DEF StackIs
<1>8. Len(g) = Len(f) /\ Len(f) = last /\ last \in Nat
  <2>1. Len(g) = Len(f)
    BY <1>5, Zenon
  <2> QED BY <1>1, <1>7, <2>1, Zenon
<1> HIDE DEF last
<1>9. OpenPlaces(u, Len(u)) = last + 1 /\ Len(t) \in Nat
  <2>1. Len(u) = Len(t) + 1 /\ Len(t) \in Nat
    BY AppendIs DEF u
  <2>2. last \in Int
    BY <1>1, <1>7
  <2> QED BY <2>1, <2>2, OpenAppend DEF u, last
<1>10. g # <<>> /\ Last(g).forked = TRUE
  <2>1. Last(g) = top
    BY <1>5 DEF Last
  <2>2. g # <<>>
    BY <1>1, <1>5
  <2> QED BY <1>4, <2>1, <2>2
<1>11. SameBehind(d, u, w, t, m)
  BY ExtendedSolves, Zenon DEF u, w
<1>12. ASSUME NEW p \in 1..last
      PROVE  /\ CallOf(g, p).msg = Behind(d, u, w, WayTo(u, p))
             /\ CallOf(g, p).depth = Cardinality(WayTo(u, p))
  <2>1. WayTo(u, p) = WayTo(t, p)
    BY <1>8, WaysAfter DEF u, last
  <2>2. WayTo(t, p) \in SUBSET (1..Len(t))
    BY <1>9, WaysAreEarlier
  <2>3. CallOf(f, p).msg = Behind(d, t, m, WayTo(t, p)) /\ CallOf(f, p).depth = Cardinality(WayTo(t, p))
    BY DEF StackIs, last
  <2>4. CallOf(g, p) = g[p] /\ CallOf(f, p) = f[p]
    <3>1. Len(g) = last /\ Len(f) = last /\ last \in Nat
      BY <1>8, Zenon
    <3> QED BY <1>12, <3>1, CallIs, Zenon
  <2>5. g[p].msg = f[p].msg /\ g[p].depth = f[p].depth
    BY <1>7, <1>6
  <2>6. Behind(d, u, w, WayTo(t, p)) = Behind(d, t, m, WayTo(t, p))
    BY <1>11, <2>2, Zenon DEF SameBehind
  <2> QED BY <2>1, <2>3, <2>4, <2>5, <2>6, Zenon
<1>13. /\ CallOf(g, last + 1).msg = Behind(d, u, w, WayTo(u, last + 1))
       /\ CallOf(g, last + 1).depth = Cardinality(WayTo(u, last + 1))
  <2>1. WayTo(u, last + 1) = WayTo(t, last)
    BY <1>8, WaysAfter DEF u, last
  <2>2. WayTo(u, last) = WayTo(t, last)
    BY <1>8, WaysAfter DEF u, last
  <2>3. last \in 1..last
    BY <1>1, <1>7
  <2>4. CallOf(g, last + 1) = CallOf(g, last)
    <3>1. Len(g) = last /\ last \in Nat
      BY <1>8, Zenon
    <3> QED BY <2>3, <3>1, CallIs, Zenon
  <2> QED BY <1>12, <2>1, <2>2, <2>4, <2>3
<1>14. \A p \in 1..(last + 1) : p \in 1..last \/ p = last + 1
  BY <1>1, <1>7
<1>15. \A c \in 1..(Len(g) - 1) : g[c].forked = FALSE
  BY <1>5 DEF StackIs
<1>16. last + 1 = Len(g) + (IF g # <<>> /\ Last(g).forked THEN 1 ELSE 0)
  BY <1>5, <1>7, <1>10
<1>17. StackIs(d, u, g, w)
  BY <1>9, <1>12, <1>13, <1>14, <1>15, <1>16, Zenon DEF StackIs
<1> QED BY <1>5, <1>17 DEF u, w

\* The calls after a branch of the topmost one, or after all of it.
After(f) == IF Last(f).forked THEN Retop(f, Mark(Last(f), FALSE)) ELSE ButTop(f)

\* How many places calls read at.
PlacesIn(f) == Len(f) + (IF Last(f).forked THEN 1 ELSE 0)

\* One place less; the calls of the others are the same, and none is in a branch.
LEMMA BranchOver ==
  ASSUME NEW f, Calls(f), f # <<>>, \A c \in 1..(Len(f) - 1) : f[c].forked = FALSE
  PROVE  /\ Calls(After(f)) /\ PlacesIn(f) \in Nat \ {0} /\ Len(After(f)) = PlacesIn(f) - 1
         /\ \A p \in 1..(PlacesIn(f) - 1) :
              /\ After(f)[p].msg = CallOf(f, p).msg /\ After(f)[p].depth = CallOf(f, p).depth
              /\ After(f)[p].forked = FALSE
<1>1. Len(f) \in Nat \ {0} /\ Len(f) - 1 \in Nat /\ DOMAIN f = 1..Len(f) /\ Len(f) \in 1..Len(f)
  BY CallFields
<1>2. PICK n \in Nat : n = Len(f)
  BY <1>1
<1>3. \A p \in 1..n : CallOf(f, p) = f[p]
  BY <1>2, CallIs, Zenon
<1>4. \A p \in 1..n : p \in 1..(n - 1) \/ p = n
  OBVIOUS
<1>5. \A p \in 1..(n - 1) : p \in 1..n
  OBVIOUS
<1>6. CASE Last(f).forked
  <2>1. PlacesIn(f) = n + 1 /\ n + 1 \in Nat \ {0} /\ (n + 1) - 1 = n
    <3>1. PlacesIn(f) = n + 1
      BY <1>2, <1>6, Zenon DEF PlacesIn
    <3> QED BY <1>2, <3>1
  <2>2. PICK top : top = Mark(Last(f), FALSE)
    OBVIOUS
  <2>3. IsCall(top) /\ top.msg = f[n].msg /\ top.depth = f[n].depth /\ top.forked = FALSE
    <3>1. IsCall(Last(f)) /\ Last(f) = f[n]
      BY <1>1, <1>2, Zenon DEF Calls, Last
    <3>2. IsCall(top) /\ top.msg = Last(f).msg /\ top.depth = Last(f).depth /\ top.forked = FALSE
      BY <2>2, <3>1, MarkedCall, Zenon
    <3> QED BY <3>1, <3>2, Zenon
  <2>4. /\ Calls(After(f)) /\ Len(After(f)) = n /\ After(f)[n] = top
        /\ \A k \in 1..(n - 1) : After(f)[k] = f[k]
    <3>1. After(f) = Retop(f, top)
      BY <1>6, <2>2, Zenon DEF After
    <3>2. /\ Calls(Retop(f, top)) /\ Len(Retop(f, top)) = Len(f) /\ Retop(f, top)[Len(f)] = top
          /\ \A k \in 1..(Len(f) - 1) : Retop(f, top)[k] = f[k]
      <4>1. IsCall(top) /\ Calls(f) /\ f # <<>>
        BY <2>3
      <4> QED BY <4>1, Retopped, ZenonT(40)
    <3> QED BY <1>2, <3>1, <3>2, Zenon
  <2>5. ASSUME NEW p \in 1..n
        PROVE  /\ After(f)[p].msg = CallOf(f, p).msg /\ After(f)[p].depth = CallOf(f, p).depth
               /\ After(f)[p].forked = FALSE
    <3>1. CASE p = n
      BY <1>3, <2>3, <2>4, <3>1, Zenon
    <3>2. CASE p \in 1..(n - 1)
      BY <1>2, <1>3, <2>4, <3>2, Zenon
    <3> QED BY <1>4, <3>1, <3>2, Zenon
  <2> QED BY <2>1, <2>4, <2>5, Zenon
<1>7. CASE ~Last(f).forked
  <2>1. PlacesIn(f) = n /\ n \in Nat \ {0}
    <3>1. PlacesIn(f) = n + 0
      BY <1>2, <1>7, Zenon DEF PlacesIn
    <3> QED BY <1>1, <1>2, <3>1
  <2>2. After(f) = ButTop(f)
    BY <1>7, Zenon DEF After
  <2>3. /\ IsSeq(After(f)) /\ Len(After(f)) = n - 1 /\ DOMAIN After(f) = 1..(n - 1)
        /\ \A k \in 1..(n - 1) : After(f)[k] = f[k]
    BY <1>2, <2>2, ButTopIs, Zenon DEF Calls
  <2>4. Calls(After(f))
    BY <1>1, <1>2, <1>5, <2>3, Zenon DEF Calls
  <2> QED BY <1>2, <1>3, <1>5, <2>1, <2>3, <2>4, Zenon
<1> QED BY <1>6, <1>7, Zenon

\* A stack of which no call is in a branch.
LEMMA PlainStack ==
  ASSUME NEW d, NEW u, NEW g, NEW w, NEW n \in Nat, IsSeq(g), Len(g) = n, OpenPlaces(u, Len(u)) = n,
         \A p \in 1..n : /\ g[p].msg = Behind(d, u, w, WayTo(u, p))
                         /\ g[p].depth = Cardinality(WayTo(u, p)) /\ g[p].forked = FALSE
  PROVE  StackIs(d, u, g, w)
<1>1. \A p \in 1..n : CallOf(g, p) = g[p]
  BY CallIs, Zenon
<1>2. ~(g # <<>> /\ Last(g).forked)
  <2>1. ASSUME g # <<>> PROVE Last(g).forked = FALSE
    <3>1. n \in 1..n
      BY <2>1 DEF IsSeq
    <3> QED BY <3>1, Zenon DEF Last
  <2> QED BY <2>1, Zenon
<1>3. n = n + 0 /\ \A p \in 1..(n - 1) : p \in 1..n
  OBVIOUS
<1>4. n = n + (IF g # <<>> /\ Last(g).forked THEN 1 ELSE 0)
  BY <1>2, <1>3, Zenon
<1> QED BY <1>1, <1>3, <1>4, Zenon DEF StackIs

\* An attestation closes the last open place.
LEMMA AttKeepsStack ==
  ASSUME NEW d, NEW t, IsSeq(t), NEW f, Calls(f), f # <<>>, NEW m, StackIs(d, t, f, m), Solves(d, t, m),
         NEW x, x.token = "att"
  PROVE  Calls(After(f)) /\ StackIs(d, Append(t, x), After(f), Extended(d, t, m))
<1> DEFINE u == Append(t, x)
           w == Extended(d, t, m)
<1>1. SameBehind(d, u, w, t, m)
  BY ExtendedSolves, Zenon
<1>2. PICK last : last = OpenPlaces(t, Len(t))
  OBVIOUS
<1>3. last = PlacesIn(f) /\ \A c \in 1..(Len(f) - 1) : f[c].forked = FALSE
  BY <1>2, Zenon DEF StackIs, PlacesIn
<1>4. /\ Calls(After(f)) /\ last \in Nat \ {0} /\ Len(After(f)) = last - 1
      /\ \A p \in 1..(last - 1) :
           /\ After(f)[p].msg = CallOf(f, p).msg /\ After(f)[p].depth = CallOf(f, p).depth
           /\ After(f)[p].forked = FALSE
  BY <1>3, BranchOver, Zenon
<1>5. last - 1 \in Nat /\ \A p \in 1..(last - 1) : p \in 1..last /\ p \in Int /\ p < last
  BY <1>4
<1>6. OpenPlaces(u, Len(u)) = last - 1 /\ Len(t) \in Nat
  <2>1. Len(u) = Len(t) + 1 /\ Len(t) \in Nat
    BY AppendIs
  <2>2. OpenPlaces(u, Len(t) + 1)
          = OpenPlaces(t, Len(t)) + (IF x.token = "fork" THEN 1 ELSE 0) - (IF x.token = "att" THEN 1 ELSE 0)
    BY OpenAppend, Zenon
  <2>3. OpenPlaces(u, Len(t) + 1) = last + 0 - 1
    BY <1>2, <2>2
  <2>4. last + 0 - 1 = last - 1
    BY <1>4
  <2> QED BY <2>1, <2>3, <2>4, Zenon
<1>7. ASSUME NEW p \in 1..(last - 1)
      PROVE  /\ After(f)[p].msg = Behind(d, u, w, WayTo(u, p))
             /\ After(f)[p].depth = Cardinality(WayTo(u, p)) /\ After(f)[p].forked = FALSE
  <2>1. WayTo(u, p) = WayTo(t, p)
    BY <1>2, <1>5, WaysAfter, Zenon
  <2>2. WayTo(t, p) \in SUBSET (1..Len(t))
    BY <1>6, WaysAreEarlier
  <2>3. CallOf(f, p).msg = Behind(d, t, m, WayTo(t, p)) /\ CallOf(f, p).depth = Cardinality(WayTo(t, p))
    BY <1>2, <1>5, Zenon DEF StackIs
  <2>4. Behind(d, u, w, WayTo(t, p)) = Behind(d, t, m, WayTo(t, p))
    BY <1>1, <2>2, Zenon DEF SameBehind
  <2> QED BY <1>4, <2>1, <2>3, <2>4, Zenon
<1>8. IsSeq(After(f))
  BY <1>4 DEF Calls
<1> HIDE DEF u, w
<1>9. StackIs(d, u, After(f), w)
  BY <1>4, <1>5, <1>6, <1>7, <1>8, PlainStack
<1> QED BY <1>4, <1>9 DEF u, w

\* An operation is done at the last open place, which goes on behind it.
LEMMA OpKeepsStack ==
  ASSUME NEW d, NEW t, IsSeq(t), NEW f, Calls(f), f # <<>>, NEW m, StackIs(d, t, f, m), Solves(d, t, m),
         NEW x, x.token = "op", NEW call, IsCall(call), call.forked = FALSE,
         call.msg = ApplyOp(Last(f).msg, x.op), call.depth = Last(f).depth + 1
  PROVE  Calls(Append(After(f), call)) /\ StackIs(d, Append(t, x), Append(After(f), call), Extended(d, t, m))
<1> DEFINE u == Append(t, x)
           w == Extended(d, t, m)
           g == Append(After(f), call)
<1>1. SameBehind(d, u, w, t, m)
  BY ExtendedSolves, Zenon
<1>2. PICK last : last = OpenPlaces(t, Len(t))
  OBVIOUS
<1>3. last = PlacesIn(f) /\ \A c \in 1..(Len(f) - 1) : f[c].forked = FALSE
  BY <1>2, Zenon DEF StackIs, PlacesIn
<1>4. /\ Calls(After(f)) /\ last \in Nat \ {0} /\ Len(After(f)) = last - 1
      /\ \A p \in 1..(last - 1) :
           /\ After(f)[p].msg = CallOf(f, p).msg /\ After(f)[p].depth = CallOf(f, p).depth
           /\ After(f)[p].forked = FALSE
  BY <1>3, BranchOver, Zenon
<1>5. /\ last \in Nat /\ last \in Int /\ (last - 1) + 1 = last /\ \A p \in 1..last : p \in 1..(last - 1) \/ p = last
      /\ \A p \in 1..(last - 1) : p \in 1..last /\ p \in Int /\ p < last
  BY <1>4
<1>6. OpenPlaces(u, Len(u)) = last /\ Len(t) \in Nat
  <2>1. Len(u) = Len(t) + 1 /\ Len(t) \in Nat
    BY AppendIs
  <2>2. OpenPlaces(u, Len(t) + 1)
          = OpenPlaces(t, Len(t)) + (IF x.token = "fork" THEN 1 ELSE 0) - (IF x.token = "att" THEN 1 ELSE 0)
    BY OpenAppend, Zenon
  <2>3. OpenPlaces(u, Len(t) + 1) = last + 0 - 0
    BY <1>2, <2>2
  <2>4. last + 0 - 0 = last
    BY <1>4
  <2> QED BY <2>1, <2>3, <2>4, Zenon
<1>7. /\ IsSeq(g) /\ Len(g) = last /\ DOMAIN g = 1..last /\ g[last] = call
      /\ \A p \in 1..(last - 1) : g[p] = After(f)[p]
  <2>1. IsSeq(After(f))
    BY <1>4, Zenon DEF Calls
  <2>2. PICK a : a = After(f)
    OBVIOUS
  <2>3. /\ IsSeq(Append(a, call)) /\ Len(Append(a, call)) = Len(a) + 1 /\ DOMAIN Append(a, call) = 1..(Len(a) + 1)
        /\ (\A p \in 1..Len(a) : Append(a, call)[p] = a[p]) /\ Append(a, call)[Len(a) + 1] = call
    BY <2>1, <2>2, AppendIs
  <2>4. Len(a) = last - 1 /\ Len(a) + 1 = last
    <3>1. Len(a) = last - 1
      BY <1>4, <2>2, Zenon
    <3> QED BY <1>5, <3>1
  <2> QED BY <2>2, <2>3, <2>4, Zenon
<1>8. Calls(g)
  <2>1. \A p \in 1..(last - 1) : IsCall(After(f)[p])
    <3>1. PICK a : a = After(f)
      OBVIOUS
    <3>2. Calls(a) /\ Len(a) = last - 1
      BY <1>4, <3>1, Zenon
    <3>3. DOMAIN a = 1..Len(a)
      BY <3>2, CallFields
    <3> QED BY <3>1, <3>2, <3>3, Zenon DEF Calls
  <2>2. \A p \in 1..last : IsCall(g[p])
    BY <1>5, <1>7, <2>1, Zenon
  <2> HIDE DEF g
  <2> QED BY <1>7, <2>2, Zenon DEF Calls
<1>9. ASSUME NEW p \in 1..(last - 1)
      PROVE  /\ g[p].msg = Behind(d, u, w, WayTo(u, p))
             /\ g[p].depth = Cardinality(WayTo(u, p)) /\ g[p].forked = FALSE
  <2>1. WayTo(u, p) = WayTo(t, p)
    BY <1>2, <1>5, WaysAfter, Zenon
  <2>2. WayTo(t, p) \in SUBSET (1..Len(t))
    BY <1>6, WaysAreEarlier
  <2>3. CallOf(f, p).msg = Behind(d, t, m, WayTo(t, p)) /\ CallOf(f, p).depth = Cardinality(WayTo(t, p))
    BY <1>2, <1>5, Zenon DEF StackIs
  <2>4. Behind(d, u, w, WayTo(t, p)) = Behind(d, t, m, WayTo(t, p))
    BY <1>1, <2>2, Zenon DEF SameBehind
  <2>5. g[p] = After(f)[p]
    BY <1>7, Zenon
  <2> HIDE DEF g
  <2> QED BY <1>4, <2>1, <2>3, <2>4, <2>5, Zenon
<1>10. g[last].msg = Behind(d, u, w, WayTo(u, last)) /\ g[last].depth = Cardinality(WayTo(u, last))
  <2> DEFINE n == Len(t) + 1
             way == WayTo(t, last)
  <2>1. WayTo(u, last) = way \cup {n}
    BY <1>2, <1>5, WaysAfter, Zenon
  <2>2. way \subseteq 1..Len(t) /\ IsFiniteSet(way) /\ Cardinality(way) \in Nat
    <3>1. n \in 1..(Len(t) + 1)
      BY <1>6
    <3> QED BY <3>1, WaysAreEarlier
  <2>3. n \notin way /\ n \in Nat /\ \A j \in way \cup {n} : j \in Int /\ j <= n
    BY <1>6, <2>2
  <2>4. /\ Last(f).msg = Behind(d, t, m, OnTheWay(t, n)) /\ Last(f).depth = Cardinality(OnTheWay(t, n))
        /\ OnTheWay(t, n) = way
    BY <1>2, TopReads, NextWay, Zenon
  <2>5. w[n] = Last(f).msg /\ u[n] = x
    <3>1. w[n] = Behind(d, t, m, OnTheWay(t, n))
      BY ExtendedSolves, Zenon
    <3>2. u[n] = x
      BY AppendIs
    <3> QED BY <2>4, <3>1, <3>2, Zenon
  <2> HIDE DEF n, way, u, w, g
  <2>6. Greatest(way \cup {n}) = n
    BY <2>3, GreatestIs
  <2>7. Behind(d, u, w, way \cup {n}) = ApplyOp(w[n], u[n].op)
    <3>1. way \cup {n} # {}
      OBVIOUS
    <3> QED BY <2>6, <3>1, Zenon DEF Behind
  <2>8. Cardinality(way \cup {n}) = Cardinality(way) + 1
    BY <2>2, <2>3, FS_AddElement
  <2>9. call.msg = Behind(d, u, w, WayTo(u, last))
    BY <2>1, <2>5, <2>7, Zenon
  <2>10. call.depth = Cardinality(WayTo(u, last))
    BY <2>1, <2>4, <2>8, Zenon
  <2> QED BY <1>7, <2>9, <2>10, Zenon
<1>11. g[last].forked = FALSE
  BY <1>7, Zenon
<1> HIDE DEF u, w, g
<1>12. \A p \in 1..last : /\ g[p].msg = Behind(d, u, w, WayTo(u, p))
                         /\ g[p].depth = Cardinality(WayTo(u, p)) /\ g[p].forked = FALSE
  BY <1>5, <1>9, <1>10, <1>11, Zenon
<1>13. StackIs(d, u, g, w)
  BY <1>5, <1>6, <1>7, <1>12, PlainStack, Zenon
<1> QED BY <1>8, <1>13 DEF u, w, g

-----------------------------------------------------------------------------
(* The leaves *)

\* Counting attestations among the tokens that were there.
LEMMA EarlierCounts ==
  ASSUME NEW t, IsSeq(t), NEW x, NEW name
  PROVE  \A i \in 1..Len(t) : Append(t, x)[i] = t[i] /\ Count(Append(t, x), name, i) = Count(t, name, i)
<1>1. Len(t) \in Nat /\ \A i \in 1..Len(t) : i \in 0..Len(t) /\ Append(t, x)[i] = t[i]
  BY AppendIs
<1> QED BY <1>1, CountAppend

\* A token that is no attestation leaves the leaves.
LEMMA LeavesStay ==
  ASSUME NEW t, IsSeq(t), NEW l, NEW m, NEW w, LeavesAre(t, l, m),
         NEW x, x.token # "att", Agree(Len(t), Append(t, x), w, t, m)
  PROVE  LeavesAre(Append(t, x), l, w)
<1> DEFINE u == Append(t, x)
           n == Len(t) + 1
<1>1. Len(t) \in Nat /\ DOMAIN t = 1..Len(t) /\ DOMAIN u = 1..n /\ Len(u) = n /\ u[n] = x
  BY AppendIs
<1>2. \A i \in 1..Len(t) : u[i] = t[i] /\ Count(u, "att", i) = Count(t, "att", i)
  BY EarlierCounts, Zenon
<1>3. Count(u, "att", n) = Count(t, "att", Len(t))
  <2>1. Count(u, "att", n) = Count(t, "att", Len(t)) + 0 /\ Count(t, "att", Len(t)) \in Nat
    BY CountAll, Zenon
  <2> QED BY <2>1
<1>4. \A i \in 1..n : i \in 1..Len(t) \/ i = n
  BY <1>1
<1>5. \A i \in 1..Len(t) : i \in 1..n
  BY <1>1
<1> HIDE DEF u, n
<1>6. \A i \in 1..n : u[i].token = "att" => i \in 1..Len(t)
  BY <1>1, <1>4, Zenon
<1>7. \A i \in 1..Len(t) : w[i] = m[i]
  BY Zenon DEF Agree
<1> QED BY <1>1, <1>2, <1>3, <1>5, <1>6, <1>7, Zenon DEF LeavesAre, u

\* An attestation gives the next leaf.
LEMMA LeafAdded ==
  ASSUME NEW t, IsSeq(t), NEW l, IsSeq(l), NEW m, NEW w, LeavesAre(t, l, m),
         NEW x, x.token = "att", Agree(Len(t), Append(t, x), w, t, m)
  PROVE  LeavesAre(Append(t, x), Append(l, Leaf(w[Len(t) + 1], x)), w)
<1> DEFINE u == Append(t, x)
           n == Len(t) + 1
           k == Len(l) + 1
           more == Append(l, Leaf(w[n], x))
<1>1. Len(t) \in Nat /\ DOMAIN t = 1..Len(t) /\ DOMAIN u = 1..n /\ Len(u) = n /\ u[n] = x
  BY AppendIs
<1>2. \A i \in 1..Len(t) : u[i] = t[i] /\ Count(u, "att", i) = Count(t, "att", i)
  BY EarlierCounts, Zenon
<1>3. Count(u, "att", n) = k
  <2>1. Count(u, "att", n) = Count(t, "att", Len(t)) + 1
    BY CountAll, Zenon
  <2>2. Len(l) = Count(t, "att", Len(t))
    BY Zenon DEF LeavesAre
  <2> QED BY <2>1, <2>2, Zenon
<1>4. /\ Len(l) \in Nat /\ DOMAIN l = 1..Len(l) /\ DOMAIN more = 1..k /\ Len(more) = k
      /\ more[k] = Leaf(w[n], x) /\ \A q \in 1..Len(l) : more[q] = l[q]
  <2>1. PICK leaf : leaf = Leaf(w[n], x)
    OBVIOUS
  <2>2. /\ Len(l) \in Nat /\ DOMAIN l = 1..Len(l) /\ DOMAIN Append(l, leaf) = 1..k /\ Len(Append(l, leaf)) = k
        /\ Append(l, leaf)[k] = leaf /\ \A q \in 1..Len(l) : Append(l, leaf)[q] = l[q]
    BY AppendIs
  <2> QED BY <2>1, <2>2, Zenon
<1>5. /\ \A i \in 1..n : i \in 1..Len(t) \/ i = n
      /\ \A i \in 1..Len(t) : i \in 1..n
      /\ n \in 1..n
  BY <1>1
<1>6. /\ \A q \in 1..k : q \in 1..Len(l) \/ q = k
      /\ \A q \in 1..Len(l) : q \in 1..k
      /\ k \in 1..k
  BY <1>4
<1> HIDE DEF u, n, k, more
<1>7. \A i \in 1..Len(t) : u[i].token = "att" => Count(u, "att", i) \in 1..k /\ more[Count(u, "att", i)] = Leaf(w[i], u[i])
  <2> SUFFICES ASSUME NEW i \in 1..Len(t), u[i].token = "att"
               PROVE  Count(u, "att", i) \in 1..k /\ more[Count(u, "att", i)] = Leaf(w[i], u[i])
    BY Zenon
  <2>1. u[i] = t[i] /\ Count(u, "att", i) = Count(t, "att", i) /\ w[i] = m[i]
    BY <1>2, Zenon DEF Agree
  <2>2. Count(t, "att", i) \in 1..Len(l) /\ l[Count(t, "att", i)] = Leaf(m[i], t[i])
    BY <1>1, <1>4, <2>1, Zenon DEF LeavesAre
  <2> QED BY <1>4, <1>6, <2>1, <2>2, Zenon
<1>8. Count(u, "att", n) \in 1..k /\ more[Count(u, "att", n)] = Leaf(w[n], u[n])
  BY <1>1, <1>3, <1>4, <1>6, Zenon
<1>9. \A i \in 1..n : u[i].token = "att" => Count(u, "att", i) \in 1..k /\ more[Count(u, "att", i)] = Leaf(w[i], u[i])
  BY <1>5, <1>7, <1>8, Zenon
<1>10. \A q \in 1..Len(l) : \E i \in 1..n : u[i].token = "att" /\ Count(u, "att", i) = q
  BY <1>1, <1>2, <1>4, <1>5, Zenon DEF LeavesAre
<1>11. \E i \in 1..n : u[i].token = "att" /\ Count(u, "att", i) = k
  BY <1>1, <1>3, <1>5, Zenon
<1>12. \A q \in 1..k : \E i \in 1..n : u[i].token = "att" /\ Count(u, "att", i) = q
  BY <1>6, <1>10, <1>11, Zenon
<1>13. LeavesAre(u, more, w)
  BY <1>1, <1>3, <1>4, <1>9, <1>12, Zenon DEF LeavesAre
<1> QED BY <1>13 DEF u, more, n

-----------------------------------------------------------------------------
(* The limits *)

\* An operation is too deep or it is not; no other token changes a depth.
LEMMA DepthsAfter ==
  ASSUME NEW t, IsSeq(t), NEW x
  PROVE  /\ Shallow(t) /\ (x.token = "op" => Cardinality(OnTheWay(t, Len(t) + 1)) < MaxDepth) => Shallow(Append(t, x))
         /\ x.token = "op" /\ Cardinality(OnTheWay(t, Len(t) + 1)) = MaxDepth => TooDeep(Append(t, x))
<1> DEFINE u == Append(t, x)
           n == Len(t) + 1
<1>1. Len(t) \in Nat /\ DOMAIN t = 1..Len(t) /\ DOMAIN u = 1..n /\ u[n] = x /\ \A i \in 1..Len(t) : u[i] = t[i]
  BY AppendIs
<1>2. /\ \A i \in 1..n : i \in 1..Len(t) \/ i = n
      /\ \A i \in 1..Len(t) : i \in 1..n
      /\ n \in 1..n
  BY <1>1
<1>3. \A i \in 1..n : OnTheWay(u, i) = OnTheWay(t, i)
  BY WayAppend
<1> HIDE DEF u, n
<1>4. Shallow(t) /\ (x.token = "op" => Cardinality(OnTheWay(t, n)) < MaxDepth) => Shallow(u)
  BY <1>1, <1>2, <1>3, Zenon DEF Shallow
<1>5. x.token = "op" /\ Cardinality(OnTheWay(t, n)) = MaxDepth => TooDeep(u)
  BY <1>1, <1>2, <1>3, Zenon DEF TooDeep
<1> QED BY <1>4, <1>5 DEF u, n

\* What a token does to the limits.
LEMMA LimitsAfter ==
  ASSUME NEW t, IsSeq(t), NEW count, LimitsAre(t, count, "none"), NEW x
  PROVE  LET u == Append(t, x)
             depth == Cardinality(OnTheWay(t, Len(t) + 1))
         IN /\ \A code : Ordinary(code) => LimitsAre(t, count, code)
            /\ \A code : Ordinary(code) /\ x.token # "op" => LimitsAre(u, count, code)
            /\ x.token = "op" /\ depth < MaxDepth /\ ~TooMany(count + 1) => LimitsAre(u, count + 1, "none")
            /\ x.token = "op" /\ depth < MaxDepth /\ TooMany(count + 1) => LimitsAre(u, count + 1, "too_many_nodes")
            /\ x.token = "op" /\ depth = MaxDepth => LimitsAre(u, count, "recursion_limit")
            /\ LimitsAre(u, count, "invalid_result")
<1> DEFINE u == Append(t, x)
           depth == Cardinality(OnTheWay(t, Len(t) + 1))
           before == Count(t, "op", Len(t))
           now == Count(u, "op", Len(u))
<1>1. before \in Nat /\ now = before + (IF x.token = "op" THEN 1 ELSE 0)
  <2>1. Len(u) = Len(t) + 1
    BY AppendIs
  <2>2. before \in Nat /\ Count(u, "op", Len(t) + 1) = before + (IF x.token = "op" THEN 1 ELSE 0)
    BY CountAll
  <2> QED BY <2>1, <2>2, Zenon
<1>2. /\ Shallow(t) /\ (x.token = "op" => depth < MaxDepth) => Shallow(u)
      /\ x.token = "op" /\ depth = MaxDepth => TooDeep(u)
  BY DepthsAfter, Zenon
<1>3. Shallow(t) /\ count = 1 + before /\ count <= MaxNodes /\ MaxNodes \in Nat
  BY AnchorAssumption, Zenon DEF AnchorAssumption, LimitsAre, Ordinary
<1> HIDE DEF u, depth, before, now
<1>4. \A code : Ordinary(code) => LimitsAre(t, count, code)
  BY <1>3, Zenon DEF LimitsAre, Ordinary, before
<1>5. ASSUME NEW code, Ordinary(code), x.token # "op" PROVE LimitsAre(u, count, code)
  <2>1. now = before
    BY <1>1, <1>5
  <2>2. Shallow(u)
    BY <1>2, <1>3, <1>5, Zenon
  <2> QED BY <1>3, <1>5, <2>1, <2>2, Zenon DEF LimitsAre, Ordinary, now
<1>6. ASSUME x.token = "op", depth < MaxDepth, ~TooMany(count + 1) PROVE LimitsAre(u, count + 1, "none")
  <2>1. count + 1 = 1 + now /\ count + 1 <= MaxNodes
    BY <1>1, <1>3, <1>6 DEF TooMany
  <2>2. Shallow(u)
    BY <1>2, <1>3, <1>6, Zenon
  <2> QED BY <2>1, <2>2, Zenon DEF LimitsAre, Ordinary, now
<1>7. ASSUME x.token = "op", depth < MaxDepth, TooMany(count + 1) PROVE LimitsAre(u, count + 1, "too_many_nodes")
  <2>1. now = MaxNodes
    BY <1>1, <1>3, <1>7 DEF TooMany
  <2>2. Shallow(u)
    BY <1>2, <1>3, <1>7, Zenon
  <2> QED BY <2>1, <2>2, Zenon DEF LimitsAre, Ordinary, now
<1>8. ASSUME x.token = "op", depth = MaxDepth PROVE LimitsAre(u, count, "recursion_limit")
  BY <1>2, <1>8, Zenon DEF LimitsAre, Ordinary
<1>9. LimitsAre(u, count, "invalid_result")
  BY Zenon DEF LimitsAre, Ordinary
<1> QED BY <1>4, <1>5, <1>6, <1>7, <1>8, <1>9, Zenon DEF u, depth

\* Operations make bytes of bytes.
LEMMA OpGivesBytes ==
  ASSUME NEW msg, IsBytes(msg), NEW op \in Ops
  PROVE  IsBytes(ApplyOp(msg, op))
<1>1. op.name \in {"append", "prepend", "reverse", "sha256"} /\ op.arg \in Seq({op.arg[i] : i \in DOMAIN op.arg})
  BY AnchorAssumption, Zenon DEF AnchorAssumption
<1>2. PICK arg : arg = op.arg
  OBVIOUS
<1>3. PICK T : arg \in Seq(T)
  BY <1>1, <1>2, Zenon
<1>4. PICK S : msg \in Seq(S)
  BY DEF IsBytes, IsSeq
<1>5. msg \in Seq(S \cup T) /\ arg \in Seq(S \cup T) /\ Len(msg) \in Nat \ {0}
  BY <1>3, <1>4 DEF IsBytes
<1>6. IsBytes(msg \o arg) /\ IsBytes(arg \o msg)
  <2>1. msg \o arg \in Seq(S \cup T) /\ Len(msg \o arg) = Len(msg) + Len(arg)
    BY <1>5
  <2>2. arg \o msg \in Seq(S \cup T) /\ Len(arg \o msg) = Len(arg) + Len(msg)
    BY <1>5
  <2>3. msg \o arg # <<>> /\ arg \o msg # <<>>
    BY <1>5, <2>1, <2>2
  <2> QED BY <2>1, <2>2, <2>3, Zenon DEF IsBytes, IsSeq
<1>7. IsBytes([i \in DOMAIN msg |-> msg[Len(msg) - i + 1]])
  <2>1. DOMAIN msg = 1..Len(msg) /\ \A i \in 1..Len(msg) : Len(msg) - i + 1 \in 1..Len(msg)
    BY <1>5
  <2>2. \A i \in 1..Len(msg) : msg[i] \in S
    BY <1>4
  <2> DEFINE rev == [i \in DOMAIN msg |-> msg[Len(msg) - i + 1]]
  <2>3. rev \in [1..Len(msg) -> S]
    BY <2>1, <2>2
  <2>4. rev \in Seq(S) /\ Len(rev) = Len(msg)
    BY <1>5, <2>3, SeqDef, LenProperties
  <2> HIDE DEF rev
  <2>5. rev # <<>>
    BY <1>5, <2>4
  <2>6. IsBytes(rev)
    BY <2>4, <2>5, Zenon DEF IsBytes, IsSeq
  <2> QED BY <2>6 DEF rev
<1>8. IsBytes(<<[sha256 |-> msg]>>)
  <2>1. PICK h : h = [sha256 |-> msg]
    OBVIOUS
  <2>2. <<h>> \in Seq({h}) /\ <<h>> # <<>>
    OBVIOUS
  <2> QED BY <2>1, <2>2, Zenon DEF IsBytes, IsSeq
<1>9. \/ op.name = "append" /\ ApplyOp(msg, op) = msg \o arg
      \/ op.name = "prepend" /\ ApplyOp(msg, op) = arg \o msg
      \/ op.name = "reverse" /\ ApplyOp(msg, op) = [i \in DOMAIN msg |-> msg[Len(msg) - i + 1]]
      \/ op.name = "sha256" /\ ApplyOp(msg, op) = <<[sha256 |-> msg]>>
  BY <1>1, <1>2, Zenon DEF ApplyOp
<1> QED BY <1>6, <1>7, <1>8, <1>9, Zenon

-----------------------------------------------------------------------------
(* The steps *)

\* What is known while tokens are read.
LEMMA WhileReading ==
  ASSUME IInv, Reading
  PROVE  /\ IsSeq(tokens) /\ IsSeq(leaves) /\ Calls(frames) /\ frames # <<>> /\ Top = Last(frames) /\ IsCall(Top)
         /\ pc = "reading" /\ failure = "none" /\ LimitsAre(tokens, nodes, "none")
         /\ \E m : Solves(digest, tokens, m) /\ StackIs(digest, tokens, frames, m) /\ LeavesAre(tokens, leaves, m)
<1>1. IsSeq(tokens) /\ IsSeq(leaves) /\ Calls(frames) /\ frames # <<>> /\ pc = "reading" /\ failure = "none"
  BY Zenon DEF IInv, StateInv, Reading
<1>2. Top = Last(frames) /\ IsCall(Top)
  <2>1. Len(frames) \in DOMAIN frames
    BY <1>1, CallFields
  <2> QED BY <1>1, <2>1, Zenon DEF Top, Last, Calls
<1>3. LimitsAre(tokens, nodes, "none")
  BY <1>1, Zenon DEF IInv, LimitInv
<1>4. PICK m : TreeInv(m)
  BY Zenon DEF IInv
<1>5. Truthful
  BY <1>1 DEF Truthful
<1> QED BY <1>1, <1>2, <1>3, <1>4, <1>5, Zenon DEF TreeInv

\* Reading a token that ends in an error.
LEMMA ReadingFails ==
  ASSUME IInv, Reading, NEW x, x.token # "att", x.token = "op" => x.op \in Ops,
         tokens' = Append(tokens, x), digest' = digest, frames' = frames, leaves' = leaves, pc' = "read",
         failure' \in Codes \ {"none", "truncated", "trailing_data"}, LimitsAre(tokens', nodes', failure')
  PROVE  IInv'
<1>1. PICK m : Solves(digest, tokens, m) /\ LeavesAre(tokens, leaves, m)
  BY WhileReading, Zenon
<1>2. IsSeq(tokens)
  BY WhileReading, Zenon
<1>3. PICK w : w = Extended(digest, tokens, m)
  OBVIOUS
<1>4. Solves(digest, Append(tokens, x), w) /\ Agree(Len(tokens), Append(tokens, x), w, tokens, m)
  BY <1>1, <1>2, <1>3, ExtendedSolves, Zenon
<1>5. LeavesAre(Append(tokens, x), leaves, w)
  BY <1>1, <1>2, <1>4, LeavesStay, Zenon
<1>6. ~Truthful'
  BY DEF Truthful
<1>7. TreeInv(w)'
  BY <1>4, <1>5, <1>6, Zenon DEF TreeInv
<1>8. IsSeq(tokens') /\ \A i \in DOMAIN tokens' : tokens'[i].token = "op" => tokens'[i].op \in Ops
  <2>1. /\ IsSeq(tokens') /\ Len(tokens) \in Nat /\ DOMAIN tokens = 1..Len(tokens)
        /\ DOMAIN tokens' = 1..(Len(tokens) + 1) /\ tokens'[Len(tokens) + 1] = x
        /\ \A i \in 1..Len(tokens) : tokens'[i] = tokens[i]
    BY <1>2, AppendIs
  <2>2. \A i \in 1..(Len(tokens) + 1) : i \in 1..Len(tokens) \/ i = Len(tokens) + 1
    BY <2>1
  <2>3. \A i \in 1..Len(tokens) : tokens[i].token = "op" => tokens[i].op \in Ops
    BY <2>1, Zenon DEF IInv, StateInv
  <2> QED BY <2>1, <2>2, <2>3, Zenon
<1>9. StateInv'
  <2>1. failure' \in Codes /\ pc' \in {"reading", "read", "answered"} /\ pc' # "reading"
    OBVIOUS
  <2>2. digest' \in Known /\ IsSeq(leaves') /\ Calls(frames') /\ \A n \in DOMAIN leaves' : IsBytes(leaves'[n].msg)
    BY Zenon DEF IInv, StateInv
  <2> QED BY <1>8, <2>1, <2>2, Zenon DEF StateInv
<1>10. AnswerInv' /\ LimitInv'
  BY Zenon DEF AnswerInv, LimitInv
<1> QED BY <1>7, <1>9, <1>10, Zenon DEF IInv

\* Reading a token after which the reading goes on.
LEMMA ReadingGoesOn ==
  ASSUME IInv, Reading, NEW x, x.token = "op" => x.op \in Ops,
         tokens' = Append(tokens, x), digest' = digest, pc' = "reading", failure' = "none",
         Calls(frames'), IsSeq(leaves'), \A n \in DOMAIN leaves' : IsBytes(leaves'[n].msg),
         LimitsAre(tokens', nodes', "none"),
         \E m : /\ Solves(digest, tokens, m)
               /\ StackIs(digest, tokens', frames', Extended(digest, tokens, m))
               /\ LeavesAre(tokens', leaves', Extended(digest, tokens, m))
  PROVE  IInv'
<1>1. PICK m : /\ Solves(digest, tokens, m)
               /\ StackIs(digest, tokens', frames', Extended(digest, tokens, m))
               /\ LeavesAre(tokens', leaves', Extended(digest, tokens, m))
  BY Zenon
<1>2. IsSeq(tokens)
  BY WhileReading, Zenon
<1>3. PICK w : w = Extended(digest, tokens, m)
  OBVIOUS
<1>4. Solves(digest, Append(tokens, x), w)
  BY <1>1, <1>2, <1>3, ExtendedSolves, Zenon
<1>5. TreeInv(w)'
  BY <1>1, <1>4, <1>3, Zenon DEF TreeInv
<1>6. IsSeq(tokens') /\ \A i \in DOMAIN tokens' : tokens'[i].token = "op" => tokens'[i].op \in Ops
  <2>1. /\ IsSeq(tokens') /\ Len(tokens) \in Nat /\ DOMAIN tokens = 1..Len(tokens)
        /\ DOMAIN tokens' = 1..(Len(tokens) + 1) /\ tokens'[Len(tokens) + 1] = x
        /\ \A i \in 1..Len(tokens) : tokens'[i] = tokens[i]
    BY <1>2, AppendIs
  <2>2. \A i \in 1..(Len(tokens) + 1) : i \in 1..Len(tokens) \/ i = Len(tokens) + 1
    BY <2>1
  <2>3. \A i \in 1..Len(tokens) : tokens[i].token = "op" => tokens[i].op \in Ops
    BY <2>1, Zenon DEF IInv, StateInv
  <2> QED BY <2>1, <2>2, <2>3, Zenon
<1>7. StateInv'
  <2>1. failure' \in Codes /\ pc' \in {"reading", "read", "answered"} /\ (pc' = "reading" => failure' = "none")
    BY DEF Codes
  <2>2. digest' \in Known
    BY Zenon DEF IInv, StateInv
  <2> QED BY <1>6, <2>1, <2>2, Zenon DEF StateInv
<1>8. AnswerInv' /\ LimitInv'
  BY DEF AnswerInv, LimitInv
<1> QED BY <1>5, <1>7, <1>8, Zenon DEF IInv

\* Another branch.
LEMMA ForkStep ==
  ASSUME IInv, ReadFork
  PROVE  IInv'
<1> DEFINE x == [token |-> "fork"]
<1>1. /\ Reading /\ tokens' = Append(tokens, x) /\ digest' = digest
      /\ nodes' = nodes /\ leaves' = leaves /\ failure' = failure /\ pc' = pc /\ ~Top.forked
  BY DEF ReadFork, Read
<1>2. x.token = "fork"
  OBVIOUS
<1> HIDE DEF x
<1>3. x.token # "op" /\ x.token # "att"
  BY <1>2
<1>4. /\ IsSeq(tokens) /\ IsSeq(leaves) /\ Calls(frames) /\ frames # <<>> /\ Top = Last(frames)
      /\ pc = "reading" /\ failure = "none" /\ LimitsAre(tokens, nodes, "none")
  BY <1>1, WhileReading, Zenon
<1>5. PICK m : Solves(digest, tokens, m) /\ StackIs(digest, tokens, frames, m) /\ LeavesAre(tokens, leaves, m)
  BY <1>1, WhileReading, Zenon
<1>6. frames' = Retop(frames, Mark(Last(frames), TRUE))
  BY DEF ReadFork, Below, Top, Retop, ButTop, Mark, Last
<1>7. Calls(frames') /\ StackIs(digest, tokens', frames', Extended(digest, tokens, m))
  BY <1>1, <1>2, <1>4, <1>5, <1>6, ForkKeepsStack, Zenon
<1>8. LeavesAre(tokens', leaves', Extended(digest, tokens, m))
  <2>1. Agree(Len(tokens), Append(tokens, x), Extended(digest, tokens, m), tokens, m)
    BY <1>4, <1>5, ExtendedSolves, Zenon
  <2> QED BY <1>1, <1>3, <1>4, <1>5, <2>1, LeavesStay, Zenon
<1>9. LimitsAre(tokens', nodes', "none")
  <2>1. Ordinary("none")
    BY DEF Ordinary
  <2> QED BY <1>1, <1>3, <1>4, <2>1, LimitsAfter, Zenon
<1>10. \A n \in DOMAIN leaves' : IsBytes(leaves'[n].msg)
  BY <1>1, Zenon DEF IInv, StateInv
<1> QED BY <1>1, <1>3, <1>4, <1>5, <1>7, <1>8, <1>9, <1>10, ReadingGoesOn, Zenon

\* What the code does after a branch.
LEMMA AfterIs == AfterBranch(Top.msg) = After(frames) /\ \A msg : AfterBranch(msg) = After(frames)
<1>1. Mark(Last(frames), FALSE) = [Top EXCEPT !.forked = FALSE] /\ Below = ButTop(frames) /\ Top = Last(frames)
  BY DEF Mark, Last, Top, Below, ButTop
<1> QED BY <1>1, Zenon DEF AfterBranch, After, Retop

\* An operation: an error of the limits, or one call deeper.
LEMMA OpStep ==
  ASSUME IInv, NEW op \in Ops, ReadOp(op)
  PROVE  IInv'
<1> DEFINE x == [token |-> "op", op |-> op]
           n == Len(tokens) + 1
           depth == Cardinality(OnTheWay(tokens, n))
<1>1. PICK msg : msg = ApplyOp(Top.msg, op)
  OBVIOUS
<1>2. /\ Reading /\ tokens' = Append(tokens, x) /\ digest' = digest
  BY DEF ReadOp, Read
<1>3. x.token = "op" /\ x.op = op
  OBVIOUS
<1>4. \/ Len(msg) > MaxBytes /\ Fail("invalid_result")
      \/ Len(msg) <= MaxBytes /\ Top.depth + 1 > MaxDepth /\ Fail("recursion_limit")
      \/ /\ ~(Len(msg) > MaxBytes) /\ ~(Len(msg) <= MaxBytes /\ Top.depth + 1 > MaxDepth)
         /\ nodes' = nodes + 1 /\ leaves' = leaves
         /\ \/ TooMany(nodes + 1) /\ failure' = "too_many_nodes" /\ pc' = "read" /\ frames' = frames
            \/ /\ ~TooMany(nodes + 1) /\ failure' = failure /\ pc' = pc
               /\ frames' = Append(AfterBranch(msg), [msg |-> msg, depth |-> Top.depth + 1, forked |-> FALSE])
  <2>1. CASE Len(msg) > MaxBytes
    BY <1>1, <2>1, Zenon DEF ReadOp
  <2>2. CASE ~(Len(msg) > MaxBytes) /\ Len(msg) <= MaxBytes /\ Top.depth + 1 > MaxDepth
    BY <1>1, <2>2, Zenon DEF ReadOp
  <2>3. CASE ~(Len(msg) > MaxBytes) /\ ~(Len(msg) <= MaxBytes /\ Top.depth + 1 > MaxDepth)
    BY <1>1, <2>3, Zenon DEF ReadOp
  <2> QED BY <2>1, <2>2, <2>3, Zenon
<1> HIDE DEF x, n, depth
<1>5. /\ IsSeq(tokens) /\ IsSeq(leaves) /\ Calls(frames) /\ frames # <<>> /\ Top = Last(frames) /\ IsCall(Top)
      /\ pc = "reading" /\ failure = "none" /\ LimitsAre(tokens, nodes, "none")
  BY <1>2, WhileReading, Zenon
<1>6. PICK m : Solves(digest, tokens, m) /\ StackIs(digest, tokens, frames, m) /\ LeavesAre(tokens, leaves, m)
  BY <1>2, WhileReading, Zenon
<1>7. Top.depth = depth
  BY <1>5, <1>6, TopReads, Zenon DEF depth, n
<1>8. PICK dd : dd = Top.depth
  OBVIOUS
<1>9. dd \in 0..MaxDepth /\ MaxDepth \in Nat /\ MaxBytes \in Nat /\ IsBytes(Top.msg)
  BY <1>5, <1>8, AnchorAssumption, Zenon DEF IsCall, AnchorAssumption
<1>10. IsBytes(msg) /\ Len(msg) \in Nat
  <2>1. IsBytes(msg)
    BY <1>1, <1>9, OpGivesBytes, Zenon
  <2> QED BY <2>1 DEF IsBytes, IsSeq
<1>11. x.token # "att" /\ (x.token = "op" => x.op \in Ops)
  BY <1>3
<1>12. CASE Len(msg) > MaxBytes /\ Fail("invalid_result")
  <2>1. frames' = frames /\ leaves' = leaves /\ nodes' = nodes /\ pc' = "read" /\ failure' = "invalid_result"
    BY <1>12, Zenon DEF Fail
  <2>2. LimitsAre(tokens', nodes', failure')
    BY <1>2, <1>5, <2>1, LimitsAfter, Zenon
  <2>3. failure' \in Codes \ {"none", "truncated", "trailing_data"}
    BY <2>1 DEF Codes
  <2> QED BY <1>2, <1>11, <2>1, <2>2, <2>3, ReadingFails, Zenon
<1>13. CASE Len(msg) <= MaxBytes /\ Top.depth + 1 > MaxDepth /\ Fail("recursion_limit")
  <2>1. frames' = frames /\ leaves' = leaves /\ nodes' = nodes /\ pc' = "read" /\ failure' = "recursion_limit"
    BY <1>13, Zenon DEF Fail
  <2>2. depth = MaxDepth
    <3>1. dd + 1 > MaxDepth
      BY <1>8, <1>13, Zenon
    <3>2. dd = MaxDepth
      BY <1>9, <3>1
    <3> QED BY <1>7, <1>8, <3>2, Zenon
  <2>3. LimitsAre(tokens', nodes', failure')
    BY <1>2, <1>3, <1>5, <2>1, <2>2, LimitsAfter, Zenon DEF depth, n
  <2>4. failure' \in Codes \ {"none", "truncated", "trailing_data"}
    BY <2>1 DEF Codes
  <2> QED BY <1>2, <1>11, <2>1, <2>3, <2>4, ReadingFails, Zenon
<1>14. ASSUME ~(Len(msg) > MaxBytes), ~(Len(msg) <= MaxBytes /\ Top.depth + 1 > MaxDepth)
       PROVE  Len(msg) <= MaxBytes /\ depth < MaxDepth /\ dd + 1 \in 0..MaxDepth
  <2>1. PICK len : len = Len(msg)
    OBVIOUS
  <2>2. len <= MaxBytes
    <3>1. ~(len > MaxBytes) /\ len \in Nat
      BY <1>10, <1>14, <2>1, Zenon
    <3> QED BY <1>9, <3>1
  <2>3. ~(dd + 1 > MaxDepth)
    BY <1>8, <1>14, <2>1, <2>2, Zenon
  <2>4. dd < MaxDepth /\ dd + 1 \in 0..MaxDepth
    BY <1>9, <2>3
  <2> QED BY <1>7, <1>8, <2>1, <2>2, <2>4, Zenon
<1>15. CASE /\ ~(Len(msg) > MaxBytes) /\ ~(Len(msg) <= MaxBytes /\ Top.depth + 1 > MaxDepth)
            /\ nodes' = nodes + 1 /\ leaves' = leaves
            /\ TooMany(nodes + 1) /\ failure' = "too_many_nodes" /\ pc' = "read" /\ frames' = frames
  <2>1. depth < MaxDepth
    BY <1>14, <1>15, Zenon
  <2>2. LimitsAre(tokens', nodes', failure')
    BY <1>2, <1>3, <1>5, <1>15, <2>1, LimitsAfter, Zenon DEF depth, n
  <2>3. failure' \in Codes \ {"none", "truncated", "trailing_data"}
    BY <1>15 DEF Codes
  <2> QED BY <1>2, <1>11, <1>15, <2>2, <2>3, ReadingFails, Zenon
<1>16. CASE /\ ~(Len(msg) > MaxBytes) /\ ~(Len(msg) <= MaxBytes /\ Top.depth + 1 > MaxDepth)
            /\ nodes' = nodes + 1 /\ leaves' = leaves
            /\ ~TooMany(nodes + 1) /\ failure' = failure /\ pc' = pc
            /\ frames' = Append(AfterBranch(msg), [msg |-> msg, depth |-> Top.depth + 1, forked |-> FALSE])
  <2>1. depth < MaxDepth /\ Len(msg) <= MaxBytes /\ dd + 1 \in 0..MaxDepth
    BY <1>14, <1>16, Zenon
  <2>2. LimitsAre(tokens', nodes', "none")
    BY <1>2, <1>3, <1>5, <1>16, <2>1, LimitsAfter, Zenon DEF depth, n
  <2>3. PICK call : call = [msg |-> msg, depth |-> dd + 1, forked |-> FALSE]
    OBVIOUS
  <2>4. call.msg = msg /\ call.depth = dd + 1 /\ call.forked = FALSE
    BY <2>3
  <2>5. IsCall(call)
    BY <1>10, <2>1, <2>3, <2>4 DEF IsCall
  <2>6. frames' = Append(After(frames), call)
    BY <1>8, <1>16, <2>3, AfterIs, Zenon
  <2>7. call.msg = ApplyOp(Last(frames).msg, x.op) /\ call.depth = Last(frames).depth + 1
    BY <1>1, <1>3, <1>5, <1>8, <2>4, Zenon
  <2>8. Calls(frames') /\ StackIs(digest, tokens', frames', Extended(digest, tokens, m))
    BY <1>2, <1>3, <1>5, <1>6, <2>4, <2>5, <2>6, <2>7, OpKeepsStack, Zenon
  <2>9. LeavesAre(tokens', leaves', Extended(digest, tokens, m))
    <3>1. Agree(Len(tokens), Append(tokens, x), Extended(digest, tokens, m), tokens, m)
      BY <1>5, <1>6, ExtendedSolves, Zenon
    <3> QED BY <1>2, <1>5, <1>6, <1>11, <1>16, <3>1, LeavesStay, Zenon
  <2>10. IsSeq(leaves') /\ \A i \in DOMAIN leaves' : IsBytes(leaves'[i].msg)
    BY <1>5, <1>16, Zenon DEF IInv, StateInv
  <2>11. pc' = "reading" /\ failure' = "none"
    BY <1>5, <1>16, Zenon
  <2> QED BY <1>2, <1>6, <1>11, <2>2, <2>8, <2>9, <2>10, <2>11, ReadingGoesOn, Zenon
<1> QED BY <1>4, <1>12, <1>13, <1>15, <1>16, Zenon

\* An attestation.
LEMMA AttestationStep ==
  ASSUME IInv, NEW a \in Attestations, ReadAttestation(a)
  PROVE  IInv'
<1>1. /\ Reading /\ tokens' = Append(tokens, a) /\ digest' = digest
      /\ nodes' = nodes /\ failure' = failure /\ pc' = pc
      /\ leaves' = Append(leaves, Leaf(Top.msg, a)) /\ frames' = After(frames)
  BY AfterIs DEF ReadAttestation, Read, Leaf
<1>2. a.token = "att"
  BY DEF Attestations
<1>3. a.token # "op"
  BY <1>2
<1>4. /\ IsSeq(tokens) /\ IsSeq(leaves) /\ Calls(frames) /\ frames # <<>> /\ Top = Last(frames) /\ IsCall(Top)
      /\ pc = "reading" /\ failure = "none" /\ LimitsAre(tokens, nodes, "none")
  BY <1>1, WhileReading, Zenon
<1>5. PICK m : Solves(digest, tokens, m) /\ StackIs(digest, tokens, frames, m) /\ LeavesAre(tokens, leaves, m)
  BY <1>1, WhileReading, Zenon
<1>6. Calls(frames') /\ StackIs(digest, tokens', frames', Extended(digest, tokens, m))
  BY <1>1, <1>2, <1>4, <1>5, AttKeepsStack, Zenon
<1>7. LeavesAre(tokens', leaves', Extended(digest, tokens, m))
  <2>1. /\ Agree(Len(tokens), Append(tokens, a), Extended(digest, tokens, m), tokens, m)
        /\ Extended(digest, tokens, m)[Len(tokens) + 1] = Behind(digest, tokens, m, OnTheWay(tokens, Len(tokens) + 1))
    BY <1>4, <1>5, ExtendedSolves, Zenon
  <2>2. Top.msg = Extended(digest, tokens, m)[Len(tokens) + 1]
    BY <1>4, <1>5, <2>1, TopReads, Zenon
  <2> QED BY <1>1, <1>2, <1>4, <1>5, <2>1, <2>2, LeafAdded, Zenon
<1>8. LimitsAre(tokens', nodes', "none")
  <2>1. Ordinary("none")
    BY DEF Ordinary
  <2> QED BY <1>1, <1>3, <1>4, <2>1, LimitsAfter, Zenon
<1>9. IsSeq(leaves') /\ \A n \in DOMAIN leaves' : IsBytes(leaves'[n].msg)
  <2>1. PICK leaf : leaf = Leaf(Top.msg, a)
    OBVIOUS
  <2>2. IsBytes(leaf.msg)
    <3>1. leaf.msg = Top.msg
      BY <2>1 DEF Leaf
    <3> QED BY <1>4, <3>1, Zenon DEF IsCall
  <2>3. leaves' = Append(leaves, leaf)
    BY <1>1, <2>1, Zenon
  <2>4. /\ IsSeq(leaves') /\ Len(leaves) \in Nat /\ DOMAIN leaves = 1..Len(leaves)
        /\ DOMAIN leaves' = 1..(Len(leaves) + 1) /\ leaves'[Len(leaves) + 1] = leaf
        /\ \A i \in 1..Len(leaves) : leaves'[i] = leaves[i]
    BY <1>4, <2>3, AppendIs
  <2>5. \A i \in 1..(Len(leaves) + 1) : i \in 1..Len(leaves) \/ i = Len(leaves) + 1
    BY <2>4
  <2>6. \A i \in 1..Len(leaves) : IsBytes(leaves[i].msg)
    BY <2>4, Zenon DEF IInv, StateInv
  <2> QED BY <2>2, <2>4, <2>5, <2>6, Zenon
<1>10. pc' = "reading" /\ failure' = "none"
  BY <1>1, <1>4, Zenon
<1> QED BY <1>1, <1>3, <1>5, <1>6, <1>7, <1>8, <1>9, <1>10, ReadingGoesOn, Zenon

\* A token that cannot be read.
LEMMA BadStep ==
  ASSUME IInv, ReadBad
  PROVE  IInv'
<1> DEFINE x == [token |-> "bad"]
<1>1. /\ Reading /\ tokens' = Append(tokens, x) /\ digest' = digest
      /\ nodes' = nodes /\ leaves' = leaves /\ frames' = frames /\ failure' = "bad_token" /\ pc' = "read"
  BY DEF ReadBad, Read, Fail
<1>2. x.token # "op" /\ x.token # "att"
  OBVIOUS
<1> HIDE DEF x
<1>3. Ordinary("bad_token") /\ failure' \in Codes \ {"none", "truncated", "trailing_data"}
  BY <1>1 DEF Ordinary, Codes
<1>4. LimitsAre(tokens', nodes', failure')
  <2>1. IsSeq(tokens) /\ LimitsAre(tokens, nodes, "none")
    BY <1>1, WhileReading, Zenon
  <2> QED BY <1>1, <1>2, <1>3, <2>1, LimitsAfter, Zenon
<1> QED BY <1>1, <1>2, <1>3, <1>4, ReadingFails, Zenon

\* The reading ends without a token.
LEMMA StopStep ==
  ASSUME IInv, pc = "reading", failure' \in {"none", "truncated", "trailing_data"}, pc' = "read",
         UNCHANGED <<digest, tokens, frames, nodes, leaves, answer>>
  PROVE  IInv'
<1>1. failure = "none"
  BY Zenon DEF IInv, StateInv
<1>2. LimitInv'
  <2>1. IsSeq(tokens) /\ LimitsAre(tokens, nodes, "none")
    BY <1>1, Zenon DEF IInv, StateInv, LimitInv
  <2>2. Ordinary(failure')
    BY DEF Ordinary
  <2>3. LimitsAre(tokens, nodes, failure')
    BY <2>1, <2>2, LimitsAfter, Zenon
  <2> QED BY <2>3 DEF LimitInv
<1>3. PICK m : TreeInv(m)
  BY Zenon DEF IInv
<1>4. TreeInv(m)'
  <2>1. Truthful
    BY <1>1 DEF Truthful
  <2> QED BY <1>3, <2>1 DEF TreeInv
<1>5. StateInv'
  <2>1. failure' \in Codes /\ pc' \in {"reading", "read", "answered"} /\ pc' # "reading"
    BY DEF Codes
  <2> QED BY <2>1 DEF IInv, StateInv
<1>6. AnswerInv'
  BY DEF AnswerInv
<1> QED BY <1>2, <1>4, <1>5, <1>6, Zenon DEF IInv

\* The answer.
LEMMA VerifyStep ==
  ASSUME IInv, Verify
  PROVE  IInv'
<1>1. pc' = "answered" /\ UNCHANGED <<digest, tokens, frames, nodes, leaves, failure>>
  BY DEF Verify
<1>2. LimitInv' /\ StateInv'
  <2>1. pc' \in {"reading", "read", "answered"} /\ pc' # "reading"
    BY <1>1
  <2> QED BY <1>1, <2>1 DEF IInv, LimitInv, StateInv
<1>3. PICK m : TreeInv(m)
  BY Zenon DEF IInv
<1>4. TreeInv(m)'
  BY <1>1, <1>3 DEF TreeInv, Truthful
<1>5. AnswerInv'
  <2>1. PICK source \in Sources, headers \in HeaderSets :
          answer' = [source |-> source, headers |-> headers, result |-> CliResult(source, headers)]
    BY Zenon DEF Verify
  <2>2. answer'.source = source /\ answer'.headers = headers /\ answer'.result = CliResult(source, headers)
    BY <2>1
  <2>3. HeaderSets' = HeaderSets
    BY <1>1 DEF HeaderSets, Leaves
  <2>4. \A s, h : CliResult(s, h)' = CliResult(s, h)
    BY <1>1 DEF CliResult, VerifyProof, Confirmed, Leaves
  <2> QED BY <2>2, <2>3, <2>4, Zenon DEF AnswerInv
<1> QED BY <1>2, <1>4, <1>5, Zenon DEF IInv

\* Before the first token.
LEMMA Start == Init => IInv
<1> SUFFICES ASSUME Init PROVE IInv
  OBVIOUS
<1> DEFINE call == [msg |-> digest, depth |-> 0, forked |-> FALSE]
           m == [i \in DOMAIN tokens |-> None]
<1>1. /\ digest \in Known /\ tokens = <<>> /\ frames = <<call>> /\ nodes = 1 /\ leaves = <<>>
      /\ failure = "none" /\ pc = "reading"
  BY DEF Init
<1>2. MaxDepth \in Nat /\ MaxBytes \in Nat \ {0} /\ MaxNodes \in Nat \ {0}
  BY AnchorAssumption, Zenon DEF AnchorAssumption
<1>3. IsBytes(digest) /\ Len(digest) = 1
  <2>1. PICK r : digest = DigestBytes(r)
    BY <1>1 DEF Known
  <2>2. PICK b : b = [digest |-> Digest(r)]
    OBVIOUS
  <2>3. digest = <<b>>
    BY <2>1, <2>2, Zenon DEF DigestBytes
  <2>4. <<b>> \in Seq({b}) /\ <<b>> # <<>> /\ Len(<<b>>) = 1
    OBVIOUS
  <2> QED BY <2>3, <2>4, Zenon DEF IsBytes, IsSeq
<1>4. PICK c : c = call
  OBVIOUS
<1>5. IsCall(c) /\ c.msg = digest /\ c.depth = 0 /\ c.forked = FALSE
  <2>1. c.msg = digest /\ c.depth = 0 /\ c.forked = FALSE
    BY <1>4
  <2>2. Len(c.msg) <= MaxBytes
    <3>1. Len(c.msg) = 1
      BY <1>3, <2>1, Zenon
    <3>2. 1 <= MaxBytes
      BY <1>2
    <3> QED BY <3>1, <3>2, Zenon
  <2>3. c.depth \in 0..MaxDepth
    BY <1>2, <2>1
  <2>4. IsBytes(c.msg)
    BY <1>3, <2>1, Zenon
  <2> QED BY <1>4, <2>1, <2>2, <2>3, <2>4 DEF IsCall
<1>6. PICK f : f = frames
  OBVIOUS
<1>7. f = <<c>> /\ IsSeq(f) /\ Len(f) = 1 /\ DOMAIN f = 1..1 /\ f[1] = c
  <2>1. f = <<c>>
    BY <1>1, <1>4, <1>6
  <2>2. <<c>> \in Seq({c}) /\ Len(<<c>>) = 1 /\ DOMAIN <<c>> = 1..1 /\ <<c>>[1] = c
    OBVIOUS
  <2> QED BY <2>1, <2>2, Zenon DEF IsSeq
<1>8. \A k \in 1..1 : k = 1
  OBVIOUS
<1>9. Calls(f)
  BY <1>5, <1>7, <1>8, Zenon DEF Calls
<1>10. IsSeq(tokens) /\ IsSeq(leaves) /\ DOMAIN tokens = {} /\ DOMAIN leaves = {} /\ Len(tokens) = 0 /\ Len(leaves) = 0
  <2>1. <<>> \in Seq({}) /\ DOMAIN <<>> = {} /\ Len(<<>>) = 0
    OBVIOUS
  <2> QED BY <1>1, <2>1, Zenon DEF IsSeq
<1>11. \A name : Count(tokens, name, Len(tokens)) = 0
  BY <1>10, CountNone, Zenon
<1>12. OpenPlaces(tokens, Len(tokens)) = 1
  BY <1>11 DEF OpenPlaces
<1>13. StateInv
  <2>1. "none" \in Codes
    BY DEF Codes
  <2> QED BY <1>1, <1>6, <1>9, <1>10, <2>1, Zenon DEF StateInv
<1>14. LimitInv
  <2>1. Shallow(tokens)
    BY <1>10, Zenon DEF Shallow
  <2>2. nodes = 1 + Count(tokens, "op", Len(tokens)) /\ nodes <= MaxNodes
    BY <1>1, <1>2, <1>11
  <2> QED BY <1>1, <2>1, <2>2, Zenon DEF LimitInv, LimitsAre, Ordinary
<1>15. Solves(digest, tokens, m)
  BY <1>10 DEF Solves
<1>16. LeavesAre(tokens, leaves, m)
  BY <1>10, <1>11, Zenon DEF LeavesAre
<1>17. StackIs(digest, tokens, frames, m)
  <2>1. WayTo(tokens, 1) = {}
    BY <1>10, Zenon DEF WayTo
  <2>2. Behind(digest, tokens, m, WayTo(tokens, 1)) = digest /\ Cardinality(WayTo(tokens, 1)) = 0
    <3>1. Cardinality({}) = 0
      BY FS_EmptySet
    <3> QED BY <2>1, <3>1, Zenon DEF Behind
  <2>3. \A p \in 1..1 : /\ f[p].msg = Behind(digest, tokens, m, WayTo(tokens, p))
                        /\ f[p].depth = Cardinality(WayTo(tokens, p)) /\ f[p].forked = FALSE
    BY <1>5, <1>7, <1>8, <2>2, Zenon
  <2>4. 1 \in Nat
    OBVIOUS
  <2> HIDE DEF m
  <2> QED BY <1>6, <1>7, <1>12, <2>3, <2>4, PlainStack, Zenon
<1>18. AnswerInv
  BY <1>1 DEF AnswerInv
<1> HIDE DEF m
<1>19. TreeInv(m)
  BY <1>15, <1>16, <1>17, Zenon DEF TreeInv
<1> QED BY <1>13, <1>14, <1>18, <1>19, Zenon DEF IInv

\* The joined state of stack, tokens and leaves is an invariant of the parser and the answer.
THEOREM AnchorInductive == Spec => []IInv
<1>1. IInv /\ [Next]_vars => IInv'
  <2> SUFFICES ASSUME IInv, [Next]_vars PROVE IInv'
    OBVIOUS
  <2>1. CASE ReadFork
    BY <2>1, ForkStep
  <2>2. CASE \E op \in Ops : ReadOp(op)
    BY <2>2, OpStep
  <2>3. CASE \E a \in Attestations : ReadAttestation(a)
    BY <2>3, AttestationStep
  <2>4. CASE ReadBad
    BY <2>4, BadStep
  <2>5. CASE EndOfData
    BY <2>5, StopStep DEF EndOfData, Reading, Fail
  <2>6. CASE Finish
    <3>1. failure' \in {"none", "truncated", "trailing_data"}
      BY <2>6 DEF Finish
    <3> QED BY <2>6, <3>1, StopStep DEF Finish
  <2>7. CASE Verify
    BY <2>7, VerifyStep
  <2>8. CASE UNCHANGED vars
    <3>1. UNCHANGED <<digest, tokens, frames, nodes, leaves, failure, pc, answer>>
      BY <2>8 DEF vars
    <3>2. HeaderSets' = HeaderSets /\ \A s, h : CliResult(s, h)' = CliResult(s, h)
      BY <3>1 DEF HeaderSets, Leaves, CliResult, VerifyProof, Confirmed
    <3>3. AnswerInv' /\ StateInv' /\ LimitInv'
      BY <3>1, <3>2 DEF IInv, AnswerInv, StateInv, LimitInv
    <3>4. PICK m : TreeInv(m)
      BY Zenon DEF IInv
    <3>5. TreeInv(m)'
      BY <3>1, <3>4 DEF TreeInv, Truthful
    <3> QED BY <3>3, <3>5, Zenon DEF IInv
  <2> QED BY <2>1, <2>2, <2>3, <2>4, <2>5, <2>6, <2>7, <2>8 DEF Next
<1> QED BY <1>1, Start, PTL DEF Spec

-----------------------------------------------------------------------------
(* The properties *)

\* A leaf and its attestation.
LEMMA LeafOfAttestation ==
  ASSUME IInv
  PROVE  /\ \A i \in DOMAIN tokens : tokens[i].token = "att" =>
              /\ Count(tokens, "att", i) \in DOMAIN leaves
              /\ leaves[Count(tokens, "att", i)] = Leaf(Committed(i), tokens[i])
         /\ \A n \in DOMAIN leaves : \E i \in DOMAIN tokens : tokens[i].token = "att" /\ Count(tokens, "att", i) = n
         /\ Len(leaves) = Count(tokens, "att", Len(tokens))
<1>1. PICK m : TreeInv(m)
  BY Zenon DEF IInv
<1>2. Messages(digest, tokens) = m
  BY <1>1, MessagesAre, Zenon DEF TreeInv, IInv, StateInv
<1>3. \A i : Committed(i) = m[i]
  BY <1>2, Zenon DEF Committed
<1>4. LeavesAre(tokens, leaves, m)
  BY <1>1, Zenon DEF TreeInv
<1> QED BY <1>3, <1>4, Zenon DEF LeavesAre

\* _parse_timestamp reads the tree: each attestation is recorded with the message behind
\* the operations around it, and each limit stops the parser where a count of the tokens
\* says it should.
THEOREM ReadsTree == Spec => []ReadsTheTree
<1>1. IInv => ReadsTheTree
  <2> SUFFICES ASSUME IInv PROVE ReadsTheTree
    OBVIOUS
  <2>1. Len(leaves) = Count(tokens, "att", Len(tokens))
    BY LeafOfAttestation, Zenon
  <2>2. ASSUME NEW n \in DOMAIN leaves PROVE leaves[n].msg = Committed(AttestationAt(n))
    <3>1. PICK i : i = AttestationAt(n)
      OBVIOUS
    <3>2. \E k \in DOMAIN tokens : tokens[k].token = "att" /\ Count(tokens, "att", k) = n
      BY LeafOfAttestation, Zenon
    <3>3. i \in DOMAIN tokens /\ tokens[i].token = "att" /\ Count(tokens, "att", i) = n
      BY <3>1, <3>2, Zenon DEF AttestationAt
    <3>4. leaves[n] = Leaf(Committed(i), tokens[i])
      BY <3>3, LeafOfAttestation, Zenon
    <3> QED BY <3>1, <3>4 DEF Leaf
  <2>3. ASSUME failure \in {"none", "truncated", "trailing_data"}
        PROVE  frames = <<>> <=> OpenPlaces(tokens, Len(tokens)) = 0
    <3>1. PICK m : TreeInv(m)
      BY Zenon DEF IInv
    <3>2. StackIs(digest, tokens, frames, m)
      BY <2>3, <3>1 DEF TreeInv, Truthful
    <3>3. PICK n : n = OpenPlaces(tokens, Len(tokens))
      OBVIOUS
    <3>4. n = Len(frames) + (IF frames # <<>> /\ Last(frames).forked THEN 1 ELSE 0)
      BY <3>2, <3>3, Zenon DEF StackIs
    <3>5. Len(frames) \in Nat /\ (frames = <<>> <=> Len(frames) = 0)
      BY DEF IInv, StateInv, Calls, IsSeq
    <3>6. n = 0 <=> frames = <<>>
      <4>1. CASE frames # <<>> /\ Last(frames).forked
        BY <3>4, <3>5, <4>1
      <4>2. CASE ~(frames # <<>> /\ Last(frames).forked)
        <5>1. n = Len(frames) + 0
          BY <3>4, <4>2, Zenon
        <5> QED BY <3>5, <5>1
      <4> QED BY <4>1, <4>2, Zenon
    <3> QED BY <3>3, <3>6, Zenon
  <2>4. LimitsAre(tokens, nodes, failure)
    BY Zenon DEF IInv, LimitInv
  <2>5. MaxDepth \in Nat /\ MaxNodes \in Nat
    BY AnchorAssumption, Zenon DEF AnchorAssumption
  <2>6. failure = "recursion_limit" <=> failure # "invalid_result" /\ TooDeep(tokens)
    <3>1. ~(Shallow(tokens) /\ TooDeep(tokens))
      BY <2>5 DEF Shallow, TooDeep
    <3>2. failure = "recursion_limit" => failure # "invalid_result"
      OBVIOUS
    <3> QED BY <2>4, <3>1, <3>2, Zenon DEF LimitsAre
  <2>7. failure = "too_many_nodes" <=>
          failure \notin {"invalid_result", "recursion_limit"} /\ Count(tokens, "op", Len(tokens)) = MaxNodes
    <3>1. ASSUME Ordinary(failure), Count(tokens, "op", Len(tokens)) = MaxNodes PROVE FALSE
      <4>1. nodes = 1 + MaxNodes /\ nodes <= MaxNodes
        BY <2>4, <3>1, Zenon DEF LimitsAre
      <4> QED BY <2>5, <4>1
    <3>2. failure = "too_many_nodes" => failure \notin {"invalid_result", "recursion_limit"}
      OBVIOUS
    <3>3. failure \notin {"invalid_result", "recursion_limit"} => failure = "too_many_nodes" \/ Ordinary(failure)
      BY DEF Ordinary
    <3> QED BY <2>4, <3>1, <3>2, <3>3, Zenon DEF LimitsAre
  <2>8. \A i \in DOMAIN frames : Len(frames[i].msg) <= MaxBytes
    BY Zenon DEF IInv, StateInv, Calls, IsCall
  <2> QED BY <2>1, <2>2, <2>3, <2>6, <2>7, <2>8, Zenon DEF ReadsTheTree, TooDeep
<1> QED BY <1>1, AnchorInductive, PTL

\* A nonempty set of positions has a least element, which the model's operator yields.
LEMMA HasLeast ==
  ASSUME NEW S \in SUBSET Nat, S # {}
  PROVE  Least(S) \in S
<1> DEFINE Above == OpToRel(<, Nat)
<1>1. PICK x \in S : \A y \in S : <<y, x>> \notin Above
  BY NatLessThanWellFounded, WFMin
<1>2. \A y \in S : y < x => <<y, x>> \in Above
  BY DEF OpToRel
<1> HIDE DEF Above
<1>3. \A y \in S : ~(y < x)
  BY <1>1, <1>2
<1>4. \A y \in S : x <= y
  BY <1>3
<1> QED BY <1>4, Zenon DEF Least

\* When verify_proof says that a proof is verified, and two codes it does not give.
LEMMA VerifiedWhen ==
  /\ \A e, h : VerifyProof(e, h).status = "verified" <=>
                /\ e # None /\ failure = "none" /\ e = digest
                /\ ~(\E x \in DOMAIN h : h[x] = None) /\ Confirmed(h)
  /\ failure \in Codes => \A e, h : VerifyProof(e, h).code # "anchor_binding_mismatch"
<1>1. \A st, code : Answer(st, code).status = st /\ Answer(st, code).code = code
  BY DEF Answer
<1> SUFFICES ASSUME NEW e, NEW h
             PROVE  /\ VerifyProof(e, h).status = "verified" <=>
                          /\ e # None /\ failure = "none" /\ e = digest
                          /\ ~(\E x \in DOMAIN h : h[x] = None) /\ Confirmed(h)
                    /\ failure \in Codes => VerifyProof(e, h).code # "anchor_binding_mismatch"
  BY Zenon
<1> DEFINE NoHeader == \E x \in DOMAIN h : h[x] = None
           rest == IF Leaves("bitcoin") # {}
                   THEN IF DOMAIN h # {} THEN Answer("mismatch", "header_mismatch")
                        ELSE Answer("unverified", "anchor_unverified")
                   ELSE CASE Leaves("pending") # {} -> Answer("unverified", "anchor_pending")
                          [] Leaves("pending") = {} /\ Leaves("litecoin") # {} -> Answer("unverified", "anchor_unverified")
                          [] OTHER -> Answer("unverified", "anchor_unknown_type")
<1>2. rest \in {Answer("mismatch", "header_mismatch"), Answer("unverified", "anchor_unverified"),
               Answer("unverified", "anchor_pending"), Answer("unverified", "anchor_unknown_type")}
  <2>1. CASE Leaves("bitcoin") # {}
    BY <2>1, Zenon
  <2>2. CASE Leaves("bitcoin") = {} /\ Leaves("pending") # {}
    BY <2>2, Zenon
  <2>3. CASE Leaves("bitcoin") = {} /\ Leaves("pending") = {} /\ Leaves("litecoin") # {}
    BY <2>3, Zenon
  <2>4. CASE Leaves("bitcoin") = {} /\ Leaves("pending") = {} /\ Leaves("litecoin") = {}
    BY <2>4, Zenon
  <2> QED BY <2>1, <2>2, <2>3, <2>4, Zenon
<1>3. /\ e = None => VerifyProof(e, h) = Answer("invalid", "bad_digest")
      /\ e # None /\ failure # "none" => VerifyProof(e, h) = Answer("invalid", failure)
      /\ e # None /\ failure = "none" /\ e # digest => VerifyProof(e, h) = Answer("mismatch", "digest_mismatch")
      /\ e # None /\ failure = "none" /\ e = digest /\ NoHeader => VerifyProof(e, h) = Answer("invalid", "bad_header")
      /\ e # None /\ failure = "none" /\ e = digest /\ ~NoHeader /\ Confirmed(h) =>
           VerifyProof(e, h) = Answer("verified", "anchor_verified")
      /\ e # None /\ failure = "none" /\ e = digest /\ ~NoHeader /\ ~Confirmed(h) => VerifyProof(e, h) = rest
  <2>1. e = None => VerifyProof(e, h) = Answer("invalid", "bad_digest")
    BY Zenon DEF VerifyProof
  <2>2. e # None /\ failure # "none" => VerifyProof(e, h) = Answer("invalid", failure)
    BY Zenon DEF VerifyProof
  <2>3. e # None /\ failure = "none" /\ e # digest => VerifyProof(e, h) = Answer("mismatch", "digest_mismatch")
    BY Zenon DEF VerifyProof
  <2>4. e # None /\ failure = "none" /\ e = digest /\ NoHeader => VerifyProof(e, h) = Answer("invalid", "bad_header")
    BY Zenon DEF VerifyProof
  <2>5. e # None /\ failure = "none" /\ e = digest /\ ~NoHeader /\ Confirmed(h) =>
           VerifyProof(e, h) = Answer("verified", "anchor_verified")
    BY Zenon DEF VerifyProof
  <2>6. e # None /\ failure = "none" /\ e = digest /\ ~NoHeader /\ ~Confirmed(h) => VerifyProof(e, h) = rest
    BY Zenon DEF VerifyProof
  <2> QED BY <2>1, <2>2, <2>3, <2>4, <2>5, <2>6, Zenon
<1> HIDE DEF NoHeader, rest
<1>4. rest.status # "verified" /\ rest.code # "anchor_binding_mismatch"
  BY <1>1, <1>2
<1>5. VerifyProof(e, h).status = "verified" <=> e # None /\ failure = "none" /\ e = digest /\ ~NoHeader /\ Confirmed(h)
  BY <1>1, <1>3, <1>4
<1>6. failure \in Codes => VerifyProof(e, h).code # "anchor_binding_mismatch"
  <2>1. failure \in Codes => failure # "anchor_binding_mismatch"
    BY DEF Codes
  <2> QED BY <1>1, <1>3, <1>4, <2>1
<1> QED BY <1>5, <1>6, Zenon DEF NoHeader

\* None is no message.
NoneIsNoBytes == ~IsBytes(None)

\* What the attestations commit to, against the headers.
CommittedBy(headers) ==
    \E i \in DOMAIN tokens :
      /\ tokens[i].token = "att" /\ tokens[i].kind = "bitcoin"
      /\ tokens[i].height \in DOMAIN headers
      /\ Committed(i) = headers[tokens[i].height]

\* Bitcoin leaves are Bitcoin attestations.
LEMMA ConfirmedIs ==
  ASSUME IInv
  PROVE  /\ \A h : Confirmed(h) <=> CommittedBy(h)
         /\ \A i \in DOMAIN tokens : tokens[i].token = "att" => IsBytes(Committed(i))
<1>1. \A msg, a : Leaf(msg, a).msg = msg /\ Leaf(msg, a).kind = a.kind /\ Leaf(msg, a).height = a.height
  BY DEF Leaf
<1>2. \A i \in DOMAIN tokens : tokens[i].token = "att" =>
        /\ Count(tokens, "att", i) \in DOMAIN leaves
        /\ leaves[Count(tokens, "att", i)].msg = Committed(i)
        /\ leaves[Count(tokens, "att", i)].kind = tokens[i].kind
        /\ leaves[Count(tokens, "att", i)].height = tokens[i].height
  <2> SUFFICES ASSUME NEW i \in DOMAIN tokens, tokens[i].token = "att"
               PROVE  /\ Count(tokens, "att", i) \in DOMAIN leaves
                      /\ leaves[Count(tokens, "att", i)].msg = Committed(i)
                      /\ leaves[Count(tokens, "att", i)].kind = tokens[i].kind
                      /\ leaves[Count(tokens, "att", i)].height = tokens[i].height
    BY Zenon
  <2>1. Count(tokens, "att", i) \in DOMAIN leaves /\ leaves[Count(tokens, "att", i)] = Leaf(Committed(i), tokens[i])
    BY LeafOfAttestation, Zenon
  <2>2. PICK leaf : leaf = leaves[Count(tokens, "att", i)]
    OBVIOUS
  <2>3. leaf = Leaf(Committed(i), tokens[i])
    BY <2>1, <2>2, Zenon
  <2>4. leaf.msg = Committed(i) /\ leaf.kind = tokens[i].kind /\ leaf.height = tokens[i].height
    BY <2>3 DEF Leaf
  <2> QED BY <2>1, <2>2, <2>4, Zenon
<1>3. \A n \in DOMAIN leaves : \E i \in DOMAIN tokens : tokens[i].token = "att" /\ Count(tokens, "att", i) = n
  BY LeafOfAttestation, Zenon
<1>4. ASSUME NEW h, Confirmed(h) PROVE CommittedBy(h)
  <2>1. PICK n \in DOMAIN leaves : leaves[n].kind = "bitcoin" /\ leaves[n].height \in DOMAIN h
                                  /\ leaves[n].msg = h[leaves[n].height]
    BY <1>4, Zenon DEF Confirmed, Leaves
  <2>2. PICK i \in DOMAIN tokens : tokens[i].token = "att" /\ Count(tokens, "att", i) = n
    BY <1>3, Zenon
  <2>3. leaves[n].msg = Committed(i) /\ leaves[n].kind = tokens[i].kind /\ leaves[n].height = tokens[i].height
    BY <1>2, <2>2, Zenon
  <2> QED BY <2>1, <2>2, <2>3, Zenon DEF CommittedBy
<1>5. ASSUME NEW h, CommittedBy(h) PROVE Confirmed(h)
  <2>1. PICK i \in DOMAIN tokens : /\ tokens[i].token = "att" /\ tokens[i].kind = "bitcoin"
                                  /\ tokens[i].height \in DOMAIN h /\ Committed(i) = h[tokens[i].height]
    BY <1>5, Zenon DEF CommittedBy
  <2>2. PICK n : n = Count(tokens, "att", i)
    OBVIOUS
  <2>3. n \in DOMAIN leaves /\ leaves[n].msg = Committed(i) /\ leaves[n].kind = "bitcoin" /\ leaves[n].height = tokens[i].height
    BY <1>2, <2>1, <2>2, Zenon
  <2>4. leaves[n] \in Leaves("bitcoin")
    BY <2>3, Zenon DEF Leaves
  <2> QED BY <2>1, <2>3, <2>4, Zenon DEF Confirmed
<1>6. \A i \in DOMAIN tokens : tokens[i].token = "att" => IsBytes(Committed(i))
  <2>1. \A n \in DOMAIN leaves : IsBytes(leaves[n].msg)
    BY Zenon DEF IInv, StateInv
  <2> QED BY <1>2, <2>1, Zenon
<1> QED BY <1>4, <1>5, <1>6, Zenon

\* There is one header at most.
LEMMA OneHeader ==
  ASSUME failure = "none", NEW h \in HeaderSets, NEW x \in DOMAIN h, NEW y \in DOMAIN h
  PROVE  x = y
<1> DEFINE roots == {l.msg : l \in Leaves("bitcoin")} \cup {Stray, None}
<1>1. h = <<>> \/ \E k \in Heights : h \in [{k} -> roots]
  BY DEF HeaderSets
<1>2. CASE h = <<>>
  BY <1>2
<1>3. CASE \E k \in Heights : h \in [{k} -> roots]
  <2> HIDE DEF roots
  <2> QED BY <1>3
<1> QED BY <1>1, <1>2, <1>3, Zenon

\* What an entry of a bundle without anchor errors is about.
LEMMA EntryIsOfTarget ==
  ASSUME NEW c \in Cases, NEW id, Binding(c, id) # None, AnchorErrors(c.bundle) = {}
  PROVE  /\ Target(c, id) = None \/ \E i \in DOMAIN c.bundle.receipts :
                                    c.bundle.receipts[i].id = id /\ Target(c, id) = c.bundle.receipts[i]
         /\ \E j \in DOMAIN c.bundle.receipts :
              c.bundle.receipts[j].id = id /\ Binding(c, id).hash = Digest(c.bundle.receipts[j])
<1> DEFINE rs == c.bundle.receipts
           found == {i \in DOMAIN c.entries : c.entries[i].target = id /\ c.entries[i].kind = "opentimestamps"}
           same == {i \in DOMAIN rs : rs[i].id = id}
<1>1. /\ rs \in Seq({rs[i] : i \in DOMAIN rs}) /\ c.entries \in Seq({c.entries[i] : i \in DOMAIN c.entries})
      /\ c.bundle.malformed = {} /\ c.bundle.anchors = {c.entries[i] : i \in DOMAIN c.entries}
  BY AnchorAssumption, Zenon DEF AnchorAssumption
<1>2. PICK s : s = rs
  OBVIOUS
<1>3. PICK t : t = c.entries
  OBVIOUS
<1>4. DOMAIN s = 1..Len(s) /\ Len(s) \in Nat /\ DOMAIN t = 1..Len(t) /\ Len(t) \in Nat
  <2>1. \A q, S : q \in Seq(S) => DOMAIN q = 1..Len(q) /\ Len(q) \in Nat
    OBVIOUS
  <2> QED BY <1>1, <1>2, <1>3, <2>1, Zenon
<1>5. found \in SUBSET Nat /\ same \in SUBSET Nat /\ same \subseteq 1..Len(s) /\ same \subseteq DOMAIN rs
  <2>1. found \subseteq 1..Len(t) /\ same \subseteq 1..Len(s) /\ same \subseteq DOMAIN rs
    BY <1>2, <1>3, <1>4, Zenon
  <2>2. \A n \in Nat : 1..n \subseteq Nat
    OBVIOUS
  <2> HIDE DEF found, same
  <2> QED BY <1>4, <2>1, <2>2, Zenon
<1>6. found # {} /\ Binding(c, id) = c.entries[Least(found)]
  BY Zenon DEF Binding
<1>7. PICK e \in DOMAIN c.entries : c.entries[e].target = id /\ Binding(c, id) = c.entries[e]
  <2>1. Least(found) \in found
    <3> HIDE DEF found
    <3> QED BY <1>5, <1>6, HasLeast, Zenon
  <2> QED BY <1>6, <2>1, Zenon
<1>8. AnchorHolds(rs, c.entries[e])
  <2>1. c.entries[e] \in c.bundle.anchors
    BY <1>1, Zenon
  <2>2. ~("anchors" \notin c.bundle.malformed /\ \E a \in c.bundle.anchors :
            ~AnchorHolds(c.bundle.receipts, a) \/ a.kind \notin AnchorTypes \cup {None})
    <3>1. {"anchor_invalid"} # {}
      OBVIOUS
    <3> QED BY <3>1, Zenon DEF AnchorErrors, When
  <2>3. "anchors" \notin c.bundle.malformed
    BY <1>1, Zenon
  <2> QED BY <2>1, <2>2, <2>3, Zenon
<1>9. same # {} /\ c.entries[e].hash = Digest(rs[Greatest(same)])
  BY <1>7, <1>8, Zenon DEF AnchorHolds
<1>10. Greatest(same) \in same
  <2>1. same \subseteq 1..Len(s) /\ Len(s) \in Nat
    BY <1>4, <1>5, Zenon
  <2> HIDE DEF same
  <2> QED BY <1>9, <2>1, HasGreatest, Zenon
<1>11. Least(same) \in same
  <2> HIDE DEF same
  <2> QED BY <1>5, <1>9, HasLeast, Zenon
<1>12. Target(c, id) = rs[Least(same)]
  BY <1>9, Zenon DEF Target
<1> QED BY <1>7, <1>9, <1>10, <1>11, <1>12, Zenon

\* Sources are digests and receipts of bundles.
LEMMA SourceIs ==
  ASSUME NEW source \in Sources
  PROVE  \/ source.kind = "digest"
         \/ /\ source.kind = "bundle" /\ source.of \in Cases
            /\ CliResult(source, answer.headers) =
                 IF Target(source.of, source.id) = None THEN Answer("invalid", "unknown_target")
                 ELSE IF EntryAgrees(source.of, source.id)
                      THEN VerifyProof(DigestBytes(Target(source.of, source.id)), answer.headers)
                      ELSE Answer("mismatch", "anchor_binding_mismatch")
<1>1. CASE source \in [kind : {"digest"}, expected : Known \cup {None}]
  BY <1>1
<1>2. CASE source \in UNION {{[kind |-> "bundle", of |-> c, id |-> id] :
                   id \in {c.bundle.receipts[i].id : i \in DOMAIN c.bundle.receipts} \cup {None}} : c \in Cases}
  <2>1. PICK c \in Cases : \E id : source = [kind |-> "bundle", of |-> c, id |-> id]
    BY <1>2, Zenon
  <2>2. PICK id : source = [kind |-> "bundle", of |-> c, id |-> id]
    BY <2>1, Zenon
  <2>3. source.kind = "bundle" /\ source.of = c
    BY <2>2
  <2>4. source.kind # "digest"
    BY <2>3
  <2>5. CASE Target(source.of, source.id) = None
    BY <2>3, <2>4, <2>5, Zenon DEF CliResult
  <2>6. CASE Target(source.of, source.id) # None
    BY <2>3, <2>4, <2>6, Zenon DEF CliResult
  <2> QED BY <2>3, <2>5, <2>6, Zenon
<1> QED BY <1>1, <1>2, Zenon DEF Sources

\* verify_proof and main: exit code 0 says that the requested digest reaches, by the
\* operations around a Bitcoin attestation, the root of that block, and for a receipt of a
\* bundle that the digest is the one its anchor entry commits to.
THEOREM VerifiedCommits == NoneIsNoBytes => (Spec => []VerifiedIsCommitted)
<1> SUFFICES ASSUME NoneIsNoBytes PROVE Spec => []VerifiedIsCommitted
  OBVIOUS
<1>1. IInv => VerifiedIsCommitted
  <2> SUFFICES ASSUME IInv, pc = "answered" PROVE VerifiedIsCommitted
    BY Zenon DEF VerifiedIsCommitted
  <2> DEFINE committed == CommittedBy(answer.headers)
             verified == ExitCode(answer.result) = 0
  <2>1. PICK source \in Sources : source = answer.source
    BY Zenon DEF IInv, AnswerInv
  <2>2. PICK h \in HeaderSets : h = answer.headers
    BY Zenon DEF IInv, AnswerInv
  <2>3. answer.result = CliResult(source, h)
    BY <2>1, <2>2, Zenon DEF IInv, AnswerInv
  <2>4. verified <=> CliResult(source, h).status = "verified"
    BY <2>3 DEF ExitCode
  <2>5. committed <=> Confirmed(h)
    BY <2>2, ConfirmedIs, Zenon
  <2>6. \A e : VerifyProof(e, h).status = "verified" <=>
               /\ e # None /\ failure = "none" /\ e = digest
               /\ ~(\E x \in DOMAIN h : h[x] = None) /\ Confirmed(h)
    BY VerifiedWhen, Zenon
  <2>7. \A e : VerifyProof(e, h).code # "anchor_binding_mismatch"
    BY VerifiedWhen, Zenon DEF IInv, StateInv
  <2>8. digest # None
    <3>1. IsBytes(digest)
      <4>1. PICK r : digest = DigestBytes(r)
        BY DEF IInv, StateInv, Known
      <4>2. PICK b : b = [digest |-> Digest(r)]
        OBVIOUS
      <4>3. <<b>> \in Seq({b}) /\ <<b>> # <<>>
        OBVIOUS
      <4> QED BY <4>1, <4>2, <4>3, Zenon DEF IsBytes, IsSeq, DigestBytes
    <3> QED BY <3>1, Zenon DEF NoneIsNoBytes
  <2>9. ASSUME failure = "none", committed PROVE ~(\E x \in DOMAIN h : h[x] = None)
    <3>1. PICK i \in DOMAIN tokens : /\ tokens[i].token = "att" /\ tokens[i].height \in DOMAIN h
                                    /\ Committed(i) = h[tokens[i].height]
      BY <2>2, <2>9, Zenon DEF CommittedBy
    <3>2. h[tokens[i].height] # None
      BY <3>1, ConfirmedIs, Zenon DEF NoneIsNoBytes
    <3>3. \A x \in DOMAIN h : x = tokens[i].height
      BY <2>9, <3>1, OneHeader, Zenon
    <3> QED BY <3>2, <3>3, Zenon
  <2>10. CASE source.kind = "digest"
    <3>1. CliResult(source, h) = VerifyProof(source.expected, h)
      BY <2>10, Zenon DEF CliResult
    <3>2. verified => failure = "none" /\ committed /\ source.expected = digest
      BY <2>4, <2>5, <2>6, <3>1, Zenon
    <3>3. failure = "none" /\ source.expected = digest /\ committed => verified
      BY <2>4, <2>5, <2>6, <2>8, <2>9, <3>1, Zenon
    <3>4. source.kind # "bundle"
      BY <2>10
    <3> QED BY <2>1, <3>2, <3>3, <3>4, Zenon DEF VerifiedIsCommitted, CommittedBy
  <2>11. CASE source.kind = "bundle"
    <3>1. PICK c, id : c = source.of /\ id = source.id
      OBVIOUS
    <3> DEFINE target == Target(c, id)
    <3>2. source.kind # "digest"
      BY <2>11
    <3>3. /\ c \in Cases
          /\ target = None => CliResult(source, h) = Answer("invalid", "unknown_target")
          /\ target # None /\ EntryAgrees(c, id) => CliResult(source, h) = VerifyProof(DigestBytes(target), h)
          /\ target # None /\ ~EntryAgrees(c, id) => CliResult(source, h) = Answer("mismatch", "anchor_binding_mismatch")
      BY <2>2, <3>1, <3>2, SourceIs, Zenon
    <3>4. /\ Answer("invalid", "unknown_target").status # "verified"
          /\ Answer("invalid", "unknown_target").code # "anchor_binding_mismatch"
          /\ Answer("mismatch", "anchor_binding_mismatch").status # "verified"
      BY DEF Answer
    <3>5. verified => /\ failure = "none" /\ committed
                      /\ target # None /\ EntryAgrees(c, id) /\ DigestBytes(target) = digest
      BY <2>4, <2>5, <2>6, <3>3, <3>4, Zenon
    <3>6. answer.result.code = "anchor_binding_mismatch" => target # None /\ ~EntryAgrees(c, id)
      BY <2>3, <2>7, <3>3, <3>4, Zenon
    <3>7. ASSUME Binding(c, id) # None, AnchorErrors(c.bundle) = {}, verified
          PROVE  digest = <<[digest |-> Binding(c, id).hash]>>
      BY <3>5, <3>7, Zenon DEF EntryAgrees, DigestBytes
    <3>8. ASSUME Binding(c, id) # None, AnchorErrors(c.bundle) = {}, answer.result.code = "anchor_binding_mismatch"
          PROVE  \E i, j \in DOMAIN c.bundle.receipts :
                   i # j /\ c.bundle.receipts[i].id = id /\ c.bundle.receipts[j].id = id
      <4>1. target # None /\ Binding(c, id).hash # Digest(target)
        BY <3>6, <3>8, Zenon DEF EntryAgrees
      <4>2. PICK i \in DOMAIN c.bundle.receipts : c.bundle.receipts[i].id = id /\ target = c.bundle.receipts[i]
        BY <3>3, <3>8, <4>1, EntryIsOfTarget
      <4>3. PICK j \in DOMAIN c.bundle.receipts :
              c.bundle.receipts[j].id = id /\ Binding(c, id).hash = Digest(c.bundle.receipts[j])
        BY <3>3, <3>8, EntryIsOfTarget
      <4>4. i # j
        BY <4>1, <4>2, <4>3, Zenon
      <4> QED BY <4>2, <4>3, <4>4, Zenon
    <3> QED BY <2>1, <3>1, <3>2, <3>5, <3>7, <3>8, Zenon DEF VerifiedIsCommitted, CommittedBy
  <2> QED BY <2>10, <2>11, SourceIs, Zenon
<1> QED BY <1>1, AnchorInductive, PTL
=============================================================================
