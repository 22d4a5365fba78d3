---------------------------- MODULE AssessmentProofs ----------------------------
(***************************************************************************)
(* Theorems about Assessment, for every set of keys, files and contexts,   *)
(* and all times.                                                          *)
(*                                                                         *)
(* The inductive invariant says which bundles commit to files (BundleInv), *)
(* that checkpoints have times, even altered ones (CheckpointInv), and     *)
(* that verification receipts are about bundles there are and as issued    *)
(* (NoteInv).  The rest is about the two chains of checks: what each       *)
(* outcome of assess_import and assess_snapshot needs (ImportOutcome,      *)
(* SnapshotAccepted), and what verifying a receipt again finds             *)
(* (NotesStand).  For consumers the invariant says that at most a note is  *)
(* withheld from any bundle, and that one of an older version is a pass    *)
(* and an end (ConsumerInv): disclosing such a bundle changes no error     *)
(* (DisclosureKeepsErrors), and the times to act on it are an interval     *)
(* (PairActs).                                                             *)
(*                                                                         *)
(* None stands for JSON null and Junk for what is no JSON object: where a  *)
(* theorem needs that they have no such member, it says so.                *)
(***************************************************************************)
EXTENDS Assessment, FiniteSetTheorems, SequenceTheorems, TLAPS

USE AssessmentAssumption DEF AssessmentAssumption

\* What it takes to be let in.
Vouched(b, c, ref, t) ==
    /\ StatementSignedBy(c, Trusted)
    /\ c = ref
    /\ c.context = Context
    /\ c.bundle = b
    /\ c.max_age = MaxAge /\ c.expires - c.issued = MaxAge
    /\ ~NotCurrent(c, t)

Examined(b) == b # Junk /\ core[b].verdict = "TRUSTED" /\ b.spec = 5

\* assess_import accepts what it examined and what is vouched for, and asks only for
\* what is missing.
LEMMA ImportOutcome ==
  ASSUME NEW b, NEW c, NEW ref, NEW t
  PROVE  /\ AssessImport(b, c, ref, t).outcome = "ACCEPT" <=>
              Examined(b) /\ c # None /\ ref # None /\ Vouched(b, c, ref, t)
         /\ AssessImport(b, c, ref, t).outcome = "NEEDS_EVIDENCE" <=>
              Examined(b) /\ (c = None \/ ref = None)
<1>1. CASE ~Examined(b)
  BY <1>1 DEF Examined, AssessImport, Answer
<1>2. CASE Examined(b) /\ (c = None \/ ref = None)
  BY <1>2 DEF Examined, AssessImport, Answer
<1>3. CASE Examined(b) /\ c # None /\ ref # None
  <2> DEFINE failures == <<
          <<~StatementSignedBy(c, Trusted), "checkpoint_bad_signature">>,
          <<c # ref, "checkpoint_reference_mismatch">>,
          <<c.context # Context, "checkpoint_context_mismatch">>,
          <<c.bundle # b, "checkpoint_bundle_mismatch">>,
          <<c.max_age # MaxAge \/ c.expires - c.issued # MaxAge, "freshness_policy_mismatch">>,
          <<NotCurrent(c, t), "checkpoint_not_current">> >>
             met == {i \in DOMAIN failures : failures[i][1]}
  <2>1. AssessImport(b, c, ref, t) =
          IF met = {} THEN Answer("ACCEPT", "checkpoint_current")
          ELSE Answer("REJECT", failures[Least(met)][2])
    BY <1>3 DEF AssessImport, Examined
  <2>2. met = {} <=> \A i \in 1..6 : ~failures[i][1]
    OBVIOUS
  <2>3. (\A i \in 1..6 : ~failures[i][1]) <=>
          ~failures[1][1] /\ ~failures[2][1] /\ ~failures[3][1] /\ ~failures[4][1] /\ ~failures[5][1] /\ ~failures[6][1]
    OBVIOUS
  <2>4. met = {} <=> Vouched(b, c, ref, t)
    BY <2>2, <2>3 DEF Vouched
  <2> HIDE DEF met, failures
  <2> QED BY <1>3, <2>1, <2>4 DEF Answer
<1> QED BY <1>1, <1>2, <1>3

-----------------------------------------------------------------------------
(* Bundles *)

\* A receipt added to a chain has the type, the issuer and the body asked for.
LEMMA NextReceiptIs ==
  ASSUME NEW chain, NEW id, NEW task, NEW spec, NEW type, NEW key, NEW at, NEW body
  PROVE  LET r == NextReceipt(chain, id, task, spec, type, key, at, body) IN
         r.type = type /\ r.issuer = key /\ r.body = body
BY DEF NextReceipt, Sign, NewEnvelope

\* Chains of two and three receipts, written out.
LEMMA AppendPairs ==
  ASSUME NEW x, NEW y, NEW z
  PROVE  Append(<<x>>, y) = <<x, y>> /\ Append(<<x, y>>, z) = <<x, y, z>>
<1> DEFINE S == {x, y, z}
<1>1. <<x>> \in Seq(S) /\ <<x, y>> \in Seq(S) /\ <<x, y, z>> \in Seq(S)
  OBVIOUS
<1>2. Append(<<x>>, y) = <<x, y>>
  <2> DEFINE s == Append(<<x>>, y)
             t == <<x, y>>
  <2>1. s \in Seq(S) /\ t \in Seq(S) /\ Len(s) = Len(t)
    BY <1>1
  <2>2. \A i \in 1..Len(s) : s[i] = t[i]
    BY <1>1
  <2> HIDE DEF s, t, S
  <2>3. s = t
    BY <2>1, <2>2, SeqEqual
  <2> QED BY <2>3 DEF s, t
<1>3. Append(<<x, y>>, z) = <<x, y, z>>
  <2> DEFINE s == Append(<<x, y>>, z)
             t == <<x, y, z>>
  <2>1. s \in Seq(S) /\ t \in Seq(S) /\ Len(s) = Len(t)
    BY <1>1
  <2>2. \A i \in 1..Len(s) : s[i] = t[i]
    BY <1>1
  <2> HIDE DEF s, t, S
  <2>3. s = t
    BY <2>1, <2>2, SeqEqual
  <2> QED BY <2>3 DEF s, t
<1> QED BY <1>2, <1>3

\* The one commitment of an exported bundle is its exporter's, to what was exported.
LEMMA ExportCommits ==
  ASSUME NEW files, NEW scope, NEW key, NEW at,
         NEW r \in OfType(BuildBundle(files, scope, key, at).receipts, "state.commitment")
  PROVE  r.issuer = key /\ Get(r, "scope") = scope /\ Get(r, "head_digest") = files
<1> DEFINE body == [shape |-> "ok", scope |-> scope, head_digest |-> BuildManifest(files)]
           p1 == NextReceipt(<<>>, 0, "task", 5, "session.pass.created", key, at,
                             [shape |-> "ok", policy_version |-> "p"])
           p2 == NextReceipt(<<p1>>, 1, "task", 5, "state.commitment", key, at, body)
           p3 == NextReceipt(<<p1, p2>>, 2, "task", 5, "task.termination", key, at, [shape |-> "ok"])
<1>1. BuildBundle(files, scope, key, at).receipts = <<p1, p2, p3>>
  <2>1. Append(<<p1>>, p2) = <<p1, p2>> /\ Append(<<p1, p2>>, p3) = <<p1, p2, p3>>
    BY AppendPairs
  <2>2. BuildBundle(files, scope, key, at).receipts =
          Append(Append(<<p1>>, p2),
                 NextReceipt(Append(<<p1>>, p2), 2, "task", 5, "task.termination", key, at,
                             [shape |-> "ok"]))
    BY Zenon DEF BuildBundle, BundleOf
  <2>3. BuildBundle(files, scope, key, at).receipts = Append(<<p1, p2>>, p3)
    BY <2>1, <2>2, Zenon
  <2> QED BY <2>1, <2>3, Zenon
<1>2. p1.type = "session.pass.created" /\ p2.type = "state.commitment" /\ p3.type = "task.termination"
  BY NextReceiptIs
<1>3. p2.issuer = key /\ p2.body = body
  BY NextReceiptIs
<1> HIDE DEF p1, p2, p3
<1>4. r = p2
  BY <1>1, <1>2 DEF OfType, Indexes
<1> QED BY <1>3, <1>4 DEF Get, BuildManifest

OtherBundle(key, spec, until, withheld) ==
    LET pass == NextReceipt(<<>>, 0, "task", spec, "session.pass.created", key, 0,
                            [shape |-> "ok", policy_version |-> "p", expires_at |-> until])
        shown == IF withheld
                 THEN Sign([pass EXCEPT !.hidden = [note |-> [commit |-> <<0, "n">>, erased |-> FALSE]]], key)
                 ELSE pass
    IN BundleOf(<<shown, NextReceipt(<<shown>>, 1, "task", spec, "task.termination", key, now,
                                     [shape |-> "ok"])>>, "task", spec)

\* The bundle of another task has no state commitment.
LEMMA OtherCommitsToNothing ==
  ASSUME NEW key, NEW spec, NEW until, NEW withheld
  PROVE  OfType(OtherBundle(key, spec, until, withheld).receipts, "state.commitment") = {}
<1> DEFINE pass == NextReceipt(<<>>, 0, "task", spec, "session.pass.created", key, 0,
                            [shape |-> "ok", policy_version |-> "p", expires_at |-> until])
           shown == IF withheld
                 THEN Sign([pass EXCEPT !.hidden = [note |-> [commit |-> <<0, "n">>, erased |-> FALSE]]], key)
                 ELSE pass
           last == NextReceipt(<<shown>>, 1, "task", spec, "task.termination", key, now, [shape |-> "ok"])
<1>1. OtherBundle(key, spec, until, withheld).receipts = <<shown, last>>
  BY DEF OtherBundle, BundleOf
<1>2. shown.type = "session.pass.created"
  BY DEF NextReceipt, Sign, NewEnvelope
<1>3. last.type = "task.termination"
  BY NextReceiptIs
<1> HIDE DEF shown, last
<1> QED BY <1>1, <1>2, <1>3 DEF OfType, Indexes

\* What it takes for assess_snapshot to accept: files a vouched-for bundle commits to.
LEMMA SnapshotAccepted ==
  ASSUME NEW b, NEW c, NEW manifest, NEW files, NEW ref, NEW t,
         AssessSnapshot(b, c, manifest, files, ref, t).outcome = "ACCEPT"
  PROVE  /\ Examined(b) /\ c # None /\ ref # None /\ Vouched(b, c, ref, t)
         /\ \E r \in OfType(b.receipts, "state.commitment") :
              Get(r, "scope") = Scope /\ Get(r, "head_digest") = files /\ r.issuer = Trusted
<1> DEFINE commitments == OfType(b.receipts, "state.commitment")
           r == CHOOSE x \in commitments : TRUE
<1>1. /\ AssessImport(b, c, ref, t).outcome = "ACCEPT"
      /\ files = manifest
      /\ Cardinality(commitments) = 1
      /\ Get(r, "scope") = Scope /\ Get(r, "head_digest") = manifest /\ SignerAgrees(r)
  BY DEF AssessSnapshot, Answer, BuildManifest
<1>2. commitments # {}
  BY <1>1, FS_EmptySet
<1>3. r \in commitments
  BY <1>2
<1>4. Examined(b) /\ c # None /\ ref # None /\ Vouched(b, c, ref, t)
  BY <1>1, ImportOutcome
<1> HIDE DEF commitments, r
<1> QED BY <1>1, <1>3, <1>4 DEF SignerAgrees, commitments

-----------------------------------------------------------------------------
(* Signed statements *)

\* Signing a statement adds a signature over it and leaves the rest.
LEMMA SignedStatement ==
  ASSUME NEW s, NEW key, "sig" \notin DOMAIN s, s = [x \in DOMAIN s |-> s[x]]
  PROVE  /\ StatementSignedBy(SignStatement(s, key), key)
         /\ DOMAIN SignStatement(s, key) = DOMAIN s \cup {"sig"}
         /\ \A x \in DOMAIN s : SignStatement(s, key)[x] = s[x]
         /\ SignStatement(s, key).sig.by = key
<1> DEFINE signed == SignStatement(s, key)
<1>1. /\ DOMAIN signed = DOMAIN s \cup {"sig"}
      /\ \A x \in DOMAIN s : signed[x] = s[x]
      /\ signed["sig"] = [by |-> key, over |-> s]
  BY DEF SignStatement
<1> HIDE DEF signed
<1>2. (DOMAIN signed) \ {"sig"} = DOMAIN s
  BY <1>1
<1>3. Statement(signed) = s
  BY <1>1, <1>2 DEF Statement
<1> QED BY <1>1, <1>3 DEF StatementSignedBy, signed

CheckpointFields == {"bundle", "context", "issued", "max_age", "expires", "sig"}

\* issue_checkpoint: what it writes, signed by its key.
LEMMA IssuedCheckpoint ==
  ASSUME NEW b, NEW context, NEW at \in Nat, NEW age \in Nat, NEW key
  PROVE  LET c == IssueCheckpoint(b, context, at, age, key) IN
         /\ DOMAIN c = CheckpointFields
         /\ c.bundle = b /\ c.context = context /\ c.sig.by = key
         /\ c.issued = at /\ c.max_age = age /\ c.expires = at + age
         /\ StatementSignedBy(c, key)
<1> DEFINE s == [bundle |-> b, context |-> context, issued |-> at, max_age |-> age,
                 expires |-> at + age]
<1>1. /\ DOMAIN s = {"bundle", "context", "issued", "max_age", "expires"}
      /\ s = [x \in DOMAIN s |-> s[x]]
      /\ s["bundle"] = b /\ s["context"] = context /\ s["issued"] = at
      /\ s["max_age"] = age /\ s["expires"] = at + age
  OBVIOUS
<1>2. IssueCheckpoint(b, context, at, age, key) = SignStatement(s, key)
  BY DEF IssueCheckpoint
<1> HIDE DEF s
<1> DEFINE c == SignStatement(s, key)
<1>3. /\ DOMAIN c = DOMAIN s \cup {"sig"} /\ \A x \in DOMAIN s : c[x] = s[x]
      /\ StatementSignedBy(c, key) /\ c.sig.by = key
  BY <1>1, SignedStatement
<1> HIDE DEF c
<1>4. DOMAIN c = CheckpointFields
  BY <1>1, <1>3 DEF CheckpointFields
<1>5. /\ c.bundle = b /\ c.context = context
      /\ c.issued = at /\ c.max_age = age /\ c.expires = at + age
  BY <1>1, <1>3
<1> QED BY <1>2, <1>3, <1>4, <1>5 DEF c

\* issue: a verification receipt says what was verified and when, signed by its issuer.
LEMMA IssuedNote ==
  ASSUME NEW b, NEW result, NEW at, NEW key
  PROVE  LET n == IssueNote(b, result, at, key) IN
         /\ DOMAIN n = {"bundle", "result", "at", "issuer", "sig"}
         /\ n.bundle = b /\ n.result = result /\ n.at = at /\ n.issuer = key
         /\ StatementSignedBy(n, key)
<1> DEFINE s == [bundle |-> b, result |-> result, at |-> at, issuer |-> key]
<1>1. /\ DOMAIN s = {"bundle", "result", "at", "issuer"}
      /\ s = [x \in DOMAIN s |-> s[x]]
      /\ s["bundle"] = b /\ s["result"] = result /\ s["at"] = at /\ s["issuer"] = key
  OBVIOUS
<1>2. IssueNote(b, result, at, key) = SignStatement(s, key)
  BY DEF IssueNote
<1> HIDE DEF s
<1> QED BY <1>1, <1>2, SignedStatement

-----------------------------------------------------------------------------
(* The inductive invariant *)

\* Only an export commits to files, and each was recorded.
BundleInv ==
    \A b \in bundles :
      /\ "receipts" \in DOMAIN b
      /\ \/ \E key \in Keys, files \in Files, scope \in Scopes :
              /\ b = BuildBundle(files, scope, key, 0)
              /\ [key |-> key, files |-> files, scope |-> scope] \in exports
         \/ OfType(b.receipts, "state.commitment") = {}

\* Checkpoints, also altered ones, have times.
CheckpointInv ==
    \A c \in checkpoints : /\ DOMAIN c = CheckpointFields
                           /\ c.issued \in Nat /\ c.max_age \in Nat /\ c.expires \in Nat

\* Verification receipts are as they were issued, about bundles there are.
NoteInv ==
    \A n \in notes : /\ n = IssueNote(n.bundle, n.result, n.at, n.issuer)
                     /\ n.bundle \in bundles /\ Issuable(n.result) /\ n.at \in Nat

IInv ==
    /\ now \in Nat /\ reference \in checkpoints \cup {None}
    /\ BundleInv /\ CheckpointInv /\ NoteInv /\ ReleasedIsCommitted

\* The invariant holds at first.
LEMMA InitIInv == Init => IInv
BY DEF Init, IInv, bundles, BundleInv, CheckpointInv, NoteInv, ReleasedIsCommitted, Silent

\* Exporting files in a bundle keeps the invariant.
LEMMA ExportKeeps ==
  ASSUME IInv, NEW key \in Keys, NEW files \in Files, NEW scope \in Scopes,
         Export(key, files, scope)
  PROVE  IInv'
<1> DEFINE b == BuildBundle(files, scope, key, 0)
           e == [key |-> key, files |-> files, scope |-> scope]
<1>1. /\ bundles' = bundles \cup {b} /\ exports' = exports \cup {e}
      /\ told = Silent /\ UNCHANGED <<now, checkpoints, reference, notes, told>>
  BY DEF Export, Quiet, bundles
<1>2. "receipts" \in DOMAIN b
  BY DEF BuildBundle, BundleOf
<1> HIDE DEF b, e
<1>3. BundleInv'
  <2> SUFFICES ASSUME NEW x \in bundles'
               PROVE  /\ "receipts" \in DOMAIN x
                      /\ \/ \E k \in Keys, f \in Files, s \in Scopes :
                              /\ x = BuildBundle(f, s, k, 0)
                              /\ [key |-> k, files |-> f, scope |-> s] \in exports'
                         \/ OfType(x.receipts, "state.commitment") = {}
    BY DEF BundleInv
  <2>1. CASE x = b
    BY <1>1, <1>2, <2>1 DEF b, e
  <2>2. CASE x \in bundles
    BY <1>1, <2>2 DEF IInv, BundleInv
  <2> QED BY <1>1, <2>1, <2>2
<1>4. ReleasedIsCommitted'
  BY <1>1 DEF ReleasedIsCommitted, Silent
<1> QED BY <1>1, <1>3, <1>4 DEF IInv, CheckpointInv, NoteInv

\* A bundle of another task keeps the invariant.
LEMMA RecordKeeps ==
  ASSUME IInv, NEW key \in Keys, NEW spec, NEW until, NEW withheld, Record(key, spec, until, withheld)
  PROVE  IInv'
<1> DEFINE b == OtherBundle(key, spec, until, withheld)
<1>1. /\ bundles = {} /\ bundles' = {b}
      /\ told = Silent /\ UNCHANGED <<now, exports, checkpoints, reference, notes, told>>
  BY DEF Record, OtherBundle, Quiet, bundles
<1>2. "receipts" \in DOMAIN b
  BY DEF OtherBundle, BundleOf
<1>3. OfType(b.receipts, "state.commitment") = {}
  BY OtherCommitsToNothing
<1> HIDE DEF b
<1> QED BY <1>1, <1>2, <1>3 DEF IInv, BundleInv, CheckpointInv, NoteInv, ReleasedIsCommitted, Silent

\* Issuing a checkpoint keeps the invariant.
LEMMA IssuesCheckpointKeeps ==
  ASSUME IInv, NEW key \in Keys, NEW b \in bundles, NEW context \in Contexts, NEW age \in {MaxAge, MaxAge + 1},
         IssuesCheckpoint(key, b, context, age)
  PROVE  IInv'
<1> DEFINE c == IssueCheckpoint(b, context, now, age, key)
<1>1. /\ checkpoints' = checkpoints \cup {c}
      /\ told = Silent /\ UNCHANGED <<now, exports, core, reference, notes, told>>
  BY DEF IssuesCheckpoint, Quiet
<1>2. DOMAIN c = CheckpointFields /\ c.issued \in Nat /\ c.max_age \in Nat /\ c.expires \in Nat
  BY IssuedCheckpoint DEF IInv
<1> HIDE DEF c
<1> QED BY <1>1, <1>2 DEF IInv, bundles, BundleInv, CheckpointInv, NoteInv, ReleasedIsCommitted, Silent

\* Altering a checkpoint keeps the invariant.
LEMMA AlterCheckpointKeeps ==
  ASSUME IInv, NEW c \in checkpoints, AlterCheckpoint(c)
  PROVE  IInv'
<1>1. told = Silent /\ UNCHANGED <<now, exports, core, reference, notes, told>>
  BY DEF AlterCheckpoint, Quiet
<1>2. PICK d : /\ checkpoints' = checkpoints \cup {d}
               /\ DOMAIN d = DOMAIN c /\ d.max_age = c.max_age
               /\ \/ d.issued = c.issued /\ d.expires = c.expires
                  \/ d.issued = now /\ d.expires = now + c.max_age
  BY DEF AlterCheckpoint, IInv, CheckpointInv, CheckpointFields
<1>3. DOMAIN d = CheckpointFields /\ d.issued \in Nat /\ d.max_age \in Nat /\ d.expires \in Nat
  BY <1>2 DEF IInv, CheckpointInv
<1> QED BY <1>1, <1>2, <1>3 DEF IInv, bundles, BundleInv, CheckpointInv, NoteInv,
                                ReleasedIsCommitted, Silent

\* The receiver's refresh keeps the invariant.
LEMMA RefreshKeeps ==
  ASSUME IInv, NEW c \in checkpoints, Refresh(c)
  PROVE  IInv'
BY DEF Refresh, Quiet, IInv, bundles, BundleInv, CheckpointInv, NoteInv, ReleasedIsCommitted,
       Silent

\* Issuing a verification receipt keeps the invariant.
LEMMA AttestKeeps ==
  ASSUME IInv, NEW key \in Keys, NEW b \in bundles, NEW better \in BOOLEAN, Attest(key, b, better)
  PROVE  IInv'
<1>1. told = Silent /\ UNCHANGED <<now, exports, core, checkpoints, reference, told>>
  BY DEF Attest, Quiet
<1>2. PICK result : Issuable(result) /\ notes' = notes \cup {IssueNote(b, result, now, key)}
  BY DEF Attest
<1> DEFINE n == IssueNote(b, result, now, key)
<1>3. n.bundle = b /\ n.result = result /\ n.at = now /\ n.issuer = key
  BY IssuedNote
<1>4. n = IssueNote(n.bundle, n.result, n.at, n.issuer)
  BY <1>3
<1> HIDE DEF n
<1>5. NoteInv'
  <2>1. notes' = notes \cup {n}
    BY <1>2 DEF n
  <2>2. bundles' = bundles /\ now \in Nat /\ NoteInv
    BY <1>1 DEF bundles, IInv
  <2> QED BY <1>2, <1>3, <1>4, <2>1, <2>2 DEF NoteInv
<1> QED BY <1>1, <1>5 DEF IInv, bundles, BundleInv, CheckpointInv, ReleasedIsCommitted, Silent

\* Receiving files keeps the invariant.
LEMMA ReceiveKeeps ==
  ASSUME IInv, NEW b \in bundles \cup {Junk}, NEW c \in checkpoints \cup {None},
         NEW manifest, NEW files, Receive(b, c, manifest, files)
  PROVE  IInv'
<1>1. UNCHANGED <<now, exports, core, checkpoints, reference, notes>>
  BY DEF Receive
<1>2. ASSUME told'.outcome = "ACCEPT"
      PROVE  /\ [key |-> Trusted, files |-> told'.files, scope |-> Scope] \in exports
             /\ reference \in checkpoints /\ reference.sig.by = Trusted
             /\ reference.context = Context /\ now - reference.issued \in 0..MaxAge
  <2>1. AssessSnapshot(b, c, manifest, files, reference, now).outcome = "ACCEPT" /\ told'.files = files
    BY <1>2 DEF Receive
  <2>2. /\ Examined(b) /\ c # None /\ reference # None /\ Vouched(b, c, reference, now)
        /\ \E r \in OfType(b.receipts, "state.commitment") :
             Get(r, "scope") = Scope /\ Get(r, "head_digest") = files /\ r.issuer = Trusted
    BY <2>1, SnapshotAccepted
  <2>3. b \in bundles /\ c \in checkpoints
    BY <2>2 DEF Examined
  <2>4. PICK k \in Keys, f \in Files, s \in Scopes :
          /\ b = BuildBundle(f, s, k, 0)
          /\ [key |-> k, files |-> f, scope |-> s] \in exports
    BY <2>2, <2>3 DEF IInv, BundleInv
  <2>5. k = Trusted /\ f = files /\ s = Scope
    BY <2>2, <2>4, ExportCommits
  <2>6. /\ c = reference /\ c.issued \in Nat /\ c.expires \in Nat /\ now \in Nat
        /\ c.expires - c.issued = MaxAge /\ c.issued <= now /\ now <= c.expires
    BY <2>2, <2>3 DEF Vouched, NotCurrent, IInv, CheckpointInv
  <2>7. reference.context = Context /\ reference.sig.by = Trusted
    BY <2>2 DEF Vouched, StatementSignedBy
  <2> QED BY <2>1, <2>3, <2>4, <2>5, <2>6, <2>7
<1>3. ReleasedIsCommitted'
  BY <1>1, <1>2 DEF ReleasedIsCommitted
<1> QED BY <1>1, <1>3 DEF IInv, bundles, BundleInv, CheckpointInv, NoteInv

\* Every step keeps the invariant.
LEMMA IndNext == IInv /\ [Next]_vars => IInv'
<1> SUFFICES ASSUME IInv, [Next]_vars PROVE IInv'
  OBVIOUS
<1>1. CASE Forget
  <2>1. UNCHANGED <<now, exports, core, checkpoints, reference, notes>> /\ told' = Silent
    BY <1>1 DEF Forget
  <2>2. ReleasedIsCommitted'
    BY <2>1 DEF ReleasedIsCommitted, Silent
  <2> QED BY <2>1, <2>2 DEF IInv, bundles, BundleInv, CheckpointInv, NoteInv
<1>2. CASE Tick
  <2>1. /\ UNCHANGED <<exports, core, checkpoints, reference, notes>>
        /\ now' = now + 1 /\ told' = Silent
    BY <1>2 DEF Tick, Quiet
  <2>2. ReleasedIsCommitted'
    BY <2>1 DEF ReleasedIsCommitted, Silent
  <2>3. now' \in Nat
    BY <2>1 DEF IInv
  <2> QED BY <2>1, <2>2, <2>3 DEF IInv, bundles, BundleInv, CheckpointInv, NoteInv
<1>3. CASE UNCHANGED vars
  BY <1>3 DEF vars, IInv, bundles, BundleInv, CheckpointInv, NoteInv, ReleasedIsCommitted
<1> QED BY <1>1, <1>2, <1>3, ExportKeeps, RecordKeeps, IssuesCheckpointKeeps, AttestKeeps,
            AlterCheckpointKeeps, RefreshKeeps, ReceiveKeeps DEF Next

\* Only an export commits to files, verification receipts are as they were issued,
\* checkpoints have times, and what was released had been committed to.
THEOREM AssessmentInductive == Spec => []IInv
BY InitIInv, IndNext, PTL DEF Spec

\* Files a receiver lets in (assess_snapshot) were exported as they are, for the
\* expected scope, by the trusted key, which vouched for them in this context
\* recently enough, however many others export, sign, alter and replay.
THEOREM ReleasesAreCommitted == Spec => []ReleasedIsCommitted
<1>1. IInv => ReleasedIsCommitted
  BY DEF IInv
<1> QED BY <1>1, AssessmentInductive, PTL

-----------------------------------------------------------------------------
(* What the receiver asks for.  None is JSON null and Junk no bundle: neither is *)
(* a signed statement.                                                           *)

\* NEEDS_EVIDENCE is an answer only where the missing evidence can help.
LEMMA AsksRightly ==
  ASSUME "sig" \notin DOMAIN None, now \in Nat
  PROVE  AsksOnlyWhatHelps
<1> SUFFICES ASSUME NEW b \in bundles, NEW c \in checkpoints \cup {None}
             PROVE  LET fresh == IssueCheckpoint(b, Context, now, MaxAge, Trusted)
                    IN /\ AssessImport(b, c, reference, now).outcome = "NEEDS_EVIDENCE" =>
                            AssessImport(b, fresh, fresh, now).outcome = "ACCEPT"
                       /\ AssessImport(b, None, reference, now).outcome = "REJECT" =>
                            AssessImport(b, c, c, now).outcome # "ACCEPT"
  BY DEF AsksOnlyWhatHelps
<1> DEFINE fresh == IssueCheckpoint(b, Context, now, MaxAge, Trusted)
<1>1. /\ DOMAIN fresh = CheckpointFields
      /\ fresh.bundle = b /\ fresh.context = Context
      /\ fresh.issued = now /\ fresh.max_age = MaxAge /\ fresh.expires = now + MaxAge
      /\ StatementSignedBy(fresh, Trusted)
  BY IssuedCheckpoint
<1> HIDE DEF fresh
<1>2. fresh # None
  BY <1>1 DEF CheckpointFields
<1>3. Vouched(b, fresh, fresh, now)
  BY <1>1 DEF Vouched, NotCurrent
<1>4. ASSUME AssessImport(b, c, reference, now).outcome = "NEEDS_EVIDENCE"
      PROVE  AssessImport(b, fresh, fresh, now).outcome = "ACCEPT"
  BY <1>2, <1>3, <1>4, ImportOutcome
<1>5. ASSUME AssessImport(b, None, reference, now).outcome = "REJECT"
      PROVE  AssessImport(b, c, c, now).outcome # "ACCEPT"
  BY <1>5, ImportOutcome
<1> QED BY <1>4, <1>5 DEF fresh

\* The receiver asks for evidence exactly where evidence can help (assess_import's
\* NEEDS_EVIDENCE): a checkpoint of the trusted key would let the bundle in.
THEOREM AsksHelpfully ==
  ASSUME "sig" \notin DOMAIN None
  PROVE  Spec => []AsksOnlyWhatHelps
<1>1. IInv => AsksOnlyWhatHelps
  BY AsksRightly DEF IInv
<1> QED BY <1>1, AssessmentInductive, PTL

-----------------------------------------------------------------------------
(* Verification receipts *)

\* Lists of revocations that can all be had; one that cannot.
LEMMA ListsUsable ==
  ASSUME NEW A, NEW B
  PROVE  /\ Unusable(<<>>) = None /\ External(<<>>) = {}
         /\ Unusable(<<Listed(A), Listed(B)>>) = None
         /\ External(<<Listed(A), Listed(B)>>) = A \cup B
<1>1. \A S : LoadError(Listed(S)) = None /\ Listed(S).statements = S
  BY DEF LoadError, Listed
<1>2. Unusable(<<>>) = None /\ External(<<>>) = {}
  BY DEF Unusable, External
<1> DEFINE lists == <<Listed(A), Listed(B)>>
<1>3. DOMAIN lists = 1..2 /\ lists[1] = Listed(A) /\ lists[2] = Listed(B)
  OBVIOUS
<1> HIDE DEF lists
<1>4. \A i \in DOMAIN lists : i = 1 \/ i = 2
  BY <1>3
<1>5. {i \in DOMAIN lists : LoadError(lists[i]) # None} = {}
  BY <1>1, <1>3, <1>4
<1>6. Unusable(lists) = None
  BY <1>5 DEF Unusable
<1>7. \A x : x \in External(lists) <=> x \in A \cup B
  BY <1>1, <1>3, <1>4 DEF External
<1> QED BY <1>2, <1>6, <1>7 DEF lists

\* With a list of revocations that does not answer there is no merged list.
LEMMA ListLost ==
  ASSUME NEW A, NEW B, None # "revocations_unreachable"
  PROVE  Unusable(<<Listed(A), [Listed(B) EXCEPT !.answers = FALSE]>>) # None
<1> DEFINE lost == [Listed(B) EXCEPT !.answers = FALSE]
           lists == <<Listed(A), lost>>
<1>1. LoadError(Listed(A)) = None /\ LoadError(lost) = "revocations_unreachable"
  BY DEF LoadError, Listed
<1>2. DOMAIN lists = 1..2 /\ lists[1] = Listed(A) /\ lists[2] = lost
  OBVIOUS
<1> HIDE DEF lost, lists
<1> DEFINE failed == {i \in DOMAIN lists : LoadError(lists[i]) # None}
<1>3. failed = {2}
  <2>1. \A i : i \in DOMAIN lists <=> i = 1 \/ i = 2
    BY <1>2
  <2>2. LoadError(lists[1]) = None /\ LoadError(lists[2]) # None
    BY <1>1, <1>2
  <2> QED BY <2>1, <2>2
<1>4. Least(failed) = 2
  BY <1>3 DEF Least
<1>5. Unusable(lists) = LoadError(lists[2])
  BY <1>3, <1>4 DEF Unusable
<1> QED BY <1>1, <1>2, <1>5 DEF lists, lost

\* What there is to say against a receipt as it was issued.
LEMMA NoteErrorsAre ==
  ASSUME NoteInv, NEW n \in notes, NEW b, NEW statements
  PROVE  NoteErrors(n, b, statements) = {} <=>
           /\ n.bundle = b
           /\ \A s \in statements : StatementVerifies(s) /\ ~NoteRevoked(n, s)
<1>1. n = IssueNote(n.bundle, n.result, n.at, n.issuer) /\ Issuable(n.result)
  BY DEF NoteInv
<1>2. StatementSignedBy(n, n.issuer)
  BY <1>1, IssuedNote
<1> QED BY <1>1, <1>2 DEF NoteErrors, When

\* The property of verification receipts follows from what is known of them and of
\* the bundles.
LEMMA NotesStand ==
  ASSUME "sig" \notin DOMAIN Junk, "receipts" \notin DOMAIN Junk, None # "revocations_unreachable",
         NoteInv, BundleInv
  PROVE  NotesHold
<1> SUFFICES ASSUME NEW n \in notes, NEW b \in bundles
    PROVE /\ NoteMain(n, b, <<>>) = 0 <=> n.bundle = b
          /\ \A better \in {"TRUSTED", "PROVISIONAL"} \ {n.result.verdict} :
               NoteErrors([n EXCEPT !.result = Result({}, {}, IF better = "TRUSTED" THEN {} ELSE {"later"})], b, {}) # {}
          /\ \A key \in Keys, t \in 0..MaxTime :
               NoteMain(n, n.bundle, <<Listed({}), Listed({Revoke(key, t)})>>) = 0 <=>
                 n.issuer # key \/ n.at < t
          /\ NoteMain(n, n.bundle, <<Listed({}), [Listed({}) EXCEPT !.answers = FALSE]>>) # 0
  BY DEF NotesHold
<1>1. /\ DOMAIN n = {"bundle", "result", "at", "issuer", "sig"}
      /\ StatementSignedBy(n, n.issuer) /\ n.at \in Nat /\ n.bundle \in bundles
  <2>1. n = IssueNote(n.bundle, n.result, n.at, n.issuer) /\ n.at \in Nat /\ n.bundle \in bundles
    BY DEF NoteInv
  <2> QED BY <2>1, IssuedNote
<1>2. n # Junk
  BY <1>1
<1>3. \A x \in bundles : x # Junk
  BY DEF BundleInv
<1>4. \A x \in bundles : \A sources : Unusable(sources) = None =>
        (NoteMain(n, x, sources) = 0 <=> NoteErrors(n, x, External(sources)) = {})
  BY <1>2, <1>3 DEF NoteMain
<1>5. NoteMain(n, b, <<>>) = 0 <=> n.bundle = b
  BY <1>4, ListsUsable, NoteErrorsAre
<1>6. ASSUME NEW better \in {"TRUSTED", "PROVISIONAL"} \ {n.result.verdict}
      PROVE  NoteErrors([n EXCEPT !.result = Result({}, {}, IF better = "TRUSTED" THEN {} ELSE {"later"})], b, {}) # {}
  <2> DEFINE result == Result({}, {}, IF better = "TRUSTED" THEN {} ELSE {"later"})
             m == [n EXCEPT !.result = result]
  <2>1. result.verdict = better
    BY DEF Result, Verdict
  <2>2. result # n.result
    BY <2>1
  <2> HIDE DEF result
  <2>3. m.sig = n.sig /\ m.issuer = n.issuer /\ m.result = result /\ DOMAIN m = DOMAIN n
    BY <1>1
  <2> HIDE DEF m
  <2>4. Statement(m)["result"] = result /\ Statement(n)["result"] = n.result
    BY <1>1, <2>3 DEF Statement
  <2>5. n.sig = [by |-> n.issuer, over |-> Statement(n)]
    BY <1>1 DEF StatementSignedBy
  <2>6. ~StatementSignedBy(m, m.issuer)
    BY <2>2, <2>3, <2>4, <2>5 DEF StatementSignedBy
  <2>7. NoteErrors(m, b, {}) # {}
    BY <2>6 DEF NoteErrors, When
  <2> QED BY <2>7 DEF m, result
<1>7. ASSUME NEW key \in Keys, NEW t \in 0..MaxTime
      PROVE  NoteMain(n, n.bundle, <<Listed({}), Listed({Revoke(key, t)})>>) = 0 <=>
               n.issuer # key \/ n.at < t
  <2> DEFINE lists == <<Listed({}), Listed({Revoke(key, t)})>>
  <2>1. Unusable(lists) = None /\ External(lists) = {Revoke(key, t)}
    BY ListsUsable
  <2>2. /\ StatementVerifies(Revoke(key, t))
        /\ Revoke(key, t).key = key /\ Revoke(key, t).at = t
    BY DEF StatementVerifies, Revoke, ValidTime
  <2>3. NoteRevoked(n, Revoke(key, t)) <=> key = n.issuer /\ n.at >= t
    BY <2>2 DEF NoteRevoked
  <2> HIDE DEF lists
  <2>4. NoteMain(n, n.bundle, lists) = 0 <=> NoteErrors(n, n.bundle, {Revoke(key, t)}) = {}
    BY <1>1, <1>4, <2>1
  <2>5. NoteErrors(n, n.bundle, {Revoke(key, t)}) = {} <=> ~NoteRevoked(n, Revoke(key, t))
    BY <2>2, NoteErrorsAre
  <2>6. NoteMain(n, n.bundle, lists) = 0 <=> n.issuer # key \/ n.at < t
    BY <1>1, <2>3, <2>4, <2>5
  <2> QED BY <2>6 DEF lists
<1>8. NoteMain(n, n.bundle, <<Listed({}), [Listed({}) EXCEPT !.answers = FALSE]>>) # 0
  BY <1>2, ListLost DEF NoteMain
<1> QED BY <1>5, <1>6, <1>7, <1>8

\* A verification receipt (verify_verification_receipt) holds for its bundle and
\* no other, with the verdict it was issued for and no other, until a revocation
\* of its issuer's key that is not later, and not while a list cannot be had.
THEOREM ReceiptsHold ==
  ASSUME "sig" \notin DOMAIN Junk, "receipts" \notin DOMAIN Junk, None # "revocations_unreachable"
  PROVE  Spec => []NotesHold
<1>1. IInv => NotesHold
  BY NotesStand DEF IInv
<1> QED BY <1>1, AssessmentInductive, PTL

-----------------------------------------------------------------------------
(* Consumers *)

BundleFields == {"spec", "task", "receipts", "disclosure", "anchors", "revocations", "head", "malformed"}

\* A pass and the end of a task, with the times a caller's freshness looks at.
Paired(b) ==
    LET rs == b.receipts IN
    /\ DOMAIN rs = {1, 2} /\ rs # <<>>
    /\ rs[1].type = "session.pass.created" /\ rs[2].type = "task.termination"
    /\ rs[1].at = 0 /\ rs[2].at \in Nat
    /\ "expires_at" \in DOMAIN rs[1].body /\ rs[1].body.expires_at \in Nat

\* A bundle of which at most a note is withheld, and that no consumer accepts unless
\* it is such a pair.
Plain(b) ==
    /\ DOMAIN b = BundleFields /\ b.malformed = {}
    /\ DOMAIN b.disclosure = {}
    /\ \A i \in DOMAIN b.receipts : DOMAIN b.receipts[i].hidden \subseteq {"note"}
    /\ b.spec # 5 => Paired(b)

\* What there is to decide on is plain, and the verdict is the verifier's.
ConsumerInv == \A b \in bundles : Plain(b) /\ core[b] = Verified(b)

\* Nothing is in an empty sequence.
LEMMA NoElements == DOMAIN <<>> = {}
OBVIOUS

\* What an export is, for a consumer.
LEMMA ExportIsPlain ==
  ASSUME NEW files, NEW scope, NEW key, NEW at
  PROVE  Plain(BuildBundle(files, scope, key, at))
<1> DEFINE p1 == NextReceipt(<<>>, 0, "task", 5, "session.pass.created", key, at,
                             [shape |-> "ok", policy_version |-> "p"])
           p2 == NextReceipt(<<p1>>, 1, "task", 5, "state.commitment", key, at,
                             [shape |-> "ok", scope |-> scope, head_digest |-> BuildManifest(files)])
           p3 == NextReceipt(<<p1, p2>>, 2, "task", 5, "task.termination", key, at, [shape |-> "ok"])
           b == BuildBundle(files, scope, key, at)
<1>1. b = BundleOf(<<p1, p2, p3>>, "task", 5)
  <2>1. Append(<<p1>>, p2) = <<p1, p2>> /\ Append(<<p1, p2>>, p3) = <<p1, p2, p3>>
    BY AppendPairs
  <2>2. b = BundleOf(Append(Append(<<p1>>, p2),
                            NextReceipt(Append(<<p1>>, p2), 2, "task", 5, "task.termination", key, at,
                                        [shape |-> "ok"])), "task", 5)
    BY Zenon DEF BuildBundle
  <2>3. b = BundleOf(Append(<<p1, p2>>, p3), "task", 5)
    BY <2>1, <2>2, Zenon
  <2> QED BY <2>1, <2>3, Zenon
<1>2. p1.hidden = <<>> /\ p2.hidden = <<>> /\ p3.hidden = <<>>
  BY DEF NextReceipt, Sign, NewEnvelope
<1> HIDE DEF p1, p2, p3, b
<1>3. DOMAIN b = BundleFields /\ b.malformed = {} /\ b.disclosure = <<>> /\ b.spec = 5
      /\ b.receipts = <<p1, p2, p3>>
  BY <1>1 DEF BundleOf, BundleFields
<1>4. \A i \in DOMAIN b.receipts : DOMAIN b.receipts[i].hidden = {}
  BY <1>2, <1>3, NoElements
<1>5. DOMAIN b.disclosure = {}
  BY <1>3, NoElements
<1> QED BY <1>3, <1>4, <1>5 DEF Plain, b

\* What the bundle of another task is, for a consumer.
LEMMA OtherIsPlain ==
  ASSUME now \in Nat, NEW key, NEW spec, NEW until \in Nat, NEW withheld \in BOOLEAN
  PROVE  Plain(OtherBundle(key, spec, until, withheld))
<1> DEFINE body == [shape |-> "ok", policy_version |-> "p", expires_at |-> until]
           pass == NextReceipt(<<>>, 0, "task", spec, "session.pass.created", key, 0, body)
           hides == [pass EXCEPT !.hidden = [note |-> [commit |-> <<0, "n">>, erased |-> FALSE]]]
           shown == IF withheld THEN Sign(hides, key) ELSE pass
           last == NextReceipt(<<shown>>, 1, "task", spec, "task.termination", key, now, [shape |-> "ok"])
           b == OtherBundle(key, spec, until, withheld)
<1>1. b = BundleOf(<<shown, last>>, "task", spec)
  BY Zenon DEF OtherBundle
<1>2. /\ pass.type = "session.pass.created" /\ pass.at = 0 /\ pass.body = body /\ pass.hidden = <<>>
      /\ DOMAIN pass = {"id", "task", "spec", "type", "issuer", "at", "seq", "prev", "body", "hidden", "sig"}
  BY DEF NextReceipt, Sign, NewEnvelope
<1>3. last.type = "task.termination" /\ last.at = now /\ last.hidden = <<>>
  BY DEF NextReceipt, Sign, NewEnvelope
<1>4. "expires_at" \in DOMAIN body /\ body.expires_at = until
  OBVIOUS
<1> HIDE DEF pass, body, last
<1>5. /\ hides.type = "session.pass.created" /\ hides.at = 0 /\ hides.body = body
      /\ DOMAIN hides.hidden = {"note"} /\ DOMAIN hides = DOMAIN pass
  BY <1>2
<1> HIDE DEF hides
<1>6. /\ Sign(hides, key).type = hides.type /\ Sign(hides, key).at = hides.at
      /\ Sign(hides, key).body = hides.body /\ Sign(hides, key).hidden = hides.hidden
  BY <1>2, <1>5 DEF Sign
<1>7. /\ shown.type = "session.pass.created" /\ shown.at = 0 /\ shown.body = body
      /\ DOMAIN shown.hidden \subseteq {"note"}
  BY <1>2, <1>5, <1>6, NoElements
<1> HIDE DEF shown, b
<1>8. DOMAIN b = BundleFields /\ b.malformed = {} /\ b.disclosure = <<>> /\ b.receipts = <<shown, last>>
  BY <1>1 DEF BundleOf, BundleFields
<1>9. DOMAIN b.receipts = {1, 2} /\ b.receipts # <<>> /\ b.receipts[1] = shown /\ b.receipts[2] = last
  <2>1. DOMAIN <<shown, last>> = {1, 2}
    OBVIOUS
  <2> QED BY <1>8, <2>1, NoElements
<1>10. DOMAIN b.disclosure = {}
  BY <1>8, NoElements
<1>11. Paired(b)
  BY <1>3, <1>4, <1>7, <1>9 DEF Paired
<1>12. \A i \in DOMAIN b.receipts : DOMAIN b.receipts[i].hidden \subseteq {"note"}
  BY <1>3, <1>7, <1>9, NoElements
<1> QED BY <1>8, <1>10, <1>11, <1>12 DEF Plain, b

\* Every step leaves plain bundles and the verifier's verdicts.
LEMMA StepLeavesPlain ==
  ASSUME IInv, ConsumerInv, [Next]_vars
  PROVE  ConsumerInv'
<1>1. ASSUME NEW key \in Keys, NEW files \in Files, NEW scope \in Scopes, Export(key, files, scope)
      PROVE  ConsumerInv'
  <2>1. PICK b : /\ b = BuildBundle(files, scope, key, 0)
                 /\ core' = [x \in bundles \cup {b} |-> IF x = b THEN Verified(b) ELSE core[x]]
    BY <1>1 DEF Export
  <2>2. Plain(b)
    BY <2>1, ExportIsPlain
  <2> QED BY <2>1, <2>2 DEF ConsumerInv, bundles
<1>2. ASSUME NEW key \in Keys, NEW spec \in {4, 5}, NEW until \in {1, MaxTime}, NEW withheld \in BOOLEAN,
             Record(key, spec, until, withheld)
      PROVE  ConsumerInv'
  <2>1. PICK b : /\ b = OtherBundle(key, spec, until, withheld)
                 /\ core' = [x \in {b} |-> Verified(b)]
    BY <1>2 DEF Record, OtherBundle
  <2>2. now \in Nat
    BY DEF IInv
  <2>3. until \in Nat
    OBVIOUS
  <2>4. Plain(b)
    BY <2>1, <2>2, <2>3, OtherIsPlain
  <2> QED BY <2>1, <2>4 DEF ConsumerInv, bundles
<1>3. ASSUME UNCHANGED core PROVE ConsumerInv'
  BY <1>3 DEF ConsumerInv, bundles
<1>4. CASE UNCHANGED vars
  BY <1>3, <1>4 DEF vars
<1>5. CASE Next
  <2>1. \/ \E key \in Keys, files \in Files, scope \in Scopes : Export(key, files, scope)
        \/ \E key \in Keys, spec \in {4, 5}, until \in {1, MaxTime}, withheld \in BOOLEAN :
             Record(key, spec, until, withheld)
        \/ UNCHANGED core
    BY <1>5 DEF Next, IssuesCheckpoint, Attest, AlterCheckpoint, Refresh, Receive, Forget, Tick
  <2> QED BY <1>1, <1>2, <1>3, <2>1
<1> QED BY <1>4, <1>5

\* All there ever is to decide on is plain.
THEOREM ConsumersInductive == Spec => [](IInv /\ ConsumerInv)
<1>1. Init => IInv /\ ConsumerInv
  BY InitIInv DEF Init, ConsumerInv, bundles
<1>2. IInv /\ ConsumerInv /\ [Next]_vars => (IInv /\ ConsumerInv)'
  BY IndNext, StepLeavesPlain
<1> QED BY <1>1, <1>2, PTL DEF Spec

\* What verifying finds against a bundle that is not turned away at once.
ErrorsOf(b) ==
    ShapeErrors(b) \cup (UNION {EnvelopeErrors(b, i) : i \in DOMAIN b.receipts})
      \cup CrossRecordErrors(b.receipts) \cup AgreementErrors(b.receipts)
      \cup AuthorityErrors(b.receipts) \cup RedactionErrors(b)
      \cup AttestationErrors(b.receipts) \cup ProvenanceErrors(b.receipts)
      \cup RevocationErrors(b, {}) \cup AnchorErrors(b) \cup HeadErrors(b)

\* Only an error makes a result untrusted.
LEMMA UntrustedByErrors ==
  ASSUME NEW errors, NEW insufficient, NEW provisional
  PROVE  Result(errors, insufficient, provisional).verdict = "UNTRUSTED" <=> errors # {}
BY DEF Result, Verdict

\* When a bundle that is well formed is untrusted.
LEMMA UntrustedIs ==
  ASSUME NEW b, b.malformed = {}
  PROVE  Verified(b).verdict = "UNTRUSTED" <=>
           b.spec \notin Specs \/ b.receipts = <<>> \/ ErrorsOf(b) # {}
<1>1. CASE b.spec \notin Specs
  BY <1>1, UntrustedByErrors, Zenon DEF Verified, VerifyBundle
<1>2. CASE b.spec \in Specs /\ b.receipts = <<>>
  <2>1. Verified(b) = Result({"malformed"}, {}, {})
    BY <1>2, Zenon DEF Verified, VerifyBundle
  <2> QED BY <1>2, <2>1, UntrustedByErrors
<1>3. CASE b.spec \in Specs /\ b.receipts # <<>>
  <2>1. PICK i, p : Verified(b) = Result(ErrorsOf(b), i, p)
    BY <1>3, Zenon DEF Verified, VerifyBundle, ErrorsOf
  <2>2. Result(ErrorsOf(b), i, p).verdict = "UNTRUSTED" <=> ErrorsOf(b) # {}
    BY UntrustedByErrors, Zenon
  <2>3. Verified(b).verdict = Result(ErrorsOf(b), i, p).verdict
    BY <2>1, Zenon
  <2> QED BY <1>3, <2>2, <2>3, Zenon
<1> QED BY <1>1, <1>2, <1>3

\* A bundle and the same one disclosed are wrong in the same ways.
LEMMA DisclosureKeepsErrors ==
  ASSUME NEW b, Plain(b)
  PROVE  /\ Disclosure(b).malformed = b.malformed /\ Disclosure(b).spec = b.spec
         /\ Disclosure(b).receipts = b.receipts
         /\ ErrorsOf(Disclosure(b)) = ErrorsOf(b)
<1> DEFINE d == Disclosure(b)
<1>1. /\ d.malformed = b.malformed /\ d.spec = b.spec /\ d.receipts = b.receipts
      /\ d.task = b.task /\ d.anchors = b.anchors /\ d.revocations = b.revocations
      /\ d.head = b.head
      /\ d.disclosure = [p \in Places(b.receipts) |-> Redaction(b.receipts, p).commit]
  BY DEF Disclosure, Plain, BundleFields
<1> HIDE DEF d
<1>2. \A p \in Places(b.receipts) : ~RedactedRequired(b.receipts, p)
  <2> SUFFICES ASSUME NEW i \in DOMAIN b.receipts, NEW f \in DOMAIN b.receipts[i].hidden
               PROVE  ~RedactedRequired(b.receipts, <<i, f>>)
    BY DEF Places
  <2>1. f = "note"
    BY DEF Plain
  <2>2. \A type : "note" \notin Unredactable(type)
    BY DEF Unredactable, Required
  <2> QED BY <2>1, <2>2, Zenon DEF RedactedRequired
<1>3. RedactionErrors(b) = {}
  <2>1. Disclosed(b) = {}
    BY DEF Disclosed, Plain
  <2> QED BY <1>2, <2>1, Zenon DEF RedactionErrors, When
<1>4. RedactionErrors(d) = {}
  <2>1. Places(d.receipts) = Places(b.receipts)
    BY <1>1, Zenon
  <2>2. \A p \in Places(b.receipts) : CommitMatches(d.disclosure[p], Redaction(d.receipts, p))
    BY <1>1, Zenon DEF CommitMatches, Redaction
  <2>3. \A p \in Places(b.receipts) : ~RedactedRequired(d.receipts, p)
    BY <1>1, <1>2, Zenon
  <2> QED BY <2>1, <2>2, <2>3, Zenon DEF RedactionErrors, When
<1>5. ShapeErrors(d) = ShapeErrors(b)
  BY <1>1, Zenon DEF ShapeErrors
<1>6. \A i : EnvelopeErrors(d, i) = EnvelopeErrors(b, i)
  BY <1>1, Zenon DEF EnvelopeErrors
<1>7. RevocationErrors(d, {}) = RevocationErrors(b, {})
  BY <1>1, Zenon DEF RevocationErrors, MergeStatements
<1>8. AnchorErrors(d) = AnchorErrors(b)
  BY <1>1, Zenon DEF AnchorErrors
<1>9. HeadErrors(d) = HeadErrors(b)
  BY <1>1, Zenon DEF HeadErrors
<1>10. UNION {EnvelopeErrors(d, i) : i \in DOMAIN d.receipts}
         = UNION {EnvelopeErrors(b, i) : i \in DOMAIN b.receipts}
  BY <1>1, <1>6
<1>11. ErrorsOf(d) = ErrorsOf(b)
  BY <1>1, <1>3, <1>4, <1>5, <1>7, <1>8, <1>9, <1>10, Zenon DEF ErrorsOf
<1> QED BY <1>1, <1>11, Zenon DEF d

\* So disclosing neither rescues a bundle nor ruins it.
LEMMA DisclosureKeepsTrust ==
  ASSUME NEW b, Plain(b)
  PROVE  Verified(b).verdict = "UNTRUSTED" <=> Verified(Disclosure(b)).verdict = "UNTRUSTED"
<1>1. b.malformed = {} /\ Disclosure(b).malformed = {}
  BY DisclosureKeepsErrors DEF Plain
<1> QED BY <1>1, DisclosureKeepsErrors, UntrustedIs, Zenon

\* The greatest of a set of times that has one.
LEMMA GreatestIs ==
  ASSUME NEW S \in SUBSET Int, NEW m \in S, \A x \in S : x <= m
  PROVE  Greatest(S) = m
<1>1. m \in S /\ \A y \in S : m >= y
  OBVIOUS
<1>2. Greatest(S) \in S /\ \A y \in S : Greatest(S) >= y
  BY <1>1, Zenon DEF Greatest
<1>3. PICK g : g = Greatest(S)
  OBVIOUS
<1>4. g \in Int /\ m \in Int /\ m >= g /\ g >= m
  <2>1. g \in S /\ m >= g /\ g >= m
    BY <1>1, <1>2, <1>3, Zenon
  <2> QED BY <2>1
<1>5. g = m
  BY <1>4
<1> QED BY <1>3, <1>5, Zenon

\* When a pair of receipts is fresh: from the end on, while the pass lasts and is
\* not too old.
LEMMA PairFresh ==
  ASSUME NEW b, Paired(b), NEW t \in Nat
  PROVE  CallerFresh(b, t, MaxAge) <=>
           /\ b.receipts[2].at <= t /\ t <= MaxAge
           /\ t < b.receipts[1].body.expires_at
<1> DEFINE r1 == b.receipts[1]
           r2 == b.receipts[2]
           Looks(r) == /\ ValidTime(r.at) /\ t - r.at \in 0..MaxAge
                       /\ \A e \in Expiry(r) : ValidTime(e) /\ e > t
<1>1. CallerFresh(b, t, MaxAge) <=> Looks(r1) /\ Looks(r2)
  <2>1. CallerFresh(b, t, MaxAge) <=> \A i \in {1, 2} : Looks(b.receipts[i])
    BY Zenon DEF CallerFresh, Paired
  <2> HIDE DEF Looks
  <2> QED BY <2>1
<1>2. Expiry(r1) = {r1.body.expires_at}
  BY DEF Expiry, GetTime, Paired
<1>3. Expiry(r2) = {}
  BY DEF Expiry, Paired
<1>4. r1.at = 0 /\ r2.at \in Nat /\ r1.body.expires_at \in Nat
  BY DEF Paired
<1>5. Looks(r1) <=> t <= MaxAge /\ t < r1.body.expires_at
  BY <1>2, <1>4 DEF ValidTime
<1>6. Looks(r2) <=> r2.at <= t /\ t - r2.at <= MaxAge
  BY <1>3, <1>4 DEF ValidTime
<1> HIDE DEF Looks
<1> QED BY <1>1, <1>4, <1>5, <1>6

\* When the pilot may act, once it accepts.
FreshTimes(b) == {t \in 0..(MaxTime + 1) : CallerFresh(b, t, MaxAge)}

\* Acting on such a pair is an interval that starts with its end.
LEMMA PairActs ==
  ASSUME NEW b, Paired(b), FreshTimes(b) # {}
  PROVE  /\ FreshTimes(b) = Greatest({b.receipts[i].at : i \in DOMAIN b.receipts})..Greatest(FreshTimes(b))
         /\ \A t \in FreshTimes(b) : /\ t < Get(b.receipts[1], "expires_at") /\ t <= b.receipts[1].at + MaxAge
<1> DEFINE acts == FreshTimes(b)
           end == b.receipts[2].at
           until == b.receipts[1].body.expires_at
           Lower(x, y) == IF x < y THEN x ELSE y
           m == Lower(MaxTime + 1, Lower(MaxAge, until - 1))
<1>1. end \in Nat /\ until \in Nat /\ b.receipts[1].at = 0 /\ DOMAIN b.receipts = {1, 2}
  BY DEF Paired
<1>2. {b.receipts[i].at : i \in DOMAIN b.receipts} = {0, end}
  BY <1>1
<1>3. Greatest({0, end}) = end
  <2>1. {0, end} \in SUBSET Int /\ end \in {0, end} /\ \A x \in {0, end} : x <= end
    BY <1>1
  <2> QED BY <2>1, GreatestIs, Zenon
<1>4. acts # {}
  OBVIOUS
<1>5. acts = {t \in 0..(MaxTime + 1) : end <= t /\ t <= MaxAge /\ t < until}
  BY PairFresh DEF FreshTimes
<1>6. m \in Int /\ \A t \in Int : t <= m <=> t <= MaxTime + 1 /\ t <= MaxAge /\ t < until
  BY <1>1
<1> HIDE DEF m, end, until, acts
<1>7. acts = end..m
  <2>1. ASSUME NEW t \in acts PROVE t \in end..m
    BY <1>1, <1>5, <1>6, <2>1
  <2>2. ASSUME NEW t \in end..m PROVE t \in acts
    BY <1>1, <1>5, <1>6, <2>2
  <2> QED BY <2>1, <2>2
<1>8. Greatest(acts) = m
  <2>1. acts \in SUBSET Int /\ m \in acts /\ \A x \in acts : x <= m
    BY <1>1, <1>4, <1>6, <1>7
  <2> QED BY <2>1, GreatestIs, Zenon
<1>9. Get(b.receipts[1], "expires_at") = until
  BY DEF Get, Paired, until
<1>10. acts = Greatest({b.receipts[i].at : i \in DOMAIN b.receipts})..Greatest(acts)
  BY <1>2, <1>3, <1>7, <1>8, Zenon
<1>11. \A t \in acts : t < until /\ t <= 0 + MaxAge
  BY <1>5
<1> QED BY <1>1, <1>9, <1>10, <1>11, Zenon DEF acts

\* What an acceptance needs.
LEMMA AcceptedIs ==
  ASSUME NEW b, NEW verdict, NEW policy, AssessBundle(b, verdict, policy) = "ACCEPT"
  PROVE  /\ policy # None /\ ValidPolicy(policy) /\ verdict = "TRUSTED"
         /\ Denials(b, policy) = {} /\ Gaps(b, policy) = {}
<1>1. policy # None
  BY DEF AssessBundle
<1>2. ValidPolicy(policy)
  BY <1>1 DEF AssessBundle
<1>3. ConsumerOutcome(verdict, Denials(b, policy), Gaps(b, policy)) = "ACCEPT"
  BY <1>1, <1>2, Zenon DEF AssessBundle
<1> DEFINE denials == Denials(b, policy)
           gaps == Gaps(b, policy)
<1> HIDE DEF denials, gaps
<1>4. ConsumerOutcome(verdict, denials, gaps) = "ACCEPT"
  BY <1>3, Zenon DEF denials, gaps
<1>5. verdict = "TRUSTED" /\ denials = {} /\ gaps = {}
  BY <1>4 DEF ConsumerOutcome
<1> QED BY <1>1, <1>2, <1>5, Zenon DEF denials, gaps

\* What that says of the receipts.
LEMMA AcceptedMeans ==
  ASSUME NEW b, NEW verdict, NEW policy, AssessBundle(b, verdict, policy) = "ACCEPT"
  PROVE  /\ b.spec \in 1..4
         /\ \A i \in DOMAIN b.receipts : /\ b.receipts[i].issuer \in policy.issuers
                                         /\ b.receipts[i].spec \in policy.specs
         /\ \A type \in policy.required : \E i \in DOMAIN b.receipts : b.receipts[i].type = type
<1>1. ValidPolicy(policy) /\ Denials(b, policy) = {} /\ Gaps(b, policy) = {}
  BY AcceptedIs
<1>2. b.spec \in policy.specs /\ \A i \in DOMAIN b.receipts : b.receipts[i].spec \in policy.specs
  BY <1>1 DEF Denials, When
<1>3. policy.issuers # {} /\ policy.required \subseteq TypesIn(b)
  BY <1>1 DEF Gaps, When
<1>4. Signers(b) \subseteq policy.issuers
  BY <1>1, <1>3 DEF Denials, When
<1> QED BY <1>1, <1>2, <1>3, <1>4 DEF ValidPolicy, Signers, TypesIn

\* When a bundle is rejected depends on no more than whether it is untrusted.
LEMMA RejectedIs ==
  ASSUME NEW b, NEW verdict, NEW policy
  PROVE  AssessBundle(b, verdict, policy) = "REJECT" <=>
           \/ policy = None /\ verdict = "UNTRUSTED"
           \/ policy # None /\ ~ValidPolicy(policy)
           \/ policy # None /\ (verdict = "UNTRUSTED" \/ Denials(b, policy) # {})
<1>1. CASE policy = None
  BY <1>1 DEF AssessBundle
<1>2. CASE policy # None /\ ~ValidPolicy(policy)
  BY <1>2 DEF AssessBundle
<1>3. CASE policy # None /\ ValidPolicy(policy)
  <2> DEFINE denials == Denials(b, policy)
             gaps == Gaps(b, policy)
  <2>1. AssessBundle(b, verdict, policy) = ConsumerOutcome(verdict, denials, gaps)
    BY <1>3, Zenon DEF AssessBundle
  <2> HIDE DEF denials, gaps
  <2>2. ConsumerOutcome(verdict, denials, gaps) = "REJECT" <=> verdict = "UNTRUSTED" \/ denials # {}
    BY DEF ConsumerOutcome
  <2>3. denials = Denials(b, policy)
    BY DEF denials
  <2> QED BY <1>3, <2>1, <2>2, <2>3, Zenon
<1> QED BY <1>1, <1>2, <1>3

\* So a rejected bundle is rejected when disclosed too, and the other way round.
LEMMA DisclosureKeepsRejection ==
  ASSUME NEW b, Plain(b), NEW policy
  PROVE  AssessBundle(b, Verified(b).verdict, policy) = "REJECT" <=>
           AssessBundle(Disclosure(b), Verified(Disclosure(b)).verdict, policy) = "REJECT"
<1>1. Denials(Disclosure(b), policy) = Denials(b, policy)
  <2>1. Signers(Disclosure(b)) = Signers(b) /\ (Reported(Disclosure(b)) <=> Reported(b))
    BY DisclosureKeepsErrors, Zenon DEF Signers, Reported
  <2>2. /\ Disclosure(b).spec = b.spec /\ Disclosure(b).receipts = b.receipts
    BY DisclosureKeepsErrors
  <2> QED BY <2>1, <2>2, Zenon DEF Denials, When
<1> DEFINE Rejects(untrusted) ==
             \/ policy = None /\ untrusted
             \/ policy # None /\ ~ValidPolicy(policy)
             \/ policy # None /\ (untrusted \/ Denials(b, policy) # {})
<1>2. AssessBundle(b, Verified(b).verdict, policy) = "REJECT" <=> Rejects(Verified(b).verdict = "UNTRUSTED")
  BY RejectedIs, Zenon
<1>3. AssessBundle(Disclosure(b), Verified(Disclosure(b)).verdict, policy) = "REJECT" <=>
        Rejects(Verified(Disclosure(b)).verdict = "UNTRUSTED")
  <2> DEFINE d == Disclosure(b)
             v == Verified(d).verdict
  <2>1. AssessBundle(d, v, policy) = "REJECT" <=>
           \/ policy = None /\ v = "UNTRUSTED"
           \/ policy # None /\ ~ValidPolicy(policy)
           \/ policy # None /\ (v = "UNTRUSTED" \/ Denials(d, policy) # {})
    BY RejectedIs, Zenon
  <2> HIDE DEF v, d
  <2>2. Denials(d, policy) = Denials(b, policy)
    BY <1>1, Zenon DEF d
  <2>3. AssessBundle(d, v, policy) = "REJECT" <=> Rejects(v = "UNTRUSTED")
    BY <2>1, <2>2, Zenon
  <2> QED BY <2>3, Zenon DEF v, d
<1>4. Verified(b).verdict = "UNTRUSTED" <=> Verified(Disclosure(b)).verdict = "UNTRUSTED"
  BY DisclosureKeepsTrust
<1> QED BY <1>2, <1>3, <1>4, Zenon

\* A consumer decides as it should on every plain bundle.
LEMMA Decides ==
  ASSUME ConsumerInv, Junk \notin Policies \cup {None}, "receipts" \notin DOMAIN Junk
  PROVE  ConsumerDecides
<1> DEFINE Right(b, policy, disclosed, outcome, acts, last) ==
      /\ acts # {} =>
           /\ outcome = "ACCEPT" /\ acts = last..Greatest(acts)
           /\ \A t \in acts : t < Get(b.receipts[1], "expires_at") /\ t <= b.receipts[1].at + MaxAge
      /\ outcome = "REJECT" <=> AssessBundle(Disclosure(b), disclosed, policy) = "REJECT"
      /\ outcome = "ACCEPT" =>
           /\ policy # None
           /\ core[b].verdict = "TRUSTED"
           /\ \A i \in DOMAIN b.receipts : /\ b.receipts[i].issuer \in policy.issuers
                                           /\ b.receipts[i].spec \in policy.specs
           /\ \A type \in policy.required : \E i \in DOMAIN b.receipts : b.receipts[i].type = type
<1>1. SUFFICES ASSUME NEW b \in bundles, NEW policy \in Policies \cup {None}
               PROVE  Right(b, policy, Verified(Disclosure(b)).verdict,
                            ConsumerMain(b, core[b].verdict, policy),
                            {t \in 0..(MaxTime + 1) : Recordable(b, core[b].verdict, policy, t, MaxAge)},
                            Greatest({b.receipts[i].at : i \in DOMAIN b.receipts}))
  BY Zenon DEF ConsumerDecides
<1> DEFINE disclosed == Verified(Disclosure(b)).verdict
           outcome == ConsumerMain(b, core[b].verdict, policy)
           acts == {t \in 0..(MaxTime + 1) : Recordable(b, core[b].verdict, policy, t, MaxAge)}
           last == Greatest({b.receipts[i].at : i \in DOMAIN b.receipts})
<1>2. Plain(b) /\ core[b] = Verified(b)
  BY DEF ConsumerInv
<1>3. ParseRaw(b) /\ ParseRaw(policy)
  BY <1>2 DEF ParseRaw, Plain, BundleFields
<1>4. outcome = AssessBundle(b, core[b].verdict, policy)
  BY <1>3, Zenon DEF ConsumerMain
<1>5. ASSUME acts # {}
      PROVE  /\ outcome = "ACCEPT" /\ acts = last..Greatest(acts)
             /\ \A t \in acts : t < Get(b.receipts[1], "expires_at") /\ t <= b.receipts[1].at + MaxAge
  <2> DEFINE fit == ParseRaw(b) /\ ParseRaw(policy)
                    /\ AssessBundle(b, core[b].verdict, policy) = "ACCEPT"
  <2>1. acts = {t \in 0..(MaxTime + 1) : fit /\ CallerFresh(b, t, MaxAge)}
    BY Zenon DEF Recordable
  <2>2. fit
    BY <1>5, <2>1, Zenon
  <2>3. Paired(b)
    <3>1. b.spec \in 1..4
      BY <2>2, AcceptedMeans
    <3> QED BY <1>2, <3>1 DEF Plain
  <2>4. acts = FreshTimes(b)
    BY <2>1, <2>2 DEF FreshTimes
  <2>5. outcome = "ACCEPT"
    BY <1>4, <2>2
  <2> HIDE DEF fit, acts, outcome
  <2>6. /\ acts = Greatest({b.receipts[i].at : i \in DOMAIN b.receipts})..Greatest(acts)
        /\ \A t \in acts : /\ t < Get(b.receipts[1], "expires_at")
                            /\ t <= b.receipts[1].at + MaxAge
    BY <1>5, <2>3, <2>4, PairActs, Zenon
  <2> QED BY <2>5, <2>6
<1>6. outcome = "REJECT" <=> AssessBundle(Disclosure(b), disclosed, policy) = "REJECT"
  BY <1>2, <1>4, DisclosureKeepsRejection, Zenon
<1>7. ASSUME outcome = "ACCEPT"
      PROVE  /\ policy # None
             /\ core[b].verdict = "TRUSTED"
             /\ \A i \in DOMAIN b.receipts : /\ b.receipts[i].issuer \in policy.issuers
                                             /\ b.receipts[i].spec \in policy.specs
             /\ \A type \in policy.required : \E i \in DOMAIN b.receipts : b.receipts[i].type = type
  <2>1. AssessBundle(b, core[b].verdict, policy) = "ACCEPT"
    BY <1>4, <1>7
  <2> QED BY <2>1, AcceptedIs, AcceptedMeans, Zenon
<1> QED BY <1>5, <1>6, <1>7, Zenon DEF Right, disclosed, outcome, acts, last

\* A consumer's denial is final, its acceptance is of a trusted bundle signed by
\* issuers of its policy, and the pilot acts on no more and no longer.
THEOREM ConsumersDecide ==
  Junk \notin Policies \cup {None} /\ "receipts" \notin DOMAIN Junk => (Spec => []ConsumerDecides)
<1> SUFFICES ASSUME Junk \notin Policies \cup {None}, "receipts" \notin DOMAIN Junk
             PROVE  Spec => []ConsumerDecides
  OBVIOUS
<1>1. IInv /\ ConsumerInv => ConsumerDecides
  BY Decides
<1> QED BY <1>1, ConsumersInductive, PTL
=============================================================================
