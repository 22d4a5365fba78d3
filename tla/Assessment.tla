------------------------------- MODULE Assessment -------------------------------
(***************************************************************************)
(* Who decides on a bundle after the verifier, and by what:                *)
(* receiver_checkpoint.py and memory_snapshot.py (a receiver that releases *)
(* files only under a checkpoint it retained), consumer.py (a consumer's   *)
(* own policy) and verification.py (signed statements of a verdict).       *)
(*                                                                         *)
(* Bytes are what they say, so a bundle is its own digest; a manifest is   *)
(* the files it lists.  Anybody exports files, signs checkpoints and       *)
(* alters what others signed; the receiver's reference is advanced to any  *)
(* of the checkpoints there are.                                           *)
(***************************************************************************)
EXTENDS Verifier

CONSTANTS
    Keys, Trusted,          \* who signs; the key the receiver trusts
    Files, Oversized,       \* file sets; those over a limit or with a bad path
    Scopes, Scope, Contexts, Context,   \* and what the receiver expects
    Junk,                   \* no strict JSON object, or too large
    MaxAge,                 \* the receiver's freshness policy
    Policies,               \* of consumers
    MaxTime, MaxBundles, MaxCheckpoints, MaxNotes       \* bounds

ASSUME AssessmentAssumption ==
    /\ Trusted \in Keys /\ Scope \in Scopes /\ Context \in Contexts
    /\ Oversized \subseteq Files
    /\ MaxAge \in Nat \ {0} /\ MaxTime \in Nat

VARIABLES
    now,
    exports,        \* what was exported: key, files, scope
    core,           \* what verify_bundle says of each bundle there is
    checkpoints,    \* checkpoints there are, altered ones too
    reference,      \* the checkpoint the receiver retains, by its digest
    notes,          \* verification receipts as issued
    told            \* the receiver's last assessment, and of what

vars == <<now, exports, core, checkpoints, reference, notes, told>>

bundles == DOMAIN core
Verified(b) == VerifyBundle(b, {}, FALSE)

Silent == [outcome |-> "none", reason |-> "none", files |-> None]

Init ==
    /\ now = 0
    /\ exports = {} /\ core = <<>> /\ checkpoints = {} /\ notes = {}
    /\ reference = None
    /\ told = Silent

-----------------------------------------------------------------------------
(* Snapshots and checkpoints *)

Capturable(files) == files \notin Oversized
BuildManifest(files) == files
ParsesManifest(manifest) == manifest # Junk

\* build_bundle: pass, commitment and termination by one key.
BuildBundle(files, scope, key, at) ==
    LET pass == <<NextReceipt(<<>>, 0, "task", 5, "session.pass.created", key, at,
                              [shape |-> "ok", policy_version |-> "p"])>>
        commitment == Append(pass, NextReceipt(pass, 1, "task", 5, "state.commitment", key, at,
                              [shape |-> "ok", scope |-> scope, head_digest |-> BuildManifest(files)]))
    IN BundleOf(Append(commitment, NextReceipt(commitment, 2, "task", 5, "task.termination", key, at,
                                               [shape |-> "ok"])), "task", 5)

Statement(c) == [x \in DOMAIN c \ {"sig"} |-> c[x]]
SignStatement(s, key) ==
    [x \in DOMAIN s \cup {"sig"} |-> IF x = "sig" THEN [by |-> key, over |-> s] ELSE s[x]]
StatementSignedBy(c, key) == c.sig = [by |-> key, over |-> Statement(c)]

\* issue_checkpoint.
IssueCheckpoint(b, context, at, age, key) ==
    SignStatement([bundle |-> b, context |-> context, issued |-> at, max_age |-> age,
                   expires |-> at + age], key)

Answer(outcome, reason) == [outcome |-> outcome, reason |-> reason]

\* Fault: a checkpoint is not yet good in the second it is issued.
NotCurrentBefore(c, t) == c.issued >= t \/ t > c.expires

NotCurrent(c, t) == c.issued > t \/ t > c.expires

\* assess_import, in the order of its checks.
AssessImport(b, c, ref, t) ==
    CASE b = Junk -> Answer("REJECT", "bundle_invalid_json")
      [] b # Junk /\ core[b].verdict # "TRUSTED" -> Answer("REJECT", "core_not_trusted")
      [] OTHER ->
    CASE b.spec # 5 -> Answer("REJECT", "receiver_version_unsupported")
      [] b.spec = 5 /\ c = None -> Answer("NEEDS_EVIDENCE", "checkpoint_missing")
      [] b.spec = 5 /\ c # None /\ ref = None -> Answer("NEEDS_EVIDENCE", "accepted_reference_missing")
      [] OTHER ->
    LET failures == <<
          <<~StatementSignedBy(c, Trusted), "checkpoint_bad_signature">>,
          <<c # ref, "checkpoint_reference_mismatch">>,
          <<c.context # Context, "checkpoint_context_mismatch">>,
          <<c.bundle # b, "checkpoint_bundle_mismatch">>,
          <<c.max_age # MaxAge \/ c.expires - c.issued # MaxAge, "freshness_policy_mismatch">>,
          <<NotCurrent(c, t), "checkpoint_not_current">> >>
        met == {i \in DOMAIN failures : failures[i][1]}
    IN IF met = {} THEN Answer("ACCEPT", "checkpoint_current")
       ELSE Answer("REJECT", failures[Least(met)][2])

\* Fault: whoever signed the bundle will do, if the checkpoint is trusted.
SignerAny(r) == TRUE

SignerAgrees(r) == r.issuer = Trusted /\ r.sig.by = Trusted

\* assess_snapshot.
AssessSnapshot(b, c, manifest, files, ref, t) ==
    LET imported == AssessImport(b, c, ref, t)
        commitments == OfType(b.receipts, "state.commitment")
        r == CHOOSE x \in commitments : TRUE
    IN CASE imported.outcome # "ACCEPT" -> imported
         [] imported.outcome = "ACCEPT" /\ ~(Capturable(files) /\ ParsesManifest(manifest)) ->
              Answer("REJECT", "snapshot_invalid")
         [] OTHER ->
       CASE BuildManifest(files) # manifest -> Answer("REJECT", "snapshot_bytes_mismatch")
         [] Cardinality(commitments) # 1 -> Answer("REJECT", "snapshot_commitment_count_invalid")
         [] OTHER ->
       CASE Get(r, "scope") # Scope \/ Get(r, "head_digest") # manifest ->
              Answer("REJECT", "snapshot_commitment_mismatch")
         [] OTHER -> IF SignerAgrees(r) THEN imported ELSE Answer("REJECT", "snapshot_signer_mismatch")

-----------------------------------------------------------------------------
(* Consumers *)

\* verify_bundle reports no issuers and no types if it returns early.
Reported(b) == b.spec \in Specs /\ b.receipts # <<>>

\* _validate_policy: versions and types of this profile, and some version.
ValidPolicy(policy) ==
    /\ policy.specs # {} /\ policy.specs \subseteq 1..4
    /\ policy.required \subseteq RecordTypes \ {"state.commitment", "authority.grant"}

Denials(b, policy) ==
    When(b.spec \notin policy.specs \/ \E i \in DOMAIN b.receipts : b.receipts[i].spec \notin policy.specs,
         "spec_not_accepted")
    \cup When(policy.issuers # {} /\ (~Reported(b) \/ ~(Signers(b) \subseteq policy.issuers)),
              "issuer_not_trusted")

Gaps(b, policy) ==
    When(policy.issuers = {}, "trusted_issuer_policy_empty")
    \cup When(~(policy.required \subseteq TypesIn(b)), "required_record_missing")

\* Fault: what evidence is missing is asked for before the policy is applied.
ConsumerOutcomeLate(verdict, denials, gaps) ==
    CASE verdict = "UNTRUSTED" -> "REJECT"
      [] verdict \in {"PROVISIONAL", "INSUFFICIENT_EVIDENCE"} -> "NEEDS_EVIDENCE"
      [] OTHER -> IF denials # {} THEN "REJECT" ELSE IF gaps # {} THEN "NEEDS_EVIDENCE" ELSE "ACCEPT"

ConsumerOutcome(verdict, denials, gaps) ==
    CASE verdict = "UNTRUSTED" \/ denials # {} -> "REJECT"
      [] verdict = "TRUSTED" /\ denials = {} /\ gaps = {} -> "ACCEPT"
      [] OTHER -> "NEEDS_EVIDENCE"

\* assess_bundle; without a policy nothing is accepted, a malformed one rejects.
AssessBundle(b, verdict, policy) ==
    IF policy = None THEN IF verdict = "UNTRUSTED" THEN "REJECT" ELSE "NEEDS_EVIDENCE"
    ELSE IF ~ValidPolicy(policy) THEN "REJECT"
    ELSE ConsumerOutcome(verdict, Denials(b, policy), Gaps(b, policy))

\* _parse_raw: a JSON object, in UTF-8, not too large.
ParseRaw(raw) == raw # Junk

\* The consumer's command: what cannot be parsed, bundle or policy, is rejected.
ConsumerMain(b, verdict, policy) ==
    IF ~ParseRaw(b) \/ ~ParseRaw(policy) THEN "REJECT" ELSE AssessBundle(b, verdict, policy)

\* check_caller_freshness, at a time and an age the caller supplies.
Expiry(r) ==
    CASE r.type = "session.pass.created" -> {GetTime(r, "expires_at")}
      [] r.type = "agreement.offer"      -> {GetTime(r, "valid_until")}
      [] OTHER -> {}

CallerFresh(b, t, age) ==
    /\ b.receipts # <<>>
    /\ \A i \in DOMAIN b.receipts :
         LET r == b.receipts[i] IN
         /\ ValidTime(r.at) /\ t - r.at \in 0..age
         /\ \A e \in Expiry(r) : ValidTime(e) /\ e > t

\* record_assessment of the pilot writes its one file only then.
Recordable(b, verdict, policy, t, age) ==
    /\ ParseRaw(b) /\ ParseRaw(policy)
    /\ CallerFresh(b, t, age)
    /\ AssessBundle(b, verdict, policy) = "ACCEPT"

-----------------------------------------------------------------------------
(* Verification receipts *)

\* issue_verification_receipt raises for a verdict that is not the result's.
Issuable(result) ==
    result.verdict = Verdict(result.errors, result.insufficient, result.provisional)

IssueNote(b, result, at, key) ==
    SignStatement([bundle |-> b, result |-> result, at |-> at, issuer |-> key], key)

\* Fault: a receipt issued in the second of the revocation still counts.
NoteRevokedAfter(n, s) == s.key = n.issuer /\ n.at > s.at

NoteRevoked(n, s) == s.key = n.issuer /\ n.at >= s.at

\* verify_verification_receipt: all that is wrong.
NoteErrors(n, b, statements) ==
    When(~Issuable(n.result), "verdict_mismatch")
    \cup When(~StatementSignedBy(n, n.issuer), "bad_signature")
    \cup When(n.bundle # b, "bundle_digest_mismatch")
    \cup When(\E s \in statements : ~StatementVerifies(s), "bad_revocation")
    \cup When(\E s \in statements : StatementVerifies(s) /\ NoteRevoked(n, s), "key_revoked")

\* main of verification.py, of a receipt and a bundle that parse, or Junk.
NoteMain(n, b, sources) ==
    CASE n = Junk -> 2
      [] n # Junk /\ Unusable(sources) # None -> 1
      [] OTHER -> IF b = Junk THEN 2
                  ELSE IF NoteErrors(n, b, External(sources)) = {} THEN 0 ELSE 1

-----------------------------------------------------------------------------
\* An answer is forgotten before anything else happens.
Quiet == told = Silent /\ UNCHANGED told

\* Bounds: exports are issued at 0; of the ways in which an export or a
\* checkpoint is not what the receiver expects there is one at a time; a history
\* is about exports, or about one other bundle.
Export(key, files, scope) ==
    /\ bundles = {} \/ exports # {}
    /\ Cardinality(bundles) < MaxBundles
    /\ key = Trusted \/ scope = Scope
    /\ Capturable(files)
    /\ LET b == BuildBundle(files, scope, key, 0)
       IN core' = [x \in bundles \cup {b} |-> IF x = b THEN Verified(b) ELSE core[x]]
    /\ exports' = exports \cup {[key |-> key, files |-> files, scope |-> scope]}
    /\ Quiet
    /\ UNCHANGED <<now, checkpoints, reference, notes>>

\* Some other bundle: of an older version, with a pass that ends, or with a field
\* that is withheld.
Record(key, spec, until, withheld) ==
    LET pass == NextReceipt(<<>>, 0, "task", spec, "session.pass.created", key, 0,
                            [shape |-> "ok", policy_version |-> "p", expires_at |-> until])
        shown == IF withheld
                 THEN Sign([pass EXCEPT !.hidden = [note |-> [commit |-> <<0, "n">>, erased |-> FALSE]]], key)
                 ELSE pass
        b == BundleOf(<<shown, NextReceipt(<<shown>>, 1, "task", spec, "task.termination", key, now,
                                           [shape |-> "ok"])>>, "task", spec)
    IN /\ bundles = {} /\ (withheld => until = MaxTime)
       /\ core' = [x \in {b} |-> Verified(b)]
       /\ Quiet
       /\ UNCHANGED <<now, exports, checkpoints, reference, notes>>

IssuesCheckpoint(key, b, context, age) ==
    /\ Cardinality(checkpoints) < MaxCheckpoints /\ notes = {}
    /\ Cardinality({x \in {<<key, Trusted>>, <<context, Context>>, <<age, MaxAge>>} : x[1] # x[2]}) <= 1
    /\ checkpoints' = checkpoints \cup {IssueCheckpoint(b, context, now, age, key)}
    /\ Quiet
    /\ UNCHANGED <<now, exports, core, reference, notes>>

\* A checkpoint put on another bundle, or its time moved, without the key.
AlterCheckpoint(c) ==
    /\ Cardinality(checkpoints) < MaxCheckpoints
    /\ \/ \E b \in bundles : checkpoints' = checkpoints \cup {[c EXCEPT !.bundle = b]}
       \/ checkpoints' = checkpoints \cup {[c EXCEPT !.issued = now, !.expires = now + c.max_age]}
    /\ Quiet
    /\ UNCHANGED <<now, exports, core, reference, notes>>

\* The receiver's explicit, trusted refresh.
Refresh(c) ==
    /\ reference' = c
    /\ Quiet
    /\ UNCHANGED <<now, exports, core, checkpoints, notes>>

\* Files, manifest, bundle and checkpoint are handed to the receiver.
Receive(b, c, manifest, files) ==
    /\ told = Silent
    /\ LET answer == AssessSnapshot(b, c, manifest, files, reference, now)
       IN told' = [outcome |-> answer.outcome, reason |-> answer.reason, files |-> files]
    /\ UNCHANGED <<now, exports, core, checkpoints, reference, notes>>

Forget ==
    /\ told # Silent
    /\ told' = Silent
    /\ UNCHANGED <<now, exports, core, checkpoints, reference, notes>>

\* A verifier attests its result, or a better one.
Attest(key, b, better) ==
    LET result == IF better THEN [core[b] EXCEPT !.verdict = "TRUSTED"] ELSE core[b]
    IN /\ Cardinality(notes) < MaxNotes /\ checkpoints = {}
       /\ Issuable(result)
       /\ notes' = notes \cup {IssueNote(b, result, now, key)}
       /\ Quiet
       /\ UNCHANGED <<now, exports, core, checkpoints, reference>>

Tick ==
    /\ now < MaxTime
    /\ now' = now + 1
    /\ Quiet
    /\ UNCHANGED <<exports, core, checkpoints, reference, notes>>

Next ==
    \/ \E key \in Keys :
         \/ \E files \in Files, scope \in Scopes : Export(key, files, scope)
         \/ \E spec \in {4, 5}, until \in {1, MaxTime}, withheld \in BOOLEAN :
              Record(key, spec, until, withheld)
         \/ \E b \in bundles, context \in Contexts, age \in {MaxAge, MaxAge + 1} :
              IssuesCheckpoint(key, b, context, age)
         \/ \E b \in bundles, better \in BOOLEAN : Attest(key, b, better)
    \/ \E c \in checkpoints : AlterCheckpoint(c) \/ Refresh(c)
    \/ \E b \in bundles \cup {Junk}, c \in checkpoints \cup {None},
          manifest \in (Files \ Oversized) \cup {Junk}, files \in Files :
         Receive(b, c, manifest, files)
    \/ Forget
    \/ Tick

Spec == Init /\ [][Next]_vars

-----------------------------------------------------------------------------
(* Properties *)

\* Files are released only if the trusted key itself exported exactly these for
\* the expected scope, and vouched for that export in the expected context not
\* longer ago than the policy allows; whoever else signs, alters and replays.
ReleasedIsCommitted ==
    told.outcome = "ACCEPT" =>
      /\ [key |-> Trusted, files |-> told.files, scope |-> Scope] \in exports
      /\ reference \in checkpoints /\ reference.sig.by = Trusted
      /\ reference.context = Context /\ now - reference.issued \in 0..MaxAge

\* The receiver asks for evidence exactly where evidence can help: whenever it
\* does, some checkpoint of the trusted key would let the same bundle in, and
\* what it rejects without a checkpoint no checkpoint lets in.
AsksOnlyWhatHelps ==
    \A b \in bundles, c \in checkpoints \cup {None} :
      LET fresh == IssueCheckpoint(b, Context, now, MaxAge, Trusted)
      IN /\ AssessImport(b, c, reference, now).outcome = "NEEDS_EVIDENCE" =>
              AssessImport(b, fresh, fresh, now).outcome = "ACCEPT"
         /\ AssessImport(b, None, reference, now).outcome = "REJECT" =>
              AssessImport(b, c, c, now).outcome # "ACCEPT"

\* The bundle with everything disclosed that was withheld.
Disclosure(b) ==
    [b EXCEPT !.disclosure = [p \in Places(b.receipts) |-> Redaction(b.receipts, p).commit]]

\* A consumer's denial is final and its question honest: what is rejected while
\* fields are withheld is rejected when they are disclosed, what is accepted is
\* TRUSTED and signed throughout by issuers of the policy under its versions.
\* The pilot acts on no more than that, from the last receipt on until the pass
\* ends or the first receipt is too old, and never again after it.
ConsumerDecides ==
    \A b \in bundles : LET disclosed == Verified(Disclosure(b)).verdict IN
      \A policy \in Policies \cup {None} :
      LET outcome == ConsumerMain(b, core[b].verdict, policy)
          acts == {t \in 0..(MaxTime + 1) : Recordable(b, core[b].verdict, policy, t, MaxAge)}
          last == Greatest({b.receipts[i].at : i \in DOMAIN b.receipts})
      IN /\ acts # {} =>
              /\ outcome = "ACCEPT" /\ acts = last..Greatest(acts)
              /\ \A t \in acts : t < Get(b.receipts[1], "expires_at") /\ t <= b.receipts[1].at + MaxAge
         /\ outcome = "REJECT" <=> AssessBundle(Disclosure(b), disclosed, policy) = "REJECT"
         /\ outcome = "ACCEPT" =>
              /\ policy # None
              /\ core[b].verdict = "TRUSTED"
              /\ \A i \in DOMAIN b.receipts : /\ b.receipts[i].issuer \in policy.issuers
                                              /\ b.receipts[i].spec \in policy.specs
              /\ \A type \in policy.required : \E i \in DOMAIN b.receipts : b.receipts[i].type = type

\* A verification receipt holds for its bundle and no other, with the verdict
\* that the issuer signed and no other, until the key of its issuer is revoked
\* from that moment or an earlier one on; and not while a list cannot be had.
NotesHold ==
    \A n \in notes, b \in bundles :
      /\ NoteMain(n, b, <<>>) = 0 <=> n.bundle = b
      /\ \A better \in {"TRUSTED", "PROVISIONAL"} \ {n.result.verdict} :
           NoteErrors([n EXCEPT !.result = Result({}, {}, IF better = "TRUSTED" THEN {} ELSE {"later"})], b, {}) # {}
      /\ \A key \in Keys, t \in 0..MaxTime :
           NoteMain(n, n.bundle, <<Listed({}), Listed({Revoke(key, t)})>>) = 0 <=>
             n.issuer # key \/ n.at < t
      /\ NoteMain(n, n.bundle, <<Listed({}), [Listed({}) EXCEPT !.answers = FALSE]>>) # 0
=============================================================================
