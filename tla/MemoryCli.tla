------------------------------- MODULE MemoryCli -------------------------------
(***************************************************************************)
(* The command line memory_resume.py (publish, witness-reconcile, recall   *)
(* and resume) over a receiver store and a witness file that is kept apart *)
(* from it: witness.py and witness_file.py.                                *)
(*                                                                         *)
(* Of the store only what PublicationLog promises is used: a publication   *)
(* follows the reference it expects, or there is none.  The witness file   *)
(* names the reference of some publication; its sidecar lock serialises    *)
(* the commands that update it, but not the store, which unwitnessed       *)
(* publishers move, and not recall, which only reads the file.  Commands   *)
(* fail or are killed between any two steps.  The database and the data    *)
(* root may be put back together to an earlier state: that is what the     *)
(* witness is there to notice.                                             *)
(***************************************************************************)
EXTENDS Integers, Sequences, FiniteSets

CONSTANTS
    Procs, Gens, NoProc, NoGen,
    MaxOutages, MaxRestores     \* bounds: power failures, joint rollbacks

ASSUME CliAssumption ==
    /\ NoProc \notin Procs /\ NoGen \notin Gens
    /\ MaxOutages \in Nat /\ MaxRestores \in Nat

VARIABLES
    log,        \* the publications in the store, oldest first
    witness,    \* the reference in the witness file, as programs see it
    kept,       \* the reference there after a power failure
    wlock,      \* who holds the sidecar lock
    pc, mine,   \* p's next step; the generation p publishes
    expect,     \* the reference it publishes against, --expected-reference
    found,      \* the witness p read when it took the lock, or loaded for a recall
    ref,        \* the reference p got from the store
    due,        \* what had been reported when p loaded it
    reported,   \* the last reference whose witness update was reported COMPLETE
    used,       \* generations that publish attempts have drawn
    local,      \* local_committed, as each publish reported it
    outages, restores

file  == <<witness, kept>>
mind  == <<mine, expect, found, ref, due>>
words == <<reported, used, local>>
world == <<outages, restores>>
vars == <<log, file, wlock, pc, mind, words, world>>

Refs  == [gen : Gens, seq : Nat \ {0}]
NoRef == [gen |-> NoGen, seq |-> 0]

Published == {log[n] : n \in 1..Len(log)}

\* current_reference: read on its own, under no lock of the caller's.
Current == IF log = <<>> THEN NoRef ELSE [gen |-> log[Len(log)], seq |-> Len(log)]

Init ==
    /\ log = <<>>
    /\ witness = NoRef /\ kept = NoRef
    /\ wlock = NoProc
    /\ pc    = [p \in Procs |-> "idle"]
    /\ mine  = [p \in Procs |-> NoGen]
    /\ expect = [p \in Procs |-> NoGen]
    /\ found = [p \in Procs |-> NoRef]
    /\ ref   = [p \in Procs |-> NoRef]
    /\ due   = [p \in Procs |-> NoRef]
    /\ reported = NoRef
    /\ used = {}
    /\ local = [g \in Gens |-> "pending"]
    /\ outages = 0 /\ restores = 0

-----------------------------------------------------------------------------
Goto(p, from, to) ==
    /\ pc[p] = from
    /\ pc' = [pc EXCEPT ![p] = to]

Release(p) == wlock' = IF wlock = p THEN NoProc ELSE wlock

\* The command is over: __exit__ has closed the lock's descriptor.
Finish(p) ==
    /\ pc'    = [pc EXCEPT ![p] = "idle"]
    /\ mine'  = [mine EXCEPT ![p] = NoGen]
    /\ expect' = [expect EXCEPT ![p] = NoGen]
    /\ found' = [found EXCEPT ![p] = NoRef]
    /\ ref'   = [ref EXCEPT ![p] = NoRef]
    /\ due'   = [due EXCEPT ![p] = NoRef]
    /\ Release(p)

\* What publish prints as local_committed; reconcile has none.
Report(p, committed) ==
    local' = IF mine[p] = NoGen THEN local ELSE [local EXCEPT ![mine[p]] = committed]

\* The command ends with the payload of the exception handler, or of a
\* result that is not ACCEPT.
Raise(p, committed) ==
    /\ Report(p, committed)
    /\ Finish(p)
    /\ UNCHANGED <<log, file, reported, used, world>>

\* Fault: a witness of the very reference counts as ahead of it.
LagsStrictly(w, r) == w = NoRef \/ w.seq < r.seq

\* ensure_not_ahead: neither above r nor another reference at r's sequence.
NotAhead(w, r) == w = NoRef \/ w.seq < r.seq \/ w = r

-----------------------------------------------------------------------------
(* publish *)

\* The input tree is captured and the key loaded; with --witness-file the lock
\* comes first.  A tree or key that cannot be read raises before that.
PublishStart(p) ==
    /\ \E witnessed \in BOOLEAN : Goto(p, "idle", IF witnessed THEN "plock" ELSE "ustore")
    /\ \E g \in Gens \ used, e \in Published \cup {NoGen} :
         /\ used' = used \cup {g}
         /\ mine' = [mine EXCEPT ![p] = g]
         /\ expect' = [expect EXCEPT ![p] = e]
    /\ UNCHANGED <<log, file, wlock, found, ref, due, reported, local, world>>

\* Fault: the lock file is opened but never locked.
EnterUnlocked(p) ==
    /\ \/ Goto(p, "plock", "pahead")
       \/ Goto(p, "clock", "crecall")
    /\ wlock' = p
    /\ found' = [found EXCEPT ![p] = witness]
    /\ UNCHANGED <<log, file, mine, expect, ref, due, words, world>>

\* __enter__: flock, read the witness there is, prepare a stage file.
Enter(p) ==
    /\ \/ Goto(p, "plock", "pahead")
       \/ Goto(p, "clock", "crecall")
    /\ wlock = NoProc
    /\ wlock' = p
    /\ found' = [found EXCEPT ![p] = witness]
    /\ UNCHANGED <<log, file, mine, expect, ref, due, words, world>>

\* witness_publication_lock_timeout, or an I/O error, up to current_reference.
EnterFail(p) ==
    /\ pc[p] \in {"plock", "clock", "pahead"}
    /\ Raise(p, "no")

PublishAhead(p) ==
    /\ \/ NotAhead(found[p], Current) /\ Goto(p, "pahead", "pstore")
       \/ ~NotAhead(found[p], Current) /\ Goto(p, "pahead", "alarm")
    /\ UNCHANGED <<log, file, wlock, mind, words, world>>

\* store.publish commits ...
StoreCommit(p) ==
    /\ \/ Goto(p, "pstore", "pcommitted")
       \/ Goto(p, "ustore", "ucommitted")
    /\ expect[p] = Current.gen
    /\ log' = Append(log, mine[p])
    /\ ref' = [ref EXCEPT ![p] = [gen |-> mine[p], seq |-> Len(log) + 1]]
    /\ UNCHANGED <<file, wlock, mine, expect, found, due, words, world>>

\* Fault: an exception of store.publish is taken for success.
StoreReturnHoped(p) ==
    /\ \/ Goto(p, "pcommitted", "wread") \/ Goto(p, "pstore", "wread")
    /\ ref' = [ref EXCEPT ![p] = [gen |-> mine[p], seq |-> Len(log) + 1]]
    /\ UNCHANGED <<log, file, wlock, mine, expect, found, due, words, world>>

\* ... and returns; committed_reference is set, the witness INCOMPLETE.
StoreReturn(p) ==
    /\ Goto(p, "pcommitted", "wread")
    /\ UNCHANGED <<log, file, wlock, mind, words, world>>

\* It returns another outcome: a reference conflict, or a refused capture.
StoreRefuse(p) ==
    /\ pc[p] \in {"pstore", "ustore"}
    /\ Raise(p, "no")

\* Fault: an exception of store.publish is reported as "nothing was committed".
StoreRaiseSure(p) ==
    /\ pc[p] \in {"pstore", "ustore", "pcommitted", "ucommitted"}
    /\ Raise(p, "no")

\* It raises, before or after its commit: publication_started without
\* publication_returned, so local_committed is None, UNKNOWN.
StoreRaise(p) ==
    /\ pc[p] \in {"pstore", "ustore", "pcommitted", "ucommitted"}
    /\ Raise(p, "unknown")

\* Without a witness file the command ends here.
UnwitnessedReturn(p) ==
    /\ pc[p] = "ucommitted"
    /\ Raise(p, "yes")

-----------------------------------------------------------------------------
(* WitnessPublication.commit *)

\* Fault: the witness checked before the publication is not checked again.
WitnessUnchecked(p) ==
    /\ Goto(p, "wread", "wreplace")
    /\ UNCHANGED <<log, file, wlock, mind, words, world>>

\* The file is read again: no regression, no conflict.  Then the stage is
\* written and synced.
WitnessReread(p) ==
    /\ Goto(p, "wread", "wreplace")
    /\ NotAhead(witness, ref[p])
    /\ UNCHANGED <<log, file, wlock, mind, words, world>>

WitnessReplace(p) ==
    /\ Goto(p, "wreplace", "wsync")
    /\ witness' = ref[p]
    /\ UNCHANGED <<log, kept, wlock, mind, words, world>>

\* Fault: the directory is not synced after os.replace.
WitnessUnsynced(p) ==
    /\ Goto(p, "wsync", "wdone")
    /\ UNCHANGED <<log, file, wlock, mind, words, world>>

WitnessSync(p) ==
    /\ Goto(p, "wsync", "wdone")
    /\ kept' = witness
    /\ UNCHANGED <<log, witness, wlock, mind, words, world>>

\* witness_sequence_regression, witness_checkpoint_conflict or an I/O error:
\* INCOMPLETE, and the local commit is reported.
WitnessFail(p) ==
    /\ pc[p] \in {"wread", "wreplace", "wsync"}
    /\ Raise(p, "yes")

\* The lock is closed before the answer is printed: COMPLETE.
WitnessDone(p) ==
    /\ pc[p] = "wdone"
    /\ reported' = ref[p]
    /\ Report(p, "yes")
    /\ Finish(p)
    /\ UNCHANGED <<log, file, used, world>>

-----------------------------------------------------------------------------
(* witness-reconcile, after a publish that was INCOMPLETE or UNKNOWN *)

ReconcileStart(p) ==
    /\ Goto(p, "idle", "clock")
    /\ UNCHANGED <<log, file, wlock, mind, words, world>>

\* recall_with_decision approves the reference the operator named and no
\* other; afterwards the store's lock is gone.
ReconcileRecall(p) ==
    /\ Goto(p, "crecall", "cahead")
    /\ Current # NoRef
    /\ ref' = [ref EXCEPT ![p] = Current]
    /\ UNCHANGED <<log, file, wlock, mine, expect, found, due, words, world>>

ReconcileAhead(p) ==
    /\ \/ NotAhead(found[p], ref[p]) /\ Goto(p, "cahead", "wread")
       \/ ~NotAhead(found[p], ref[p]) /\ Goto(p, "cahead", "alarm")
    /\ UNCHANGED <<log, file, wlock, mind, words, world>>

\* Another reference, an intact store no longer, nothing published yet.
ReconcileRefuse(p) == pc[p] = "crecall" /\ Raise(p, "no")

-----------------------------------------------------------------------------
(* recall and resume with --witness-file *)

\* load_witness, without the sidecar lock; a pinned checkpoint that is not the
\* one in the file raises, as does a missing file.
RecallLoad(p) ==
    /\ Goto(p, "idle", "rfloor")
    /\ witness # NoRef
    /\ found' = [found EXCEPT ![p] = witness]
    /\ due' = [due EXCEPT ![p] = reported]
    /\ UNCHANGED <<log, file, wlock, mine, expect, ref, words, world>>

\* Fault: the floor is an equality of sequences, not a lower bound.
VerifySequenceOnly(w, r) == r.seq >= w.seq

\* OffHostWitness.verify.
Verify(w, r) == r.seq >= w.seq /\ (r.seq = w.seq => r.gen = w.gen)

\* Inside the store's transaction; an empty store is NEEDS_EVIDENCE.
RecallVerify(p) ==
    /\ Current # NoRef
    /\ \/ Verify(found[p], Current) /\ Goto(p, "rfloor", "raccepted")
       \/ ~Verify(found[p], Current) /\ Goto(p, "rfloor", "alarm")
    /\ ref' = [ref EXCEPT ![p] = Current]
    /\ UNCHANGED <<log, file, wlock, mine, expect, found, due, words, world>>

\* The command ends: accepted or refused, or (no store yet, predicate,
\* assessment, option errors) refused for another reason.
RecallEnd(p) ==
    /\ pc[p] \in {"rfloor", "raccepted"}
    /\ Raise(p, "no")

\* joint_rollback_detected, or witness_ahead_of_local_reference or
\* witness_local_reference_conflict from ensure_not_ahead.
Alarm(p) == pc[p] = "alarm" /\ Raise(p, "no")

-----------------------------------------------------------------------------
\* Killed, or stopped by anything main does not catch: the lock goes with the
\* process.  What it would have reported nobody reads.
Kill(p) ==
    /\ pc[p] # "idle"
    /\ Finish(p)
    /\ UNCHANGED <<log, file, words, world>>

\* Every process stops; a replaced witness not yet synced may be the old one.
PowerFailure ==
    /\ outages < MaxOutages
    /\ outages' = outages + 1
    /\ witness' \in {witness, kept}
    /\ kept' = witness'
    /\ wlock' = NoProc
    /\ pc'    = [p \in Procs |-> "idle"]
    /\ mine'  = [p \in Procs |-> NoGen]
    /\ expect' = [p \in Procs |-> NoGen]
    /\ found' = [p \in Procs |-> NoRef]
    /\ ref'   = [p \in Procs |-> NoRef]
    /\ due'   = [p \in Procs |-> NoRef]
    /\ UNCHANGED <<log, words, restores>>

\* Trust database and data root come back as they once were.
Restore ==
    /\ restores < MaxRestores
    /\ restores' = restores + 1
    /\ \E n \in 0..(Len(log) - 1) : log' = SubSeq(log, 1, n)
    /\ UNCHANGED <<file, wlock, pc, mind, words, outages>>

-----------------------------------------------------------------------------
Publish(p) ==
    \/ PublishStart(p) \/ Enter(p) \/ EnterFail(p) \/ PublishAhead(p)
    \/ StoreCommit(p) \/ StoreReturn(p) \/ StoreRefuse(p) \/ StoreRaise(p)
    \/ UnwitnessedReturn(p)

Update(p) ==
    WitnessReread(p) \/ WitnessReplace(p) \/ WitnessSync(p) \/ WitnessFail(p) \/ WitnessDone(p)

Reconcile(p) ==
    ReconcileStart(p) \/ ReconcileRecall(p) \/ ReconcileAhead(p) \/ ReconcileRefuse(p)

Recall(p) == RecallLoad(p) \/ RecallVerify(p) \/ RecallEnd(p)

Next ==
    \/ \E p \in Procs :
         Publish(p) \/ Update(p) \/ Reconcile(p) \/ Recall(p) \/ Alarm(p) \/ Kill(p)
    \/ PowerFailure
    \/ Restore

Spec == Init /\ [][Next]_vars

-----------------------------------------------------------------------------
(* Properties *)

PCs == {"idle", "plock", "pahead", "pstore", "ustore", "pcommitted", "ucommitted",
        "wread", "wreplace", "wsync", "wdone", "clock", "crecall", "cahead",
        "rfloor", "raccepted", "alarm"}

\* Type correctness; whoever updates the witness holds its lock.
TypeOK ==
    /\ witness \in Refs \cup {NoRef} /\ kept \in Refs \cup {NoRef}
    /\ wlock \in Procs \cup {NoProc}
    /\ pc \in [Procs -> PCs]
    /\ mine \in [Procs -> Gens \cup {NoGen}]
    /\ found \in [Procs -> Refs \cup {NoRef}] /\ ref \in [Procs -> Refs \cup {NoRef}]
    /\ due \in [Procs -> Refs \cup {NoRef}]
    /\ reported \in Refs \cup {NoRef}
    /\ used \subseteq Gens /\ Published \subseteq used
    /\ local \in [Gens -> {"pending", "yes", "no", "unknown"}]
    /\ \A p \in Procs :
         pc[p] \in {"pahead", "pstore", "pcommitted", "crecall", "cahead",
                    "wread", "wreplace", "wsync", "wdone"} => wlock = p

\* The witness names a publication that was really made at that sequence, though
\* publishers that know nothing of it move the store meanwhile.
WitnessFollowsStore ==
    restores = 0 /\ witness # NoRef => witness.seq <= Len(log) /\ log[witness.seq] = witness.gen

\* The witness never goes back and never changes its mind about a sequence,
\* whatever publishers race, even when the store was rolled back between a
\* publisher's look at the witness and its commit; only a power failure may
\* take back an update, and none that was reported.
WitnessNeverRegresses ==
    [][\/ NotAhead(witness, witness')
       \/ outages' # outages /\ witness' = kept]_vars

\* A reported COMPLETE survives power failures and later updates: the durable
\* witness has at least that sequence, and at that sequence that generation.
CompleteIsDurable == NotAhead(reported, kept)

\* local_committed says no more than the store does: yes is a publication, no is
\* none (also after a crash of the witness update, after which the operator must
\* not publish again), and everything else is unknown.
LocalAnswersTrue ==
    restores = 0 => \A g \in Gens :
      /\ local[g] = "yes" => g \in Published
      /\ local[g] = "no" => g \notin Published

\* A recall that is accepted under a witness is at least as new as every update
\* reported before the witness was loaded, or it is that very publication: a
\* joint rollback below a reported sequence is always noticed.
RollbackNoticed ==
    \A p \in Procs : pc[p] = "raccepted" => NotAhead(due[p], ref[p])

\* Without a rollback nobody is told that there was one: the witness may lag
\* behind the store and be replaced while others read it, but is never ahead of
\* the reference a publisher, a reconciliation or a recall compares it with.
NoFalseAlarm == restores = 0 => \A p \in Procs : pc[p] # "alarm"
=============================================================================
