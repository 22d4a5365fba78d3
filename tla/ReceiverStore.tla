----------------------------- MODULE ReceiverStore -----------------------------
(***************************************************************************)
(* The receiver's store: receiver_store.py, class ReceiverStore.           *)
(*                                                                         *)
(* A SQLite trust database holds the current reference and the audit of    *)
(* every publication; the data root holds one directory per generation.    *)
(* Operations of several processes meet in two places: the write lock of   *)
(* the database (BEGIN IMMEDIATE ... COMMIT) and the directory             *)
(* generations/, which the clean-up of a failed publish also changes       *)
(* without that lock.  A process may be killed between any two steps, and  *)
(* a power failure forgets what was not fsynced.                           *)
(*                                                                         *)
(* A generation stands for everything one publish attempt mints with fresh *)
(* random identifiers: its id, and the digests of its bundle, checkpoint   *)
(* and manifest.  Equal digests therefore mean the same generation.        *)
(*                                                                         *)
(* The database is taken as initialised and every process as bound to its  *)
(* policy.                                                                 *)
(***************************************************************************)
EXTENDS Integers, FiniteSets

CONSTANTS
    Procs,             \* the processes (or threads) that use one store
    Gens,              \* the generation ids publish attempts may draw
    NoProc,            \* nobody holds the write lock
    NoGen,             \* no generation: Python's None
    MaxOutages,        \* bound: how many power failures a behaviour has
    JournalMayReturn   \* may a power failure bring back the last journal?

ASSUME ConstantsAssumption ==
    /\ NoProc \notin Procs
    /\ NoGen \notin Gens
    /\ MaxOutages \in Nat
    /\ JournalMayReturn \in BOOLEAN

VARIABLES
    \* the trust database, committed state
    current,    \* the row of current_reference, NoRef when there is none
    audit,      \* the rows of publication_audit
    journal,    \* the unlinked journal of the last commit is not yet durable
    lock,       \* holder of the database's write lock
    \* data_root/generations
    name,       \* the directory entry of each generation, as programs see it
    durable,    \* that entry as a power failure may leave it
    good,       \* parts present with the bytes that were signed
    safe,       \* of those, the parts a power failure keeps
    hurt,       \* generations something outside this program has damaged
    \* publish attempts
    used,       \* generation ids drawn so far
    basis,      \* the expected_checkpoint_digest of each attempt
    told,       \* what the caller of each attempt has been told
    \* the processes
    pc, mine, seen, todo, victim,
    outages

dbVars   == <<current, audit, journal>>
diskVars == <<name, durable, good, safe>>
tryVars  == <<used, basis, told>>
locals   == <<mine, seen, todo, victim>>
world    == <<hurt, outages>>
vars == <<dbVars, lock, diskVars, tryVars, pc, locals, world>>

-----------------------------------------------------------------------------
(* Values *)

\* What a generation directory holds: the signed bundle, checkpoint and manifest
\* (read and checked first) and the tree of snapshot files.
Parts == {"meta", "files"}

\* No entry, .stage-<id>, or <id>.
Entries == {"none", "stage", "final"}

Refs  == [gen : Gens, seq : Nat \ {0}]
NoRef == [gen |-> NoGen, seq |-> 0]

Answers == {"pending", "accepted", "conflict", "raised"}

\* Inside publish's transaction, and inside recall's.
PublishLocked == {"recover", "write", "staged", "renamed", "synced", "inserted"}
RecallLocked  == {"rmeta", "rfiles", "rdecide", "rcommit"}

PublishPCs == PublishLocked \cup {"begin", "committed", "check", "clean"}
PCs == {"idle", "rbegin", "rreturn"} \cup PublishPCs \cup RecallLocked

\* The generations the database names.
Committed == {r.gen : r \in audit} \cup ({current.gen} \ {NoGen})

\* Faults: only the current generation is kept, or only staging directories are removed.
AbandonedButCurrent == {g \in Gens : name[g] # "none" /\ g # current.gen}
AbandonedStages     == {g \in Gens : name[g] = "stage"}

\* Every staging directory, and every generation directory no row names.
Abandoned ==
    {g \in Gens : \/ name[g] = "stage"
                  \/ name[g] = "final" /\ g \notin Committed}

\* Fault: the sequence is not advanced.
RowOfSameSequence(p) == [gen |-> mine[p], seq |-> seen[p].seq]

\* The attempt p is making, as the row it would commit.
RowOf(p) == [gen |-> mine[p], seq |-> seen[p].seq + 1]

-----------------------------------------------------------------------------
Init ==
    /\ current = NoRef /\ audit = {} /\ journal = FALSE
    /\ lock = NoProc
    /\ name    = [g \in Gens |-> "none"]
    /\ durable = [g \in Gens |-> "none"]
    /\ good    = [g \in Gens |-> {}]
    /\ safe    = [g \in Gens |-> {}]
    /\ hurt = {}
    /\ used = {}
    /\ basis = [g \in Gens |-> NoGen]
    /\ told  = [g \in Gens |-> "pending"]
    /\ pc     = [p \in Procs |-> "idle"]
    /\ mine   = [p \in Procs |-> NoGen]
    /\ seen   = [p \in Procs |-> NoRef]
    /\ todo   = [p \in Procs |-> {}]
    /\ victim = [p \in Procs |-> NoGen]
    /\ outages = 0

-----------------------------------------------------------------------------
(* Steps shared by the operations *)

Goto(p, from, to) ==
    /\ pc[p] = from
    /\ pc' = [pc EXCEPT ![p] = to]

\* p's operation is over; its connection and its locals are gone.
Finish(p) ==
    /\ pc'     = [pc EXCEPT ![p] = "idle"]
    /\ mine'   = [mine EXCEPT ![p] = NoGen]
    /\ seen'   = [seen EXCEPT ![p] = NoRef]
    /\ todo'   = [todo EXCEPT ![p] = {}]
    /\ victim' = [victim EXCEPT ![p] = NoGen]

Tell(p, answer) == told' = [told EXCEPT ![mine[p]] = answer]

\* ROLLBACK, or the connection closing, drops p's lock if it holds it.
Release(p) == lock' = IF lock = p THEN NoProc ELSE lock

\* os.fsync of the directory generations/ writes out every entry.
SyncEntries(entries) == durable' = entries

\* rmtree: the children of g's directory go first ...
EmptyTree(g) ==
    /\ good' = [good EXCEPT ![g] = {}]
    /\ safe' = [safe EXCEPT ![g] = {}]
    /\ UNCHANGED <<name, durable>>

\* ... then its own entry, and the parent directory is synced.
RemoveEntry(g) ==
    /\ name' = [name EXCEPT ![g] = "none"]
    /\ SyncEntries(name')
    /\ UNCHANGED <<good, safe>>

-----------------------------------------------------------------------------
(* Faults: what plausible mistakes would make of the steps that follow.  They    *)
(* are no part of Next; putting one in place of the step it is named for shows   *)
(* that the property about that step can fail.                                   *)

\* "No expectation" is taken for "do not check".
PublishBeginUnchecked(p) ==
    /\ Goto(p, "begin", "recover")
    /\ lock = NoProc
    /\ basis[mine[p]] \in {NoGen, current.gen}
    /\ lock' = p
    /\ seen' = [seen EXCEPT ![p] = current]
    /\ todo' = [todo EXCEPT ![p] = Abandoned]
    /\ UNCHANGED <<dbVars, diskVars, tryVars, mine, victim, world>>

\* The first publication is not compared with anything.
PublishBeginFirst(p) ==
    /\ Goto(p, "begin", "recover")
    /\ lock = NoProc
    /\ current = NoRef \/ basis[mine[p]] = current.gen
    /\ lock' = p
    /\ seen' = [seen EXCEPT ![p] = current]
    /\ todo' = [todo EXCEPT ![p] = Abandoned]
    /\ UNCHANGED <<dbVars, diskVars, tryVars, mine, victim, world>>

\* A directory that has vanished stays on the list.
RecoverGoneAgain(p) ==
    /\ pc[p] = "recover" /\ victim[p] = NoGen
    /\ \E g \in todo[p] : name[g] = "none"
    /\ UNCHANGED vars

\* The rename is not followed by an fsync of the directory.
RenameUnsynced(p) ==
    /\ Goto(p, "renamed", "synced")
    /\ UNCHANGED <<dbVars, lock, diskVars, tryVars, locals, world>>

\* The audit row is inserted without the upsert; nothing is committed at all.
CommitWithoutUpsert(p) ==
    /\ Goto(p, "inserted", "committed")
    /\ audit' = audit \cup {RowOf(p)}
    /\ lock' = NoProc
    /\ UNCHANGED <<current, journal, diskVars, tryVars, locals, world>>
CommitForgotten(p) ==
    /\ Goto(p, "inserted", "committed")
    /\ lock' = NoProc
    /\ UNCHANGED <<dbVars, diskVars, tryVars, locals, world>>

\* The exception handler does not roll back.
PublishFailKeepsLock(p) ==
    /\ pc[p] \in PublishLocked \cup {"committed"}
    /\ pc' = [pc EXCEPT ![p] = "check"]
    /\ todo' = [todo EXCEPT ![p] = {}]
    /\ victim' = [victim EXCEPT ![p] = NoGen]
    /\ UNCHANGED <<dbVars, lock, diskVars, tryVars, mine, seen, world>>

\* BEGIN instead of BEGIN IMMEDIATE: a reader takes no lock.
RecallBeginDeferred(p) ==
    /\ Goto(p, "rbegin", "rmeta")
    /\ current # NoRef
    /\ seen' = [seen EXCEPT ![p] = current]
    /\ UNCHANGED <<dbVars, lock, diskVars, tryVars, mine, todo, victim, world>>

-----------------------------------------------------------------------------
(* publish: compare the expected reference, build the generation, commit *)

\* The attempt is captured, signed and assessed, and the policy checked, before
\* anything shared is touched.  The caller may expect nothing, the current
\* reference, an outdated one, or one whose publication failed.
PublishStart(p) ==
    /\ Goto(p, "idle", "begin")
    /\ \E g \in Gens \ used, e \in used \cup {NoGen} :
         /\ used'  = used \cup {g}
         /\ basis' = [basis EXCEPT ![g] = e]
         /\ mine'  = [mine EXCEPT ![p] = g]
    /\ UNCHANGED <<dbVars, lock, diskVars, told, seen, todo, victim, world>>

\* BEGIN IMMEDIATE gives up after the busy timeout; publish raises.
PublishBusy(p) ==
    /\ pc[p] = "begin"
    /\ lock # NoProc
    /\ Tell(p, "raised")
    /\ Finish(p)
    /\ UNCHANGED <<dbVars, lock, diskVars, used, basis, world>>

\* BEGIN IMMEDIATE succeeds, and the current reference is not the expected one.
PublishConflict(p) ==
    /\ pc[p] = "begin"
    /\ lock = NoProc
    /\ basis[mine[p]] # current.gen
    /\ Tell(p, "conflict")
    /\ Finish(p)
    /\ UNCHANGED <<dbVars, lock, diskVars, used, basis, world>>

\* BEGIN IMMEDIATE succeeds, the reference is the expected one, and the scan
\* for abandoned directories begins.
PublishBegin(p) ==
    /\ Goto(p, "begin", "recover")
    /\ lock = NoProc
    /\ basis[mine[p]] = current.gen
    /\ lock' = p
    /\ seen' = [seen EXCEPT ![p] = current]
    /\ todo' = [todo EXCEPT ![p] = Abandoned]
    /\ UNCHANGED <<dbVars, diskVars, tryVars, mine, victim, world>>

\* A listed directory is gone by the time it is looked at: a failed publish
\* cleans up without the lock.
RecoverGone(p) ==
    /\ pc[p] = "recover" /\ victim[p] = NoGen
    /\ \E g \in todo[p] :
         /\ name[g] = "none"
         /\ todo' = [todo EXCEPT ![p] = @ \ {g}]
    /\ UNCHANGED <<dbVars, lock, diskVars, tryVars, pc, mine, seen, victim, world>>

RecoverEmpty(p) ==
    /\ pc[p] = "recover" /\ victim[p] = NoGen
    /\ \E g \in todo[p] :
         /\ name[g] # "none"
         /\ victim' = [victim EXCEPT ![p] = g]
         /\ EmptyTree(g)
    /\ UNCHANGED <<dbVars, lock, tryVars, pc, mine, seen, todo, world>>

\* Had the directory vanished since, rmdir would raise: that is PublishFail.
RecoverRemove(p) ==
    /\ pc[p] = "recover" /\ victim[p] # NoGen
    /\ name[victim[p]] # "none"
    /\ RemoveEntry(victim[p])
    /\ todo' = [todo EXCEPT ![p] = @ \ {victim[p]}]
    /\ victim' = [victim EXCEPT ![p] = NoGen]
    /\ UNCHANGED <<dbVars, lock, tryVars, pc, mine, seen, world>>

\* mkdir .stage-<id>: a new entry, not yet durable.
StageCreate(p) ==
    /\ Goto(p, "recover", "write")
    /\ todo[p] = {}
    /\ name' = [name EXCEPT ![mine[p]] = "stage"]
    /\ UNCHANGED <<dbVars, lock, durable, good, safe, tryVars, locals, world>>

\* bundle.json, checkpoint.json and manifest.json are written before the files.
StageWrite(p) ==
    /\ pc[p] = "write"
    /\ name[mine[p]] = "stage"
    /\ good' = [good EXCEPT ![mine[p]] =
                  IF @ = {} THEN {"meta"} ELSE Parts]
    /\ good[mine[p]] # Parts
    /\ UNCHANGED <<dbVars, lock, name, durable, safe, tryVars, pc, locals, world>>

\* fsync of files/, of the staging directory, of generations/ and of the root.
StageSync(p) ==
    /\ Goto(p, "write", "staged")
    /\ good[mine[p]] = Parts
    /\ safe' = [safe EXCEPT ![mine[p]] = good[mine[p]]]
    /\ SyncEntries(name)
    /\ UNCHANGED <<dbVars, lock, name, good, tryVars, locals, world>>

\* renameat2(RENAME_NOREPLACE): one entry changes its name.
Rename(p) ==
    /\ Goto(p, "staged", "renamed")
    /\ name[mine[p]] = "stage"
    /\ name' = [name EXCEPT ![mine[p]] = "final"]
    /\ UNCHANGED <<dbVars, lock, durable, good, safe, tryVars, locals, world>>

RenameSync(p) ==
    /\ Goto(p, "renamed", "synced")
    /\ SyncEntries(name)
    /\ UNCHANGED <<dbVars, lock, name, good, safe, tryVars, locals, world>>

\* The audit row's sequence is a primary key and its generation unique; the
\* upsert of the current reference follows in the same transaction.
Insert(p) ==
    /\ Goto(p, "synced", "inserted")
    /\ \A r \in audit : r.seq # RowOf(p).seq /\ r.gen # RowOf(p).gen
    /\ UNCHANGED <<dbVars, lock, diskVars, tryVars, locals, world>>

Commit(p) ==
    /\ Goto(p, "inserted", "committed")
    /\ current' = RowOf(p)
    /\ audit' = audit \cup {RowOf(p)}
    /\ journal' = JournalMayReturn
    /\ lock' = NoProc
    /\ UNCHANGED <<diskVars, tryVars, locals, world>>

PublishReturn(p) ==
    /\ pc[p] = "committed"
    /\ Tell(p, "accepted")
    /\ Finish(p)
    /\ UNCHANGED <<dbVars, lock, diskVars, used, basis, world>>

\* Any exception after BEGIN: an I/O or SQLite error, a key conflict, a failing
\* COMMIT, an interrupt, also one between the commit and the return.
PublishFail(p) ==
    /\ pc[p] \in PublishLocked \cup {"committed"}
    /\ pc' = [pc EXCEPT ![p] = "check"]
    /\ todo' = [todo EXCEPT ![p] = {}]
    /\ victim' = [victim EXCEPT ![p] = NoGen]
    /\ Release(p)
    /\ UNCHANGED <<dbVars, diskVars, tryVars, mine, seen, world>>

\* The audit has the generation, or cannot be read: everything is preserved.
KeepCommitted(p) ==
    /\ pc[p] = "check"
    /\ Tell(p, "raised")
    /\ Finish(p)
    /\ UNCHANGED <<dbVars, lock, diskVars, used, basis, world>>

\* The audit was read and does not have it.
CleanBegin(p) ==
    /\ Goto(p, "check", "clean")
    /\ \A r \in audit : r.gen # mine[p]
    /\ UNCHANGED <<dbVars, lock, diskVars, tryVars, locals, world>>

CleanEmpty(p) ==
    /\ pc[p] = "clean"
    /\ name[mine[p]] # "none" /\ victim[p] = NoGen
    /\ victim' = [victim EXCEPT ![p] = mine[p]]
    /\ EmptyTree(mine[p])
    /\ UNCHANGED <<dbVars, lock, tryVars, pc, mine, seen, todo, world>>

CleanRemove(p) ==
    /\ pc[p] = "clean"
    /\ name[mine[p]] # "none" /\ victim[p] = mine[p]
    /\ RemoveEntry(mine[p])
    /\ Tell(p, "raised")
    /\ Finish(p)
    /\ UNCHANGED <<dbVars, lock, used, basis, world>>

\* Nothing is there, or an OSError stops the removal and is swallowed.
CleanStop(p) ==
    /\ pc[p] = "clean"
    /\ Tell(p, "raised")
    /\ Finish(p)
    /\ UNCHANGED <<dbVars, lock, diskVars, used, basis, world>>

-----------------------------------------------------------------------------
(* recall and recall_with_decision: read, verify, decide, commit *)

RecallStart(p) ==
    /\ Goto(p, "idle", "rbegin")
    /\ UNCHANGED <<dbVars, lock, diskVars, tryVars, locals, world>>

\* The busy timeout (REJECT), or no reference yet (NEEDS_EVIDENCE).
RecallNothing(p) ==
    /\ pc[p] = "rbegin"
    /\ lock # NoProc \/ current = NoRef
    /\ Finish(p)
    /\ UNCHANGED <<dbVars, lock, diskVars, tryVars, world>>

RecallBegin(p) ==
    /\ Goto(p, "rbegin", "rmeta")
    /\ lock = NoProc
    /\ current # NoRef
    /\ lock' = p
    /\ seen' = [seen EXCEPT ![p] = current]
    /\ UNCHANGED <<dbVars, diskVars, tryVars, mine, todo, victim, world>>

\* The part is there and has the bytes the reference's digests bind.
Intact(p, part) ==
    /\ name[seen[p].gen] = "final"
    /\ part \in good[seen[p].gen]

RecallMeta(p) ==
    /\ Goto(p, "rmeta", "rfiles")
    /\ Intact(p, "meta")
    /\ UNCHANGED <<dbVars, lock, diskVars, tryVars, locals, world>>

\* The tree is captured, then assessed against the manifest and the checkpoint.
RecallFiles(p) ==
    /\ Goto(p, "rfiles", "rdecide")
    /\ Intact(p, "files")
    /\ UNCHANGED <<dbVars, lock, diskVars, tryVars, locals, world>>

\* The predicate or decision callback approves; the sink of the legacy call runs.
RecallDecide(p) ==
    /\ Goto(p, "rdecide", "rcommit")
    /\ UNCHANGED <<dbVars, lock, diskVars, tryVars, locals, world>>

RecallCommit(p) ==
    /\ Goto(p, "rcommit", "rreturn")
    /\ lock' = NoProc
    /\ UNCHANGED <<dbVars, diskVars, tryVars, locals, world>>

RecallReturn(p) ==
    /\ pc[p] = "rreturn"
    /\ Finish(p)
    /\ UNCHANGED <<dbVars, lock, diskVars, tryVars, world>>

\* The witness, a digest, the assessment or a callback refuses, or something
\* raises: rollback and REJECT (or NEEDS_EVIDENCE, or the callback's exception).
RecallReject(p) ==
    /\ pc[p] \in RecallLocked
    /\ Release(p)
    /\ Finish(p)
    /\ UNCHANGED <<dbVars, diskVars, tryVars, world>>

-----------------------------------------------------------------------------
(* The environment *)

\* p is killed: the operating system drops its lock, nothing is cleaned up.
Kill(p) ==
    /\ pc[p] # "idle"
    /\ Release(p)
    /\ Finish(p)
    /\ UNCHANGED <<dbVars, diskVars, tryVars, world>>

\* Something outside the program spoils a part of a committed generation.
Damage ==
    /\ \E g \in Committed \ hurt : \E part \in good[g] :
         /\ hurt' = hurt \cup {g}
         /\ good' = [good EXCEPT ![g] = @ \ {part}]
         /\ safe' = [safe EXCEPT ![g] = @ \ {part}]
    /\ UNCHANGED <<dbVars, lock, name, durable, tryVars, pc, locals, outages>>

\* The last commit is undone by its journal: its row goes, and the current
\* reference is the row before it.
LastCommitUndone ==
    /\ journal
    /\ audit' = audit \ {current}
    /\ current' \in (audit \ {current}) \cup {NoRef}
    /\ current'.seq = current.seq - 1

\* Every process stops; entries and parts not synced are kept or lost.
PowerFailure ==
    /\ outages < MaxOutages
    /\ outages' = outages + 1
    /\ LastCommitUndone \/ UNCHANGED <<current, audit>>
    /\ journal' = FALSE
    /\ lock' = NoProc
    /\ \E kept \in SUBSET {g \in Gens : name[g] # durable[g]} :
         name' = [g \in Gens |-> IF g \in kept THEN name[g] ELSE durable[g]]
    /\ durable' = name'
    /\ good' \in [Gens -> SUBSET Parts]
    /\ \A g \in Gens : safe[g] \subseteq good'[g] /\ good'[g] \subseteq good[g]
    /\ safe' = good'
    /\ pc'     = [p \in Procs |-> "idle"]
    /\ mine'   = [p \in Procs |-> NoGen]
    /\ seen'   = [p \in Procs |-> NoRef]
    /\ todo'   = [p \in Procs |-> {}]
    /\ victim' = [p \in Procs |-> NoGen]
    /\ UNCHANGED <<hurt, tryVars>>

-----------------------------------------------------------------------------
Publish(p) ==
    \/ PublishStart(p) \/ PublishBusy(p) \/ PublishConflict(p) \/ PublishBegin(p)
    \/ RecoverGone(p) \/ RecoverEmpty(p) \/ RecoverRemove(p)
    \/ StageCreate(p) \/ StageWrite(p) \/ StageSync(p)
    \/ Rename(p) \/ RenameSync(p) \/ Insert(p) \/ Commit(p) \/ PublishReturn(p)
    \/ PublishFail(p) \/ KeepCommitted(p)
    \/ CleanBegin(p) \/ CleanEmpty(p) \/ CleanRemove(p) \/ CleanStop(p)

Recall(p) ==
    \/ RecallStart(p) \/ RecallNothing(p) \/ RecallBegin(p)
    \/ RecallMeta(p) \/ RecallFiles(p) \/ RecallDecide(p)
    \/ RecallCommit(p) \/ RecallReturn(p) \/ RecallReject(p)

Next ==
    \/ \E p \in Procs : Publish(p) \/ Recall(p) \/ Kill(p)
    \/ Damage
    \/ PowerFailure

Spec == Init /\ [][Next]_vars

\* What a process does unless something fails: the steps of the two operations,
\* the busy timeout, and the failures its own reads force on it.
Advance(p) ==
    \/ PublishBusy(p) \/ PublishConflict(p) \/ PublishBegin(p)
    \/ RecoverGone(p) \/ RecoverEmpty(p) \/ RecoverRemove(p)
    \/ /\ pc[p] = "recover" /\ victim[p] # NoGen /\ name[victim[p]] = "none"
       /\ PublishFail(p)
    \/ StageCreate(p) \/ StageWrite(p) \/ StageSync(p)
    \/ Rename(p) \/ RenameSync(p) \/ Insert(p) \/ Commit(p) \/ PublishReturn(p)
    \/ KeepCommitted(p) \/ CleanBegin(p) \/ CleanEmpty(p) \/ CleanRemove(p)
    \/ pc[p] = "clean" /\ name[mine[p]] = "none" /\ CleanStop(p)
    \/ RecallNothing(p) \/ RecallBegin(p)
    \/ RecallMeta(p) \/ RecallFiles(p) \/ RecallDecide(p)
    \/ RecallCommit(p) \/ RecallReturn(p)
    \/ pc[p] = "rmeta" /\ ~Intact(p, "meta") /\ RecallReject(p)
    \/ pc[p] = "rfiles" /\ ~Intact(p, "files") /\ RecallReject(p)

\* A process that is not killed keeps executing its program.
FairSpec == Spec /\ \A p \in Procs : WF_vars(Advance(p))

-----------------------------------------------------------------------------
(* Properties *)

\* Type correctness of the store, the directories and the processes' locals; a
\* process holds a generation id exactly while it publishes.
TypeOK ==
    /\ current \in Refs \cup {NoRef}
    /\ audit \subseteq Refs
    /\ journal \in BOOLEAN
    /\ lock \in Procs \cup {NoProc}
    /\ name \in [Gens -> Entries] /\ durable \in [Gens -> Entries]
    /\ good \in [Gens -> SUBSET Parts] /\ safe \in [Gens -> SUBSET Parts]
    /\ hurt \subseteq Gens
    /\ used \subseteq Gens
    /\ basis \in [Gens -> Gens \cup {NoGen}]
    /\ told \in [Gens -> Answers]
    /\ pc \in [Procs -> PCs]
    /\ mine \in [Procs -> Gens \cup {NoGen}]
    /\ seen \in [Procs -> Refs \cup {NoRef}]
    /\ todo \in [Procs -> SUBSET Gens]
    /\ victim \in [Procs -> Gens \cup {NoGen}]
    /\ outages \in Nat
    /\ \A p \in Procs : mine[p] # NoGen <=> pc[p] \in PublishPCs

\* Every generation the database names is on disk under its own name, durably,
\* with all its signed parts, unless something outside the program damaged it:
\* no crash, power failure, orphan recovery or clean-up breaks one (publish
\* syncs, renames and commits in that order; recovery reads the audit).
CommittedIntact ==
    \A g \in Committed :
      /\ name[g] = "final" /\ durable[g] = "final"
      /\ g \notin hurt => good[g] = Parts /\ safe[g] = Parts

\* The audit is one line of history: sequences 1, 2, ... without gap or repeat,
\* no generation twice, and the current reference is its last row.
AuditLinear ==
    /\ \A r \in audit : r.seq <= current.seq
    /\ \A r, s \in audit : r.seq = s.seq \/ r.gen = s.gen => r = s
    /\ \A n \in 1..current.seq : \E r \in audit : r.seq = n
    /\ current \in audit \cup {NoRef}

\* Compare-and-swap: each publication follows exactly the reference its caller
\* expected, so two writers never both build on one reference and a stale
\* writer never replaces what it has not seen.
NoLostUpdate ==
    \A r \in audit :
      IF r.seq = 1 THEN basis[r.gen] = NoGen
      ELSE [gen |-> basis[r.gen], seq |-> r.seq - 1] \in audit

\* What p is about to delete.
Targets(p) ==
    todo[p] \cup {victim[p]} \cup (IF pc[p] = "clean" THEN {mine[p]} ELSE {})

\* Neither orphan recovery (under the lock) nor the clean-up of a failed publish
\* (without it) is ever about to delete a committed generation, or the directory
\* another publisher is building.
RemovalSpares ==
    \A p \in Procs :
      /\ Targets(p) \cap Committed = {}
      /\ \A q \in Procs \ {p} : pc[q] \in PublishLocked => mine[q] \notin Targets(p)

\* Once a publisher has recovered and until it commits or fails, no directory
\* is left but committed ones and its own: crashes leave no lasting garbage.
NoOrphansLeft ==
    \A p \in Procs : pc[p] \in PublishLocked \ {"recover"} =>
      \A g \in Gens : name[g] # "none" => g \in Committed \cup {mine[p]}

\* From BEGIN IMMEDIATE to COMMIT the reference a publish compared or a recall
\* read stays the current one: what a recall approves is current at its commit.
ReadStaysCurrent ==
    \A p \in Procs : pc[p] \in PublishLocked \cup RecallLocked => seen[p] = current

\* What callers were told: an accepted publication stays committed, and one
\* refused for a reference conflict has left neither row nor directory.
AnswersHold ==
    \A g \in Gens :
      /\ told[g] = "accepted" => g \in Committed
      /\ told[g] = "conflict" => g \notin Committed /\ name[g] = "none"

\* Whoever takes the write lock gives it back, whatever fails or is killed.
LockIsReturned == \A p \in Procs : lock = p ~> lock # p

\* Every operation that begins comes to an end.
OperationsEnd == \A p \in Procs : pc[p] # "idle" ~> pc[p] = "idle"
-----------------------------------------------------------------------------
(* The abstract specification *)

\* The audit, read in the order of its sequence column.
History ==
    [n \in 1..current.seq |-> CHOOSE g \in Gens : [gen |-> g, seq |-> n] \in audit]

Log == INSTANCE PublicationLog WITH
    log <- History, wants <- basis, undoable <- journal, MayUndo <- JournalMayReturn

\* The store implements the publication log: one winner per expected reference,
\* answers that match the log, nothing taken back but the last publication by a
\* power failure.
ImplementsLog == Log!Spec

=============================================================================
