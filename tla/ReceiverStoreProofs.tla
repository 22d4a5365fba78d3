------------------------- MODULE ReceiverStoreProofs -------------------------
(***************************************************************************)
(* Theorems about ReceiverStore, for every set of processes, every set of  *)
(* generation ids and every number of power failures.                      *)
(*                                                                         *)
(* None of the properties is inductive alone.  The inductive invariant     *)
(* IInv adds who holds the lock (LockInv), which generation ids can be in  *)
(* play (DistinctInv, UsedInv, UncommittedInv), when a process has         *)
(* something to delete (LocalInv, RecoverInv), what it read when it took   *)
(* the lock (ReadInv), how far its directory has got (BuildInv), and that  *)
(* there is a commit to undo while one can be undone (UndoInv).  Each part *)
(* has a lemma; IndNext puts them together.                                *)
(*                                                                         *)
(* That the store implements PublicationLog is argued in three parts.      *)
(* History is a sequence without gaps whose last entry is the current      *)
(* reference, because AuditLinear says so of the audit (HistoryIsLog).     *)
(* Every step of the store changes the database, the expectations and the  *)
(* answers in one of six ways (Effects).  Each of them is a step of the    *)
(* log, or none of its state changes (StepIsLogged).  All of it holds      *)
(* whether or not a power failure can bring back the last journal.         *)
(***************************************************************************)
EXTENDS ReceiverStore, SequenceTheorems, TLAPS

USE ConstantsAssumption DEF ConstantsAssumption

Locked   == PublishLocked \cup RecallLocked
Building == PublishLocked \cup {"begin", "clean"}

\* The lock is held by whoever is inside a transaction.
LockInv == \A p \in Procs : lock = p <=> pc[p] \in Locked

\* No two processes publish the same generation.
DistinctInv ==
    \A p, q \in Procs : p # q /\ mine[p] # NoGen => mine[p] # mine[q]

\* Only drawn generation ids are ever named.
UsedInv ==
    /\ \A p \in Procs : mine[p] \in used \cup {NoGen}
    /\ Committed \subseteq used
    /\ \A g \in Gens : name[g] # "none" \/ durable[g] # "none" => g \in used

\* Until its commit, and once its audit lookup found nothing, a publisher's
\* generation is not committed.
UncommittedInv ==
    \A p \in Procs : pc[p] \in Building => mine[p] \notin Committed

\* Only recovery has a list, and only recovery and clean-up a victim.
LocalInv ==
    \A p \in Procs :
      /\ todo[p] # {} => pc[p] = "recover"
      /\ victim[p] # NoGen => \/ pc[p] = "recover" /\ victim[p] \in todo[p]
                              \/ pc[p] = "clean" /\ victim[p] = mine[p]

\* Inside a transaction the reference read is the current one, and it is the
\* one a publisher's caller expected.
ReadInv ==
    \A p \in Procs :
      /\ pc[p] \in Locked => seen[p] = current
      /\ pc[p] \in PublishLocked => basis[mine[p]] = current.gen

\* Recovery's list has every uncommitted directory and no committed one.
RecoverInv ==
    \A p \in Procs : pc[p] = "recover" =>
      /\ todo[p] \cap Committed = {}
      /\ \A g \in Gens : name[g] # "none" => g \in Committed \cup todo[p]

\* How far the directory of a publisher has got.
BuildInv ==
    \A p \in Procs :
      /\ pc[p] \in {"write", "staged"} => name[mine[p]] = "stage"
      /\ pc[p] \in {"renamed", "synced", "inserted"} => name[mine[p]] = "final"
      /\ pc[p] \in {"synced", "inserted"} => durable[mine[p]] = "final"
      /\ pc[p] \in {"staged", "renamed", "synced", "inserted"} =>
           good[mine[p]] = Parts /\ safe[mine[p]] = Parts

\* There is a commit to undo as long as its journal may return.
UndoInv == journal => current # NoRef

IInv ==
    /\ TypeOK /\ LockInv /\ DistinctInv /\ UsedInv /\ UncommittedInv /\ LocalInv
    /\ ReadInv /\ RecoverInv /\ BuildInv /\ UndoInv
    /\ CommittedIntact /\ NoOrphansLeft /\ AuditLinear /\ NoLostUpdate

-----------------------------------------------------------------------------
(* Type correctness of every reachable state. *)
LEMMA TypeInit == Init => TypeOK
<1> SUFFICES ASSUME Init PROVE TypeOK
  OBVIOUS
<1> USE DEF Init
<1>1. current \in Refs \cup {NoRef} /\ audit \subseteq Refs /\ journal \in BOOLEAN
  OBVIOUS
<1>2. lock \in Procs \cup {NoProc} /\ hurt \subseteq Gens /\ used \subseteq Gens /\ outages \in Nat
  OBVIOUS
<1>3. name \in [Gens -> Entries] /\ durable \in [Gens -> Entries] /\ told \in [Gens -> Answers]
  BY DEF Entries, Answers
<1>4. good \in [Gens -> SUBSET Parts] /\ safe \in [Gens -> SUBSET Parts]
  OBVIOUS
<1>5. basis \in [Gens -> Gens \cup {NoGen}]
  OBVIOUS
<1>6. pc \in [Procs -> PCs]
  BY DEF PCs
<1>7. /\ mine \in [Procs -> Gens \cup {NoGen}]
      /\ seen \in [Procs -> Refs \cup {NoRef}]
      /\ todo \in [Procs -> SUBSET Gens]
      /\ victim \in [Procs -> Gens \cup {NoGen}]
  OBVIOUS
<1>8. \A p \in Procs : mine[p] # NoGen <=> pc[p] \in PublishPCs
  BY DEF PublishPCs, PublishLocked
<1> QED
  BY <1>1, <1>2, <1>3, <1>4, <1>5, <1>6, <1>7, <1>8 DEF TypeOK

\* Every step keeps the state well typed.
LEMMA TypeNext == TypeOK /\ [Next]_vars => TypeOK'
<1> SUFFICES ASSUME TypeOK, [Next]_vars PROVE TypeOK'
  OBVIOUS
<1> USE DEF TypeOK, Refs, NoRef, Entries, Parts, Answers
<1>1. ASSUME NEW p \in Procs, Publish(p) \/ Recall(p) \/ Kill(p) PROVE TypeOK'
  <2>1. CASE PublishStart(p)
    BY <2>1 DEF PublishStart, Goto, dbVars, diskVars, world, PCs, PublishPCs,
            PublishLocked, RecallLocked
  <2>2. CASE PublishBusy(p)
    BY <2>2 DEF PublishBusy, Finish, Tell, dbVars, diskVars, world, PCs, PublishPCs,
            PublishLocked, RecallLocked
  <2>3. CASE PublishConflict(p)
    BY <2>3 DEF PublishConflict, Finish, Tell, dbVars, diskVars, world, PCs, PublishPCs,
            PublishLocked, RecallLocked
  <2>4. CASE PublishBegin(p)
    BY <2>4 DEF PublishBegin, Goto, Abandoned, dbVars, diskVars, tryVars, world, PCs,
            PublishPCs, PublishLocked, RecallLocked
  <2>5. CASE RecoverGone(p)
    BY <2>5 DEF RecoverGone, dbVars, diskVars, tryVars, world, PCs, PublishPCs,
            PublishLocked, RecallLocked
  <2>6. CASE RecoverEmpty(p)
    BY <2>6 DEF RecoverEmpty, EmptyTree, dbVars, tryVars, world, PCs, PublishPCs,
            PublishLocked, RecallLocked
  <2>7. CASE RecoverRemove(p)
    BY <2>7 DEF RecoverRemove, RemoveEntry, dbVars, tryVars, world, SyncEntries, PCs,
            PublishPCs, PublishLocked, RecallLocked
  <2>8. CASE StageCreate(p)
    BY <2>8 DEF StageCreate, Goto, dbVars, tryVars, locals, world, PCs, PublishPCs,
            PublishLocked, RecallLocked
  <2>9. CASE StageWrite(p)
    BY <2>9 DEF StageWrite, dbVars, tryVars, locals, world, PCs, PublishPCs, PublishLocked,
            RecallLocked
  <2>10. CASE StageSync(p)
    BY <2>10 DEF StageSync, Goto, SyncEntries, dbVars, tryVars, locals, world, PCs,
            PublishPCs, PublishLocked, RecallLocked
  <2>11. CASE Rename(p)
    BY <2>11 DEF Rename, Goto, dbVars, tryVars, locals, world, PCs, PublishPCs,
            PublishLocked, RecallLocked
  <2>12. CASE RenameSync(p)
    BY <2>12 DEF RenameSync, Goto, SyncEntries, dbVars, tryVars, locals, world, PCs,
            PublishPCs, PublishLocked, RecallLocked
  <2>13. CASE Insert(p)
    BY <2>13 DEF Insert, Goto, RowOf, dbVars, diskVars, tryVars, locals, world, PCs,
            PublishPCs, PublishLocked, RecallLocked
  <2>14. CASE Commit(p)
    BY <2>14 DEF Commit, Goto, RowOf, diskVars, tryVars, locals, world, PCs, PublishPCs,
            PublishLocked, RecallLocked
  <2>15. CASE PublishReturn(p)
    BY <2>15 DEF PublishReturn, Finish, Tell, dbVars, diskVars, world, PCs, PublishPCs,
            PublishLocked, RecallLocked
  <2>16. CASE PublishFail(p)
    BY <2>16 DEF PublishFail, Release, dbVars, diskVars, tryVars, world, PCs, PublishPCs,
            PublishLocked, RecallLocked
  <2>17. CASE KeepCommitted(p)
    BY <2>17 DEF KeepCommitted, Finish, Tell, dbVars, diskVars, world, PCs, PublishPCs,
            PublishLocked, RecallLocked
  <2>18. CASE CleanBegin(p)
    BY <2>18 DEF CleanBegin, Goto, dbVars, diskVars, tryVars, locals, world, PCs,
            PublishPCs, PublishLocked, RecallLocked
  <2>19. CASE CleanEmpty(p)
    BY <2>19 DEF CleanEmpty, EmptyTree, dbVars, tryVars, world, PCs, PublishPCs,
            PublishLocked, RecallLocked
  <2>20. CASE CleanRemove(p)
    BY <2>20 DEF CleanRemove, Finish, Tell, RemoveEntry, dbVars, world, SyncEntries, PCs,
            PublishPCs, PublishLocked, RecallLocked
  <2>21. CASE CleanStop(p)
    BY <2>21 DEF CleanStop, Finish, Tell, dbVars, diskVars, world, PCs, PublishPCs,
            PublishLocked, RecallLocked
  <2>22. CASE RecallStart(p)
    BY <2>22 DEF RecallStart, Goto, dbVars, diskVars, tryVars, locals, world, PCs,
            PublishPCs, PublishLocked, RecallLocked
  <2>23. CASE RecallNothing(p)
    BY <2>23 DEF RecallNothing, Finish, dbVars, diskVars, tryVars, world, PCs, PublishPCs,
            PublishLocked, RecallLocked
  <2>24. CASE RecallBegin(p)
    BY <2>24 DEF RecallBegin, Goto, dbVars, diskVars, tryVars, world, PCs, PublishPCs,
            PublishLocked, RecallLocked
  <2>25. CASE RecallMeta(p)
    BY <2>25 DEF RecallMeta, Goto, Intact, dbVars, diskVars, tryVars, locals, world, PCs,
            PublishPCs, PublishLocked, RecallLocked
  <2>26. CASE RecallFiles(p)
    BY <2>26 DEF RecallFiles, Goto, Intact, dbVars, diskVars, tryVars, locals, world, PCs,
            PublishPCs, PublishLocked, RecallLocked
  <2>27. CASE RecallDecide(p)
    BY <2>27 DEF RecallDecide, Goto, dbVars, diskVars, tryVars, locals, world, PCs,
            PublishPCs, PublishLocked, RecallLocked
  <2>28. CASE RecallCommit(p)
    BY <2>28 DEF RecallCommit, Goto, dbVars, diskVars, tryVars, locals, world, PCs,
            PublishPCs, PublishLocked, RecallLocked
  <2>29. CASE RecallReturn(p)
    BY <2>29 DEF RecallReturn, Finish, dbVars, diskVars, tryVars, world, PCs, PublishPCs,
            PublishLocked, RecallLocked
  <2>30. CASE RecallReject(p)
    BY <2>30 DEF RecallReject, Finish, Release, dbVars, diskVars, tryVars, world, PCs,
            PublishPCs, PublishLocked, RecallLocked, PCs, PublishPCs, PublishLocked,
            RecallLocked
  <2>31. CASE Kill(p)
    BY <2>31 DEF Kill, Finish, Release, dbVars, diskVars, tryVars, world, PCs, PublishPCs,
            PublishLocked, RecallLocked
  <2> QED
    BY <1>1, <2>1, <2>2, <2>3, <2>4, <2>5, <2>6, <2>7, <2>8, <2>9, <2>10, <2>11, <2>12,
            <2>13, <2>14, <2>15, <2>16, <2>17, <2>18, <2>19, <2>20, <2>21, <2>22, <2>23,
            <2>24, <2>25, <2>26, <2>27, <2>28, <2>29, <2>30, <2>31 DEF Publish, Recall
<1>2. CASE Damage
  <2>1. Committed \subseteq Gens
    BY DEF Committed
  <2>2. PICK g \in Gens : \E part \in good[g] :
           /\ hurt' = hurt \cup {g}
           /\ good' = [good EXCEPT ![g] = @ \ {part}]
           /\ safe' = [safe EXCEPT ![g] = @ \ {part}]
    BY <1>2, <2>1 DEF Damage
  <2>3. hurt' \subseteq Gens /\ good' \in [Gens -> SUBSET Parts] /\ safe' \in [Gens -> SUBSET Parts]
    BY <2>2
  <2> QED
    BY <1>2, <2>3 DEF Damage, dbVars, tryVars, locals
<1>3. CASE PowerFailure
  <2>1. current' \in Refs \cup {NoRef} /\ audit' \subseteq Refs
    BY <1>3 DEF PowerFailure, LastCommitUndone
  <2>2. name' \in [Gens -> Entries] /\ durable' \in [Gens -> Entries]
    BY <1>3 DEF PowerFailure
  <2>3. good' \in [Gens -> SUBSET Parts] /\ safe' \in [Gens -> SUBSET Parts]
    BY <1>3 DEF PowerFailure
  <2>4. pc' \in [Procs -> PCs] /\ \A p \in Procs : mine'[p] # NoGen <=> pc'[p] \in PublishPCs
    BY <1>3 DEF PowerFailure, PCs, PublishPCs, PublishLocked
  <2>5. /\ mine' \in [Procs -> Gens \cup {NoGen}]
        /\ seen' \in [Procs -> Refs \cup {NoRef}]
        /\ todo' \in [Procs -> SUBSET Gens]
        /\ victim' \in [Procs -> Gens \cup {NoGen}]
    BY <1>3 DEF PowerFailure
  <2>6. journal' \in BOOLEAN /\ lock' \in Procs \cup {NoProc}
    BY <1>3 DEF PowerFailure
  <2>7. outages' \in Nat
    BY <1>3 DEF PowerFailure
  <2>8. /\ hurt' \subseteq Gens /\ used' \subseteq Gens
        /\ basis' \in [Gens -> Gens \cup {NoGen}] /\ told' \in [Gens -> Answers]
    BY <1>3 DEF PowerFailure, tryVars, world
  <2> QED
    BY <2>1, <2>2, <2>3, <2>4, <2>5, <2>6, <2>7, <2>8
<1>4. CASE UNCHANGED vars
  BY <1>4 DEF vars, dbVars, diskVars, tryVars, locals, world
<1> QED
  BY <1>1, <1>2, <1>3, <1>4 DEF Next

(* The lock is taken and given back together with the transaction. *)
LEMMA LockNext ==
  ASSUME TypeOK, TypeOK', LockInv, [Next]_vars
  PROVE  LockInv'
<1> USE DEF LockInv, TypeOK, Locked, PublishLocked, RecallLocked
<1>1. ASSUME NEW p \in Procs, Publish(p) \/ Recall(p) \/ Kill(p) PROVE LockInv'
  <2>1. CASE PublishStart(p)
    BY <2>1 DEF PublishStart, Goto, dbVars, diskVars, world
  <2>2. CASE PublishBusy(p)
    BY <2>2 DEF PublishBusy, Finish, Tell, dbVars, diskVars, world
  <2>3. CASE PublishConflict(p)
    BY <2>3 DEF PublishConflict, Finish, Tell, dbVars, diskVars, world
  <2>4. CASE PublishBegin(p)
    BY <2>4 DEF PublishBegin, Goto, Abandoned, dbVars, diskVars, tryVars, world
  <2>5. CASE RecoverGone(p)
    BY <2>5 DEF RecoverGone, dbVars, diskVars, tryVars, world
  <2>6. CASE RecoverEmpty(p)
    BY <2>6 DEF RecoverEmpty, EmptyTree, dbVars, tryVars, world
  <2>7. CASE RecoverRemove(p)
    BY <2>7 DEF RecoverRemove, RemoveEntry, dbVars, tryVars, world, SyncEntries
  <2>8. CASE StageCreate(p)
    BY <2>8 DEF StageCreate, Goto, dbVars, tryVars, locals, world
  <2>9. CASE StageWrite(p)
    BY <2>9 DEF StageWrite, dbVars, tryVars, locals, world
  <2>10. CASE StageSync(p)
    BY <2>10 DEF StageSync, Goto, SyncEntries, dbVars, tryVars, locals, world
  <2>11. CASE Rename(p)
    BY <2>11 DEF Rename, Goto, dbVars, tryVars, locals, world
  <2>12. CASE RenameSync(p)
    BY <2>12 DEF RenameSync, Goto, SyncEntries, dbVars, tryVars, locals, world
  <2>13. CASE Insert(p)
    BY <2>13 DEF Insert, Goto, RowOf, dbVars, diskVars, tryVars, locals, world
  <2>14. CASE Commit(p)
    BY <2>14 DEF Commit, Goto, RowOf, diskVars, tryVars, locals, world
  <2>15. CASE PublishReturn(p)
    BY <2>15 DEF PublishReturn, Finish, Tell, dbVars, diskVars, world
  <2>16. CASE PublishFail(p)
    BY <2>16 DEF PublishFail, Release, dbVars, diskVars, tryVars, world
  <2>17. CASE KeepCommitted(p)
    BY <2>17 DEF KeepCommitted, Finish, Tell, dbVars, diskVars, world
  <2>18. CASE CleanBegin(p)
    BY <2>18 DEF CleanBegin, Goto, dbVars, diskVars, tryVars, locals, world
  <2>19. CASE CleanEmpty(p)
    BY <2>19 DEF CleanEmpty, EmptyTree, dbVars, tryVars, world
  <2>20. CASE CleanRemove(p)
    BY <2>20 DEF CleanRemove, Finish, Tell, RemoveEntry, dbVars, world, SyncEntries
  <2>21. CASE CleanStop(p)
    BY <2>21 DEF CleanStop, Finish, Tell, dbVars, diskVars, world
  <2>22. CASE RecallStart(p)
    BY <2>22 DEF RecallStart, Goto, dbVars, diskVars, tryVars, locals, world
  <2>23. CASE RecallNothing(p)
    BY <2>23 DEF RecallNothing, Finish, dbVars, diskVars, tryVars, world
  <2>24. CASE RecallBegin(p)
    BY <2>24 DEF RecallBegin, Goto, dbVars, diskVars, tryVars, world
  <2>25. CASE RecallMeta(p)
    BY <2>25 DEF RecallMeta, Goto, Intact, dbVars, diskVars, tryVars, locals, world
  <2>26. CASE RecallFiles(p)
    BY <2>26 DEF RecallFiles, Goto, Intact, dbVars, diskVars, tryVars, locals, world
  <2>27. CASE RecallDecide(p)
    BY <2>27 DEF RecallDecide, Goto, dbVars, diskVars, tryVars, locals, world
  <2>28. CASE RecallCommit(p)
    BY <2>28 DEF RecallCommit, Goto, dbVars, diskVars, tryVars, locals, world
  <2>29. CASE RecallReturn(p)
    BY <2>29 DEF RecallReturn, Finish, dbVars, diskVars, tryVars, world
  <2>30. CASE RecallReject(p)
    BY <2>30 DEF RecallReject, Finish, Release, dbVars, diskVars, tryVars, world
  <2>31. CASE Kill(p)
    BY <2>31 DEF Kill, Finish, Release, dbVars, diskVars, tryVars, world
  <2> QED
    BY <1>1, <2>1, <2>2, <2>3, <2>4, <2>5, <2>6, <2>7, <2>8, <2>9, <2>10, <2>11, <2>12,
            <2>13, <2>14, <2>15, <2>16, <2>17, <2>18, <2>19, <2>20, <2>21, <2>22, <2>23,
            <2>24, <2>25, <2>26, <2>27, <2>28, <2>29, <2>30, <2>31 DEF Publish, Recall
<1>2. CASE Damage
  BY <1>2 DEF Damage, dbVars, tryVars, locals
<1>3. CASE PowerFailure
  BY <1>3 DEF PowerFailure, LastCommitUndone, tryVars
<1>4. CASE UNCHANGED vars
  BY <1>4 DEF vars, dbVars, diskVars, tryVars, locals, world
<1> QED
  BY <1>1, <1>2, <1>3, <1>4 DEF Next

(* Generation ids are fresh, so attempts never share one. *)
LEMMA UsedNext ==
  ASSUME TypeOK, TypeOK', DistinctInv, UsedInv, [Next]_vars
  PROVE  (DistinctInv /\ UsedInv)'
<1> USE DEF DistinctInv, UsedInv, TypeOK, Committed, Refs, NoRef, PublishPCs, PublishLocked
<1>1. ASSUME NEW p \in Procs, Publish(p) \/ Recall(p) \/ Kill(p) PROVE (DistinctInv /\ UsedInv)'
  <2>1. CASE PublishStart(p)
    BY <2>1 DEF PublishStart, Goto, dbVars, diskVars, world
  <2>2. CASE PublishBusy(p)
    BY <2>2 DEF PublishBusy, Finish, Tell, dbVars, diskVars, world
  <2>3. CASE PublishConflict(p)
    BY <2>3 DEF PublishConflict, Finish, Tell, dbVars, diskVars, world
  <2>4. CASE PublishBegin(p)
    BY <2>4 DEF PublishBegin, Goto, Abandoned, dbVars, diskVars, tryVars, world
  <2>5. CASE RecoverGone(p)
    BY <2>5 DEF RecoverGone, dbVars, diskVars, tryVars, world
  <2>6. CASE RecoverEmpty(p)
    BY <2>6 DEF RecoverEmpty, EmptyTree, dbVars, tryVars, world
  <2>7. CASE RecoverRemove(p)
    BY <2>7 DEF RecoverRemove, RemoveEntry, dbVars, tryVars, world, SyncEntries
  <2>8. CASE StageCreate(p)
    BY <2>8 DEF StageCreate, Goto, dbVars, tryVars, locals, world
  <2>9. CASE StageWrite(p)
    BY <2>9 DEF StageWrite, dbVars, tryVars, locals, world
  <2>10. CASE StageSync(p)
    BY <2>10 DEF StageSync, Goto, SyncEntries, dbVars, tryVars, locals, world
  <2>11. CASE Rename(p)
    BY <2>11 DEF Rename, Goto, dbVars, tryVars, locals, world
  <2>12. CASE RenameSync(p)
    BY <2>12 DEF RenameSync, Goto, SyncEntries, dbVars, tryVars, locals, world
  <2>13. CASE Insert(p)
    BY <2>13 DEF Insert, Goto, RowOf, dbVars, diskVars, tryVars, locals, world
  <2>14. CASE Commit(p)
    BY <2>14 DEF Commit, Goto, RowOf, diskVars, tryVars, locals, world
  <2>15. CASE PublishReturn(p)
    BY <2>15 DEF PublishReturn, Finish, Tell, dbVars, diskVars, world
  <2>16. CASE PublishFail(p)
    BY <2>16 DEF PublishFail, Release, dbVars, diskVars, tryVars, world
  <2>17. CASE KeepCommitted(p)
    BY <2>17 DEF KeepCommitted, Finish, Tell, dbVars, diskVars, world
  <2>18. CASE CleanBegin(p)
    BY <2>18 DEF CleanBegin, Goto, dbVars, diskVars, tryVars, locals, world
  <2>19. CASE CleanEmpty(p)
    BY <2>19 DEF CleanEmpty, EmptyTree, dbVars, tryVars, world
  <2>20. CASE CleanRemove(p)
    BY <2>20 DEF CleanRemove, Finish, Tell, RemoveEntry, dbVars, world, SyncEntries
  <2>21. CASE CleanStop(p)
    BY <2>21 DEF CleanStop, Finish, Tell, dbVars, diskVars, world
  <2>22. CASE RecallStart(p)
    BY <2>22 DEF RecallStart, Goto, dbVars, diskVars, tryVars, locals, world
  <2>23. CASE RecallNothing(p)
    BY <2>23 DEF RecallNothing, Finish, dbVars, diskVars, tryVars, world
  <2>24. CASE RecallBegin(p)
    BY <2>24 DEF RecallBegin, Goto, dbVars, diskVars, tryVars, world
  <2>25. CASE RecallMeta(p)
    BY <2>25 DEF RecallMeta, Goto, Intact, dbVars, diskVars, tryVars, locals, world
  <2>26. CASE RecallFiles(p)
    BY <2>26 DEF RecallFiles, Goto, Intact, dbVars, diskVars, tryVars, locals, world
  <2>27. CASE RecallDecide(p)
    BY <2>27 DEF RecallDecide, Goto, dbVars, diskVars, tryVars, locals, world
  <2>28. CASE RecallCommit(p)
    BY <2>28 DEF RecallCommit, Goto, dbVars, diskVars, tryVars, locals, world
  <2>29. CASE RecallReturn(p)
    BY <2>29 DEF RecallReturn, Finish, dbVars, diskVars, tryVars, world
  <2>30. CASE RecallReject(p)
    BY <2>30 DEF RecallReject, Finish, Release, dbVars, diskVars, tryVars, world
  <2>31. CASE Kill(p)
    BY <2>31 DEF Kill, Finish, Release, dbVars, diskVars, tryVars, world
  <2> QED
    BY <1>1, <2>1, <2>2, <2>3, <2>4, <2>5, <2>6, <2>7, <2>8, <2>9, <2>10, <2>11, <2>12,
            <2>13, <2>14, <2>15, <2>16, <2>17, <2>18, <2>19, <2>20, <2>21, <2>22, <2>23,
            <2>24, <2>25, <2>26, <2>27, <2>28, <2>29, <2>30, <2>31 DEF Publish, Recall
<1>2. CASE Damage
  BY <1>2 DEF Damage, dbVars, tryVars, locals
<1>3. CASE PowerFailure
  BY <1>3 DEF PowerFailure, LastCommitUndone, tryVars
<1>4. CASE UNCHANGED vars
  BY <1>4 DEF vars, dbVars, diskVars, tryVars, locals, world
<1> QED
  BY <1>1, <1>2, <1>3, <1>4 DEF Next

(* A commit adds the committer's generation and nobody else's. *)
LEMMA UncommittedNext ==
  ASSUME TypeOK, TypeOK', LockInv, DistinctInv, UsedInv, AuditLinear, UncommittedInv,
      [Next]_vars
  PROVE  UncommittedInv'
<1> USE DEF AuditLinear, UncommittedInv, DistinctInv, UsedInv, TypeOK, Committed, Building,
        Refs, NoRef, PublishPCs, PublishLocked
<1>1. ASSUME NEW p \in Procs, Publish(p) \/ Recall(p) \/ Kill(p) PROVE UncommittedInv'
  <2>1. CASE PublishStart(p)
    BY <2>1 DEF PublishStart, Goto, dbVars, diskVars, world
  <2>2. CASE PublishBusy(p)
    BY <2>2 DEF PublishBusy, Finish, Tell, dbVars, diskVars, world
  <2>3. CASE PublishConflict(p)
    BY <2>3 DEF PublishConflict, Finish, Tell, dbVars, diskVars, world
  <2>4. CASE PublishBegin(p)
    BY <2>4 DEF PublishBegin, Goto, Abandoned, dbVars, diskVars, tryVars, world
  <2>5. CASE RecoverGone(p)
    BY <2>5 DEF RecoverGone, dbVars, diskVars, tryVars, world
  <2>6. CASE RecoverEmpty(p)
    BY <2>6 DEF RecoverEmpty, EmptyTree, dbVars, tryVars, world
  <2>7. CASE RecoverRemove(p)
    BY <2>7 DEF RecoverRemove, RemoveEntry, dbVars, tryVars, world, SyncEntries
  <2>8. CASE StageCreate(p)
    BY <2>8 DEF StageCreate, Goto, dbVars, tryVars, locals, world
  <2>9. CASE StageWrite(p)
    BY <2>9 DEF StageWrite, dbVars, tryVars, locals, world
  <2>10. CASE StageSync(p)
    BY <2>10 DEF StageSync, Goto, SyncEntries, dbVars, tryVars, locals, world
  <2>11. CASE Rename(p)
    BY <2>11 DEF Rename, Goto, dbVars, tryVars, locals, world
  <2>12. CASE RenameSync(p)
    BY <2>12 DEF RenameSync, Goto, SyncEntries, dbVars, tryVars, locals, world
  <2>13. CASE Insert(p)
    BY <2>13 DEF Insert, Goto, RowOf, dbVars, diskVars, tryVars, locals, world
  <2>14. CASE Commit(p)
    BY <2>14 DEF Commit, Goto, RowOf, diskVars, tryVars, locals, world
  <2>15. CASE PublishReturn(p)
    BY <2>15 DEF PublishReturn, Finish, Tell, dbVars, diskVars, world
  <2>16. CASE PublishFail(p)
    BY <2>16 DEF PublishFail, Release, dbVars, diskVars, tryVars, world
  <2>17. CASE KeepCommitted(p)
    BY <2>17 DEF KeepCommitted, Finish, Tell, dbVars, diskVars, world
  <2>18. CASE CleanBegin(p)
    BY <2>18 DEF CleanBegin, Goto, dbVars, diskVars, tryVars, locals, world
  <2>19. CASE CleanEmpty(p)
    BY <2>19 DEF CleanEmpty, EmptyTree, dbVars, tryVars, world
  <2>20. CASE CleanRemove(p)
    BY <2>20 DEF CleanRemove, Finish, Tell, RemoveEntry, dbVars, world, SyncEntries
  <2>21. CASE CleanStop(p)
    BY <2>21 DEF CleanStop, Finish, Tell, dbVars, diskVars, world
  <2>22. CASE RecallStart(p)
    BY <2>22 DEF RecallStart, Goto, dbVars, diskVars, tryVars, locals, world
  <2>23. CASE RecallNothing(p)
    BY <2>23 DEF RecallNothing, Finish, dbVars, diskVars, tryVars, world
  <2>24. CASE RecallBegin(p)
    BY <2>24 DEF RecallBegin, Goto, dbVars, diskVars, tryVars, world
  <2>25. CASE RecallMeta(p)
    BY <2>25 DEF RecallMeta, Goto, Intact, dbVars, diskVars, tryVars, locals, world
  <2>26. CASE RecallFiles(p)
    BY <2>26 DEF RecallFiles, Goto, Intact, dbVars, diskVars, tryVars, locals, world
  <2>27. CASE RecallDecide(p)
    BY <2>27 DEF RecallDecide, Goto, dbVars, diskVars, tryVars, locals, world
  <2>28. CASE RecallCommit(p)
    BY <2>28 DEF RecallCommit, Goto, dbVars, diskVars, tryVars, locals, world
  <2>29. CASE RecallReturn(p)
    BY <2>29 DEF RecallReturn, Finish, dbVars, diskVars, tryVars, world
  <2>30. CASE RecallReject(p)
    BY <2>30 DEF RecallReject, Finish, Release, dbVars, diskVars, tryVars, world
  <2>31. CASE Kill(p)
    BY <2>31 DEF Kill, Finish, Release, dbVars, diskVars, tryVars, world
  <2> QED
    BY <1>1, <2>1, <2>2, <2>3, <2>4, <2>5, <2>6, <2>7, <2>8, <2>9, <2>10, <2>11, <2>12,
            <2>13, <2>14, <2>15, <2>16, <2>17, <2>18, <2>19, <2>20, <2>21, <2>22, <2>23,
            <2>24, <2>25, <2>26, <2>27, <2>28, <2>29, <2>30, <2>31 DEF Publish, Recall
<1>2. CASE Damage
  BY <1>2 DEF Damage, dbVars, tryVars, locals
<1>3. CASE PowerFailure
  BY <1>3 DEF PowerFailure, LastCommitUndone, tryVars
<1>4. CASE UNCHANGED vars
  BY <1>4 DEF vars, dbVars, diskVars, tryVars, locals, world
<1> QED
  BY <1>1, <1>2, <1>3, <1>4 DEF Next

(* What a process is to delete lives and dies with the step that deletes it. *)
LEMMA LocalNext ==
  ASSUME TypeOK, TypeOK', LocalInv, [Next]_vars
  PROVE  LocalInv'
<1> USE DEF LocalInv, TypeOK, PublishPCs, PublishLocked
<1>1. ASSUME NEW p \in Procs, Publish(p) \/ Recall(p) \/ Kill(p) PROVE LocalInv'
  <2>1. CASE PublishStart(p)
    BY <2>1 DEF PublishStart, Goto, dbVars, diskVars, world
  <2>2. CASE PublishBusy(p)
    BY <2>2 DEF PublishBusy, Finish, Tell, dbVars, diskVars, world
  <2>3. CASE PublishConflict(p)
    BY <2>3 DEF PublishConflict, Finish, Tell, dbVars, diskVars, world
  <2>4. CASE PublishBegin(p)
    BY <2>4 DEF PublishBegin, Goto, Abandoned, dbVars, diskVars, tryVars, world
  <2>5. CASE RecoverGone(p)
    BY <2>5 DEF RecoverGone, dbVars, diskVars, tryVars, world
  <2>6. CASE RecoverEmpty(p)
    BY <2>6 DEF RecoverEmpty, EmptyTree, dbVars, tryVars, world
  <2>7. CASE RecoverRemove(p)
    BY <2>7 DEF RecoverRemove, RemoveEntry, dbVars, tryVars, world, SyncEntries
  <2>8. CASE StageCreate(p)
    BY <2>8 DEF StageCreate, Goto, dbVars, tryVars, locals, world
  <2>9. CASE StageWrite(p)
    BY <2>9 DEF StageWrite, dbVars, tryVars, locals, world
  <2>10. CASE StageSync(p)
    BY <2>10 DEF StageSync, Goto, SyncEntries, dbVars, tryVars, locals, world
  <2>11. CASE Rename(p)
    BY <2>11 DEF Rename, Goto, dbVars, tryVars, locals, world
  <2>12. CASE RenameSync(p)
    BY <2>12 DEF RenameSync, Goto, SyncEntries, dbVars, tryVars, locals, world
  <2>13. CASE Insert(p)
    BY <2>13 DEF Insert, Goto, RowOf, dbVars, diskVars, tryVars, locals, world
  <2>14. CASE Commit(p)
    BY <2>14 DEF Commit, Goto, RowOf, diskVars, tryVars, locals, world
  <2>15. CASE PublishReturn(p)
    BY <2>15 DEF PublishReturn, Finish, Tell, dbVars, diskVars, world
  <2>16. CASE PublishFail(p)
    BY <2>16 DEF PublishFail, Release, dbVars, diskVars, tryVars, world
  <2>17. CASE KeepCommitted(p)
    BY <2>17 DEF KeepCommitted, Finish, Tell, dbVars, diskVars, world
  <2>18. CASE CleanBegin(p)
    BY <2>18 DEF CleanBegin, Goto, dbVars, diskVars, tryVars, locals, world
  <2>19. CASE CleanEmpty(p)
    BY <2>19 DEF CleanEmpty, EmptyTree, dbVars, tryVars, world
  <2>20. CASE CleanRemove(p)
    BY <2>20 DEF CleanRemove, Finish, Tell, RemoveEntry, dbVars, world, SyncEntries
  <2>21. CASE CleanStop(p)
    BY <2>21 DEF CleanStop, Finish, Tell, dbVars, diskVars, world
  <2>22. CASE RecallStart(p)
    BY <2>22 DEF RecallStart, Goto, dbVars, diskVars, tryVars, locals, world
  <2>23. CASE RecallNothing(p)
    BY <2>23 DEF RecallNothing, Finish, dbVars, diskVars, tryVars, world
  <2>24. CASE RecallBegin(p)
    BY <2>24 DEF RecallBegin, Goto, dbVars, diskVars, tryVars, world
  <2>25. CASE RecallMeta(p)
    BY <2>25 DEF RecallMeta, Goto, Intact, dbVars, diskVars, tryVars, locals, world
  <2>26. CASE RecallFiles(p)
    BY <2>26 DEF RecallFiles, Goto, Intact, dbVars, diskVars, tryVars, locals, world
  <2>27. CASE RecallDecide(p)
    BY <2>27 DEF RecallDecide, Goto, dbVars, diskVars, tryVars, locals, world
  <2>28. CASE RecallCommit(p)
    BY <2>28 DEF RecallCommit, Goto, dbVars, diskVars, tryVars, locals, world
  <2>29. CASE RecallReturn(p)
    BY <2>29 DEF RecallReturn, Finish, dbVars, diskVars, tryVars, world
  <2>30. CASE RecallReject(p)
    BY <2>30 DEF RecallReject, Finish, Release, dbVars, diskVars, tryVars, world
  <2>31. CASE Kill(p)
    BY <2>31 DEF Kill, Finish, Release, dbVars, diskVars, tryVars, world
  <2> QED
    BY <1>1, <2>1, <2>2, <2>3, <2>4, <2>5, <2>6, <2>7, <2>8, <2>9, <2>10, <2>11, <2>12,
            <2>13, <2>14, <2>15, <2>16, <2>17, <2>18, <2>19, <2>20, <2>21, <2>22, <2>23,
            <2>24, <2>25, <2>26, <2>27, <2>28, <2>29, <2>30, <2>31 DEF Publish, Recall
<1>2. CASE Damage
  BY <1>2 DEF Damage, dbVars, tryVars, locals
<1>3. CASE PowerFailure
  BY <1>3 DEF PowerFailure, LastCommitUndone, tryVars
<1>4. CASE UNCHANGED vars
  BY <1>4 DEF vars, dbVars, diskVars, tryVars, locals, world
<1> QED
  BY <1>1, <1>2, <1>3, <1>4 DEF Next

(* Nobody else commits while a process holds the lock. *)
LEMMA ReadNext ==
  ASSUME TypeOK, TypeOK', LockInv, DistinctInv, UsedInv, ReadInv, [Next]_vars
  PROVE  ReadInv'
<1> USE DEF ReadInv, LockInv, DistinctInv, UsedInv, TypeOK, Locked, RecallLocked,
        PublishPCs, PublishLocked
<1>1. ASSUME NEW p \in Procs, Publish(p) \/ Recall(p) \/ Kill(p) PROVE ReadInv'
  <2>1. CASE PublishStart(p)
    BY <2>1 DEF PublishStart, Goto, dbVars, diskVars, world
  <2>2. CASE PublishBusy(p)
    BY <2>2 DEF PublishBusy, Finish, Tell, dbVars, diskVars, world
  <2>3. CASE PublishConflict(p)
    BY <2>3 DEF PublishConflict, Finish, Tell, dbVars, diskVars, world
  <2>4. CASE PublishBegin(p)
    BY <2>4 DEF PublishBegin, Goto, Abandoned, dbVars, diskVars, tryVars, world
  <2>5. CASE RecoverGone(p)
    BY <2>5 DEF RecoverGone, dbVars, diskVars, tryVars, world
  <2>6. CASE RecoverEmpty(p)
    BY <2>6 DEF RecoverEmpty, EmptyTree, dbVars, tryVars, world
  <2>7. CASE RecoverRemove(p)
    BY <2>7 DEF RecoverRemove, RemoveEntry, dbVars, tryVars, world, SyncEntries
  <2>8. CASE StageCreate(p)
    BY <2>8 DEF StageCreate, Goto, dbVars, tryVars, locals, world
  <2>9. CASE StageWrite(p)
    BY <2>9 DEF StageWrite, dbVars, tryVars, locals, world
  <2>10. CASE StageSync(p)
    BY <2>10 DEF StageSync, Goto, SyncEntries, dbVars, tryVars, locals, world
  <2>11. CASE Rename(p)
    BY <2>11 DEF Rename, Goto, dbVars, tryVars, locals, world
  <2>12. CASE RenameSync(p)
    BY <2>12 DEF RenameSync, Goto, SyncEntries, dbVars, tryVars, locals, world
  <2>13. CASE Insert(p)
    BY <2>13 DEF Insert, Goto, RowOf, dbVars, diskVars, tryVars, locals, world
  <2>14. CASE Commit(p)
    BY <2>14 DEF Commit, Goto, RowOf, diskVars, tryVars, locals, world
  <2>15. CASE PublishReturn(p)
    BY <2>15 DEF PublishReturn, Finish, Tell, dbVars, diskVars, world
  <2>16. CASE PublishFail(p)
    BY <2>16 DEF PublishFail, Release, dbVars, diskVars, tryVars, world
  <2>17. CASE KeepCommitted(p)
    BY <2>17 DEF KeepCommitted, Finish, Tell, dbVars, diskVars, world
  <2>18. CASE CleanBegin(p)
    BY <2>18 DEF CleanBegin, Goto, dbVars, diskVars, tryVars, locals, world
  <2>19. CASE CleanEmpty(p)
    BY <2>19 DEF CleanEmpty, EmptyTree, dbVars, tryVars, world
  <2>20. CASE CleanRemove(p)
    BY <2>20 DEF CleanRemove, Finish, Tell, RemoveEntry, dbVars, world, SyncEntries
  <2>21. CASE CleanStop(p)
    BY <2>21 DEF CleanStop, Finish, Tell, dbVars, diskVars, world
  <2>22. CASE RecallStart(p)
    BY <2>22 DEF RecallStart, Goto, dbVars, diskVars, tryVars, locals, world
  <2>23. CASE RecallNothing(p)
    BY <2>23 DEF RecallNothing, Finish, dbVars, diskVars, tryVars, world
  <2>24. CASE RecallBegin(p)
    BY <2>24 DEF RecallBegin, Goto, dbVars, diskVars, tryVars, world
  <2>25. CASE RecallMeta(p)
    BY <2>25 DEF RecallMeta, Goto, Intact, dbVars, diskVars, tryVars, locals, world
  <2>26. CASE RecallFiles(p)
    BY <2>26 DEF RecallFiles, Goto, Intact, dbVars, diskVars, tryVars, locals, world
  <2>27. CASE RecallDecide(p)
    BY <2>27 DEF RecallDecide, Goto, dbVars, diskVars, tryVars, locals, world
  <2>28. CASE RecallCommit(p)
    BY <2>28 DEF RecallCommit, Goto, dbVars, diskVars, tryVars, locals, world
  <2>29. CASE RecallReturn(p)
    BY <2>29 DEF RecallReturn, Finish, dbVars, diskVars, tryVars, world
  <2>30. CASE RecallReject(p)
    BY <2>30 DEF RecallReject, Finish, Release, dbVars, diskVars, tryVars, world
  <2>31. CASE Kill(p)
    BY <2>31 DEF Kill, Finish, Release, dbVars, diskVars, tryVars, world
  <2> QED
    BY <1>1, <2>1, <2>2, <2>3, <2>4, <2>5, <2>6, <2>7, <2>8, <2>9, <2>10, <2>11, <2>12,
            <2>13, <2>14, <2>15, <2>16, <2>17, <2>18, <2>19, <2>20, <2>21, <2>22, <2>23,
            <2>24, <2>25, <2>26, <2>27, <2>28, <2>29, <2>30, <2>31 DEF Publish, Recall
<1>2. CASE Damage
  BY <1>2 DEF Damage, dbVars, tryVars, locals
<1>3. CASE PowerFailure
  BY <1>3 DEF PowerFailure, LastCommitUndone, tryVars
<1>4. CASE UNCHANGED vars
  BY <1>4 DEF vars, dbVars, diskVars, tryVars, locals, world
<1> QED
  BY <1>1, <1>2, <1>3, <1>4 DEF Next

(* What recovery, under the lock, and clean-up, without it, may delete. *)
LEMMA Spares ==
  ASSUME TypeOK, LockInv, DistinctInv, LocalInv, RecoverInv, UncommittedInv
  PROVE  RemovalSpares
<1> SUFFICES ASSUME NEW p \in Procs
             PROVE  /\ Targets(p) \cap Committed = {}
                    /\ \A q \in Procs \ {p} :
                         pc[q] \in PublishLocked => mine[q] \notin Targets(p)
  BY DEF RemovalSpares
<1> USE DEF TypeOK, LockInv, DistinctInv, LocalInv, RecoverInv, UncommittedInv, Targets,
            Building, Locked, PublishPCs, PublishLocked
<1>1. NoGen \notin Committed
  BY DEF Committed, Refs, NoRef
<1>2. CASE pc[p] = "recover"
  <2>1. Targets(p) \subseteq todo[p] \cup {NoGen}
    BY <1>2
  <2>2. \A q \in Procs \ {p} : pc[q] \notin PublishLocked
    BY <1>2
  <2> QED
    BY <1>1, <1>2, <2>1, <2>2
<1>3. CASE pc[p] = "clean"
  <2>1. Targets(p) \subseteq {mine[p], NoGen} /\ mine[p] # NoGen
    BY <1>3
  <2> QED
    BY <1>1, <1>3, <2>1
<1>4. CASE pc[p] \notin {"recover", "clean"}
  <2>1. Targets(p) = {NoGen}
    BY <1>4
  <2> QED
    BY <1>1, <2>1
<1> QED
  BY <1>2, <1>3, <1>4

(* Recovery's list stays complete and never gains a committed generation. *)
LEMMA RecoverNext ==
  ASSUME TypeOK, TypeOK', LockInv, DistinctInv, UsedInv,
         UncommittedInv, UncommittedInv', LocalInv, RecoverInv, BuildInv,
         CommittedIntact, [Next]_vars
  PROVE  RecoverInv'
<1> USE DEF LockInv, DistinctInv, UncommittedInv, Building, LocalInv, RecoverInv,
            CommittedIntact, TypeOK, Locked, RecallLocked, Committed, Refs, NoRef,
            PublishPCs, PublishLocked
<1>1. ASSUME NEW p \in Procs, Publish(p) \/ Recall(p) \/ Kill(p) PROVE RecoverInv'
  <2>1. CASE PublishStart(p)
    BY <2>1 DEF PublishStart, Goto, dbVars, diskVars, world
  <2>2. CASE PublishBusy(p)
    BY <2>2 DEF PublishBusy, Finish, Tell, dbVars, diskVars, world
  <2>3. CASE PublishConflict(p)
    BY <2>3 DEF PublishConflict, Finish, Tell, dbVars, diskVars, world
  <2>4. CASE PublishBegin(p)
    <3>1. Committed' = Committed /\ name' = name /\ todo'[p] = Abandoned
      BY <2>4 DEF PublishBegin, Goto, dbVars, diskVars
    <3>2. Abandoned \cap Committed = {}
      BY DEF Abandoned
    <3>3. \A g \in Gens : name[g] # "none" => g \in Committed \cup Abandoned
      BY DEF Abandoned, Entries
    <3>4. \A q \in Procs : pc'[q] = "recover" => q = p
      BY <2>4 DEF PublishBegin, Goto
    <3> QED
      BY <3>1, <3>2, <3>3, <3>4
  <2>5. CASE RecoverGone(p)
    BY <2>5 DEF RecoverGone, dbVars, diskVars, tryVars, world
  <2>6. CASE RecoverEmpty(p)
    BY <2>6 DEF RecoverEmpty, EmptyTree, dbVars, tryVars, world
  <2>7. CASE RecoverRemove(p)
    BY <2>7 DEF RecoverRemove, RemoveEntry, dbVars, tryVars, world, SyncEntries
  <2>8. CASE StageCreate(p)
    BY <2>8 DEF StageCreate, Goto, dbVars, tryVars, locals, world
  <2>9. CASE StageWrite(p)
    BY <2>9 DEF StageWrite, dbVars, tryVars, locals, world
  <2>10. CASE StageSync(p)
    BY <2>10 DEF StageSync, Goto, SyncEntries, dbVars, tryVars, locals, world
  <2>11. CASE Rename(p)
    BY <2>11 DEF Rename, Goto, dbVars, tryVars, locals, world
  <2>12. CASE RenameSync(p)
    BY <2>12 DEF RenameSync, Goto, SyncEntries, dbVars, tryVars, locals, world
  <2>13. CASE Insert(p)
    BY <2>13 DEF Insert, Goto, RowOf, dbVars, diskVars, tryVars, locals, world
  <2>14. CASE Commit(p)
    BY <2>14 DEF Commit, Goto, RowOf, diskVars, tryVars, locals, world
  <2>15. CASE PublishReturn(p)
    BY <2>15 DEF PublishReturn, Finish, Tell, dbVars, diskVars, world
  <2>16. CASE PublishFail(p)
    BY <2>16 DEF PublishFail, Release, dbVars, diskVars, tryVars, world
  <2>17. CASE KeepCommitted(p)
    BY <2>17 DEF KeepCommitted, Finish, Tell, dbVars, diskVars, world
  <2>18. CASE CleanBegin(p)
    BY <2>18 DEF CleanBegin, Goto, dbVars, diskVars, tryVars, locals, world
  <2>19. CASE CleanEmpty(p)
    BY <2>19 DEF CleanEmpty, EmptyTree, dbVars, tryVars, world
  <2>20. CASE CleanRemove(p)
    BY <2>20 DEF CleanRemove, Finish, Tell, RemoveEntry, dbVars, world, SyncEntries
  <2>21. CASE CleanStop(p)
    BY <2>21 DEF CleanStop, Finish, Tell, dbVars, diskVars, world
  <2>22. CASE RecallStart(p)
    BY <2>22 DEF RecallStart, Goto, dbVars, diskVars, tryVars, locals, world
  <2>23. CASE RecallNothing(p)
    BY <2>23 DEF RecallNothing, Finish, dbVars, diskVars, tryVars, world
  <2>24. CASE RecallBegin(p)
    BY <2>24 DEF RecallBegin, Goto, dbVars, diskVars, tryVars, world
  <2>25. CASE RecallMeta(p)
    BY <2>25 DEF RecallMeta, Goto, Intact, dbVars, diskVars, tryVars, locals, world
  <2>26. CASE RecallFiles(p)
    BY <2>26 DEF RecallFiles, Goto, Intact, dbVars, diskVars, tryVars, locals, world
  <2>27. CASE RecallDecide(p)
    BY <2>27 DEF RecallDecide, Goto, dbVars, diskVars, tryVars, locals, world
  <2>28. CASE RecallCommit(p)
    BY <2>28 DEF RecallCommit, Goto, dbVars, diskVars, tryVars, locals, world
  <2>29. CASE RecallReturn(p)
    BY <2>29 DEF RecallReturn, Finish, dbVars, diskVars, tryVars, world
  <2>30. CASE RecallReject(p)
    BY <2>30 DEF RecallReject, Finish, Release, dbVars, diskVars, tryVars, world
  <2>31. CASE Kill(p)
    BY <2>31 DEF Kill, Finish, Release, dbVars, diskVars, tryVars, world
  <2> QED
    BY <1>1, <2>1, <2>2, <2>3, <2>4, <2>5, <2>6, <2>7, <2>8, <2>9, <2>10, <2>11, <2>12,
            <2>13, <2>14, <2>15, <2>16, <2>17, <2>18, <2>19, <2>20, <2>21, <2>22, <2>23,
            <2>24, <2>25, <2>26, <2>27, <2>28, <2>29, <2>30, <2>31 DEF Publish, Recall
<1>2. CASE Damage
  BY <1>2 DEF Damage, dbVars, tryVars, locals
<1>3. CASE PowerFailure
  BY <1>3 DEF PowerFailure, LastCommitUndone, tryVars
<1>4. CASE UNCHANGED vars
  BY <1>4 DEF vars, dbVars, diskVars, tryVars, locals, world
<1> QED
  BY <1>1, <1>2, <1>3, <1>4 DEF Next

(* A directory being built is touched by its publisher only. *)
LEMMA BuildNext ==
  ASSUME TypeOK, TypeOK', LockInv, DistinctInv, UsedInv,
         UncommittedInv, UncommittedInv', LocalInv, RecoverInv, BuildInv,
         CommittedIntact, [Next]_vars
  PROVE  BuildInv'
<1> USE DEF LockInv, DistinctInv, UncommittedInv, Building, LocalInv, RecoverInv,
            CommittedIntact, TypeOK, Locked, RecallLocked, Committed, Refs, NoRef,
            PublishPCs, PublishLocked, BuildInv
<1>1. ASSUME NEW p \in Procs, Publish(p) \/ Recall(p) \/ Kill(p) PROVE BuildInv'
  <2>1. CASE PublishStart(p)
    BY <2>1 DEF PublishStart, Goto, dbVars, diskVars, world
  <2>2. CASE PublishBusy(p)
    BY <2>2 DEF PublishBusy, Finish, Tell, dbVars, diskVars, world
  <2>3. CASE PublishConflict(p)
    BY <2>3 DEF PublishConflict, Finish, Tell, dbVars, diskVars, world
  <2>4. CASE PublishBegin(p)
    BY <2>4 DEF PublishBegin, Goto, Abandoned, dbVars, diskVars, tryVars, world
  <2>5. CASE RecoverGone(p)
    BY <2>5 DEF RecoverGone, dbVars, diskVars, tryVars, world
  <2>6. CASE RecoverEmpty(p)
    BY <2>6 DEF RecoverEmpty, EmptyTree, dbVars, tryVars, world
  <2>7. CASE RecoverRemove(p)
    BY <2>7 DEF RecoverRemove, RemoveEntry, dbVars, tryVars, world, SyncEntries
  <2>8. CASE StageCreate(p)
    BY <2>8 DEF StageCreate, Goto, dbVars, tryVars, locals, world
  <2>9. CASE StageWrite(p)
    BY <2>9 DEF StageWrite, dbVars, tryVars, locals, world
  <2>10. CASE StageSync(p)
    BY <2>10 DEF StageSync, Goto, SyncEntries, dbVars, tryVars, locals, world
  <2>11. CASE Rename(p)
    BY <2>11 DEF Rename, Goto, dbVars, tryVars, locals, world
  <2>12. CASE RenameSync(p)
    BY <2>12 DEF RenameSync, Goto, SyncEntries, dbVars, tryVars, locals, world
  <2>13. CASE Insert(p)
    BY <2>13 DEF Insert, Goto, RowOf, dbVars, diskVars, tryVars, locals, world
  <2>14. CASE Commit(p)
    BY <2>14 DEF Commit, Goto, RowOf, diskVars, tryVars, locals, world
  <2>15. CASE PublishReturn(p)
    BY <2>15 DEF PublishReturn, Finish, Tell, dbVars, diskVars, world
  <2>16. CASE PublishFail(p)
    BY <2>16 DEF PublishFail, Release, dbVars, diskVars, tryVars, world
  <2>17. CASE KeepCommitted(p)
    BY <2>17 DEF KeepCommitted, Finish, Tell, dbVars, diskVars, world
  <2>18. CASE CleanBegin(p)
    BY <2>18 DEF CleanBegin, Goto, dbVars, diskVars, tryVars, locals, world
  <2>19. CASE CleanEmpty(p)
    BY <2>19 DEF CleanEmpty, EmptyTree, dbVars, tryVars, world
  <2>20. CASE CleanRemove(p)
    BY <2>20 DEF CleanRemove, Finish, Tell, RemoveEntry, dbVars, world, SyncEntries
  <2>21. CASE CleanStop(p)
    BY <2>21 DEF CleanStop, Finish, Tell, dbVars, diskVars, world
  <2>22. CASE RecallStart(p)
    BY <2>22 DEF RecallStart, Goto, dbVars, diskVars, tryVars, locals, world
  <2>23. CASE RecallNothing(p)
    BY <2>23 DEF RecallNothing, Finish, dbVars, diskVars, tryVars, world
  <2>24. CASE RecallBegin(p)
    BY <2>24 DEF RecallBegin, Goto, dbVars, diskVars, tryVars, world
  <2>25. CASE RecallMeta(p)
    BY <2>25 DEF RecallMeta, Goto, Intact, dbVars, diskVars, tryVars, locals, world
  <2>26. CASE RecallFiles(p)
    BY <2>26 DEF RecallFiles, Goto, Intact, dbVars, diskVars, tryVars, locals, world
  <2>27. CASE RecallDecide(p)
    BY <2>27 DEF RecallDecide, Goto, dbVars, diskVars, tryVars, locals, world
  <2>28. CASE RecallCommit(p)
    BY <2>28 DEF RecallCommit, Goto, dbVars, diskVars, tryVars, locals, world
  <2>29. CASE RecallReturn(p)
    BY <2>29 DEF RecallReturn, Finish, dbVars, diskVars, tryVars, world
  <2>30. CASE RecallReject(p)
    BY <2>30 DEF RecallReject, Finish, Release, dbVars, diskVars, tryVars, world
  <2>31. CASE Kill(p)
    BY <2>31 DEF Kill, Finish, Release, dbVars, diskVars, tryVars, world
  <2> QED
    BY <1>1, <2>1, <2>2, <2>3, <2>4, <2>5, <2>6, <2>7, <2>8, <2>9, <2>10, <2>11, <2>12,
            <2>13, <2>14, <2>15, <2>16, <2>17, <2>18, <2>19, <2>20, <2>21, <2>22, <2>23,
            <2>24, <2>25, <2>26, <2>27, <2>28, <2>29, <2>30, <2>31 DEF Publish, Recall
<1>2. CASE Damage
  BY <1>2 DEF Damage, dbVars, tryVars, locals
<1>3. CASE PowerFailure
  BY <1>3 DEF PowerFailure, LastCommitUndone, tryVars
<1>4. CASE UNCHANGED vars
  BY <1>4 DEF vars, dbVars, diskVars, tryVars, locals, world
<1> QED
  BY <1>1, <1>2, <1>3, <1>4 DEF Next

(* Rename and sync come before the commit; removals spare what is committed. *)
LEMMA IntactNext ==
  ASSUME TypeOK, TypeOK', LockInv, DistinctInv, UsedInv,
         UncommittedInv, UncommittedInv', LocalInv, RecoverInv, BuildInv,
         CommittedIntact, [Next]_vars
  PROVE  CommittedIntact'
<1> USE DEF LockInv, DistinctInv, UncommittedInv, Building, LocalInv, RecoverInv,
            CommittedIntact, TypeOK, Locked, RecallLocked, Committed, Refs, NoRef,
            PublishPCs, PublishLocked, BuildInv, Entries,
            Parts
<1>1. ASSUME NEW p \in Procs, Publish(p) \/ Recall(p) \/ Kill(p) PROVE CommittedIntact'
  <2>1. CASE PublishStart(p)
    BY <2>1 DEF PublishStart, Goto, dbVars, diskVars, world
  <2>2. CASE PublishBusy(p)
    BY <2>2 DEF PublishBusy, Finish, Tell, dbVars, diskVars, world
  <2>3. CASE PublishConflict(p)
    BY <2>3 DEF PublishConflict, Finish, Tell, dbVars, diskVars, world
  <2>4. CASE PublishBegin(p)
    BY <2>4 DEF PublishBegin, Goto, Abandoned, dbVars, diskVars, tryVars, world
  <2>5. CASE RecoverGone(p)
    BY <2>5 DEF RecoverGone, dbVars, diskVars, tryVars, world
  <2>6. CASE RecoverEmpty(p)
    BY <2>6 DEF RecoverEmpty, EmptyTree, dbVars, tryVars, world
  <2>7. CASE RecoverRemove(p)
    BY <2>7 DEF RecoverRemove, RemoveEntry, dbVars, tryVars, world, SyncEntries
  <2>8. CASE StageCreate(p)
    BY <2>8 DEF StageCreate, Goto, dbVars, tryVars, locals, world
  <2>9. CASE StageWrite(p)
    BY <2>9 DEF StageWrite, dbVars, tryVars, locals, world
  <2>10. CASE StageSync(p)
    BY <2>10 DEF StageSync, Goto, SyncEntries, dbVars, tryVars, locals, world
  <2>11. CASE Rename(p)
    BY <2>11 DEF Rename, Goto, dbVars, tryVars, locals, world
  <2>12. CASE RenameSync(p)
    BY <2>12 DEF RenameSync, Goto, SyncEntries, dbVars, tryVars, locals, world
  <2>13. CASE Insert(p)
    BY <2>13 DEF Insert, Goto, RowOf, dbVars, diskVars, tryVars, locals, world
  <2>14. CASE Commit(p)
    BY <2>14 DEF Commit, Goto, RowOf, diskVars, tryVars, locals, world
  <2>15. CASE PublishReturn(p)
    BY <2>15 DEF PublishReturn, Finish, Tell, dbVars, diskVars, world
  <2>16. CASE PublishFail(p)
    BY <2>16 DEF PublishFail, Release, dbVars, diskVars, tryVars, world
  <2>17. CASE KeepCommitted(p)
    BY <2>17 DEF KeepCommitted, Finish, Tell, dbVars, diskVars, world
  <2>18. CASE CleanBegin(p)
    BY <2>18 DEF CleanBegin, Goto, dbVars, diskVars, tryVars, locals, world
  <2>19. CASE CleanEmpty(p)
    BY <2>19 DEF CleanEmpty, EmptyTree, dbVars, tryVars, world
  <2>20. CASE CleanRemove(p)
    BY <2>20 DEF CleanRemove, Finish, Tell, RemoveEntry, dbVars, world, SyncEntries
  <2>21. CASE CleanStop(p)
    BY <2>21 DEF CleanStop, Finish, Tell, dbVars, diskVars, world
  <2>22. CASE RecallStart(p)
    BY <2>22 DEF RecallStart, Goto, dbVars, diskVars, tryVars, locals, world
  <2>23. CASE RecallNothing(p)
    BY <2>23 DEF RecallNothing, Finish, dbVars, diskVars, tryVars, world
  <2>24. CASE RecallBegin(p)
    BY <2>24 DEF RecallBegin, Goto, dbVars, diskVars, tryVars, world
  <2>25. CASE RecallMeta(p)
    BY <2>25 DEF RecallMeta, Goto, Intact, dbVars, diskVars, tryVars, locals, world
  <2>26. CASE RecallFiles(p)
    BY <2>26 DEF RecallFiles, Goto, Intact, dbVars, diskVars, tryVars, locals, world
  <2>27. CASE RecallDecide(p)
    BY <2>27 DEF RecallDecide, Goto, dbVars, diskVars, tryVars, locals, world
  <2>28. CASE RecallCommit(p)
    BY <2>28 DEF RecallCommit, Goto, dbVars, diskVars, tryVars, locals, world
  <2>29. CASE RecallReturn(p)
    BY <2>29 DEF RecallReturn, Finish, dbVars, diskVars, tryVars, world
  <2>30. CASE RecallReject(p)
    BY <2>30 DEF RecallReject, Finish, Release, dbVars, diskVars, tryVars, world
  <2>31. CASE Kill(p)
    BY <2>31 DEF Kill, Finish, Release, dbVars, diskVars, tryVars, world
  <2> QED
    BY <1>1, <2>1, <2>2, <2>3, <2>4, <2>5, <2>6, <2>7, <2>8, <2>9, <2>10, <2>11, <2>12,
            <2>13, <2>14, <2>15, <2>16, <2>17, <2>18, <2>19, <2>20, <2>21, <2>22, <2>23,
            <2>24, <2>25, <2>26, <2>27, <2>28, <2>29, <2>30, <2>31 DEF Publish, Recall
<1>2. CASE Damage
  BY <1>2 DEF Damage, dbVars, tryVars, locals
<1>3. CASE PowerFailure
  BY <1>3 DEF PowerFailure, LastCommitUndone, tryVars
<1>4. CASE UNCHANGED vars
  BY <1>4 DEF vars, dbVars, diskVars, tryVars, locals, world
<1> QED
  BY <1>1, <1>2, <1>3, <1>4 DEF Next

(* After recovery only the publisher itself makes a new directory. *)
LEMMA OrphansNext ==
  ASSUME TypeOK, TypeOK', LockInv, LocalInv, RecoverInv, NoOrphansLeft, [Next]_vars
  PROVE  NoOrphansLeft'
<1> USE DEF LockInv, LocalInv, RecoverInv, NoOrphansLeft, TypeOK, Locked, RecallLocked,
            Committed, Refs, NoRef, PublishPCs, PublishLocked
<1>1. ASSUME NEW p \in Procs, Publish(p) \/ Recall(p) \/ Kill(p) PROVE NoOrphansLeft'
  <2>1. CASE PublishStart(p)
    BY <2>1 DEF PublishStart, Goto, dbVars, diskVars, world
  <2>2. CASE PublishBusy(p)
    BY <2>2 DEF PublishBusy, Finish, Tell, dbVars, diskVars, world
  <2>3. CASE PublishConflict(p)
    BY <2>3 DEF PublishConflict, Finish, Tell, dbVars, diskVars, world
  <2>4. CASE PublishBegin(p)
    BY <2>4 DEF PublishBegin, Goto, Abandoned, dbVars, diskVars, tryVars, world
  <2>5. CASE RecoverGone(p)
    BY <2>5 DEF RecoverGone, dbVars, diskVars, tryVars, world
  <2>6. CASE RecoverEmpty(p)
    BY <2>6 DEF RecoverEmpty, EmptyTree, dbVars, tryVars, world
  <2>7. CASE RecoverRemove(p)
    BY <2>7 DEF RecoverRemove, RemoveEntry, dbVars, tryVars, world, SyncEntries
  <2>8. CASE StageCreate(p)
    BY <2>8 DEF StageCreate, Goto, dbVars, tryVars, locals, world
  <2>9. CASE StageWrite(p)
    BY <2>9 DEF StageWrite, dbVars, tryVars, locals, world
  <2>10. CASE StageSync(p)
    BY <2>10 DEF StageSync, Goto, SyncEntries, dbVars, tryVars, locals, world
  <2>11. CASE Rename(p)
    BY <2>11 DEF Rename, Goto, dbVars, tryVars, locals, world
  <2>12. CASE RenameSync(p)
    BY <2>12 DEF RenameSync, Goto, SyncEntries, dbVars, tryVars, locals, world
  <2>13. CASE Insert(p)
    BY <2>13 DEF Insert, Goto, RowOf, dbVars, diskVars, tryVars, locals, world
  <2>14. CASE Commit(p)
    BY <2>14 DEF Commit, Goto, RowOf, diskVars, tryVars, locals, world
  <2>15. CASE PublishReturn(p)
    BY <2>15 DEF PublishReturn, Finish, Tell, dbVars, diskVars, world
  <2>16. CASE PublishFail(p)
    BY <2>16 DEF PublishFail, Release, dbVars, diskVars, tryVars, world
  <2>17. CASE KeepCommitted(p)
    BY <2>17 DEF KeepCommitted, Finish, Tell, dbVars, diskVars, world
  <2>18. CASE CleanBegin(p)
    BY <2>18 DEF CleanBegin, Goto, dbVars, diskVars, tryVars, locals, world
  <2>19. CASE CleanEmpty(p)
    BY <2>19 DEF CleanEmpty, EmptyTree, dbVars, tryVars, world
  <2>20. CASE CleanRemove(p)
    BY <2>20 DEF CleanRemove, Finish, Tell, RemoveEntry, dbVars, world, SyncEntries
  <2>21. CASE CleanStop(p)
    BY <2>21 DEF CleanStop, Finish, Tell, dbVars, diskVars, world
  <2>22. CASE RecallStart(p)
    BY <2>22 DEF RecallStart, Goto, dbVars, diskVars, tryVars, locals, world
  <2>23. CASE RecallNothing(p)
    BY <2>23 DEF RecallNothing, Finish, dbVars, diskVars, tryVars, world
  <2>24. CASE RecallBegin(p)
    BY <2>24 DEF RecallBegin, Goto, dbVars, diskVars, tryVars, world
  <2>25. CASE RecallMeta(p)
    BY <2>25 DEF RecallMeta, Goto, Intact, dbVars, diskVars, tryVars, locals, world
  <2>26. CASE RecallFiles(p)
    BY <2>26 DEF RecallFiles, Goto, Intact, dbVars, diskVars, tryVars, locals, world
  <2>27. CASE RecallDecide(p)
    BY <2>27 DEF RecallDecide, Goto, dbVars, diskVars, tryVars, locals, world
  <2>28. CASE RecallCommit(p)
    BY <2>28 DEF RecallCommit, Goto, dbVars, diskVars, tryVars, locals, world
  <2>29. CASE RecallReturn(p)
    BY <2>29 DEF RecallReturn, Finish, dbVars, diskVars, tryVars, world
  <2>30. CASE RecallReject(p)
    BY <2>30 DEF RecallReject, Finish, Release, dbVars, diskVars, tryVars, world
  <2>31. CASE Kill(p)
    BY <2>31 DEF Kill, Finish, Release, dbVars, diskVars, tryVars, world
  <2> QED
    BY <1>1, <2>1, <2>2, <2>3, <2>4, <2>5, <2>6, <2>7, <2>8, <2>9, <2>10, <2>11, <2>12,
            <2>13, <2>14, <2>15, <2>16, <2>17, <2>18, <2>19, <2>20, <2>21, <2>22, <2>23,
            <2>24, <2>25, <2>26, <2>27, <2>28, <2>29, <2>30, <2>31 DEF Publish, Recall
<1>2. CASE Damage
  BY <1>2 DEF Damage, dbVars, tryVars, locals
<1>3. CASE PowerFailure
  BY <1>3 DEF PowerFailure, LastCommitUndone, tryVars
<1>4. CASE UNCHANGED vars
  BY <1>4 DEF vars, dbVars, diskVars, tryVars, locals, world
<1> QED
  BY <1>1, <1>2, <1>3, <1>4 DEF Next

(* Only a commit and a power failure change the database. *)
LEMMA DatabaseFrame ==
  ASSUME [Next]_vars
  PROVE  \/ UNCHANGED <<current, audit, journal>>
         \/ \E p \in Procs : Commit(p)
         \/ PowerFailure
<1>1. ASSUME NEW p \in Procs, Publish(p) \/ Recall(p) \/ Kill(p)
      PROVE  UNCHANGED <<current, audit, journal>> \/ Commit(p)
  BY <1>1 DEF Publish, Recall, dbVars, PublishStart, PublishBusy, PublishConflict,
          PublishBegin, RecoverGone, RecoverEmpty, RecoverRemove, StageCreate, StageWrite,
          StageSync, Rename, RenameSync, Insert, PublishReturn, PublishFail, KeepCommitted,
          CleanBegin, CleanEmpty, CleanRemove, CleanStop, RecallStart, RecallNothing,
          RecallBegin, RecallMeta, RecallFiles, RecallDecide, RecallCommit, RecallReturn,
          RecallReject, Kill
<1>2. CASE Damage
  BY <1>2 DEF Damage, dbVars
<1>3. CASE UNCHANGED vars
  BY <1>3 DEF vars, dbVars
<1> QED
  BY <1>1, <1>2, <1>3 DEF Next

(* A commit appends the next row; an undone commit takes away the last. *)
LEMMA AuditNext ==
  ASSUME TypeOK, TypeOK', UncommittedInv, ReadInv, AuditLinear, UndoInv, [Next]_vars
  PROVE  AuditLinear' /\ UndoInv'
<1> USE DEF AuditLinear, UndoInv
<1>1. CASE UNCHANGED <<current, audit, journal>>
  BY <1>1
<1>2. ASSUME NEW p \in Procs, Commit(p) PROVE AuditLinear' /\ UndoInv'
  <2>1. /\ mine[p] \in Gens /\ mine[p] \notin Committed
        /\ current' = [gen |-> mine[p], seq |-> current.seq + 1]
        /\ audit' = audit \cup {current'}
    BY <1>2 DEF Commit, Goto, RowOf, UncommittedInv, ReadInv, Building, Locked, TypeOK,
                PublishPCs, PublishLocked
  <2>2. current.seq \in Nat /\ current'.seq = current.seq + 1 /\ current'.gen = mine[p]
    BY <2>1 DEF TypeOK, Refs, NoRef
  <2>3. \A r \in audit : r.seq \in Nat /\ r.gen # mine[p]
    BY <2>1 DEF TypeOK, Refs, Committed
  <2>4. \A r \in audit' : r.seq <= current'.seq
    BY <2>1, <2>2, <2>3
  <2>5. \A r, s \in audit' : r.seq = s.seq \/ r.gen = s.gen => r = s
    BY <2>1, <2>2, <2>3
  <2>6. \A n \in 1..current'.seq : \E r \in audit' : r.seq = n
    BY <2>1, <2>2
  <2>7. current' \in audit' /\ current' # NoRef
    BY <2>1 DEF NoRef
  <2> QED
    BY <2>4, <2>5, <2>6, <2>7
<1>3. CASE PowerFailure
  <2>1. CASE UNCHANGED <<current, audit>>
    BY <1>3, <2>1 DEF PowerFailure
  <2>2. CASE LastCommitUndone
    <3>1. /\ current \in audit /\ current.seq \in Nat /\ audit' = audit \ {current}
          /\ current'.seq = current.seq - 1 /\ current' \in audit' \cup {NoRef}
      BY <2>2 DEF LastCommitUndone, TypeOK, Refs, NoRef
    <3>2. ASSUME NEW r \in audit' PROVE r.seq <= current'.seq
      <4>1. r.seq \in Nat /\ r.seq <= current.seq /\ r.seq # current.seq
        BY <3>1 DEF TypeOK, Refs
      <4> QED
        BY <3>1, <4>1
    <3>3. \A n \in 1..current'.seq : \E r \in audit' : r.seq = n
      BY <3>1
    <3>4. ~journal'
      BY <1>3 DEF PowerFailure
    <3> QED
      BY <3>1, <3>2, <3>3, <3>4
  <2> QED
    BY <1>3, <2>1, <2>2 DEF PowerFailure
<1> QED
  BY <1>1, <1>2, <1>3, DatabaseFrame

(* The expectation of an attempt is never changed once its id is drawn. *)
LEMMA BasisFrame ==
  ASSUME TypeOK, [Next]_vars
  PROVE  \A g \in used : basis'[g] = basis[g]
<1>1. ASSUME NEW p \in Procs, PublishStart(p) PROVE \A g \in used : basis'[g] = basis[g]
  BY <1>1 DEF PublishStart, TypeOK
<1>2. ASSUME NEW p \in Procs, Publish(p) \/ Recall(p) \/ Kill(p)
      PROVE  PublishStart(p) \/ basis' = basis
  BY <1>2 DEF Publish, Recall, tryVars, PublishBusy, PublishConflict, PublishBegin,
          RecoverGone, RecoverEmpty, RecoverRemove, StageCreate, StageWrite, StageSync,
          Rename, RenameSync, Insert, Commit, PublishReturn, PublishFail, KeepCommitted,
          CleanBegin, CleanEmpty, CleanRemove, CleanStop, RecallStart, RecallNothing,
          RecallBegin, RecallMeta, RecallFiles, RecallDecide, RecallCommit, RecallReturn,
          RecallReject, Kill
<1>3. CASE Damage
  BY <1>3 DEF Damage, tryVars
<1>4. CASE PowerFailure
  BY <1>4 DEF PowerFailure, tryVars
<1>5. CASE UNCHANGED vars
  BY <1>5 DEF vars, tryVars
<1> QED
  BY <1>1, <1>2, <1>3, <1>4, <1>5 DEF Next

(* The committed row follows the reference its caller expected. *)
LEMMA LinkNext ==
  ASSUME TypeOK, UncommittedInv, ReadInv, AuditLinear, UndoInv, UsedInv, NoLostUpdate,
         [Next]_vars
  PROVE  NoLostUpdate'
<1>1. \A r \in audit : r.gen \in used /\ basis'[r.gen] = basis[r.gen]
  BY BasisFrame DEF UsedInv, Committed
<1>2. CASE UNCHANGED <<current, audit, journal>>
  BY <1>1, <1>2 DEF NoLostUpdate
<1>3. ASSUME NEW p \in Procs, Commit(p) PROVE NoLostUpdate'
  <2>1. /\ mine[p] \in Gens /\ basis'[mine[p]] = current.gen
        /\ current' = [gen |-> mine[p], seq |-> current.seq + 1]
        /\ audit' = audit \cup {current'}
    BY <1>3 DEF Commit, Goto, RowOf, ReadInv, Locked, TypeOK, PublishPCs, PublishLocked,
                tryVars
  <2>2. CASE current = NoRef
    BY <1>1, <2>1, <2>2 DEF NoLostUpdate, NoRef, AuditLinear, TypeOK, Refs
  <2>3. CASE current \in audit
    BY <1>1, <2>1, <2>3 DEF NoLostUpdate, TypeOK, Refs
  <2> QED
    BY <2>2, <2>3 DEF AuditLinear
<1>4. CASE PowerFailure
  <2>1. CASE UNCHANGED <<current, audit>>
    BY <1>1, <2>1 DEF NoLostUpdate
  <2>2. CASE LastCommitUndone
    <3>1. audit' = audit \ {current} /\ current \in audit
      BY <2>2 DEF LastCommitUndone, UndoInv, AuditLinear
    <3>2. \A r \in audit : r.seq <= current.seq /\ r.seq \in Nat \ {0}
      BY DEF AuditLinear, TypeOK, Refs
    <3> QED
      BY <1>1, <3>1, <3>2 DEF NoLostUpdate
  <2> QED
    BY <1>4, <2>1, <2>2 DEF PowerFailure
<1> QED
  BY <1>2, <1>3, <1>4, DatabaseFrame

-----------------------------------------------------------------------------
\* The invariant holds at first.
LEMMA IndInit == Init => IInv
<1> SUFFICES ASSUME Init PROVE IInv
  OBVIOUS
<1>1. TypeOK
  BY TypeInit
<1>2. Committed = {}
  BY DEF Init, Committed, NoRef
<1>3. LockInv /\ DistinctInv /\ UncommittedInv /\ LocalInv /\ ReadInv /\ RecoverInv /\ BuildInv
  BY DEF Init, LockInv, DistinctInv, UncommittedInv, LocalInv, ReadInv, RecoverInv, BuildInv,
         Locked, Building, PublishLocked, RecallLocked
<1>4. UsedInv /\ CommittedIntact
  BY <1>2 DEF Init, UsedInv, CommittedIntact
<1>5. UndoInv /\ NoOrphansLeft /\ AuditLinear /\ NoLostUpdate
  BY DEF Init, UndoInv, NoOrphansLeft, AuditLinear, NoLostUpdate, PublishLocked, NoRef
<1> QED
  BY <1>1, <1>3, <1>4, <1>5 DEF IInv

\* Every step keeps the invariant.
LEMMA IndNext == IInv /\ [Next]_vars => IInv'
<1> SUFFICES ASSUME IInv, [Next]_vars PROVE IInv'
  OBVIOUS
<1> USE DEF IInv
<1>1. TypeOK'
  BY TypeNext
<1>2. LockInv' /\ DistinctInv' /\ UsedInv' /\ LocalInv'
  BY <1>1, LockNext, UsedNext, LocalNext
<1>3. UncommittedInv' /\ ReadInv'
  BY <1>1, UncommittedNext, ReadNext
<1>4. RecoverInv' /\ BuildInv' /\ CommittedIntact'
  BY <1>1, <1>3, RecoverNext, BuildNext, IntactNext
<1>5. NoOrphansLeft' /\ AuditLinear' /\ UndoInv' /\ NoLostUpdate'
  BY <1>1, OrphansNext, AuditNext, LinkNext
<1> QED
  BY <1>1, <1>2, <1>3, <1>4, <1>5

\* The inductive invariant behind the theorems below, in every reachable state.
THEOREM Inductive == Spec => []IInv
BY IndInit, IndNext, PTL DEF Spec

(* Type correctness: every reachable state of the store, the directories and the *)
(* processes is well formed.                                                     *)
THEOREM TypeCorrect == Spec => []TypeOK
<1>1. IInv => TypeOK
  BY DEF IInv
<1> QED
  BY <1>1, Inductive, PTL

(* Crash consistency: whatever is killed, fails or loses power, every generation *)
(* the trust database names is on disk, durable and complete.                    *)
THEOREM CommittedStaysIntact == Spec => []CommittedIntact
<1>1. IInv => CommittedIntact
  BY DEF IInv
<1> QED
  BY <1>1, Inductive, PTL

(* The audit of publish is one gapless line of history ending at the current     *)
(* reference.                                                                    *)
THEOREM AuditIsLinear == Spec => []AuditLinear
<1>1. IInv => AuditLinear
  BY DEF IInv
<1> QED
  BY <1>1, Inductive, PTL

(* Compare-and-swap of expected_checkpoint_digest: concurrent publishers never   *)
(* lose an update.                                                               *)
THEOREM UpdatesAreNotLost == Spec => []NoLostUpdate
<1>1. IInv => NoLostUpdate
  BY DEF IInv
<1> QED
  BY <1>1, Inductive, PTL

(* Orphan recovery and the clean-up of a failed publish never are about to       *)
(* delete a committed generation or another publisher's work.                    *)
THEOREM RemovalsSpare == Spec => []RemovalSpares
<1>1. IInv => RemovalSpares
  BY Spares DEF IInv
<1> QED
  BY <1>1, Inductive, PTL

(* Recovery leaves a publisher with committed directories and its own only.      *)
THEOREM OrphansAreRecovered == Spec => []NoOrphansLeft
<1>1. IInv => NoOrphansLeft
  BY DEF IInv
<1> QED
  BY <1>1, Inductive, PTL

(* What publish compared and recall read is current until they commit.           *)
THEOREM ReadsStayCurrent == Spec => []ReadStaysCurrent
<1>1. IInv => ReadStaysCurrent
  BY DEF IInv, ReadInv, ReadStaysCurrent, Locked
<1> QED
  BY <1>1, Inductive, PTL

-----------------------------------------------------------------------------
(* The inductive invariant behind the answers *)

\* An attempt has no answer before it was begun nor while it is running.  Once it
\* has committed and until it returns, its generation stays committed.
PendingInv ==
    /\ \A g \in Gens \ used : told[g] = "pending"
    /\ \A p \in Procs : mine[p] # NoGen => told[mine[p]] = "pending"
    /\ \A p \in Procs : pc[p] = "committed" => mine[p] \in Committed

\* An attempt that has not got the lock yet has no directory, and neither has
\* one that was refused.
RefusedInv ==
    /\ \A p \in Procs : pc[p] = "begin" =>
         name[mine[p]] = "none" /\ durable[mine[p]] = "none"
    /\ \A g \in Gens : told[g] = "conflict" =>
         g \notin Committed /\ name[g] = "none" /\ durable[g] = "none"

\* Only a journal that may return can take back what was accepted.
AcceptedInv ==
    /\ journal => JournalMayReturn
    /\ \A g \in Gens : told[g] = "accepted" => g \in Committed \/ JournalMayReturn

AnswersInv == PendingInv /\ RefusedInv /\ AcceptedInv

-----------------------------------------------------------------------------
(* What a step does to the database, the expectations and the answers *)

Quiet  == UNCHANGED <<current, audit, journal, used, basis, told>>
Begins(p) ==
    \E g \in Gens \ used, e \in Gens \cup {NoGen} :
      /\ pc[p] = "idle" /\ pc' = [pc EXCEPT ![p] = "begin"]
      /\ mine' = [mine EXCEPT ![p] = g]
      /\ used' = used \cup {g} /\ basis' = [basis EXCEPT ![g] = e]
      /\ UNCHANGED <<current, audit, journal, told, name, durable>>
Tells(p, answer) ==
    /\ mine[p] \in Gens
    /\ told' = [told EXCEPT ![mine[p]] = answer]
    /\ pc' = [pc EXCEPT ![p] = "idle"] /\ mine' = [mine EXCEPT ![p] = NoGen]
    /\ UNCHANGED <<current, audit, journal, used, basis>>

\* Every step is one of these.
LEMMA Effects ==
  ASSUME TypeOK, [Next]_vars
  PROVE  \/ Quiet
         \/ \E p \in Procs : Begins(p)
         \/ \E p \in Procs : Tells(p, "accepted") /\ PublishReturn(p)
         \/ \E p \in Procs : Tells(p, "conflict") /\ PublishConflict(p)
         \/ \E p \in Procs : Tells(p, "raised")
         \/ \E p \in Procs : Commit(p)
         \/ PowerFailure
<1> USE DEF TypeOK
<1>1. ASSUME NEW p \in Procs, PublishStart(p) PROVE Begins(p)
  BY <1>1 DEF PublishStart, Goto, Begins, dbVars, diskVars
<1>2. ASSUME NEW p \in Procs, pc[p] \in PublishPCs PROVE mine[p] \in Gens
  BY <1>2
<1>3. ASSUME NEW p \in Procs, PublishReturn(p) PROVE Tells(p, "accepted")
  BY <1>2, <1>3 DEF PublishReturn, Tell, Finish, Tells, dbVars, PublishPCs
<1>4. ASSUME NEW p \in Procs, PublishConflict(p) PROVE Tells(p, "conflict")
  BY <1>2, <1>4 DEF PublishConflict, Tell, Finish, Tells, dbVars, PublishPCs
<1>5. ASSUME NEW p \in Procs,
             PublishBusy(p) \/ KeepCommitted(p) \/ CleanRemove(p) \/ CleanStop(p)
      PROVE  Tells(p, "raised")
  BY <1>2, <1>5 DEF PublishBusy, KeepCommitted, CleanRemove, CleanStop, Tell, Finish, Tells,
          dbVars, PublishPCs
<1>6. ASSUME NEW p \in Procs,
             \/ PublishBegin(p) \/ RecoverGone(p) \/ RecoverEmpty(p) \/ RecoverRemove(p)
             \/ StageCreate(p) \/ StageWrite(p) \/ StageSync(p) \/ Rename(p) \/ RenameSync(p)
             \/ Insert(p) \/ PublishFail(p) \/ CleanBegin(p) \/ CleanEmpty(p)
             \/ Recall(p) \/ Kill(p)
      PROVE  Quiet
  BY <1>6 DEF Quiet, dbVars, tryVars, PublishBegin, RecoverGone, RecoverEmpty, RecoverRemove,
          StageCreate, StageWrite, StageSync, Rename, RenameSync, Insert, PublishFail,
          CleanBegin, CleanEmpty, Recall, RecallStart, RecallNothing, RecallBegin, RecallMeta,
          RecallFiles, RecallDecide, RecallCommit, RecallReturn, RecallReject, Kill
<1>7. CASE Damage
  BY <1>7 DEF Damage, Quiet, dbVars, tryVars
<1>8. CASE UNCHANGED vars
  BY <1>8 DEF vars, Quiet, dbVars, tryVars
<1> QED
  BY <1>1, <1>3, <1>4, <1>5, <1>6, <1>7, <1>8 DEF Next, Publish

\* What is committed stays so, but for what a power failure takes back.
LEMMA CommittedNext ==
  ASSUME TypeOK, UndoInv, AuditLinear, [Next]_vars
  PROVE  /\ \/ Committed \subseteq Committed'
            \/ PowerFailure /\ journal
         /\ \/ Committed' \subseteq Committed
            \/ \E p \in Procs : Commit(p) /\ Committed' = Committed \cup {mine[p]}
<1>1. CASE UNCHANGED <<current, audit, journal>>
  BY <1>1 DEF Committed
<1>2. ASSUME NEW p \in Procs, Commit(p)
      PROVE  Committed' = Committed \cup {mine[p]}
  <2>1. mine[p] \in Gens
    BY <1>2 DEF Commit, Goto, TypeOK, PublishPCs, PublishLocked
  <2>2. current \in audit \cup {NoRef}
    BY DEF AuditLinear
  <2> QED BY <1>2, <2>1, <2>2 DEF Commit, RowOf, Committed, NoRef
<1>3. CASE PowerFailure
  <2>1. \/ LastCommitUndone
        \/ UNCHANGED <<current, audit>>
    BY <1>3 DEF PowerFailure
  <2>2. CASE UNCHANGED <<current, audit>>
    BY <2>2 DEF Committed
  <2>3. CASE LastCommitUndone
    BY <1>3, <2>3 DEF LastCommitUndone, Committed, NoRef
  <2> QED BY <2>1, <2>2, <2>3
<1> QED BY <1>1, <1>2, <1>3, DatabaseFrame

\* A process gets a generation id only when it begins, and leaves "begin" and
\* reaches "committed" only by its own steps.
LEMMA LocalsFrame ==
  ASSUME TypeOK, [Next]_vars, NEW q \in Procs
  PROVE  \/ Begins(q)
         \/ /\ mine'[q] \in {mine[q], NoGen}
            /\ pc'[q] = "begin" => pc[q] = "begin" /\ mine'[q] = mine[q]
            /\ pc'[q] = "committed" => /\ mine'[q] = mine[q]
                                       /\ pc[q] = "committed" \/ Commit(q)
<1> USE DEF TypeOK
<1> DEFINE Frame ==
      /\ mine'[q] \in {mine[q], NoGen}
      /\ pc'[q] = "begin" => pc[q] = "begin" /\ mine'[q] = mine[q]
      /\ pc'[q] = "committed" => /\ mine'[q] = mine[q]
                                 /\ pc[q] = "committed" \/ Commit(q)
<1>1. ASSUME NEW p \in Procs, PublishStart(p) PROVE Begins(q) \/ Frame
  BY <1>1 DEF PublishStart, Goto, Begins, dbVars, diskVars
<1>2. ASSUME NEW p \in Procs,
             \/ PublishBusy(p) \/ PublishConflict(p) \/ PublishReturn(p) \/ KeepCommitted(p)
             \/ CleanRemove(p) \/ CleanStop(p) \/ RecallNothing(p) \/ RecallReturn(p)
             \/ RecallReject(p) \/ Kill(p)
      PROVE  Frame
  <2>1. pc' = [pc EXCEPT ![p] = "idle"] /\ mine' = [mine EXCEPT ![p] = NoGen]
    BY <1>2 DEF PublishBusy, PublishConflict, PublishReturn, KeepCommitted, CleanRemove,
            CleanStop, RecallNothing, RecallReturn, RecallReject, Kill, Finish
  <2> QED BY <2>1
<1>3. ASSUME NEW p \in Procs,
             \/ PublishBegin(p) \/ RecoverGone(p) \/ RecoverEmpty(p) \/ RecoverRemove(p)
             \/ StageCreate(p) \/ StageWrite(p) \/ StageSync(p) \/ Rename(p) \/ RenameSync(p)
             \/ Insert(p) \/ PublishFail(p) \/ CleanBegin(p) \/ CleanEmpty(p)
             \/ RecallStart(p) \/ RecallBegin(p) \/ RecallMeta(p) \/ RecallFiles(p)
             \/ RecallDecide(p) \/ RecallCommit(p)
      PROVE  Frame
  <2>1. /\ mine' = mine
        /\ \/ pc' = pc
           \/ \E to \in PCs \ {"begin", "committed"} : pc' = [pc EXCEPT ![p] = to]
    BY <1>3 DEF PublishBegin, RecoverGone, RecoverEmpty, RecoverRemove, StageCreate,
            StageWrite, StageSync, Rename, RenameSync, Insert, PublishFail, CleanBegin,
            CleanEmpty, RecallStart, RecallBegin, RecallMeta, RecallFiles, RecallDecide,
            RecallCommit, Goto, locals, PCs, PublishPCs, PublishLocked, RecallLocked
  <2> QED BY <2>1
<1>4. ASSUME NEW p \in Procs, Commit(p) PROVE Frame
  BY <1>4 DEF Commit, Goto, locals
<1>5. CASE Damage
  BY <1>5 DEF Damage, locals
<1>6. CASE PowerFailure
  BY <1>6 DEF PowerFailure
<1>7. CASE UNCHANGED vars
  BY <1>7 DEF vars, locals
<1> QED
  BY <1>1, <1>2, <1>3, <1>4, <1>5, <1>6, <1>7 DEF Next, Publish, Recall

\* Only the publisher of a generation, inside its transaction, gives it an entry.
LEMMA EntryFrame ==
  ASSUME TypeOK, [Next]_vars, NEW g \in Gens,
         name[g] = "none", durable[g] = "none"
  PROVE  \/ name'[g] = "none" /\ durable'[g] = "none"
         \/ \E p \in Procs : g = mine[p] /\ pc[p] # "begin" /\ pc'[p] # "begin"
<1> USE DEF TypeOK
<1>1. ASSUME NEW p \in Procs, StageCreate(p) \/ Rename(p)
      PROVE  \/ name'[g] = "none" /\ durable'[g] = "none"
             \/ g = mine[p] /\ pc[p] # "begin" /\ pc'[p] # "begin"
  BY <1>1 DEF StageCreate, Rename, Goto
<1>2. ASSUME NEW p \in Procs, RecoverRemove(p) \/ CleanRemove(p)
      PROVE  name'[g] = "none" /\ durable'[g] = "none"
  <2>1. PICK v \in Gens : name' = [name EXCEPT ![v] = "none"] /\ durable' = name'
    BY <1>2 DEF RecoverRemove, CleanRemove, RemoveEntry, SyncEntries, PublishPCs
  <2> QED BY <2>1
<1>3. ASSUME NEW p \in Procs, StageSync(p) \/ RenameSync(p)
      PROVE  name'[g] = "none" /\ durable'[g] = "none"
  BY <1>3 DEF StageSync, RenameSync, SyncEntries
<1>4. ASSUME NEW p \in Procs,
             \/ PublishStart(p) \/ PublishBusy(p) \/ PublishConflict(p) \/ PublishBegin(p)
             \/ RecoverGone(p) \/ RecoverEmpty(p) \/ StageWrite(p) \/ Insert(p) \/ Commit(p)
             \/ PublishReturn(p) \/ PublishFail(p) \/ KeepCommitted(p) \/ CleanBegin(p)
             \/ CleanEmpty(p) \/ CleanStop(p) \/ Recall(p) \/ Kill(p)
      PROVE  name' = name /\ durable' = durable
  BY <1>4 DEF PublishStart, PublishBusy, PublishConflict, PublishBegin, RecoverGone,
          RecoverEmpty, EmptyTree, StageWrite, Insert, Commit, PublishReturn, PublishFail,
          KeepCommitted, CleanBegin, CleanEmpty, CleanStop, Recall, RecallStart,
          RecallNothing, RecallBegin, RecallMeta, RecallFiles, RecallDecide, RecallCommit,
          RecallReturn, RecallReject, Kill, diskVars
<1>5. CASE Damage
  BY <1>5 DEF Damage
<1>6. CASE PowerFailure
  BY <1>6 DEF PowerFailure
<1>7. CASE UNCHANGED vars
  BY <1>7 DEF vars, diskVars
<1> QED
  BY <1>1, <1>2, <1>3, <1>4, <1>5, <1>6, <1>7 DEF Next, Publish

-----------------------------------------------------------------------------
(* The answers *)

\* A publisher on its way has not been answered yet, and every step keeps that.
LEMMA PendingNext ==
  ASSUME TypeOK, TypeOK', UsedInv, DistinctInv, UndoInv, AuditLinear, PendingInv, [Next]_vars
  PROVE  PendingInv'
<1> USE DEF TypeOK
<1>1. \A p \in Procs : mine[p] \in used \cup {NoGen}
  BY DEF UsedInv
<1>2. /\ \A g \in Gens \ used' : told'[g] = "pending"
      /\ \A p \in Procs : mine'[p] # NoGen => told'[mine'[p]] = "pending"
  <2>1. ASSUME NEW p \in Procs PROVE mine'[p] \in {mine[p], NoGen} \/ Begins(p)
    BY LocalsFrame
  <2>2. ASSUME NEW p \in Procs, Begins(p)
        PROVE  /\ \A g \in Gens \ used' : told'[g] = "pending"
               /\ \A q \in Procs : mine'[q] # NoGen => told'[mine'[q]] = "pending"
    BY <2>2 DEF Begins, PendingInv
  <2>3. ASSUME NEW p \in Procs, NEW answer, Tells(p, answer)
        PROVE  /\ \A g \in Gens \ used' : told'[g] = "pending"
               /\ \A q \in Procs : mine'[q] # NoGen => told'[mine'[q]] = "pending"
    BY <1>1, <2>3 DEF Tells, PendingInv, DistinctInv
  <2>4. CASE told' = told /\ used' = used /\ \A p \in Procs : ~Begins(p)
    BY <2>1, <2>4 DEF PendingInv
  <2>5. \/ \E p \in Procs : Begins(p) \/ \E answer \in Answers : Tells(p, answer)
        \/ told' = told /\ used' = used
    BY Effects DEF Answers, Quiet, Commit, PowerFailure, tryVars
  <2> QED BY <2>2, <2>3, <2>4, <2>5
<1>3. ASSUME NEW p \in Procs, pc'[p] = "committed" PROVE mine'[p] \in Committed'
  <2>1. ~PowerFailure
    BY <1>3 DEF PowerFailure
  <2>2. CASE Begins(p)
    BY <1>3, <2>2 DEF Begins
  <2>3. CASE mine'[p] = mine[p] /\ pc[p] = "committed"
    BY <2>1, <2>3, CommittedNext DEF PendingInv
  <2>4. CASE mine'[p] = mine[p] /\ Commit(p)
    <3>1. RowOf(p) \in audit' /\ RowOf(p).gen = mine[p]
      BY <2>4 DEF Commit, RowOf
    <3> QED BY <2>4, <3>1 DEF Committed
  <2> QED BY <1>3, <2>2, <2>3, <2>4, LocalsFrame
<1> QED BY <1>2, <1>3 DEF PendingInv

\* What was refused for a conflict is not committed, and every step keeps that.
LEMMA RefusedNext ==
  ASSUME TypeOK, TypeOK', UsedInv, UncommittedInv, DistinctInv, UndoInv, AuditLinear, PendingInv,
         RefusedInv, [Next]_vars
  PROVE  RefusedInv'
<1> USE DEF TypeOK
<1>1. ASSUME NEW p \in Procs, pc'[p] = "begin"
      PROVE  name'[mine'[p]] = "none" /\ durable'[mine'[p]] = "none"
  <2>1. CASE Begins(p)
    BY <2>1 DEF Begins, UsedInv
  <2>2. CASE pc[p] = "begin" /\ mine'[p] = mine[p]
    <3>1. mine[p] \in Gens /\ name[mine[p]] = "none" /\ durable[mine[p]] = "none"
      BY <2>2 DEF RefusedInv, PublishPCs
    <3>2. \A q \in Procs : mine[q] = mine[p] => q = p
      BY <3>1 DEF DistinctInv
    <3> QED BY <1>1, <2>2, <3>1, <3>2, EntryFrame
  <2> QED BY <1>1, <2>1, <2>2, LocalsFrame
<1>2. ASSUME NEW g \in Gens, told'[g] = "conflict"
      PROVE  g \notin Committed' /\ name'[g] = "none" /\ durable'[g] = "none"
  <2>1. CASE told[g] = "conflict"
    <3>1. \A p \in Procs : mine[p] # g
      BY <2>1 DEF PendingInv
    <3>2. g \notin Committed /\ name[g] = "none" /\ durable[g] = "none"
      BY <2>1 DEF RefusedInv
    <3> QED BY <3>1, <3>2, EntryFrame, CommittedNext
  <2>2. CASE told[g] # "conflict"
    <3>1. PICK p \in Procs : Tells(p, "conflict") /\ PublishConflict(p)
      BY <1>2, <2>2, Effects, ZenonT(40) DEF Quiet, Begins, Tells, Commit, PowerFailure, tryVars
    <3>2. g = mine[p] /\ pc[p] = "begin"
      BY <1>2, <2>2, <3>1 DEF Tells, PublishConflict
    <3>3. g \notin Committed /\ name[g] = "none" /\ durable[g] = "none"
      BY <3>2 DEF RefusedInv, UncommittedInv, Building
    <3> QED BY <3>1, <3>3 DEF PublishConflict, dbVars, diskVars, Committed
  <2> QED BY <2>1, <2>2
<1> QED BY <1>1, <1>2 DEF RefusedInv

\* What was accepted is committed, and every step keeps that if no commit can be undone.
LEMMA AcceptedNext ==
  ASSUME TypeOK, TypeOK', UndoInv, AuditLinear, PendingInv, AcceptedInv, [Next]_vars
  PROVE  AcceptedInv'
<1> USE DEF TypeOK
<1>1. journal' => JournalMayReturn
  BY DatabaseFrame DEF AcceptedInv, Commit, PowerFailure
<1>2. ASSUME NEW g \in Gens, told'[g] = "accepted", ~JournalMayReturn
      PROVE  g \in Committed'
  <2>1. Committed \subseteq Committed'
    BY <1>2, CommittedNext DEF AcceptedInv
  <2>2. CASE told[g] = "accepted"
    BY <1>2, <2>1, <2>2 DEF AcceptedInv
  <2>3. CASE told[g] # "accepted"
    <3>1. PICK p \in Procs : Tells(p, "accepted") /\ PublishReturn(p)
      BY <1>2, <2>3, Effects, ZenonT(40) DEF Quiet, Begins, Tells, Commit, PowerFailure, tryVars
    <3>2. g = mine[p] /\ pc[p] = "committed"
      BY <1>2, <2>3, <3>1 DEF Tells, PublishReturn
    <3> QED BY <2>1, <3>2 DEF PendingInv
  <2> QED BY <2>2, <2>3
<1> QED BY <1>1, <1>2 DEF AcceptedInv

\* Nothing has been answered at first.
LEMMA AnswersInit == Init => AnswersInv
BY DEF Init, AnswersInv, PendingInv, RefusedInv, AcceptedInv, Committed

\* Every step keeps what is known of the answers.
LEMMA AnswersNext == IInv /\ AnswersInv /\ [Next]_vars => AnswersInv'
<1> SUFFICES ASSUME IInv, AnswersInv, [Next]_vars PROVE AnswersInv'
  OBVIOUS
<1>1. IInv'
  BY IndNext
<1> QED BY <1>1, PendingNext, RefusedNext, AcceptedNext DEF IInv, AnswersInv

\* What the answers say of the database and the directories is inductive, given
\* the invariant of the store.
THEOREM AnswersInductive == Spec => [](IInv /\ AnswersInv)
BY IndInit, IndNext, AnswersInit, AnswersNext, PTL DEF Spec

\* A publication refused for a reference conflict has left neither a row nor a
\* directory, and will not (publish compares before it stages anything).
THEOREM RefusedLeavesNothing ==
  Spec => [](\A g \in Gens : told[g] = "conflict" => g \notin Committed /\ name[g] = "none")
<1>1. AnswersInv =>
        \A g \in Gens : told[g] = "conflict" => g \notin Committed /\ name[g] = "none"
  BY DEF AnswersInv, RefusedInv
<1> QED BY <1>1, AnswersInductive, PTL

\* On a file system that does not bring an unlinked journal back, what callers
\* were told holds for good: an accepted publication stays committed.
THEOREM AnswersAreTrue == ~JournalMayReturn => (Spec => []AnswersHold)
<1> SUFFICES ASSUME ~JournalMayReturn PROVE Spec => []AnswersHold
  OBVIOUS
<1>1. AnswersInv => AnswersHold
  BY DEF AnswersInv, RefusedInv, AcceptedInv, AnswersHold
<1> QED BY <1>1, AnswersInductive, PTL

-----------------------------------------------------------------------------
(* The audit read as a log *)

\* History and AuditLinear, of any current reference c and audit rows a.
HistoryOf(c, a) ==
    [n \in 1..c.seq |-> CHOOSE g \in Gens : [gen |-> g, seq |-> n] \in a]
Linear(c, a) ==
    /\ \A r \in a : r.seq <= c.seq
    /\ \A r, s \in a : r.seq = s.seq \/ r.gen = s.gen => r = s
    /\ \A n \in 1..c.seq : \E r \in a : r.seq = n
    /\ c \in a \cup {NoRef}

\* The rows of a linear audit are the entries of its history, and its current
\* reference is the last of them.
LEMMA HistoryIsLog ==
  ASSUME NEW c \in Refs \cup {NoRef}, NEW a \in SUBSET Refs, Linear(c, a)
  PROVE  /\ c.seq \in Nat
         /\ HistoryOf(c, a) \in Seq(Gens) /\ Len(HistoryOf(c, a)) = c.seq
         /\ \A n \in 1..c.seq : [gen |-> HistoryOf(c, a)[n], seq |-> n] \in a
         /\ \A r \in a : r.seq \in 1..c.seq /\ HistoryOf(c, a)[r.seq] = r.gen
<1> USE DEF Refs, NoRef
<1>1. c.seq \in Nat
  OBVIOUS
<1>2. ASSUME NEW n \in 1..c.seq
      PROVE  /\ HistoryOf(c, a)[n] \in Gens
             /\ [gen |-> HistoryOf(c, a)[n], seq |-> n] \in a
  <2>1. PICK r \in a : r.seq = n
    BY DEF Linear
  <2>2. r = [gen |-> r.gen, seq |-> n] /\ r.gen \in Gens
    BY <2>1
  <2>3. \E g \in Gens : [gen |-> g, seq |-> n] \in a
    BY <2>2
  <2> QED BY <2>3 DEF HistoryOf
<1>3. HistoryOf(c, a) \in [1..c.seq -> Gens]
  BY <1>2 DEF HistoryOf
<1>4. HistoryOf(c, a) \in Seq(Gens) /\ Len(HistoryOf(c, a)) = c.seq
  BY <1>1, <1>3, SeqDef, LenProperties
<1>5. ASSUME NEW r \in a PROVE r.seq \in 1..c.seq /\ HistoryOf(c, a)[r.seq] = r.gen
  <2>1. r.seq \in 1..c.seq
    BY <1>1 DEF Linear
  <2>2. [gen |-> HistoryOf(c, a)[r.seq], seq |-> r.seq] = r
    BY <1>2, <2>1 DEF Linear
  <2> QED BY <2>1, <2>2
<1> QED BY <1>1, <1>2, <1>4, <1>5

\* The log's tip is the current reference, and it has what is committed.
LEMMA TipIsCurrent ==
  ASSUME TypeOK, AuditLinear
  PROVE  Log!Tip = current.gen /\ Log!Published = Committed
<1>1. Linear(current, audit) /\ History = HistoryOf(current, audit)
  BY DEF AuditLinear, Linear, History, HistoryOf
<1>2. /\ current.seq \in Nat /\ History \in Seq(Gens) /\ Len(History) = current.seq
      /\ \A n \in 1..current.seq : [gen |-> History[n], seq |-> n] \in audit
      /\ \A r \in audit : r.seq \in 1..current.seq /\ History[r.seq] = r.gen
  <2>1. current \in Refs \cup {NoRef} /\ audit \in SUBSET Refs
    BY DEF TypeOK
  <2> QED BY <1>1, <2>1, HistoryIsLog
<1>3. current = NoRef \/ current \in audit
  BY DEF AuditLinear
<1>4. Log!Tip = current.gen
  <2>1. CASE current = NoRef
    <3>1. Len(History) = 0
      BY <1>2, <2>1 DEF NoRef
    <3>2. History = <<>>
      BY <1>2, <3>1, EmptySeq
    <3> QED BY <2>1, <3>2 DEF Log!Tip, NoRef
  <2>2. CASE current \in audit
    BY <1>2, <2>2 DEF Log!Tip
  <2> QED BY <1>3, <2>1, <2>2
<1>5. Log!Published = {r.gen : r \in audit}
  <2>1. ASSUME NEW n \in 1..current.seq PROVE \E r \in audit : r.gen = History[n]
    BY <1>2
  <2>2. ASSUME NEW r \in audit PROVE \E n \in 1..current.seq : History[n] = r.gen
    BY <1>2
  <2>3. Log!Published = {History[n] : n \in 1..current.seq}
    BY <1>2 DEF Log!Published
  <2>4. \A g : g \in Log!Published <=> g \in {r.gen : r \in audit}
    BY <2>1, <2>2, <2>3, Zenon
  <2> QED BY <2>4
<1>6. Committed = {r.gen : r \in audit}
  BY <1>3 DEF Committed, NoRef
<1> QED BY <1>4, <1>5, <1>6

-----------------------------------------------------------------------------
(* The refinement *)

\* The store's initial states are those of the log.
LEMMA LogInit == Init => Log!Init
<1> SUFFICES ASSUME Init PROVE Log!Init
  OBVIOUS
<1>1. History = <<>>
  BY DEF Init, History, NoRef
<1> QED BY <1>1 DEF Init, Log!Init

\* A commit appends the generation that expected the tip.
LEMMA CommitIsAppend ==
  ASSUME IInv, IInv', AnswersInv, NEW p \in Procs, Commit(p)
  PROVE  Log!Append1(mine[p])
<1> USE DEF IInv
<1>1. /\ mine[p] \in Gens /\ mine[p] \notin Committed /\ told[mine[p]] = "pending"
      /\ basis[mine[p]] = current.gen
      /\ current' = [gen |-> mine[p], seq |-> current.seq + 1]
      /\ audit' = audit \cup {current'} /\ journal' = JournalMayReturn
      /\ UNCHANGED <<basis, told>>
  BY DEF Commit, Goto, RowOf, UncommittedInv, ReadInv, Building, Locked, TypeOK, PublishPCs,
         PublishLocked, AnswersInv, PendingInv, tryVars
<1>2. Log!Tip = current.gen /\ Log!Published = Committed
  BY TipIsCurrent
<1>3. History' = Append(History, mine[p])
  <2>1. /\ Linear(current, audit) /\ History = HistoryOf(current, audit)
        /\ Linear(current', audit') /\ History' = HistoryOf(current', audit')
    BY DEF AuditLinear, Linear, History, HistoryOf
  <2>2. /\ current \in Refs \cup {NoRef} /\ audit \in SUBSET Refs
        /\ current' \in Refs \cup {NoRef} /\ audit' \in SUBSET Refs
    BY DEF TypeOK
  <2>3. /\ current.seq \in Nat /\ History \in Seq(Gens) /\ Len(History) = current.seq
        /\ \A n \in 1..current.seq : [gen |-> History[n], seq |-> n] \in audit
    BY <2>1, <2>2, HistoryIsLog
  <2>4. /\ History' \in Seq(Gens) /\ Len(History') = current'.seq
        /\ \A r \in audit' : History'[r.seq] = r.gen
    BY <2>1, <2>2, HistoryIsLog
  <2>5. /\ Append(History, mine[p]) \in Seq(Gens)
        /\ Len(Append(History, mine[p])) = current.seq + 1
        /\ \A n \in 1..current.seq : Append(History, mine[p])[n] = History[n]
        /\ Append(History, mine[p])[current.seq + 1] = mine[p]
    BY <1>1, <2>3, AppendProperties
  <2>6. ASSUME NEW n \in 1..current.seq PROVE History'[n] = History[n]
    <3>1. [gen |-> History[n], seq |-> n] \in audit'
      BY <1>1, <2>3
    <3> QED BY <2>4, <3>1
  <2>7. History'[current.seq + 1] = mine[p]
    BY <1>1, <2>4
  <2>8. Len(History') = Len(Append(History, mine[p]))
    BY <1>1, <2>4, <2>5
  <2>9. \A n \in 1..Len(History') : History'[n] = Append(History, mine[p])[n]
    BY <2>3, <2>5, <2>6, <2>7, <2>8
  <2> QED BY <2>4, <2>5, <2>8, <2>9, SeqEqual
<1> QED BY <1>1, <1>2, <1>3 DEF Log!Append1

\* The journal a power failure brings back takes away the last entry.
LEMMA UndoneIsUndo ==
  ASSUME IInv, IInv', PowerFailure, LastCommitUndone
  PROVE  Log!Undo
<1> USE DEF IInv
<1>1. /\ journal /\ ~journal' /\ UNCHANGED <<basis, told>>
      /\ current \in audit /\ audit' = audit \ {current} /\ current'.seq = current.seq - 1
  BY DEF PowerFailure, LastCommitUndone, UndoInv, AuditLinear, tryVars
<1>2. History' = SubSeq(History, 1, Len(History) - 1)
  <2>1. /\ Linear(current, audit) /\ History = HistoryOf(current, audit)
        /\ Linear(current', audit') /\ History' = HistoryOf(current', audit')
    BY DEF AuditLinear, Linear, History, HistoryOf
  <2>2. /\ current \in Refs \cup {NoRef} /\ audit \in SUBSET Refs
        /\ current' \in Refs \cup {NoRef} /\ audit' \in SUBSET Refs
    BY DEF TypeOK
  <2>3. /\ current.seq \in Nat /\ History \in Seq(Gens) /\ Len(History) = current.seq
        /\ \A r \in audit : r.seq \in 1..current.seq /\ History[r.seq] = r.gen
    BY <2>1, <2>2, HistoryIsLog
  <2>4. /\ current'.seq \in Nat /\ History' \in Seq(Gens) /\ Len(History') = current'.seq
        /\ \A n \in 1..current'.seq : [gen |-> History'[n], seq |-> n] \in audit'
    BY <2>1, <2>2, HistoryIsLog
  <2> DEFINE rest == SubSeq(History, 1, Len(History) - 1)
  <2>5. /\ rest \in Seq(Gens) /\ Len(rest) = current'.seq
        /\ \A n \in 1..current'.seq : rest[n] = History[n]
    BY <1>1, <2>3, <2>4
  <2>6. ASSUME NEW n \in 1..current'.seq PROVE History'[n] = History[n]
    <3>1. [gen |-> History'[n], seq |-> n] \in audit
      BY <1>1, <2>4
    <3> QED BY <2>3, <3>1
  <2> HIDE DEF rest
  <2>7. History' = rest
    BY <2>4, <2>5, <2>6, SeqEqual
  <2> QED BY <2>7 DEF rest
<1> QED BY <1>1, <1>2 DEF Log!Undo

\* Every step of the store is a step of the log, or leaves the log alone.
LEMMA StepIsLogged ==
  ASSUME IInv, IInv', AnswersInv, [Next]_vars
  PROVE  [Log!Next]_(Log!vars)
<1> USE DEF IInv
<1>1. Log!Tip = current.gen /\ Log!Published = Committed
  BY TipIsCurrent
<1>2. UNCHANGED <<current, audit>> => UNCHANGED History
  BY DEF History
<1>3. CASE Quiet
  BY <1>2, <1>3 DEF Quiet, Log!vars
<1>4. ASSUME NEW p \in Procs, Begins(p) PROVE Log!Next
  <2>1. PICK g \in Gens \ used, e \in Gens \cup {NoGen} :
           /\ basis' = [basis EXCEPT ![g] = e]
           /\ UNCHANGED <<current, audit, journal, told>>
    BY <1>4 DEF Begins
  <2>2. g \notin Committed /\ told[g] = "pending"
    BY DEF UsedInv, AnswersInv, PendingInv
  <2>3. Log!Ask(g, e)
    BY <1>1, <1>2, <2>1, <2>2 DEF Log!Ask
  <2> QED BY <2>3 DEF Log!Next
<1>5. ASSUME NEW p \in Procs, NEW answer \in {"accepted", "conflict", "raised"},
             Tells(p, answer), Log!Justified(mine[p], answer)
      PROVE  Log!Next
  <2>1. mine[p] \in Gens /\ told[mine[p]] = "pending"
    BY <1>5 DEF Tells, AnswersInv, PendingInv
  <2>2. Log!Answer(mine[p], answer)
    BY <1>2, <1>5, <2>1 DEF Tells, Log!Answer
  <2> QED BY <2>1, <2>2 DEF Log!Next
<1>6. ASSUME NEW p \in Procs, Tells(p, "accepted"), PublishReturn(p) PROVE Log!Next
  <2>1. mine[p] \in Committed
    BY <1>6 DEF PublishReturn, AnswersInv, PendingInv
  <2>2. Log!Justified(mine[p], "accepted")
    BY <1>1, <2>1 DEF Log!Justified
  <2> QED BY <1>5, <1>6, <2>2
<1>7. ASSUME NEW p \in Procs, Tells(p, "conflict"), PublishConflict(p) PROVE Log!Next
  <2>1. mine[p] \notin Committed /\ basis[mine[p]] # current.gen
    BY <1>7 DEF PublishConflict, UncommittedInv, Building
  <2>2. Log!Justified(mine[p], "conflict")
    BY <1>1, <2>1 DEF Log!Justified
  <2> QED BY <1>5, <1>7, <2>2
<1>8. ASSUME NEW p \in Procs, Tells(p, "raised") PROVE Log!Next
  <2>1. Log!Justified(mine[p], "raised")
    BY DEF Log!Justified
  <2> QED BY <1>5, <1>8, <2>1
<1>9. ASSUME NEW p \in Procs, Commit(p) PROVE Log!Next
  <2>1. mine[p] \in Gens
    BY <1>9 DEF Commit, Goto, TypeOK, PublishPCs, PublishLocked
  <2> QED BY <1>9, <2>1, CommitIsAppend DEF Log!Next
<1>10. CASE PowerFailure
  <2>1. CASE LastCommitUndone
    BY <1>10, <2>1, UndoneIsUndo DEF Log!Next
  <2>2. CASE UNCHANGED <<current, audit>>
    <3>1. Log!Settle
      BY <1>2, <1>10, <2>2 DEF PowerFailure, tryVars, Log!Settle
    <3> QED BY <3>1 DEF Log!Next
  <2> QED BY <1>10, <2>1, <2>2 DEF PowerFailure
<1> QED BY <1>3, <1>4, <1>6, <1>7, <1>8, <1>9, <1>10, Effects

\* The store, with its processes, lock, files, crashes and power failures,
\* implements a log of publications that grows by one compare-and-swap at a time,
\* whose answers say no more than the log does, and which loses at most its last
\* entry to a power failure.
THEOREM StoreImplementsLog == Spec => ImplementsLog
<1>1. Init => Log!Init
  BY LogInit
<1>2. IInv /\ IInv' /\ AnswersInv /\ [Next]_vars => [Log!Next]_(Log!vars)
  BY StepIsLogged
<1> QED BY <1>1, <1>2, AnswersInductive, PTL DEF Spec, Log!Spec, ImplementsLog
=============================================================================
