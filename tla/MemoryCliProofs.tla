---------------------------- MODULE MemoryCliProofs ----------------------------
(***************************************************************************)
(* Theorems about MemoryCli, for every set of commands and generation ids, *)
(* every number of power failures and joint rollbacks.                     *)
(*                                                                         *)
(* The inductive invariant says which generation a command publishes and   *)
(* what became of it (MineInv, AnswerInv, FateInv), that references read   *)
(* from the store or the witness are in the store unless it was rolled     *)
(* back (StoreInv), and in which order the references stand that were      *)
(* reported, kept, read and are about to be written (OrderInv).            *)
(***************************************************************************)
EXTENDS MemoryCli, SequenceTheorems, TLAPS

USE CliAssumption DEF CliAssumption

\* Before the store's commit of a publish, and after it; the latter also holds
\* for the witness update of a reconciliation, which publishes nothing.
Before == {"plock", "pahead", "pstore", "ustore"}
After  == {"pcommitted", "ucommitted", "wread", "wreplace", "wsync", "wdone"}

LogInv == log \in Seq(Gens) /\ restores \in Nat /\ outages \in Nat

\* Only a publish has a generation, a drawn one, and nobody else has the same.
MineInv ==
    \A p \in Procs :
      /\ mine[p] \in used \cup {NoGen}
      /\ pc[p] \in Before \cup {"pcommitted", "ucommitted"} => mine[p] # NoGen
      /\ pc[p] \notin Before \cup After \cup {"alarm"} => mine[p] = NoGen
      /\ \A q \in Procs : p # q /\ mine[p] # NoGen => mine[p] # mine[q]

\* What was said of a generation was said when its publish was over.
AnswerInv ==
    \A g \in Gens : local[g] # "pending" => g \in used /\ \A p \in Procs : mine[p] # g

\* A command's generation is not in the store before its commit, and is
\* afterwards, unless the store is rolled back.
FateInv ==
    \A p \in Procs : mine[p] # NoGen =>
      /\ pc[p] \in Before \cup {"alarm"} => mine[p] \notin Published
      /\ restores = 0 /\ pc[p] \in After => mine[p] \in Published

\* The store has published r, at r's sequence.
OnLog(r) == r # NoRef => r.seq \in 1..Len(log) /\ log[r.seq] = r.gen

\* Without a rollback all references at hand are in the store, so none of them
\* is ahead of one that was read later.
StoreInv == restores = 0 =>
    /\ OnLog(witness) /\ OnLog(kept)
    /\ \A p \in Procs : /\ OnLog(found[p]) /\ OnLog(ref[p])
                        /\ pc[p] = "cahead" => NotAhead(found[p], ref[p])

\* From the reported reference through the durable and the visible witness to
\* the one about to be written nothing is ahead of what follows it.
OrderInv ==
    /\ NotAhead(reported, kept)
    /\ NotAhead(kept, witness)
    /\ \A p \in Procs :
         /\ pc[p] = "wreplace" => NotAhead(witness, ref[p])
         /\ pc[p] \in {"wsync", "wdone"} => witness = ref[p]
         /\ pc[p] = "wdone" => kept = ref[p]
         /\ pc[p] = "rfloor" => found[p] # NoRef /\ NotAhead(due[p], found[p])

IInv ==
    /\ TypeOK /\ LogInv /\ MineInv /\ AnswerInv /\ FateInv /\ StoreInv /\ OrderInv
    /\ RollbackNoticed /\ NoFalseAlarm /\ LocalAnswersTrue

AnyRef == Refs \cup {NoRef}

-----------------------------------------------------------------------------
(* References and the log *)

\* Of references, not being ahead is transitive.
LEMMA NotAheadTransitive ==
  ASSUME NEW a \in AnyRef, NEW b \in AnyRef, NEW c \in AnyRef,
         NotAhead(a, b), NotAhead(b, c)
  PROVE  NotAhead(a, c)
BY DEF NotAhead, AnyRef, Refs, NoRef

\* The current reference is on the log, and nothing on the log is ahead of it.
LEMMA CurrentIsLast ==
  ASSUME LogInv
  PROVE  /\ Current \in AnyRef
         /\ OnLog(Current)
         /\ Current # NoRef => Current.seq = Len(log) /\ Current.gen \in Published
         /\ \A r \in AnyRef : OnLog(r) => NotAhead(r, Current)
<1>1. CASE log = <<>>
  BY <1>1 DEF Current, AnyRef, OnLog, NotAhead, NoRef, Refs
<1>2. CASE log # <<>>
  <2>1. Len(log) \in Nat \ {0} /\ log[Len(log)] \in Gens
    BY <1>2, EmptySeq, ElementOfSeq DEF LogInv
  <2>2. Current = [gen |-> log[Len(log)], seq |-> Len(log)]
    BY <1>2 DEF Current
  <2>3. \A r \in AnyRef : OnLog(r) => NotAhead(r, Current)
    BY <2>1, <2>2 DEF AnyRef, Refs, NoRef, OnLog, NotAhead
  <2> QED BY <2>1, <2>2, <2>3 DEF AnyRef, Refs, NoRef, OnLog, Published
<1> QED BY <1>1, <1>2

\* What a commit does to the log.
LEMMA AppendKeeps ==
  ASSUME LogInv, NEW g \in Gens, log' = Append(log, g)
  PROVE  /\ log' \in Seq(Gens)
         /\ Published' = Published \cup {g}
         /\ \A r \in AnyRef : OnLog(r) /\ r # NoRef => r.seq \in 1..Len(log') /\ log'[r.seq] = r.gen
         /\ Len(log') = Len(log) + 1 /\ log'[Len(log) + 1] = g
<1>1. /\ log' \in Seq(Gens) /\ Len(log) \in Nat /\ Len(log') = Len(log) + 1
      /\ \A i \in 1..Len(log) : log'[i] = log[i]
      /\ log'[Len(log) + 1] = g
  BY AppendProperties DEF LogInv
<1>2. Published' = Published \cup {g}
  <2>1. ASSUME NEW x \in Published' PROVE x \in Published \cup {g}
    BY <1>1, <2>1 DEF Published
  <2>2. ASSUME NEW x \in Published PROVE x \in Published'
    BY <1>1, <2>2 DEF Published
  <2>3. g \in Published'
    BY <1>1 DEF Published
  <2> QED BY <2>1, <2>2, <2>3
<1> QED BY <1>1, <1>2 DEF OnLog, AnyRef, Refs, NoRef

\* What a rollback leaves of it.
LEMMA RestoreShrinks ==
  ASSUME LogInv, NEW n \in 0..(Len(log) - 1), log' = SubSeq(log, 1, n)
  PROVE  log' \in Seq(Gens) /\ Published' \subseteq Published
<1>1. Len(log) \in Nat /\ \A i \in 1..n : log[i] \in Gens
  BY ElementOfSeq DEF LogInv
<1>2. log' \in Seq(Gens) /\ Len(log') = n /\ \A i \in 1..n : log'[i] = log[i]
  BY <1>1, SubSeqProperties
<1> QED BY <1>1, <1>2 DEF Published

-----------------------------------------------------------------------------
\* The invariant holds at first.
LEMMA InitIInv == Init => IInv
<1> SUFFICES ASSUME Init PROVE IInv
  OBVIOUS
<1>1. Published = {}
  BY EmptySeq DEF Init, Published
<1>2. TypeOK
  BY <1>1 DEF Init, TypeOK, PCs
<1>3. LogInv
  BY EmptySeq DEF Init, LogInv
<1>4. MineInv /\ AnswerInv /\ FateInv
  BY DEF Init, MineInv, AnswerInv, FateInv, Before, After
<1>5. StoreInv /\ OrderInv
  BY DEF Init, StoreInv, OrderInv, OnLog, NotAhead
<1>6. RollbackNoticed /\ NoFalseAlarm /\ LocalAnswersTrue
  BY DEF Init, RollbackNoticed, NoFalseAlarm, LocalAnswersTrue
<1> QED BY <1>2, <1>3, <1>4, <1>5, <1>6 DEF IInv

\* The end of a command keeps the invariant if what it says is true: a yes after
\* the commit, a no before it, and COMPLETE when the witness is durable.
LEMMA FinishKeeps ==
  ASSUME IInv, NEW p \in Procs, Finish(p), UNCHANGED <<log, file, used, world>>,
         \/ UNCHANGED reported
         \/ pc[p] = "wdone" /\ reported' = ref[p],
         \/ UNCHANGED local
         \/ /\ mine[p] # NoGen
            /\ \/ local' = [local EXCEPT ![mine[p]] = "unknown"]
               \/ pc[p] \in After /\ local' = [local EXCEPT ![mine[p]] = "yes"]
               \/ pc[p] \in Before \cup {"alarm"} /\ local' = [local EXCEPT ![mine[p]] = "no"]
  PROVE  IInv'
<1> USE DEF IInv, Finish, Release, file, world
<1>1. TypeOK'
  BY DEF TypeOK, PCs, Published, MineInv
<1>2. LogInv'
  BY DEF LogInv
<1>3. MineInv' /\ AnswerInv'
  BY DEF TypeOK, MineInv, AnswerInv, Before, After
<1>4. Published' = Published
  BY DEF Published
<1>5. FateInv'
  BY <1>4 DEF TypeOK, FateInv
<1>6. StoreInv' /\ OrderInv'
  BY DEF TypeOK, StoreInv, OrderInv, OnLog, NotAhead
<1>7. RollbackNoticed' /\ NoFalseAlarm'
  BY DEF TypeOK, RollbackNoticed, NoFalseAlarm, NotAhead
<1>8. LocalAnswersTrue'
  BY <1>4 DEF TypeOK, LocalAnswersTrue, FateInv
<1> QED BY <1>1, <1>2, <1>3, <1>5, <1>6, <1>7, <1>8

\* The ends of a command that report no COMPLETE.
LEMMA RaiseKeeps ==
  ASSUME IInv, NEW p \in Procs, NEW answer, Raise(p, answer),
         \/ answer = "unknown"
         \/ answer = "yes" /\ pc[p] \in After
         \/ answer = "no" /\ pc[p] \notin After
  PROVE  IInv'
<1>1. CASE mine[p] = NoGen
  BY <1>1, FinishKeeps DEF Raise, Report
<1>2. CASE mine[p] # NoGen
  <2>1. answer = "no" => pc[p] \in Before \cup {"alarm"}
    BY <1>2 DEF IInv, MineInv, Before, After
  <2> QED BY <1>2, <2>1, FinishKeeps DEF Raise, Report
<1> QED BY <1>1, <1>2

-----------------------------------------------------------------------------
(* The steps of the commands, one step of the proof per action *)

\* A publish command that begins keeps the invariant.
LEMMA PublishStartKeeps ==
  ASSUME IInv, NEW p \in Procs, PublishStart(p)
  PROVE  IInv'
<1> USE DEF IInv, file, world
<1>1. PICK g \in Gens \ used : used' = used \cup {g} /\ mine' = [mine EXCEPT ![p] = g]
  BY DEF PublishStart
<1>2. /\ pc[p] = "idle" /\ pc' \in {[pc EXCEPT ![p] = "plock"], [pc EXCEPT ![p] = "ustore"]}
      /\ UNCHANGED <<log, file, wlock, found, ref, due, reported, local, world>>
  BY DEF PublishStart, Goto
<1>3. Published' = Published
  BY <1>2 DEF Published
<1>4. TypeOK'
  BY <1>1, <1>2, <1>3 DEF TypeOK, PCs
<1>5. LogInv' /\ MineInv' /\ AnswerInv'
  BY <1>1, <1>2 DEF TypeOK, LogInv, MineInv, AnswerInv, Before, After
<1>6. FateInv'
  BY <1>1, <1>2, <1>3 DEF TypeOK, FateInv, Before, After
<1>7. StoreInv' /\ OrderInv'
  BY <1>2 DEF TypeOK, StoreInv, OrderInv, OnLog, NotAhead
<1>8. RollbackNoticed' /\ NoFalseAlarm' /\ LocalAnswersTrue'
  BY <1>2, <1>3 DEF TypeOK, RollbackNoticed, NoFalseAlarm, LocalAnswersTrue, NotAhead
<1> QED BY <1>4, <1>5, <1>6, <1>7, <1>8

\* Taking the witness lock keeps the invariant.
LEMMA EnterKeeps ==
  ASSUME IInv, NEW p \in Procs, Enter(p)
  PROVE  IInv'
<1> USE DEF IInv, file, world, words
<1>1. /\ \/ pc[p] = "plock" /\ pc' = [pc EXCEPT ![p] = "pahead"]
         \/ pc[p] = "clock" /\ pc' = [pc EXCEPT ![p] = "crecall"]
      /\ wlock = NoProc /\ wlock' = p /\ found' = [found EXCEPT ![p] = witness]
      /\ UNCHANGED <<log, file, mine, expect, ref, due, words, world>>
  BY DEF Enter, Goto
<1>2. Published' = Published
  BY <1>1 DEF Published
<1>3. TypeOK'
  BY <1>1, <1>2 DEF TypeOK, PCs
<1>4. LogInv' /\ MineInv' /\ AnswerInv'
  BY <1>1 DEF TypeOK, LogInv, MineInv, AnswerInv, Before, After
<1>5. FateInv'
  BY <1>1, <1>2 DEF TypeOK, FateInv, Before, After
<1>6. StoreInv' /\ OrderInv'
  BY <1>1 DEF TypeOK, StoreInv, OrderInv, OnLog, NotAhead
<1>7. RollbackNoticed' /\ NoFalseAlarm' /\ LocalAnswersTrue'
  BY <1>1, <1>2 DEF TypeOK, RollbackNoticed, NoFalseAlarm, LocalAnswersTrue, NotAhead
<1> QED BY <1>3, <1>4, <1>5, <1>6, <1>7

\* The store's commit keeps the invariant.
LEMMA StoreCommitKeeps ==
  ASSUME IInv, NEW p \in Procs, StoreCommit(p)
  PROVE  IInv'
<1> USE DEF IInv, file, world, words
<1> DEFINE g == mine[p]
<1>1. /\ \/ pc[p] = "pstore" /\ pc' = [pc EXCEPT ![p] = "pcommitted"]
         \/ pc[p] = "ustore" /\ pc' = [pc EXCEPT ![p] = "ucommitted"]
      /\ log' = Append(log, g) /\ ref' = [ref EXCEPT ![p] = [gen |-> g, seq |-> Len(log) + 1]]
      /\ UNCHANGED <<file, wlock, mine, expect, found, due, words, world>>
  BY DEF StoreCommit, Goto
<1>2. g \in Gens /\ g \in used
  BY <1>1 DEF TypeOK, MineInv, Before
<1>3. Len(log) \in Nat
  BY LenProperties DEF LogInv
<1>4. /\ log' \in Seq(Gens) /\ Published' = Published \cup {g}
      /\ Len(log') = Len(log) + 1 /\ log'[Len(log) + 1] = g
      /\ \A r \in AnyRef : OnLog(r) /\ r # NoRef => r.seq \in 1..Len(log') /\ log'[r.seq] = r.gen
  BY <1>1, <1>2, AppendKeeps
<1> HIDE DEF g
<1>5. TypeOK'
  <2>1. [gen |-> g, seq |-> Len(log) + 1] \in Refs
    BY <1>2, <1>3 DEF Refs
  <2>2. ref' \in [Procs -> Refs \cup {NoRef}] /\ pc' \in [Procs -> PCs]
    BY <1>1, <2>1 DEF TypeOK, PCs
  <2>3. Published' \subseteq used'
    BY <1>1, <1>2, <1>4 DEF TypeOK
  <2> QED BY <1>1, <2>2, <2>3 DEF TypeOK
<1>6. LogInv' /\ MineInv' /\ AnswerInv'
  BY <1>1, <1>4, ZenonT(40) DEF TypeOK, LogInv, MineInv, AnswerInv, Before, After
<1>7. FateInv'
  <2>1. \A q \in Procs : q # p /\ mine[q] # NoGen => mine[q] # g
    BY <1>2 DEF MineInv, g
  <2> QED BY <1>1, <1>4, <2>1 DEF TypeOK, FateInv, Before, After, g
<1>8. StoreInv'
  <2>1. \A r \in AnyRef : OnLog(r) => (r # NoRef => r.seq \in 1..Len(log') /\ log'[r.seq] = r.gen)
    BY <1>4
  <2>2. ASSUME restores = 0 PROVE /\ OnLog(witness)' /\ OnLog(kept)'
                                  /\ \A q \in Procs : OnLog(found[q])'
    BY <2>1, <2>2, <1>1 DEF StoreInv, OnLog, AnyRef, TypeOK
  <2>3. ASSUME restores = 0, NEW q \in Procs PROVE OnLog(ref[q])'
    BY <2>1, <2>3, <1>1, <1>3, <1>4 DEF StoreInv, OnLog, AnyRef, TypeOK
  <2>4. ASSUME restores = 0, NEW q \in Procs, pc'[q] = "cahead" PROVE NotAhead(found[q], ref[q])'
    BY <2>4, <1>1 DEF StoreInv, NotAhead, TypeOK
  <2> QED BY <2>2, <2>3, <2>4, <1>1 DEF StoreInv
<1>9. OrderInv'
  BY <1>1 DEF TypeOK, OrderInv, NotAhead
<1>10. RollbackNoticed' /\ NoFalseAlarm'
  BY <1>1 DEF TypeOK, RollbackNoticed, NoFalseAlarm, NotAhead
<1>11. LocalAnswersTrue'
  BY <1>1, <1>2, <1>4 DEF LocalAnswersTrue, AnswerInv, g
<1> QED BY <1>5, <1>6, <1>7, <1>8, <1>9, <1>10, <1>11

\* The steps that only move a command on.
LEMMA MoveKeeps ==
  ASSUME IInv, NEW p \in Procs, UNCHANGED <<log, file, wlock, mind, words, world>>,
         \/ Goto(p, "pahead", "pstore")
         \/ restores # 0 /\ (Goto(p, "pahead", "alarm") \/ Goto(p, "cahead", "alarm"))
         \/ Goto(p, "pcommitted", "wread")
         \/ Goto(p, "idle", "clock")
         \/ Goto(p, "cahead", "wread")
         \/ NotAhead(witness, ref[p]) /\ Goto(p, "wread", "wreplace")
  PROVE  IInv'
<1> USE DEF IInv, file, mind, words, world, Goto
<1>1. Published' = Published
  BY DEF Published
<1>2. TypeOK'
  BY <1>1 DEF TypeOK, PCs
<1>3. LogInv' /\ MineInv' /\ AnswerInv'
  BY DEF TypeOK, LogInv, MineInv, AnswerInv, Before, After
<1>4. FateInv'
  BY <1>1 DEF TypeOK, FateInv, MineInv, Before, After
<1>5. StoreInv' /\ OrderInv'
  BY DEF TypeOK, StoreInv, OrderInv, OnLog, NotAhead
<1>6. RollbackNoticed' /\ NoFalseAlarm' /\ LocalAnswersTrue'
  BY <1>1 DEF TypeOK, RollbackNoticed, NoFalseAlarm, LocalAnswersTrue, NotAhead
<1> QED BY <1>2, <1>3, <1>4, <1>5, <1>6

\* What a publisher compares with its witness is ahead of it only after a rollback.
LEMMA PublishAheadKeeps ==
  ASSUME IInv, NEW p \in Procs, PublishAhead(p)
  PROVE  IInv'
<1>1. CASE NotAhead(found[p], Current) /\ Goto(p, "pahead", "pstore")
  BY <1>1, MoveKeeps DEF PublishAhead
<1>2. CASE ~NotAhead(found[p], Current) /\ Goto(p, "pahead", "alarm")
  <2>1. restores # 0
    BY <1>2, CurrentIsLast DEF IInv, StoreInv, TypeOK, AnyRef
  <2> QED BY <1>2, <2>1, MoveKeeps DEF PublishAhead
<1> QED BY <1>1, <1>2 DEF PublishAhead

\* A reconcile that finds the store ahead keeps the invariant.
LEMMA ReconcileAheadKeeps ==
  ASSUME IInv, NEW p \in Procs, ReconcileAhead(p)
  PROVE  IInv'
<1>1. CASE NotAhead(found[p], ref[p]) /\ Goto(p, "cahead", "wread")
  BY <1>1, MoveKeeps DEF ReconcileAhead
<1>2. CASE ~NotAhead(found[p], ref[p]) /\ Goto(p, "cahead", "alarm")
  <2>1. restores # 0
    BY <1>2 DEF IInv, StoreInv, Goto
  <2> QED BY <1>2, <2>1, MoveKeeps DEF ReconcileAhead
<1> QED BY <1>1, <1>2 DEF ReconcileAhead

\* The lock holder alone writes the file, what it compared it with.
LEMMA WitnessReplaceKeeps ==
  ASSUME IInv, NEW p \in Procs, WitnessReplace(p)
  PROVE  IInv' /\ NotAhead(witness, witness')
<1> USE DEF IInv, mind, words, world
<1>1. /\ pc[p] = "wreplace" /\ pc' = [pc EXCEPT ![p] = "wsync"] /\ witness' = ref[p]
      /\ UNCHANGED <<log, kept, wlock, mind, words, world>>
  BY DEF WitnessReplace, Goto
<1>2. Published' = Published
  BY <1>1 DEF Published
<1>3. TypeOK'
  BY <1>1, <1>2 DEF TypeOK, PCs
<1>4. LogInv' /\ MineInv' /\ AnswerInv'
  BY <1>1 DEF TypeOK, LogInv, MineInv, AnswerInv, Before, After
<1>5. FateInv'
  BY <1>1, <1>2 DEF TypeOK, FateInv, Before, After
<1>6. StoreInv'
  BY <1>1 DEF TypeOK, StoreInv, OnLog, NotAhead
<1>7. NotAhead(witness, witness')
  BY <1>1 DEF OrderInv
<1>8. OrderInv'
  <2>1. NotAhead(kept, witness')
    BY <1>1, <1>7, NotAheadTransitive DEF OrderInv, TypeOK, AnyRef
  <2>2. \A q \in Procs : pc[q] \in {"wreplace", "wsync", "wdone"} => q = p
    BY <1>1 DEF TypeOK
  <2> QED BY <1>1, <2>1, <2>2 DEF TypeOK, OrderInv, NotAhead
<1>9. RollbackNoticed' /\ NoFalseAlarm' /\ LocalAnswersTrue'
  BY <1>1, <1>2 DEF TypeOK, RollbackNoticed, NoFalseAlarm, LocalAnswersTrue, NotAhead
<1> QED BY <1>3, <1>4, <1>5, <1>6, <1>7, <1>8, <1>9

\* Replacing and syncing the witness file keeps the invariant.
LEMMA WitnessSyncKeeps ==
  ASSUME IInv, NEW p \in Procs, WitnessSync(p)
  PROVE  IInv'
<1> USE DEF IInv, mind, words, world
<1>1. /\ pc[p] = "wsync" /\ pc' = [pc EXCEPT ![p] = "wdone"] /\ kept' = witness
      /\ UNCHANGED <<log, witness, wlock, mind, words, world>>
  BY DEF WitnessSync, Goto
<1>2. Published' = Published
  BY <1>1 DEF Published
<1>3. TypeOK'
  BY <1>1, <1>2 DEF TypeOK, PCs
<1>4. LogInv' /\ MineInv' /\ AnswerInv'
  BY <1>1 DEF TypeOK, LogInv, MineInv, AnswerInv, Before, After
<1>5. FateInv'
  BY <1>1, <1>2 DEF TypeOK, FateInv, Before, After
<1>6. StoreInv'
  BY <1>1 DEF TypeOK, StoreInv, OnLog, NotAhead
<1>7. OrderInv'
  <2>1. NotAhead(reported, kept') /\ NotAhead(kept', witness)
    BY <1>1, NotAheadTransitive DEF OrderInv, TypeOK, AnyRef, NotAhead
  <2>2. \A q \in Procs : pc[q] \in {"wreplace", "wsync", "wdone"} => q = p
    BY <1>1 DEF TypeOK
  <2> QED BY <1>1, <2>1, <2>2 DEF TypeOK, OrderInv, NotAhead
<1>8. RollbackNoticed' /\ NoFalseAlarm' /\ LocalAnswersTrue'
  BY <1>1, <1>2 DEF TypeOK, RollbackNoticed, NoFalseAlarm, LocalAnswersTrue, NotAhead
<1> QED BY <1>3, <1>4, <1>5, <1>6, <1>7, <1>8

\* The reference the store approves is not behind a witness read before.
LEMMA ReconcileRecallKeeps ==
  ASSUME IInv, NEW p \in Procs, ReconcileRecall(p)
  PROVE  IInv'
<1> USE DEF IInv, file, words, world
<1>1. /\ pc[p] = "crecall" /\ pc' = [pc EXCEPT ![p] = "cahead"]
      /\ ref' = [ref EXCEPT ![p] = Current]
      /\ UNCHANGED <<log, file, wlock, mine, expect, found, due, words, world>>
  BY DEF ReconcileRecall, Goto
<1>2. Published' = Published
  BY <1>1 DEF Published
<1>3. Current \in AnyRef /\ OnLog(Current) /\ \A r \in AnyRef : OnLog(r) => NotAhead(r, Current)
  BY CurrentIsLast
<1>4. TypeOK'
  BY <1>1, <1>2, <1>3 DEF TypeOK, PCs, AnyRef
<1>5. LogInv' /\ MineInv' /\ AnswerInv'
  BY <1>1 DEF TypeOK, LogInv, MineInv, AnswerInv, Before, After
<1>6. FateInv'
  BY <1>1, <1>2 DEF TypeOK, FateInv, Before, After
<1>7. StoreInv'
  <2> SUFFICES ASSUME restores = 0 PROVE StoreInv'
    BY <1>1 DEF StoreInv
  <2>1. OnLog(witness)' /\ OnLog(kept)'
    BY <1>1 DEF StoreInv, OnLog
  <2>2. ASSUME NEW q \in Procs PROVE OnLog(found[q])' /\ OnLog(ref[q])'
    BY <1>1, <1>3 DEF TypeOK, StoreInv, OnLog
  <2>3. ASSUME NEW q \in Procs, pc'[q] = "cahead" PROVE NotAhead(found[q], ref[q])'
    <3>1. CASE q = p
      BY <1>1, <1>3, <3>1 DEF TypeOK, StoreInv, AnyRef, NotAhead
    <3>2. CASE q # p
      BY <1>1, <2>3, <3>2 DEF TypeOK, StoreInv, NotAhead
    <3> QED BY <3>1, <3>2
  <2> QED BY <2>1, <2>2, <2>3 DEF StoreInv
<1>8. OrderInv'
  BY <1>1 DEF TypeOK, OrderInv, NotAhead
<1>9. RollbackNoticed' /\ NoFalseAlarm' /\ LocalAnswersTrue'
  BY <1>1, <1>2 DEF TypeOK, RollbackNoticed, NoFalseAlarm, LocalAnswersTrue, NotAhead
<1> QED BY <1>4, <1>5, <1>6, <1>7, <1>8, <1>9

\* A recall that reads the witness keeps the invariant.
LEMMA RecallLoadKeeps ==
  ASSUME IInv, NEW p \in Procs, RecallLoad(p)
  PROVE  IInv'
<1> USE DEF IInv, file, words, world
<1>1. /\ pc[p] = "idle" /\ pc' = [pc EXCEPT ![p] = "rfloor"] /\ witness # NoRef
      /\ found' = [found EXCEPT ![p] = witness] /\ due' = [due EXCEPT ![p] = reported]
      /\ UNCHANGED <<log, file, wlock, mine, expect, ref, words, world>>
  BY DEF RecallLoad, Goto
<1>2. Published' = Published
  BY <1>1 DEF Published
<1>3. TypeOK'
  BY <1>1, <1>2 DEF TypeOK, PCs
<1>4. LogInv' /\ MineInv' /\ AnswerInv'
  BY <1>1 DEF TypeOK, LogInv, MineInv, AnswerInv, Before, After
<1>5. FateInv'
  BY <1>1, <1>2 DEF TypeOK, FateInv, Before, After
<1>6. StoreInv'
  BY <1>1 DEF TypeOK, StoreInv, OnLog, NotAhead
<1>7. OrderInv'
  <2>1. NotAhead(reported, witness)
    BY NotAheadTransitive DEF OrderInv, TypeOK, AnyRef
  <2> QED BY <1>1, <2>1 DEF TypeOK, OrderInv, NotAhead
<1>8. RollbackNoticed' /\ NoFalseAlarm' /\ LocalAnswersTrue'
  BY <1>1, <1>2 DEF TypeOK, RollbackNoticed, NoFalseAlarm, LocalAnswersTrue, NotAhead
<1> QED BY <1>3, <1>4, <1>5, <1>6, <1>7, <1>8

\* The floor OffHostWitness.verify sets is the order of references.
LEMMA VerifyIsNotAhead ==
  ASSUME NEW w \in Refs, NEW r \in Refs
  PROVE  Verify(w, r) <=> NotAhead(w, r)
BY DEF Verify, NotAhead, Refs, NoRef

\* A recall's floor check keeps the invariant.
LEMMA RecallVerifyKeeps ==
  ASSUME IInv, NEW p \in Procs, RecallVerify(p)
  PROVE  IInv'
<1> USE DEF IInv, file, words, world
<1>1. /\ pc[p] = "rfloor" /\ ref' = [ref EXCEPT ![p] = Current] /\ Current # NoRef
      /\ \/ Verify(found[p], Current) /\ pc' = [pc EXCEPT ![p] = "raccepted"]
         \/ ~Verify(found[p], Current) /\ pc' = [pc EXCEPT ![p] = "alarm"]
      /\ UNCHANGED <<log, file, wlock, mine, expect, found, due, words, world>>
  BY DEF RecallVerify, Goto
<1>2. Published' = Published
  BY <1>1 DEF Published
<1>3. /\ Current \in Refs /\ OnLog(Current)
      /\ \A r \in AnyRef : OnLog(r) => NotAhead(r, Current)
  BY <1>1, CurrentIsLast DEF AnyRef
<1>4. found[p] \in Refs /\ NotAhead(due[p], found[p])
  BY <1>1 DEF OrderInv, TypeOK
<1>5. Verify(found[p], Current) <=> NotAhead(found[p], Current)
  BY <1>3, <1>4, VerifyIsNotAhead
<1>6. TypeOK'
  BY <1>1, <1>2, <1>3 DEF TypeOK, PCs
<1>7. LogInv' /\ MineInv' /\ AnswerInv'
  BY <1>1 DEF TypeOK, LogInv, MineInv, AnswerInv, Before, After
<1>8. FateInv'
  BY <1>1, <1>2 DEF TypeOK, FateInv, MineInv, Before, After
<1>9. StoreInv'
  BY <1>1, <1>3 DEF TypeOK, StoreInv, OnLog, NotAhead
<1>10. OrderInv'
  BY <1>1 DEF TypeOK, OrderInv, NotAhead
<1>11. RollbackNoticed'
  <2> SUFFICES ASSUME NEW q \in Procs, pc'[q] = "raccepted" PROVE NotAhead(due'[q], ref'[q])
    BY DEF RollbackNoticed, NotAhead
  <2>1. CASE q = p
    <3>1. NotAhead(found[p], Current)
      BY <1>1, <1>5, <2>1 DEF TypeOK
    <3>2. NotAhead(due[p], Current)
      BY <1>3, <1>4, <3>1, NotAheadTransitive DEF TypeOK, AnyRef
    <3> QED BY <1>1, <2>1, <3>2 DEF TypeOK, NotAhead
  <2>2. CASE q # p
    BY <1>1, <2>2 DEF TypeOK, RollbackNoticed, NotAhead
  <2> QED BY <2>1, <2>2
<1>12. NoFalseAlarm'
  <2>1. restores = 0 => NotAhead(found[p], Current)
    BY <1>3, <1>4 DEF StoreInv, AnyRef
  <2> QED BY <1>1, <1>5, <2>1 DEF TypeOK, NoFalseAlarm
<1>13. LocalAnswersTrue'
  BY <1>1, <1>2 DEF LocalAnswersTrue
<1> QED BY <1>6, <1>7, <1>8, <1>9, <1>10, <1>11, <1>12, <1>13

-----------------------------------------------------------------------------
(* The environment *)

\* A power failure keeps the invariant.
LEMMA PowerFailureKeeps ==
  ASSUME IInv, PowerFailure
  PROVE  IInv' /\ (witness' = witness \/ (outages' # outages /\ witness' = kept))
<1> USE DEF IInv, PowerFailure, words
<1>1. Published' = Published
  BY DEF Published
<1>2. TypeOK'
  BY <1>1 DEF TypeOK, PCs
<1>3. LogInv' /\ outages' # outages
  BY DEF LogInv
<1>4. MineInv' /\ AnswerInv' /\ FateInv'
  BY DEF TypeOK, MineInv, AnswerInv, FateInv, Before, After
<1>5. StoreInv'
  BY DEF TypeOK, StoreInv, OnLog, NotAhead
<1>6. OrderInv'
  <2>1. NotAhead(reported, witness)
    BY NotAheadTransitive DEF OrderInv, TypeOK, AnyRef
  <2> QED BY <2>1 DEF OrderInv, NotAhead
<1>7. RollbackNoticed' /\ NoFalseAlarm'
  BY DEF RollbackNoticed, NoFalseAlarm
<1>8. LocalAnswersTrue'
  BY <1>1 DEF LocalAnswersTrue
<1> QED BY <1>2, <1>3, <1>4, <1>5, <1>6, <1>7, <1>8

\* Putting an older store in place keeps the invariant and leaves the witness alone.
LEMMA RestoreKeeps ==
  ASSUME IInv, Restore
  PROVE  IInv' /\ witness' = witness
<1> USE DEF IInv, file, mind, words
<1>1. PICK n \in 0..(Len(log) - 1) : log' = SubSeq(log, 1, n)
  BY DEF Restore
<1>2. UNCHANGED <<file, wlock, pc, mind, words, outages>> /\ restores' = restores + 1
  BY DEF Restore
<1>3. log' \in Seq(Gens) /\ Published' \subseteq Published
  BY <1>1, RestoreShrinks
<1>4. TypeOK'
  BY <1>2, <1>3 DEF TypeOK, PCs
<1>5. LogInv' /\ restores' # 0
  BY <1>2, <1>3 DEF LogInv
<1>6. MineInv' /\ AnswerInv' /\ FateInv'
  BY <1>2, <1>3, <1>5 DEF MineInv, AnswerInv, FateInv
<1>7. StoreInv' /\ OrderInv'
  BY <1>2, <1>5 DEF StoreInv, OrderInv, NotAhead
<1>8. RollbackNoticed' /\ NoFalseAlarm' /\ LocalAnswersTrue'
  BY <1>2, <1>5 DEF RollbackNoticed, NoFalseAlarm, LocalAnswersTrue, NotAhead
<1> QED BY <1>2, <1>4, <1>5, <1>6, <1>7, <1>8

-----------------------------------------------------------------------------
\* The death of a process keeps the invariant.
LEMMA KillKeeps ==
  ASSUME IInv, NEW p \in Procs, Kill(p)
  PROVE  IInv'
BY FinishKeeps DEF Kill, words

\* A command that has kept its witness keeps the invariant.
LEMMA WitnessDoneKeeps ==
  ASSUME IInv, NEW p \in Procs, WitnessDone(p)
  PROVE  IInv'
<1>1. pc[p] \in After
  BY DEF WitnessDone, After
<1> QED BY <1>1, FinishKeeps DEF WitnessDone, Report

\* All steps of one command.
LEMMA CommandKeeps ==
  ASSUME IInv, NEW p \in Procs,
         Publish(p) \/ Update(p) \/ Reconcile(p) \/ Recall(p) \/ Alarm(p) \/ Kill(p)
  PROVE  IInv' /\ (witness' = witness \/ NotAhead(witness, witness'))
<1>1. CASE PublishStart(p)
  BY <1>1, PublishStartKeeps DEF PublishStart, file
<1>2. CASE Enter(p)
  BY <1>2, EnterKeeps DEF Enter, file
<1>3. CASE EnterFail(p)
  BY <1>3, RaiseKeeps DEF EnterFail, After, Raise, file
<1>4. CASE PublishAhead(p)
  BY <1>4, PublishAheadKeeps DEF PublishAhead, file
<1>5. CASE StoreCommit(p)
  BY <1>5, StoreCommitKeeps DEF StoreCommit, file
<1>6. CASE StoreReturn(p)
  BY <1>6, MoveKeeps DEF StoreReturn, file
<1>7. CASE StoreRefuse(p)
  BY <1>7, RaiseKeeps DEF StoreRefuse, After, Raise, file
<1>8. CASE StoreRaise(p)
  BY <1>8, RaiseKeeps DEF StoreRaise, After, Raise, file
<1>9. CASE UnwitnessedReturn(p)
  BY <1>9, RaiseKeeps DEF UnwitnessedReturn, After, Raise, file
<1>10. CASE WitnessReread(p)
  BY <1>10, MoveKeeps DEF WitnessReread, file
<1>11. CASE WitnessReplace(p)
  BY <1>11, WitnessReplaceKeeps
<1>12. CASE WitnessSync(p)
  BY <1>12, WitnessSyncKeeps DEF WitnessSync
<1>13. CASE WitnessFail(p)
  BY <1>13, RaiseKeeps DEF WitnessFail, After, Raise, file
<1>14. CASE WitnessDone(p)
  BY <1>14, WitnessDoneKeeps DEF WitnessDone, file
<1>15. CASE ReconcileStart(p)
  BY <1>15, MoveKeeps DEF ReconcileStart, file
<1>16. CASE ReconcileRecall(p)
  BY <1>16, ReconcileRecallKeeps DEF ReconcileRecall, file
<1>17. CASE ReconcileAhead(p)
  BY <1>17, ReconcileAheadKeeps DEF ReconcileAhead, file
<1>18. CASE ReconcileRefuse(p)
  BY <1>18, RaiseKeeps DEF ReconcileRefuse, After, Raise, file
<1>19. CASE RecallLoad(p)
  BY <1>19, RecallLoadKeeps DEF RecallLoad, file
<1>20. CASE RecallVerify(p)
  BY <1>20, RecallVerifyKeeps DEF RecallVerify, file
<1>21. CASE RecallEnd(p)
  BY <1>21, RaiseKeeps DEF RecallEnd, After, Raise, file
<1>22. CASE Alarm(p)
  BY <1>22, RaiseKeeps DEF Alarm, After, Raise, file
<1>23. CASE Kill(p)
  BY <1>23, KillKeeps DEF Kill, file
<1> QED BY <1>1, <1>2, <1>3, <1>4, <1>5, <1>6, <1>7, <1>8, <1>9, <1>10, <1>11, <1>12,
          <1>13, <1>14, <1>15, <1>16, <1>17, <1>18, <1>19, <1>20, <1>21, <1>22, <1>23
       DEF Publish, Update, Reconcile, Recall

\* Every step keeps the invariant.
LEMMA IndNext == IInv /\ [Next]_vars => IInv'
<1> SUFFICES ASSUME IInv, [Next]_vars PROVE IInv'
  OBVIOUS
<1>1. ASSUME NEW p \in Procs,
             Publish(p) \/ Update(p) \/ Reconcile(p) \/ Recall(p) \/ Alarm(p) \/ Kill(p)
      PROVE  IInv'
  BY <1>1, CommandKeeps
<1>2. CASE PowerFailure
  BY <1>2, PowerFailureKeeps
<1>3. CASE Restore
  BY <1>3, RestoreKeeps
<1>4. CASE UNCHANGED vars
  <2> USE <1>4 DEF vars, file, mind, words, world
  <2>1. TypeOK' /\ LogInv' /\ MineInv' /\ AnswerInv' /\ FateInv'
    BY DEF IInv, TypeOK, LogInv, MineInv, AnswerInv, FateInv, Published
  <2>2. StoreInv' /\ OrderInv' /\ RollbackNoticed' /\ NoFalseAlarm' /\ LocalAnswersTrue'
    BY DEF IInv, StoreInv, OrderInv, OnLog, NotAhead, RollbackNoticed, NoFalseAlarm,
           LocalAnswersTrue, Published
  <2> QED BY <2>1, <2>2 DEF IInv
<1> QED BY <1>1, <1>2, <1>3, <1>4 DEF Next

\* The inductive invariant of the command line and its witness file.
THEOREM CliInductive == Spec => []IInv
BY InitIInv, IndNext, PTL DEF Spec

\* Every reachable state is well typed; whoever updates the witness has its lock
\* (witness_file.py, __enter__ to __exit__).
THEOREM CliTypeCorrect == Spec => []TypeOK
<1>1. IInv => TypeOK
  BY DEF IInv
<1> QED BY <1>1, CliInductive, PTL

\* Unless the store was rolled back the witness names a publication that was made
\* at its sequence, however many publishers know nothing of it.
THEOREM WitnessIsFollowing == Spec => []WitnessFollowsStore
<1>1. IInv => WitnessFollowsStore
  BY DEF IInv, StoreInv, OnLog, WitnessFollowsStore, TypeOK, Refs
<1> QED BY <1>1, CliInductive, PTL

\* What was reported COMPLETE is in the durable witness for good
\* (WitnessPublication.commit syncs before it answers).
THEOREM CompleteStaysDurable == Spec => []CompleteIsDurable
<1>1. IInv => CompleteIsDurable
  BY DEF IInv, OrderInv, CompleteIsDurable
<1> QED BY <1>1, CliInductive, PTL

\* local_committed, as publish prints it, agrees with the store.
THEOREM LocalAnswersAreTrue == Spec => []LocalAnswersTrue
<1>1. IInv => LocalAnswersTrue
  BY DEF IInv
<1> QED BY <1>1, CliInductive, PTL

\* A witnessed recall that is accepted is not behind what had been reported
\* COMPLETE when it loaded the witness (OffHostWitness.verify), and for any
\* number of rollbacks.
THEOREM RollbackIsNoticed == Spec => []RollbackNoticed
<1>1. IInv => RollbackNoticed
  BY DEF IInv
<1> QED BY <1>1, CliInductive, PTL

\* No command speaks of a rollback that there was not.
THEOREM AlarmsAreTrue == Spec => []NoFalseAlarm
<1>1. IInv => NoFalseAlarm
  BY DEF IInv
<1> QED BY <1>1, CliInductive, PTL

\* The witness file goes neither back nor to a competitor at the same sequence,
\* but for an update that was not reported and a power failure took back.
THEOREM WitnessStands == Spec => WitnessNeverRegresses
<1>1. IInv /\ [Next]_vars =>
        [\/ NotAhead(witness, witness')
         \/ outages' # outages /\ witness' = kept]_vars
  <2> SUFFICES ASSUME IInv, [Next]_vars
               PROVE  \/ NotAhead(witness, witness')
                      \/ outages' # outages /\ witness' = kept
                      \/ UNCHANGED vars
    OBVIOUS
  <2>1. witness' = witness => NotAhead(witness, witness')
    BY DEF NotAhead
  <2> QED BY <2>1, CommandKeeps, PowerFailureKeeps, RestoreKeeps DEF Next
<1> QED BY <1>1, CliInductive, PTL DEF Spec, WitnessNeverRegresses
=============================================================================
