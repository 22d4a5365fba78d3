--------------------------- MODULE RecordActionProofs ---------------------------
(***************************************************************************)
(* Theorems about RecordAction, for every set of attempts and operations,  *)
(* any number of power failures and of files of others.                    *)
(*                                                                         *)
(* The inductive invariant says which row each stage of an attempt finds,  *)
(* and so that at most one attempt is past its row (RowInv), that a row    *)
(* that says COMPLETE is true of the output, as seen and as a power        *)
(* failure leaves it (OutputInv), and who made the temporary file          *)
(* (TempInv).                                                              *)
(***************************************************************************)
EXTENDS RecordAction, FiniteSetTheorems, TLAPS

USE RecordAssumption DEF RecordAssumption

\* The type invariant, its cardinality apart.
Types ==
    /\ rows \subseteq [op : Operations, state : {"PREPARED", "COMPLETE"}, output : Attempts \cup {NoFile}]
    /\ keptRows \subseteq [op : Operations, state : {"PREPARED", "COMPLETE"}, output : Attempts \cup {NoFile}]
    /\ {output, temp, keptOutput, keptTemp} \subseteq Contents
    /\ lock \in Attempts \cup {NoOne}
    /\ pc \in [Attempts -> PCs] /\ op \in [Attempts -> Operations]
    /\ outages \in Nat /\ meddling \in Nat

\* The lock is held by whoever is inside a transaction.
LockInv == \A a \in Attempts : lock = a <=> pc[a] \in {"look", "insert", "update"}

\* What each stage of an attempt finds in the table.
RowInv ==
    /\ \A r, s \in rows : r = s
    /\ \A r, s \in keptRows : r = s
    /\ \A a \in Attempts :
         /\ pc[a] \in {"look", "insert"} => rows = {}
         /\ pc[a] \in Writing => rows = {Row(op[a])}
         /\ pc[a] \in {"return", "recorded"} => rows = {Completed(Row(op[a]), a)}
         /\ pc[a] = "recorded" => keptRows = rows
    /\ \A a, b \in Attempts : pc[a] \in Writing /\ pc[b] \in Writing => a = b

\* Unless others meddle, a row that says COMPLETE is true of the output, now and
\* after a power failure, and an attempt that has synced finds its own there.
OutputInv == meddling = 0 =>
    /\ \A r \in rows \cup keptRows : r.state = "COMPLETE" =>
         r.output # NoFile /\ output = r.output /\ keptOutput = r.output
    /\ \A a \in Attempts :
         /\ pc[a] \in {"unlink", "sync", "complete", "update"} => output = a
         /\ pc[a] \in {"complete", "update"} => keptOutput = a

\* From its creation to its removal the temporary file is the attempt's own.
TempInv == \A a \in Attempts : pc[a] \in {"link", "unlink"} => temp = a

IInv == Types /\ LockInv /\ RowInv /\ OutputInv /\ TempInv /\ AlarmIsTrue

-----------------------------------------------------------------------------
\* A row that is completed keeps its operation and says which attempt's output it is
\* about.
LEMMA CompletedRow ==
  ASSUME NEW o, NEW a
  PROVE  Completed(Row(o), a) = [op |-> o, state |-> "COMPLETE", output |-> a]
<1> DEFINE r == Row(o)
           s == [r EXCEPT !.state = "COMPLETE"]
<1>1. r = [op |-> o, state |-> "PREPARED", output |-> NoFile]
  BY DEF Row
<1> HIDE DEF r
<1>2. s = [op |-> o, state |-> "COMPLETE", output |-> NoFile]
  BY <1>1
<1>3. Completed(r, a) = [s EXCEPT !.output = a]
  BY DEF Completed
<1> HIDE DEF s
<1>4. [s EXCEPT !.output = a] = [op |-> o, state |-> "COMPLETE", output |-> a]
  BY <1>2
<1> QED BY <1>3, <1>4 DEF r

\* The invariant holds at first.
LEMMA InitIInv == Init => IInv
BY DEF Init, IInv, Types, LockInv, RowInv, OutputInv, TempInv, AlarmIsTrue, Contents, PCs,
       Ended, Writing

\* The end of an attempt that records nothing: its lock goes, and perhaps the
\* temporary file.
LEMMA EndKeeps ==
  ASSUME IInv, NEW a \in Attempts, NEW answer \in {"refused", "dead"},
         pc' = [pc EXCEPT ![a] = answer], Release(a),
         UNCHANGED <<db, output, keptOutput, keptTemp, op, world>>,
         \/ UNCHANGED temp
         \/ pc[a] \in {"link", "unlink", "sync"} /\ temp' = NoFile
  PROVE  IInv'
<1> USE DEF IInv, Release, db, world
<1>1. Types' /\ LockInv'
  BY DEF Types, LockInv, Contents, PCs, Ended
<1>2. RowInv' /\ OutputInv' /\ AlarmIsTrue'
  BY DEF Types, RowInv, OutputInv, AlarmIsTrue, Writing
<1>3. TempInv'
  BY DEF Types, RowInv, TempInv, Writing
<1> QED BY <1>1, <1>2, <1>3

\* Preparing the row and the temporary file keeps the invariant.
LEMMA PrepareKeeps ==
  ASSUME IInv, NEW a \in Attempts,
         \/ Start(a)
         \/ PrepareBegin(a) \/ PrepareReplay(a) \/ PrepareLook(a) \/ PrepareCommit(a)
  PROVE  IInv'
<1> USE DEF IInv, db, files, world, Goto
<1>1. CASE Start(a)
  BY <1>1 DEF Start, Types, LockInv, RowInv, OutputInv, TempInv, AlarmIsTrue, PCs, Ended, Writing
<1>2. CASE PrepareBegin(a)
  BY <1>2 DEF PrepareBegin, Types, LockInv, RowInv, OutputInv, TempInv, AlarmIsTrue, PCs, Ended, Writing
<1>3. CASE PrepareReplay(a)
  <2>1. PICK answer \in {"alarm", "refused"} : pc' = [pc EXCEPT ![a] = answer]
    BY <1>3 DEF PrepareReplay, Refuse
  <2>2. meddling = 0 => answer = "refused"
    BY <1>3, <2>1 DEF PrepareReplay, Refuse, Types, OutputInv
  <2>3. pc[a] = "prepare" /\ UNCHANGED <<db, files, lock, op, world>>
    BY <1>3 DEF PrepareReplay
  <2> QED BY <2>1, <2>2, <2>3
          DEF Types, LockInv, RowInv, OutputInv, TempInv, AlarmIsTrue, PCs, Ended, Writing
<1>4. CASE PrepareLook(a)
  <2>1. CASE pc' = [pc EXCEPT ![a] = "insert"] /\ UNCHANGED lock
    BY <1>4, <2>1 DEF PrepareLook, Types, LockInv, RowInv, OutputInv, TempInv, AlarmIsTrue, PCs,
                      Ended, Writing
  <2>2. CASE Refuse(a, "refused") /\ Release(a)
    BY <1>4, <2>2, EndKeeps DEF PrepareLook, Refuse
  <2> QED BY <1>4, <2>1, <2>2 DEF PrepareLook
<1>5. CASE PrepareCommit(a)
  <2>1. /\ pc[a] = "insert" /\ pc' = [pc EXCEPT ![a] = "temp"]
        /\ rows = {} /\ rows' = {Row(op[a])} /\ keptRows' = {}
        /\ lock = a /\ lock' = NoOne
        /\ UNCHANGED <<files, op, world>>
    BY <1>5 DEF PrepareCommit, CommitRows, Release, RowInv, LockInv
  <2>2. Types' /\ LockInv'
    BY <2>1 DEF Types, LockInv, Row, PCs, Ended
  <2>3. RowInv'
    <3>1. \A b \in Attempts : pc[b] \notin Writing \cup {"return", "recorded"}
      BY <2>1 DEF RowInv
    <3> QED BY <2>1, <3>1 DEF Types, RowInv, LockInv, Writing
  <2>4. OutputInv' /\ TempInv' /\ AlarmIsTrue'
    BY <2>1 DEF Types, OutputInv, TempInv, AlarmIsTrue, Row
  <2> QED BY <2>2, <2>3, <2>4
<1> QED BY <1>1, <1>2, <1>3, <1>4, <1>5

\* Writing and linking the output keeps the invariant.
LEMMA WriteKeeps ==
  ASSUME IInv, NEW a \in Attempts,
         TempCreate(a) \/ Link(a) \/ Unlink(a) \/ Sync(a) \/ WriteFail(a)
  PROVE  IInv'
<1> USE DEF IInv, db, files, world, Goto
<1>1. CASE TempCreate(a)
  <2>1. CASE temp = NoFile /\ pc' = [pc EXCEPT ![a] = "link"] /\ temp' = a
    BY <1>1, <2>1 DEF TempCreate, Types, LockInv, RowInv, OutputInv, TempInv, AlarmIsTrue, PCs,
                      Ended, Writing, Contents
  <2>2. CASE Refuse(a, "refused") /\ UNCHANGED temp
    <3>1. Release(a)
      BY <1>1, <2>2 DEF TempCreate, Release, LockInv
    <3> QED BY <1>1, <2>2, <3>1, EndKeeps DEF TempCreate, Refuse
  <2> QED BY <1>1, <2>1, <2>2 DEF TempCreate
<1>2. CASE Link(a)
  <2>1. Types' /\ LockInv' /\ RowInv'
    BY <1>2 DEF Link, Types, LockInv, RowInv, PCs, Ended, Writing, Contents
  <2>2. OutputInv'
    BY <1>2 DEF Link, Types, RowInv, OutputInv, Writing
  <2>3. TempInv' /\ AlarmIsTrue'
    BY <1>2 DEF Link, Types, TempInv, AlarmIsTrue
  <2> QED BY <2>1, <2>2, <2>3
<1>3. CASE Unlink(a)
  BY <1>3 DEF Unlink, Types, LockInv, RowInv, OutputInv, TempInv, AlarmIsTrue, PCs, Ended,
              Writing, Contents
<1>4. CASE Sync(a)
  <2>1. Types' /\ LockInv'
    BY <1>4 DEF Sync, SyncDirectory, Types, LockInv, PCs, Ended
  <2>2. RowInv' /\ TempInv' /\ AlarmIsTrue'
    BY <1>4 DEF Sync, SyncDirectory, Types, RowInv, TempInv, AlarmIsTrue, Writing
  <2>3. OutputInv'
    BY <1>4 DEF Sync, SyncDirectory, Types, RowInv, OutputInv, Writing
  <2> QED BY <2>1, <2>2, <2>3
<1>5. CASE WriteFail(a)
  <2>1. Release(a)
    BY <1>5 DEF WriteFail, Release, LockInv
  <2> QED BY <1>5, <2>1, EndKeeps DEF WriteFail, Refuse
<1> QED BY <1>1, <1>2, <1>3, <1>4, <1>5

\* Completing the row keeps the invariant.
LEMMA CompleteKeeps ==
  ASSUME IInv, NEW a \in Attempts, CompleteBegin(a) \/ CompleteCommit(a) \/ Return(a) \/ Raise(a)
  PROVE  IInv'
<1> USE DEF IInv, db, files, world, Goto
<1>1. CASE CompleteBegin(a)
  BY <1>1 DEF CompleteBegin, Types, LockInv, RowInv, OutputInv, TempInv, AlarmIsTrue, PCs, Ended,
              Writing
<1>2. CASE CompleteCommit(a)
  <2>1. /\ pc[a] = "update" /\ pc' = [pc EXCEPT ![a] = "return"]
        /\ rows = {Row(op[a])} /\ keptRows' = rows /\ lock = a /\ lock' = NoOne
        /\ UNCHANGED <<files, op, world>>
    BY <1>2 DEF CompleteCommit, CommitRows, Release, RowInv, LockInv, Writing
  <2>2. rows' = {Completed(Row(op[a]), a)}
    BY <1>2, <2>1 DEF CompleteCommit, CommitRows, Row
  <2>3. Completed(Row(op[a]), a) = [op |-> op[a], state |-> "COMPLETE", output |-> a]
    BY CompletedRow
  <2>4. Types' /\ LockInv'
    BY <2>1, <2>2, <2>3 DEF Types, LockInv, PCs, Ended
  <2>5. RowInv'
    <3>1. ASSUME NEW b \in Attempts PROVE pc[b] \notin {"look", "insert", "return", "recorded"}
      <4>1. Row(op[a]) # Completed(Row(op[b]), b)
        <5>1. Completed(Row(op[b]), b).state = "COMPLETE"
          BY CompletedRow
        <5>2. Row(op[a]).state = "PREPARED"
          BY DEF Row
        <5> QED BY <5>1, <5>2
      <4> QED BY <2>1, <4>1 DEF RowInv
    <3>2. \A b \in Attempts : pc[b] \in Writing => b = a
      BY <2>1 DEF RowInv, Writing
    <3> QED BY <2>1, <2>2, <3>1, <3>2 DEF Types, RowInv, Writing
  <2>6. OutputInv'
    BY <2>1, <2>2, <2>3 DEF Types, RowInv, OutputInv, Row
  <2>7. TempInv' /\ AlarmIsTrue'
    BY <2>1 DEF Types, TempInv, AlarmIsTrue
  <2> QED BY <2>4, <2>5, <2>6, <2>7
<1>3. CASE Return(a)
  <2>1. Types' /\ LockInv'
    BY <1>3 DEF Return, SyncDirectory, Types, LockInv, PCs, Ended
  <2>2. RowInv' /\ TempInv' /\ AlarmIsTrue'
    BY <1>3 DEF Return, SyncDirectory, Types, RowInv, TempInv, AlarmIsTrue, Writing
  <2>3. OutputInv'
    BY <1>3 DEF Return, SyncDirectory, Types, RowInv, OutputInv, Writing
  <2> QED BY <2>1, <2>2, <2>3
<1>4. CASE Raise(a)
  BY <1>4, EndKeeps DEF Raise, Refuse
<1> QED BY <1>1, <1>2, <1>3, <1>4

\* A power failure keeps the invariant.
LEMMA PowerFailureKeeps ==
  ASSUME IInv, PowerFailure
  PROVE  IInv'
<1> USE DEF IInv, PowerFailure
<1>1. \A a \in Attempts : pc'[a] \in Ended \cup {"start"} /\ (pc'[a] = "dead" \/ pc'[a] = pc[a])
  BY DEF Types, Ended
<1>2. Types'
  BY DEF Types, PCs, Ended
<1>3. LockInv' /\ TempInv'
  BY <1>1 DEF Types, LockInv, TempInv, Ended
<1>4. RowInv'
  BY <1>1 DEF RowInv, Writing, Ended
<1>5. OutputInv'
  BY <1>1 DEF Types, OutputInv, Ended
<1>6. AlarmIsTrue'
  BY <1>1 DEF AlarmIsTrue
<1> QED BY <1>2, <1>3, <1>4, <1>5, <1>6

\* A file that somebody else puts there keeps the invariant.
LEMMA MeddleKeeps ==
  ASSUME IInv, Meddle
  PROVE  IInv'
<1>1. meddling' # 0
  BY DEF IInv, Types, Meddle
<1>2. Types' /\ LockInv' /\ RowInv'
  BY DEF IInv, Types, LockInv, RowInv, Meddle, db, Contents
<1>3. TempInv'
  BY DEF IInv, Types, TempInv, Meddle
<1> QED BY <1>1, <1>2, <1>3 DEF IInv, OutputInv, AlarmIsTrue

\* Every step keeps the invariant.
LEMMA IndNext == IInv /\ [Next]_vars => IInv'
<1> SUFFICES ASSUME IInv, [Next]_vars PROVE IInv'
  OBVIOUS
<1>1. ASSUME NEW a \in Attempts, Record(a) PROVE IInv'
  BY <1>1, PrepareKeeps, WriteKeeps, CompleteKeeps DEF Record
<1>2. ASSUME NEW a \in Attempts, Kill(a) PROVE IInv'
  BY <1>2, EndKeeps DEF Kill, files
<1>3. CASE PowerFailure
  BY <1>3, PowerFailureKeeps
<1>4. CASE Meddle
  BY <1>4, MeddleKeeps
<1>5. CASE UNCHANGED vars
  BY <1>5 DEF vars, db, files, world, IInv, Types, LockInv, RowInv, OutputInv, TempInv, AlarmIsTrue
<1> QED BY <1>1, <1>2, <1>3, <1>4, <1>5 DEF Next

\* The inductive invariant of the recording attempts.
THEOREM RecordInductive == Spec => []IInv
BY InitIInv, IndNext, PTL DEF Spec

\* Every reachable state is well typed, there is never a second row and never a
\* second attempt past its row (run_action.py, _prepare).
THEOREM RecordTypeCorrect == Spec => []TypeOK
<1>1. IInv => TypeOK
  <2> SUFFICES ASSUME IInv PROVE TypeOK
    OBVIOUS
  <2>1. Cardinality(rows) <= 1
    <3>1. CASE rows = {}
      BY <3>1, FS_EmptySet
    <3>2. CASE rows # {}
      <4>1. PICK r \in rows : rows = {r}
        BY <3>2 DEF IInv, RowInv
      <4> QED BY <4>1, FS_Singleton
    <3> QED BY <3>1, <3>2
  <2> QED BY <2>1 DEF IInv, Types, RowInv, TypeOK
<1> QED BY <1>1, RecordInductive, PTL

\* What was reported RECORDED is there for good, as the only one
\* (run_action.py, record_assessment).
THEOREM RecordsStand == Spec => []RecordedStands
<1>1. IInv => RecordedStands
  <2> SUFFICES ASSUME IInv, NEW a \in Attempts, pc[a] = "recorded"
               PROVE  /\ rows = {Completed(Row(op[a]), a)} /\ keptRows = rows
                      /\ meddling = 0 => output = a /\ keptOutput = a
                      /\ \A b \in Attempts : pc[b] = "recorded" => a = b
    BY DEF RecordedStands
  <2>1. rows = {Completed(Row(op[a]), a)} /\ keptRows = rows
    BY DEF IInv, RowInv
  <2>2. meddling = 0 => output = a /\ keptOutput = a
    BY <2>1, CompletedRow DEF IInv, OutputInv
  <2>3. ASSUME NEW b \in Attempts, pc[b] = "recorded" PROVE a = b
    <3>1. Completed(Row(op[b]), b) = Completed(Row(op[a]), a)
      BY <2>1, <2>3 DEF IInv, RowInv
    <3> QED BY <3>1, CompletedRow
  <2> QED BY <2>1, <2>2, <2>3
<1> QED BY <1>1, RecordInductive, PTL

\* "Missing" and "tampered" are said only of what others did.
THEOREM AlarmsAreTrue == Spec => []AlarmIsTrue
<1>1. IInv => AlarmIsTrue
  BY DEF IInv
<1> QED BY <1>1, RecordInductive, PTL

\* No step of an attempt overwrites the output or removes the temporary file of
\* somebody else, but for the clean-up after a failed directory sync.
THEOREM ForeignIsSpared == Spec => SparesForeign
<1>1. IInv /\ [Next]_vars =>
        [outages' = outages =>
           /\ output = Foreign => output' = Foreign
           /\ temp = Foreign => \/ temp' = Foreign
                               \/ \E a \in Attempts : pc[a] = "sync" /\ pc'[a] = "refused"]_vars
  <2> SUFFICES ASSUME IInv, Next, outages' = outages
               PROVE  /\ output = Foreign => output' = Foreign
                      /\ temp = Foreign => \/ temp' = Foreign
                                          \/ \E a \in Attempts : pc[a] = "sync" /\ pc'[a] = "refused"
    OBVIOUS
  <2>1. ~PowerFailure
    BY DEF PowerFailure, IInv, Types
  <2>2. CASE Meddle
    BY <2>2 DEF Meddle
  <2>3. ASSUME NEW a \in Attempts, Record(a) \/ Kill(a), output = Foreign
        PROVE  output' = Foreign
    BY <2>3 DEF Record, Kill, Start, PrepareBegin, PrepareReplay, PrepareLook, PrepareCommit, TempCreate,
           Link, Unlink, Sync, WriteFail, CompleteBegin, CompleteCommit, Return, Raise, files, SyncDirectory
  <2>4. ASSUME NEW a \in Attempts, Record(a) \/ Kill(a), temp = Foreign
        PROVE  temp' = Foreign \/ (pc[a] = "sync" /\ pc'[a] = "refused")
    <3>1. pc[a] \notin {"link", "unlink"}
      BY <2>4 DEF IInv, TempInv
    <3>2. CASE WriteFail(a)
      BY <3>1, <3>2 DEF WriteFail, Refuse, IInv, Types
    <3>3. CASE ~WriteFail(a)
      BY <2>4, <3>1, <3>3
         DEF Record, Kill, Start, PrepareBegin, PrepareReplay, PrepareLook, PrepareCommit, TempCreate, Link,
             Unlink, Sync, CompleteBegin, CompleteCommit, Return, Raise, files, SyncDirectory, Goto
    <3> QED BY <3>2, <3>3
  <2> QED BY <2>1, <2>2, <2>3, <2>4 DEF Next
<1> QED BY <1>1, RecordInductive, PTL DEF Spec, SparesForeign
=============================================================================
