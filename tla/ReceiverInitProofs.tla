-------------------------- MODULE ReceiverInitProofs --------------------------
(***************************************************************************)
(* Theorems about ReceiverInit, for every set of processes and policies.   *)
(*                                                                         *)
(* That a binding stays rests on three facts the inductive invariant adds: *)
(* whoever binds holds the lock and has all its tables (LockInv, FileInv), *)
(* what it read about the policy holds until its commit (BindInv), and no  *)
(* table is created or undone once there is a policy (FreshInv).           *)
(***************************************************************************)
EXTENDS ReceiverInit, TLAPS

USE InitAssumption DEF InitAssumption

Binding == {"bind", "commit"}

\* The lock is held by whoever is inside the binding transaction.
LockInv == \A p \in Procs : lock = p <=> pc[p] \in Binding

\* Tables a process has made or found are there, and so is the file.
FileInv ==
    \A p \in Procs :
      /\ made[p] <= tables
      /\ pc[p] \in Binding => made[p] = NumTables
      /\ pc[p] \in {"tables", "bind", "commit", "check", "admitted"} => file

\* The policy read inside the transaction is the one the commit finds.
BindInv ==
    \A p \in Procs : pc[p] = "commit" => policy \in {NoPolicy, PolicyOf[p]}

\* The last commit created a table only while there was no policy.
FreshInv == fresh = "table" => policy = NoPolicy /\ tables > 0

IInv == TypeOK /\ LockInv /\ FileInv /\ BindInv /\ FreshInv /\ AdmittedIsBound

-----------------------------------------------------------------------------
\* The invariant holds at first.
LEMMA InitIInv == Init => IInv
<1> SUFFICES ASSUME Init PROVE IInv
  OBVIOUS
<1>1. TypeOK
  <2>1. file \in BOOLEAN
    BY DEF Init
  <2>2. ~(tables > 0)
    BY DEF Init
  <2>3. /\ tables \in 0..NumTables /\ made \in [Procs -> 0..NumTables]
        /\ pc \in [Procs -> PCs] /\ outages \in Nat /\ policy = NoPolicy
    BY DEF Init, PCs, NumTables
  <2> QED BY <2>1, <2>2, <2>3 DEF Init, TypeOK
<1>2. LockInv /\ FileInv /\ BindInv /\ FreshInv /\ AdmittedIsBound
  BY DEF Init, LockInv, FileInv, BindInv, FreshInv, AdmittedIsBound, Binding
<1> QED BY <1>1, <1>2 DEF IInv

\* What the end of p's operation does to the invariant, the policy apart.
LEMMA FinishKeeps ==
  ASSUME IInv, NEW p \in Procs, pc[p] # "idle" \/ ~file,
         NEW a \in {"raised", "refused"}, Finish(p, a), UNCHANGED <<database, outages>>
  PROVE  IInv'
<1>1. TypeOK'
  BY DEF IInv, TypeOK, Finish, database, NumTables, PCs
<1>2. LockInv' /\ FileInv' /\ BindInv' /\ FreshInv'
  BY DEF IInv, TypeOK, LockInv, FileInv, BindInv, FreshInv, Finish, database, Binding,
         NumTables, PCs
<1>3. AdmittedIsBound'
  BY DEF IInv, TypeOK, AdmittedIsBound, Finish, database, NumTables, PCs
<1> QED BY <1>1, <1>2, <1>3 DEF IInv

\* A step of an initialisation keeps the invariant.
LEMMA InitializeKeeps ==
  ASSUME IInv, NEW p \in Procs, Initialize(p)
  PROVE  IInv'
<1> USE DEF IInv, TypeOK, LockInv, FileInv, BindInv, FreshInv, AdmittedIsBound,
            Binding, PCs, NumTables, database, Goto
<1>1. CASE InitStart(p) BY <1>1 DEF InitStart
<1>2. CASE InitLook(p) BY <1>2 DEF InitLook
<1>3. CASE InitCreate(p) BY <1>3 DEF InitCreate
<1>4. CASE InitLost(p) BY <1>4, FinishKeeps DEF InitLost
<1>5. CASE CreateTable(p)
  <2>1. CASE made[p] < tables /\ UNCHANGED <<tables, fresh>>
    BY <1>5, <2>1 DEF CreateTable
  <2>2. CASE made[p] = tables /\ lock = NoProc /\ tables' = tables + 1 /\ fresh' = "table"
    <3>1. policy = NoPolicy
      BY <1>5, <2>2 DEF CreateTable
    <3> QED BY <1>5, <2>2, <3>1 DEF CreateTable
  <2> QED BY <1>5, <2>1, <2>2 DEF CreateTable
<1>6. CASE InitBegin(p) BY <1>6 DEF InitBegin
<1>7. CASE InitBind(p) BY <1>7 DEF InitBind
<1>8. CASE InitMismatch(p) BY <1>8, FinishKeeps DEF InitMismatch
<1>9. CASE InitCommit(p)
  <2>1. lock = p /\ tables = NumTables /\ policy \in {NoPolicy, PolicyOf[p]}
    BY <1>9 DEF InitCommit
  <2>2. TypeOK'
    BY <1>9, <2>1 DEF InitCommit, Finish
  <2>3. LockInv' /\ FileInv' /\ BindInv' /\ FreshInv'
    BY <1>9, <2>1 DEF InitCommit, Finish
  <2>4. AdmittedIsBound'
    BY <1>9, <2>1 DEF InitCommit, Finish
  <2> QED BY <2>2, <2>3, <2>4
<1> QED BY <1>1, <1>2, <1>3, <1>4, <1>5, <1>6, <1>7, <1>8, <1>9 DEF Initialize

\* A step of another operation keeps the invariant.
LEMMA UseKeeps ==
  ASSUME IInv, NEW p \in Procs, Use(p)
  PROVE  IInv'
<1> USE DEF IInv, TypeOK, LockInv, FileInv, BindInv, FreshInv, AdmittedIsBound,
            Binding, PCs, NumTables, database, Goto
<1>1. CASE UseConnect(p) BY <1>1 DEF UseConnect
<1>2. CASE UseMissing(p) BY <1>2, FinishKeeps DEF UseMissing
<1>3. CASE UseAdmit(p) BY <1>3 DEF UseAdmit, PolicyPasses
<1>4. CASE UseRefuse(p) BY <1>4, FinishKeeps DEF UseRefuse
<1> QED BY <1>1, <1>2, <1>3, <1>4 DEF Use

\* A power failure keeps the invariant.
LEMMA PowerFailureKeeps ==
  ASSUME IInv, PowerFailure
  PROVE  IInv'
<1>1. /\ tables' \in 0..NumTables
      /\ tables' > 0 => file'
      /\ policy' # NoPolicy => tables' = NumTables
      /\ policy' \in Policies \cup {NoPolicy} /\ file' \in BOOLEAN
  <2>1. tables' \in 0..NumTables /\ (policy' # NoPolicy => tables' = NumTables)
        /\ policy' \in Policies \cup {NoPolicy}
    BY DEF PowerFailure, IInv, TypeOK, FreshInv, NumTables
  <2>2. tables' > 0 => tables > 0
    BY <2>1 DEF PowerFailure, IInv, TypeOK, FreshInv, NumTables
  <2>3. (file' = file) \/ (tables' = 0 /\ file' = FALSE)
    BY DEF PowerFailure
  <2>4. file' \in BOOLEAN
    BY <2>3 DEF IInv, TypeOK
  <2>5. tables' = 0 => ~(tables' > 0)
    OBVIOUS
  <2>6. tables > 0 => file
    BY DEF IInv, TypeOK
  <2>7. tables' > 0 => file'
    <3>1. CASE file' = file BY <3>1, <2>2, <2>6, Zenon
    <3>2. CASE tables' = 0 BY <3>2, <2>5
    <3> QED BY <3>1, <3>2, <2>3
  <2> QED BY <2>1, <2>4, <2>7
<1>2. TypeOK'
  <2>1. /\ pc' \in [Procs -> PCs] /\ made' \in [Procs -> 0..NumTables]
        /\ answer' \in [Procs -> {"none", "raised", "refused", "accepted"}]
        /\ outages' \in Nat /\ fresh' \in {"nothing", "table", "policy"}
        /\ lock' \in Procs \cup {NoProc}
    BY DEF PowerFailure, IInv, TypeOK, NumTables, PCs
  <2> QED BY <1>1, <2>1 DEF TypeOK
<1>3. LockInv' /\ FileInv' /\ BindInv' /\ FreshInv' /\ AdmittedIsBound'
  BY <1>2 DEF PowerFailure, IInv, TypeOK, LockInv, FileInv, BindInv, FreshInv, AdmittedIsBound,
         Binding, NumTables, PCs
<1> QED BY <1>2, <1>3 DEF IInv

\* Every step keeps the invariant.
LEMMA IndNext == IInv /\ [Next]_vars => IInv'
<1> SUFFICES ASSUME IInv, [Next]_vars PROVE IInv'
  OBVIOUS
<1>1. CASE UNCHANGED vars
  BY <1>1 DEF vars, IInv, TypeOK, LockInv, FileInv, BindInv, FreshInv, AdmittedIsBound
<1>2. ASSUME NEW p \in Procs, Stop(p) PROVE IInv'
  BY <1>2, FinishKeeps DEF Stop
<1> QED BY <1>1, <1>2, InitializeKeeps, UseKeeps, PowerFailureKeeps DEF Next

-----------------------------------------------------------------------------
\* The inductive invariant holds in every reachable state.
THEOREM InitInductive == Spec => []IInv
  BY InitIInv, IndNext, PTL DEF Spec

\* Every reachable state is well typed; a policy is there only with all tables.
THEOREM InitTypeCorrect == Spec => []TypeOK
<1>1. IInv => TypeOK
  BY DEF IInv
<1> QED BY <1>1, InitInductive, PTL

\* What _policy_check saw still holds while the operation goes on.
THEOREM AdmittedStaysBound == Spec => []AdmittedIsBound
<1>1. IInv => AdmittedIsBound
  BY DEF IInv
<1> QED BY <1>1, InitInductive, PTL

\* No step rebinds the policy, unless power fails.
LEMMA StepBindsOnce ==
  ASSUME IInv, [Next]_vars
  PROVE  [policy # NoPolicy => policy' = policy \/ outages' # outages]_vars
<1>1. ASSUME NEW p \in Procs, InitCommit(p) PROVE policy # NoPolicy => policy' = policy
  BY <1>1 DEF InitCommit, Goto, Finish, IInv, TypeOK, LockInv, FileInv, BindInv, Binding
<1>2. ASSUME NEW p \in Procs, Initialize(p), ~InitCommit(p) PROVE policy' = policy
  BY <1>2 DEF Initialize, InitStart, InitLook, InitCreate, InitLost, CreateTable, InitBegin,
     InitBind, InitMismatch, database
<1>3. ASSUME NEW p \in Procs, Use(p) \/ Stop(p) PROVE policy' = policy
  BY <1>3 DEF Use, UseConnect, UseMissing, UseAdmit, UseRefuse, Stop, database
<1>4. CASE PowerFailure
  BY <1>4 DEF PowerFailure, IInv, TypeOK
<1> QED BY <1>1, <1>2, <1>3, <1>4 DEF Next

\* No initialisation, racing or repeated, rebinds a database.
THEOREM PolicyIsBoundOnce == Spec => PolicyBindsOnce
  BY InitInductive, StepBindsOnce, PTL DEF Spec, PolicyBindsOnce
=============================================================================
