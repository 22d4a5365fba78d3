------------------------------ MODULE ReceiverInit ------------------------------
(***************************************************************************)
(* Creating a receiver's trust database and binding it to one policy:      *)
(* ReceiverStore.initialize, _connect and _policy_check.                   *)
(*                                                                         *)
(* Processes with the same or different policies initialise one database   *)
(* path at the same time, or use it while it is half made.  The file, each *)
(* table and the policy row are made by separate steps, each durable on    *)
(* its own; a process may stop between any two of them.                    *)
(***************************************************************************)
EXTENDS Integers

CONSTANTS
    Procs, Policies,
    PolicyOf,       \* the policy each process was constructed with
    NoPolicy, NoProc,
    MaxOutages      \* bound: how many power failures a behaviour has

ASSUME InitAssumption ==
    /\ PolicyOf \in [Procs -> Policies]
    /\ NoPolicy \notin Policies /\ NoProc \notin Procs
    /\ MaxOutages \in Nat

VARIABLES
    file,       \* the database file exists
    tables,     \* how many of receiver_policy, current_reference, publication_audit do
    policy,     \* the committed row of receiver_policy
    fresh,      \* the last commit, which a power failure may still take back
    lock, pc,
    made,       \* how many CREATE TABLE statements p has executed
    answer,     \* what p's last operation answered
    outages

vars == <<file, tables, policy, fresh, lock, pc, made, answer, outages>>
database == <<file, tables, policy, fresh>>

NumTables == 3

PCs == {"idle", "look", "create", "tables", "begin", "bind", "commit", "check", "admitted"}

Init ==
    /\ file = FALSE /\ tables = 0 /\ policy = NoPolicy /\ fresh = "nothing"
    /\ lock = NoProc
    /\ pc = [p \in Procs |-> "idle"]
    /\ made = [p \in Procs |-> 0]
    /\ answer = [p \in Procs |-> "none"]
    /\ outages = 0

Goto(p, from, to) ==
    /\ pc[p] = from
    /\ pc' = [pc EXCEPT ![p] = to]

\* p's operation is over and its connection closed, which drops its lock.
Finish(p, a) ==
    /\ pc' = [pc EXCEPT ![p] = "idle"]
    /\ made' = [made EXCEPT ![p] = 0]
    /\ answer' = [answer EXCEPT ![p] = a]
    /\ lock' = IF lock = p THEN NoProc ELSE lock

-----------------------------------------------------------------------------
(* initialize *)

InitStart(p) ==
    /\ Goto(p, "idle", "look")
    /\ answer' = [answer EXCEPT ![p] = "none"]
    /\ UNCHANGED <<database, lock, made, outages>>

InitLook(p) ==
    /\ \/ file /\ Goto(p, "look", "tables")
       \/ ~file /\ Goto(p, "look", "create")
    /\ UNCHANGED <<database, lock, made, answer, outages>>

\* O_CREAT | O_EXCL: of two that saw no file one wins ...
InitCreate(p) ==
    /\ Goto(p, "create", "tables")
    /\ ~file
    /\ file' = TRUE
    /\ UNCHANGED <<tables, policy, fresh, lock, made, answer, outages>>

\* ... and the other one raises.
InitLost(p) ==
    /\ pc[p] = "create"
    /\ file
    /\ Finish(p, "raised")
    /\ UNCHANGED <<database, outages>>

\* CREATE TABLE IF NOT EXISTS, one after the other, each its own transaction.
CreateTable(p) ==
    /\ pc[p] = "tables" /\ made[p] < NumTables
    /\ made' = [made EXCEPT ![p] = @ + 1]
    /\ \/ made[p] < tables /\ UNCHANGED <<tables, fresh>>
       \/ /\ made[p] = tables
          /\ lock = NoProc
          /\ tables' = tables + 1
          /\ fresh' = "table"
    /\ UNCHANGED <<file, policy, lock, pc, answer, outages>>

\* Fault: the policy is bound before the tables a publication needs are there.
InitBeginEarly(p) ==
    /\ Goto(p, "tables", "bind")
    /\ made[p] > 0
    /\ lock = NoProc
    /\ lock' = p
    /\ UNCHANGED <<database, made, answer, outages>>

\* BEGIN IMMEDIATE.
InitBegin(p) ==
    /\ Goto(p, "tables", "bind")
    /\ made[p] = NumTables
    /\ lock = NoProc
    /\ lock' = p
    /\ UNCHANGED <<database, made, answer, outages>>

\* Fault: the row there is replaced by this process's.
InitBindAlways(p) ==
    /\ Goto(p, "bind", "commit")
    /\ UNCHANGED <<database, lock, made, answer, outages>>

\* No policy yet, or the same one; the insert is pending until the commit.
InitBind(p) ==
    /\ Goto(p, "bind", "commit")
    /\ policy \in {NoPolicy, PolicyOf[p]}
    /\ UNCHANGED <<database, lock, made, answer, outages>>

InitMismatch(p) ==
    /\ pc[p] = "bind"
    /\ policy \notin {NoPolicy, PolicyOf[p]}
    /\ Finish(p, "refused")
    /\ UNCHANGED <<database, outages>>

\* COMMIT, and the answer ACCEPT.
InitCommit(p) ==
    /\ pc[p] = "commit"
    /\ policy' = PolicyOf[p]
    /\ fresh' = IF policy = NoPolicy THEN "policy" ELSE fresh
    /\ Finish(p, "accepted")
    /\ UNCHANGED <<file, tables, outages>>

-----------------------------------------------------------------------------
(* The beginning of every other operation: connect and check the policy *)

UseConnect(p) ==
    /\ file
    /\ Goto(p, "idle", "check")
    /\ answer' = [answer EXCEPT ![p] = "none"]
    /\ UNCHANGED <<database, lock, made, outages>>

\* No database file: NEEDS_EVIDENCE.
UseMissing(p) ==
    /\ pc[p] = "idle"
    /\ ~file
    /\ Finish(p, "refused")
    /\ UNCHANGED <<database, outages>>

\* Fault: a database with no policy row is taken as unrestricted.
PolicyPassesUnbound(p) == policy \in {NoPolicy, PolicyOf[p]}

PolicyPasses(p) == tables > 0 /\ policy = PolicyOf[p]

UseAdmit(p) ==
    /\ Goto(p, "check", "admitted")
    /\ PolicyPasses(p)
    /\ UNCHANGED <<database, lock, made, answer, outages>>

\* The table is missing, the row is missing, or it is another policy's.
UseRefuse(p) ==
    /\ pc[p] = "check"
    /\ ~PolicyPasses(p)
    /\ Finish(p, "refused")
    /\ UNCHANGED <<database, outages>>

-----------------------------------------------------------------------------
\* An admitted operation ends; any other one raises (busy, I/O) or is killed.
Stop(p) ==
    /\ pc[p] # "idle"
    /\ Finish(p, "raised")
    /\ UNCHANGED <<database, outages>>

\* The last commit may be undone by its journal; a file without any durable
\* content may be gone.
PowerFailure ==
    /\ outages < MaxOutages
    /\ outages' = outages + 1
    /\ \/ UNCHANGED <<tables, policy>>
       \/ fresh = "table" /\ tables' = tables - 1 /\ UNCHANGED policy
       \/ fresh = "policy" /\ policy' = NoPolicy /\ UNCHANGED tables
    /\ fresh' = "nothing"
    /\ \/ UNCHANGED file
       \/ tables' = 0 /\ file' = FALSE
    /\ lock' = NoProc
    /\ pc' = [p \in Procs |-> "idle"]
    /\ made' = [p \in Procs |-> 0]
    /\ answer' = [p \in Procs |-> "none"]

Initialize(p) ==
    \/ InitStart(p) \/ InitLook(p) \/ InitCreate(p) \/ InitLost(p) \/ CreateTable(p)
    \/ InitBegin(p) \/ InitBind(p) \/ InitMismatch(p) \/ InitCommit(p)

Use(p) == UseConnect(p) \/ UseMissing(p) \/ UseAdmit(p) \/ UseRefuse(p)

Next ==
    \/ \E p \in Procs : Initialize(p) \/ Use(p) \/ Stop(p)
    \/ PowerFailure

Spec == Init /\ [][Next]_vars

-----------------------------------------------------------------------------
(* Properties *)

\* Type correctness; a table or a policy needs the file, a policy the tables.
TypeOK ==
    /\ file \in BOOLEAN
    /\ tables \in 0..NumTables
    /\ policy \in Policies \cup {NoPolicy}
    /\ fresh \in {"nothing", "table", "policy"}
    /\ lock \in Procs \cup {NoProc}
    /\ pc \in [Procs -> PCs]
    /\ made \in [Procs -> 0..NumTables]
    /\ answer \in [Procs -> {"none", "raised", "refused", "accepted"}]
    /\ outages \in Nat
    /\ tables > 0 => file
    /\ policy # NoPolicy => tables = NumTables

\* A database is bound to a policy once: no initialisation, racing or repeated,
\* rebinds it.  Only a power failure takes back a binding nothing followed.
PolicyBindsOnce ==
    [][policy # NoPolicy => policy' = policy \/ outages' # outages]_vars

\* _policy_check reads outside any transaction, before BEGIN IMMEDIATE; what it
\* saw still holds while the operation goes on, every table it will use is
\* there, and whoever was told its initialisation succeeded has that policy.
AdmittedIsBound ==
    \A p \in Procs :
      /\ pc[p] = "admitted" => policy = PolicyOf[p] /\ tables = NumTables
      /\ answer[p] = "accepted" => policy = PolicyOf[p]
=============================================================================
