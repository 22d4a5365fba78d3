------------------------------ MODULE RecordAction ------------------------------
(***************************************************************************)
(* run_action.py of the independent-agent pilot: an assessment that was    *)
(* accepted is recorded, once, as one fixed file of a directory.  A        *)
(* database beside it holds one row, PREPARED before the file is written   *)
(* and COMPLETE afterwards.                                                *)
(*                                                                         *)
(* Attempts run at the same time, fail or are killed between any two       *)
(* steps; power fails; others put files at the same names, or change the   *)
(* output.  The bytes an attempt writes are its own: they hold its time.   *)
(***************************************************************************)
EXTENDS Integers, Sequences, FiniteSets

CONSTANTS
    Attempts, Operations,       \* runs of the command; pairs of bundle and policy
    NoOne, NoFile, Foreign,
    MaxOutages, MaxMeddling     \* bounds: power failures, files of others

ASSUME RecordAssumption ==
    /\ NoOne \notin Attempts
    /\ {NoFile, Foreign} \cap Attempts = {} /\ NoFile # Foreign
    /\ MaxOutages \in Nat /\ MaxMeddling \in Nat

VARIABLES
    rows,       \* the rows of the table operations, as committed
    output,     \* whose bytes the output file holds, if there is one
    temp,       \* the same for the temporary file
    keptRows, keptOutput, keptTemp,     \* what a power failure may leave
    lock,       \* who is between BEGIN IMMEDIATE and COMMIT
    pc, op,     \* an attempt's next step, and what it is about
    outages, meddling

db    == <<rows, keptRows>>
files == <<output, temp, keptOutput, keptTemp>>
world == <<outages, meddling>>
vars == <<db, files, lock, pc, op, world>>

Row(o) == [op |-> o, state |-> "PREPARED", output |-> NoFile]
Completed(row, a) == [row EXCEPT !.state = "COMPLETE", !.output = a]

Init ==
    /\ rows = {} /\ keptRows = {}
    /\ output = NoFile /\ temp = NoFile /\ keptOutput = NoFile /\ keptTemp = NoFile
    /\ lock = NoOne
    /\ pc = [a \in Attempts |-> "start"]
    /\ op \in [Attempts -> Operations]
    /\ outages = 0 /\ meddling = 0

-----------------------------------------------------------------------------
Goto(a, from, to) ==
    /\ pc[a] = from
    /\ pc' = [pc EXCEPT ![a] = to]

Refuse(a, answer) == pc' = [pc EXCEPT ![a] = answer]
Release(a) == lock' = IF lock = a THEN NoOne ELSE lock

\* A commit; a power failure may still find the journal of the last one.
CommitRows(new) == rows' = new /\ keptRows' = rows

\* An fsync of the directory keeps its entries, and the journal's absence.
SyncDirectory ==
    /\ keptRows' = rows /\ keptOutput' = output /\ keptTemp' = temp
    /\ UNCHANGED <<rows, output, temp>>

\* Pins, freshness and the consumer's assessment come first, then the directory
\* and the database are opened; whatever is wrong there refuses: Raise.
Start(a) ==
    /\ Goto(a, "start", "prepare")
    /\ UNCHANGED <<db, files, lock, op, world>>

-----------------------------------------------------------------------------
(* _prepare *)

\* Fault: a row of another operation does not count.
PrepareBeginOther(a) ==
    /\ Goto(a, "prepare", "look")
    /\ lock = NoOne /\ lock' = a
    /\ \A row \in rows : row.op # op[a]
    /\ UNCHANGED <<db, files, op, world>>

\* BEGIN IMMEDIATE, and no row yet.
PrepareBegin(a) ==
    /\ Goto(a, "prepare", "look")
    /\ lock = NoOne /\ lock' = a
    /\ rows = {}
    /\ UNCHANGED <<db, files, op, world>>

\* There is a row: the file it speaks of is looked at, and the attempt refused.
PrepareReplay(a) ==
    /\ pc[a] = "prepare" /\ lock = NoOne
    /\ \E row \in rows :
         LET wrong == output = NoFile \/ output # row.output
         IN Refuse(a, IF row.state = "COMPLETE" /\ wrong THEN "alarm" ELSE "refused")
    /\ UNCHANGED <<db, files, lock, op, world>>

\* No file may be there that no row accounts for.
PrepareLook(a) ==
    /\ pc[a] = "look"
    /\ IF output = NoFile /\ temp = NoFile
       THEN Goto(a, "look", "insert") /\ UNCHANGED lock
       ELSE Refuse(a, "refused") /\ Release(a)
    /\ UNCHANGED <<db, files, op, world>>

PrepareCommit(a) ==
    /\ Goto(a, "insert", "temp")
    /\ CommitRows(rows \cup {Row(op[a])})
    /\ Release(a)
    /\ UNCHANGED <<files, op, world>>

-----------------------------------------------------------------------------
(* _atomic_write *)

\* A temporary file that exists is neither opened nor removed.
TempCreate(a) ==
    /\ pc[a] = "temp"
    /\ IF temp = NoFile
       THEN Goto(a, "temp", "link") /\ temp' = a
       ELSE Refuse(a, "refused") /\ UNCHANGED temp
    /\ UNCHANGED <<db, output, keptOutput, keptTemp, lock, op, world>>

\* Fault: os.replace instead of os.link.
LinkReplacing(a) ==
    /\ Goto(a, "link", "unlink")
    /\ output' = a
    /\ UNCHANGED <<db, temp, keptOutput, keptTemp, lock, op, world>>

\* The file is written and synced; os.link fails if the output exists.
Link(a) ==
    /\ Goto(a, "link", "unlink")
    /\ output = NoFile
    /\ output' = a
    /\ UNCHANGED <<db, temp, keptOutput, keptTemp, lock, op, world>>

Unlink(a) ==
    /\ Goto(a, "unlink", "sync")
    /\ temp' = NoFile
    /\ UNCHANGED <<db, output, keptOutput, keptTemp, lock, op, world>>

\* Fault: the directory is not synced before the row says COMPLETE.
SyncForgotten(a) ==
    /\ Goto(a, "sync", "complete")
    /\ UNCHANGED <<db, files, lock, op, world>>

Sync(a) ==
    /\ Goto(a, "sync", "complete")
    /\ SyncDirectory
    /\ UNCHANGED <<lock, op, world>>

\* Any exception since the temporary file was created: it is removed.
WriteFail(a) ==
    /\ pc[a] \in {"link", "unlink", "sync"}
    /\ Refuse(a, "refused")
    /\ temp' = NoFile
    /\ UNCHANGED <<db, output, keptOutput, keptTemp, lock, op, world>>

-----------------------------------------------------------------------------
(* The row becomes COMPLETE *)

CompleteBegin(a) ==
    /\ Goto(a, "complete", "update")
    /\ lock = NoOne /\ lock' = a
    /\ \E row \in rows : row.op = op[a] /\ row.state = "PREPARED"
    /\ UNCHANGED <<db, files, op, world>>

CompleteCommit(a) ==
    /\ Goto(a, "update", "return")
    /\ CommitRows({IF row.op = op[a] /\ row.state = "PREPARED" THEN Completed(row, a) ELSE row : row \in rows})
    /\ Release(a)
    /\ UNCHANGED <<files, op, world>>

\* Fault: the directory is not synced after the commit.
ReturnUnsynced(a) ==
    /\ Goto(a, "return", "recorded")
    /\ UNCHANGED <<db, files, lock, op, world>>

\* The directory is synced once more, and the report returned.
Return(a) ==
    /\ Goto(a, "return", "recorded")
    /\ SyncDirectory
    /\ UNCHANGED <<lock, op, world>>

\* Anything before the temporary file or after the directory's sync raises: the
\* database is busy, an fsync fails, an input is refused.
Raise(a) ==
    /\ pc[a] \in {"start", "prepare", "look", "insert", "temp", "complete", "update", "return"}
    /\ Refuse(a, "refused")
    /\ Release(a)
    /\ UNCHANGED <<db, files, op, world>>

Record(a) ==
    \/ Start(a)
    \/ PrepareBegin(a) \/ PrepareReplay(a) \/ PrepareLook(a) \/ PrepareCommit(a)
    \/ TempCreate(a) \/ Link(a) \/ Unlink(a) \/ Sync(a) \/ WriteFail(a)
    \/ CompleteBegin(a) \/ CompleteCommit(a) \/ Return(a)
    \/ Raise(a)

-----------------------------------------------------------------------------
Ended == {"recorded", "refused", "alarm", "dead"}

Kill(a) ==
    /\ pc[a] \notin Ended
    /\ pc' = [pc EXCEPT ![a] = "dead"]
    /\ Release(a)
    /\ UNCHANGED <<db, files, op, world>>

\* Attempts that have not started are made after it.
PowerFailure ==
    /\ outages < MaxOutages
    /\ outages' = outages + 1
    /\ rows' \in {rows, keptRows} /\ keptRows' = rows'
    /\ output' \in {output, keptOutput} /\ keptOutput' = output'
    /\ temp' \in {temp, keptTemp} /\ keptTemp' = temp'
    /\ lock' = NoOne
    /\ pc' = [a \in Attempts |-> IF pc[a] \in Ended \cup {"start"} THEN pc[a] ELSE "dead"]
    /\ UNCHANGED <<op, meddling>>

\* Somebody else's file appears, or takes the output's place.
Meddle ==
    /\ meddling < MaxMeddling
    /\ meddling' = meddling + 1
    /\ \/ output' = Foreign /\ UNCHANGED temp
       \/ temp = NoFile /\ temp' = Foreign /\ UNCHANGED output
    /\ UNCHANGED <<db, keptOutput, keptTemp, lock, pc, op, outages>>

Next ==
    \/ \E a \in Attempts : Record(a) \/ Kill(a)
    \/ PowerFailure
    \/ Meddle

Spec == Init /\ [][Next]_vars

-----------------------------------------------------------------------------
(* Properties *)

Contents == Attempts \cup {NoFile, Foreign}
PCs == {"start", "prepare", "look", "insert", "temp", "link", "unlink", "sync", "complete",
        "update", "return"} \cup Ended

Writing == {"temp", "link", "unlink", "sync", "complete", "update"}

\* Type correctness; of all attempts at most one is past its row, and there is
\* never a second row.
TypeOK ==
    /\ rows \subseteq [op : Operations, state : {"PREPARED", "COMPLETE"}, output : Attempts \cup {NoFile}]
    /\ {output, temp, keptOutput, keptTemp} \subseteq Contents
    /\ lock \in Attempts \cup {NoOne}
    /\ pc \in [Attempts -> PCs] /\ op \in [Attempts -> Operations]
    /\ Cardinality(rows) <= 1
    /\ \A a, b \in Attempts : pc[a] \in Writing /\ pc[b] \in Writing => a = b

\* Recorded once and for all: after an attempt has reported RECORDED its bytes
\* are the output, the row says so, no power failure takes either back, and no
\* other attempt ever reports the same.
RecordedStands ==
    \A a \in Attempts : pc[a] = "recorded" =>
      /\ rows = {Completed(Row(op[a]), a)} /\ keptRows = rows
      /\ meddling = 0 => output = a /\ keptOutput = a
      /\ \A b \in Attempts : pc[b] = "recorded" => a = b

\* An output is reported missing or tampered with only if somebody did that,
\* whatever attempts were cut short and whatever a power failure undid.
AlarmIsTrue == meddling = 0 => \A a \in Attempts : pc[a] # "alarm"

\* The command neither overwrites nor removes a file that somebody else put
\* there; except that an attempt whose directory sync fails removes once more
\* what has the temporary name, and its own file has gone by then.
SparesForeign ==
    [][outages' = outages =>
         /\ output = Foreign => output' = Foreign
         /\ temp = Foreign => temp' = Foreign \/ \E a \in Attempts : pc[a] = "sync" /\ pc'[a] = "refused"]_vars
=============================================================================
