------------------------------- MODULE TraceShrink -------------------------------
(***************************************************************************)
(* trace_shrink.py: what a receiver hands back when its semantic predicate *)
(* refuses a snapshot.  shrink_counterexample looks for few files, and     *)
(* shrink_trace for few events, that the predicate still refuses.  Here it *)
(* refuses whatever holds all of the culprits; raising counts as refusing. *)
(***************************************************************************)
EXTENDS Integers, Sequences
LOCAL INSTANCE SequencesExt

CONSTANT N      \* files, or events

VARIABLES
    culprits,
    pc, k,          \* phase, and its loop variable
    low, high,      \* of the binary search
    result          \* minimal, and shrunk: what is kept, in its order

vars == <<culprits, pc, k, low, high, result>>

All == [i \in 1..N |-> i]
Fails(s) == culprits \subseteq {s[i] : i \in DOMAIN s}

Init ==
    /\ culprits \in SUBSET (1..N)
    /\ pc \in IF N = 1 THEN {"done"} ELSE {"single", "search"}
    /\ k = 1
    /\ low = 1 /\ high = N
    /\ result = All

-----------------------------------------------------------------------------
(* shrink_counterexample *)

\* Is one file alone enough?
TrySingle ==
    /\ pc = "single"
    /\ IF Fails(<<k>>) THEN result' = <<k>> /\ pc' = "done" /\ UNCHANGED k
       ELSE /\ pc' = IF k = N THEN "delete" ELSE "single"
            /\ k' = IF k = N THEN 1 ELSE k + 1
            /\ UNCHANGED result
    /\ UNCHANGED <<culprits, low, high>>

\* Each file is left out of all files: the last success is kept.
TryDeletion ==
    /\ pc = "delete"
    /\ result' = IF Fails(RemoveAt(All, k)) THEN RemoveAt(All, k) ELSE result
    /\ pc' = IF k = N THEN "done" ELSE "delete"
    /\ k' = k + 1
    /\ UNCHANGED <<culprits, low, high>>

-----------------------------------------------------------------------------
(* shrink_trace *)

\* Binary search for the shortest prefix.
Search ==
    LET mid == (low + high) \div 2
        prefix == SubSeq(All, 1, mid)
    IN /\ pc = "search" /\ low <= high
       /\ IF Fails(prefix) THEN result' = prefix /\ high' = mid - 1 /\ UNCHANGED low
          ELSE low' = mid + 1 /\ UNCHANGED <<result, high>>
       /\ UNCHANGED <<culprits, pc, k>>

SearchEnd ==
    /\ pc = "search" /\ low > high
    /\ pc' = "omit"
    /\ UNCHANGED <<culprits, k, low, high, result>>

\* Each event is left out of what is kept; the last one never.
Omit ==
    /\ pc = "omit"
    /\ LET candidate == RemoveAt(result, k)
       IN CASE k > Len(result) \/ Len(result) = 1 -> pc' = "done" /\ UNCHANGED <<k, result>>
            [] OTHER -> IF Fails(candidate) THEN result' = candidate /\ UNCHANGED <<pc, k>>
                        ELSE k' = k + 1 /\ UNCHANGED <<pc, result>>
    /\ UNCHANGED <<culprits, low, high>>

Next == TrySingle \/ TryDeletion \/ Search \/ SearchEnd \/ Omit

Spec == Init /\ [][Next]_vars

-----------------------------------------------------------------------------
(* Properties *)

\* trace_shrink.py: the minimal subset of files or sequence of events, so that
\* nothing of it can be left out.
Minimal ==
    pc = "done" => Fails(result) /\ \A n \in DOMAIN result : Len(result) > 1 => ~Fails(RemoveAt(result, n))
=============================================================================
