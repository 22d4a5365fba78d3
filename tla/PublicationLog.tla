---------------------------- MODULE PublicationLog ----------------------------
(***************************************************************************)
(* What ReceiverStore.publish promises to concurrent callers: a log of     *)
(* generations that grows at its end, by one entry per successful          *)
(* compare-and-swap on the reference the caller expected, and an answer to *)
(* each caller that says no more than the log does.                        *)
(***************************************************************************)
EXTENDS Naturals, Sequences

CONSTANTS Gens, NoGen, MayUndo

VARIABLES
    log,        \* the publications, oldest first
    wants,      \* the reference each attempt expects
    told,       \* the answer each attempt was given
    undoable    \* a power failure may still take back the last publication

vars == <<log, wants, told, undoable>>

Tip == IF log = <<>> THEN NoGen ELSE log[Len(log)]
Published == {log[n] : n \in 1..Len(log)}

Init ==
    /\ log = <<>>
    /\ wants = [g \in Gens |-> NoGen]
    /\ told = [g \in Gens |-> "pending"]
    /\ undoable = FALSE

\* An attempt to publish g in place of e.
Ask(g, e) ==
    /\ g \notin Published
    /\ told[g] = "pending"
    /\ wants' = [wants EXCEPT ![g] = e]
    /\ UNCHANGED <<log, told, undoable>>

\* The attempt succeeds: it expected the tip, and nothing else came between.
Append1(g) ==
    /\ told[g] = "pending"
    /\ g \notin Published
    /\ wants[g] = Tip
    /\ log' = Append(log, g)
    /\ undoable' = MayUndo
    /\ UNCHANGED <<wants, told>>

\* Accepted means published, a conflict means the tip is another one, and an
\* exception says nothing.
Justified(g, answer) ==
    \/ answer = "accepted" /\ g \in Published
    \/ answer = "conflict" /\ g \notin Published /\ wants[g] # Tip
    \/ answer = "raised"

Answer(g, answer) ==
    /\ told[g] = "pending"
    /\ Justified(g, answer)
    /\ told' = [told EXCEPT ![g] = answer]
    /\ UNCHANGED <<log, wants, undoable>>

Undo ==
    /\ undoable
    /\ log' = SubSeq(log, 1, Len(log) - 1)
    /\ undoable' = FALSE
    /\ UNCHANGED <<wants, told>>

Settle ==
    /\ undoable' = FALSE
    /\ UNCHANGED <<log, wants, told>>

Next ==
    \/ \E g \in Gens :
         \/ \E e \in Gens \cup {NoGen} : Ask(g, e)
         \/ Append1(g)
         \/ \E answer \in {"accepted", "conflict", "raised"} : Answer(g, answer)
    \/ Undo
    \/ Settle

Spec == Init /\ [][Next]_vars
=============================================================================
