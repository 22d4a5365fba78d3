------------------------------ MODULE MCAssessment ------------------------------
(* Two keys, three file sets and five policies for TLC. *)
EXTENDS Assessment, TLC

CONSTANTS alice, mallory, f1, f2

Symmetry == Permutations({f1, f2})

PoliciesDef ==
    {[specs |-> {4}, issuers |-> {alice}, required |-> {}],
     [specs |-> {4}, issuers |-> {}, required |-> {}],
     [specs |-> {3, 4}, issuers |-> {alice, mallory}, required |-> {"task.decision"}],
     [specs |-> {3}, issuers |-> {alice}, required |-> {}],
     [specs |-> {}, issuers |-> {alice}, required |-> {}]}
=============================================================================
