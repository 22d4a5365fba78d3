----------------------------- MODULE MCTaskHistory -----------------------------
(* Small histories of one task for TLC. *)
EXTENDS TaskHistory

CONSTANTS operator, agent

Common == {"session.pass.created", "task.termination"}
TopicsDef ==
    {Common \cup {"agreement.offer", "agreement.accept", "task.execution"},
     Common \cup {"authority.grant", "task.execution"},
     Common \cup {"task.decision", "delivery.attestation", "settlement"}}
=============================================================================
