-------------------------------- MODULE Suite --------------------------------
(***************************************************************************)
(* What `modden run` promises whoever calls it: it takes its documents one *)
(* after the other, each comes to a set of results that nothing changes    *)
(* afterwards, and unless the command ends early its exit status says      *)
(* whether any of them failed.                                             *)
(***************************************************************************)
EXTENDS Naturals, Sequences

CONSTANTS Severities, Failures, MaxDocuments

VARIABLES
  documents,  \* how many there are to run
  outcomes,   \* what those that were run came to
  status      \* the exit status

suiteVars == <<documents, outcomes, status>>

Init ==
  /\ documents \in 0 .. MaxDocuments
  /\ outcomes = <<>>
  /\ status = "running"

RunDocument ==
  /\ status = "running" /\ Len(outcomes) < documents
  /\ \E rs \in SUBSET Severities : outcomes' = Append(outcomes, rs)
  /\ UNCHANGED <<documents, status>>

Finish ==
  /\ status = "running" /\ Len(outcomes) = documents
  /\ status' = IF \E d \in 1 .. Len(outcomes) : outcomes[d] \cap Failures # {} THEN "failed" ELSE "ok"
  /\ UNCHANGED <<documents, outcomes>>

EndEarly ==
  /\ status = "running"
  /\ status' \in {"usage", "error", "panic"}
  /\ UNCHANGED <<documents, outcomes>>

Next == RunDocument \/ Finish \/ EndEarly

Spec == Init /\ [][Next]_suiteVars

==============================================================================
