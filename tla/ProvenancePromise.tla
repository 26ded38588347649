-------------------------- MODULE ProvenancePromise --------------------------
(***************************************************************************)
(* What the provenance service promises about each event it is asked to    *)
(* record ("graceful degradation to a PENDING queue", service.py): the     *)
(* event is shown PENDING while the ledger is out of reach and CONFIRMED   *)
(* once, and only when, the ledger has it; it never goes back.             *)
(***************************************************************************)
CONSTANT Events

VARIABLES
  recorded,  \* the events the ledger has
  shown      \* the status of each event in the backend's documents

vars == <<recorded, shown>>

Init ==
  /\ recorded = {}
  /\ shown = [e \in Events |-> "NONE"]

Record(e) ==
  /\ recorded' = recorded \union {e}
  /\ UNCHANGED shown

Hold(e) ==
  /\ shown[e] = "NONE"
  /\ shown' = [shown EXCEPT ![e] = "PENDING"]
  /\ UNCHANGED recorded

Confirm(e) ==
  /\ e \in recorded
  /\ shown[e] # "CONFIRMED"
  /\ shown' = [shown EXCEPT ![e] = "CONFIRMED"]
  /\ UNCHANGED recorded

Next == \E e \in Events : Record(e) \/ Hold(e) \/ Confirm(e)

Spec == Init /\ [][Next]_vars
=============================================================================
