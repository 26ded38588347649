----------------------------- MODULE MCScanAudit -----------------------------
(***************************************************************************)
(* One scan s1 with its audit call c1 and its report call c2, verified     *)
(* once at any moment, and a client's call c3 of the audit's own event.    *)
(***************************************************************************)
EXTENDS ScanAudit, TLC

CONSTANTS s1, v1, c1, c2, c3, e1, e2

MCEventOf    == [c \in Calls |-> IF c = c2 THEN e2 ELSE e1]
MCAuditOf    == [c \in Calls |-> s1]
MCHashesOf   ==
  [c \in Calls |-> CASE c = c1 -> [f \in Fields |-> "CLEAN"]
                     [] c = c2 -> [f \in Fields |-> "NONE"]
                     [] c = c3 -> [configuration |-> "NONE", compliance |-> "EDITED", risk |-> "BLANK"]]
MCAuditCall  == s1 :> c1
MCReportCall == s1 :> c2
MCVerifies   == v1 :> s1
NoVerifies   == <<>>
=============================================================================
