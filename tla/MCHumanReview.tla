----------------------------- MODULE MCHumanReview -----------------------------
(***************************************************************************)
(* Two findings of one Cisco device, three lines of two vendors, the first *)
(* two of which are similar, and answers of the model with and without a   *)
(* command that validation refuses.                                        *)
(***************************************************************************)
EXTENDS HumanReview

MCVendorOf == [x \in Findings \union Lines |-> IF x = "l3" THEN "Fortinet" ELSE "Cisco"]
MCSuggestions == {<<"no">>, <<"set", "no">>}
MCSimilarity ==
  [p \in Lines \X Lines |->
     IF p[1] = p[2] THEN 100 ELSE IF p \in {<<"l1", "l2">>, <<"l2", "l1">>} THEN 70 ELSE 65]
Work(a, r, t) == [accounts |-> a, remediation |-> r, training |-> t]
MCWorkloads == {Work(3, 0, 0), Work(0, 4, 0), Work(0, 0, 3), Work(1, 2, 0), Work(0, 2, 1)}
===============================================================================
