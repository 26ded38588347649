---------------------------- MODULE MCAuditLedger ----------------------------
(***************************************************************************)
(* Two audits of one device, a1 written by three transactions: t1 brings   *)
(* the compliance hash, t2 the risk hash and a newer compliance hash, t3   *)
(* is t1's record submitted again.  t4 is of another audit of the device,  *)
(* t5 of that audit with no device, t6 has no audit id.                    *)
(***************************************************************************)
EXTENDS AuditLedger, TLC

CONSTANTS t1, t2, t3, t4, t5, t6, a1, a2, d1, compliance, risk, h1, h2

MCAuditOf  == t1 :> a1 @@ t2 :> a1 @@ t3 :> a1 @@ t4 :> a2 @@ t5 :> a2 @@ t6 :> NoAudit
MCDeviceOf == t1 :> d1 @@ t2 :> d1 @@ t3 :> d1 @@ t4 :> d1 @@ t5 :> NoDevice @@ t6 :> d1
MCHashesOf ==
  LET first  == compliance :> h1 @@ risk :> Null
      second == compliance :> h2 @@ risk :> h1
      other  == compliance :> Null @@ risk :> h2
  IN  t1 :> first @@ t2 :> second @@ t3 :> first @@ t4 :> first @@ t5 :> other @@ t6 :> other
=============================================================================
