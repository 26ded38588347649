---------------------------- MODULE MCProvenance ----------------------------
(***************************************************************************)
(* Instances of Provenance: one call per event, or two calls of one event, *)
(* as two reports of one scan or two POST /api/blockchain/record requests  *)
(* are.                                                                    *)
(***************************************************************************)
EXTENDS Provenance, TLC, FiniteSets

CONSTANTS c1, c2, c3, e1, e2, e3

Apart == c1 :> e1 @@ c2 :> e2 @@ c3 :> e3
Twice == c1 :> e1 @@ c2 :> e1
=============================================================================
