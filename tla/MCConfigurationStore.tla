------------------------- MODULE MCConfigurationStore -------------------------
(***************************************************************************)
(* Three uploads for device d1, the third with the content of the first,   *)
(* and one for d2 with the content of the second.  The vendor of file f1   *)
(* is certain.  That of f2 is a guess below the threshold, which waits for *)
(* the human in u2 and is parsed at once in u4, whose hint is a word the   *)
(* registry does not know.  The third upload names a vendor whose parser   *)
(* fails on it; the human names that vendor too, right for f2 and wrong    *)
(* for f1.  Both files have the unmapped command l1.                       *)
(***************************************************************************)
EXTENDS ConfigurationStore, TLC

CONSTANTS u1, u2, u3, u4, d1, d2, f1, f2, v1, v2, l1, k1, s1, word

MCDeviceOf  == u1 :> d1 @@ u2 :> d1 @@ u3 :> d1 @@ u4 :> d2
MCContentOf == u1 :> f1 @@ u2 :> f2 @@ u3 :> f1 @@ u4 :> f2
MCHint      == u1 :> NoHint @@ u2 :> NoHint @@ u3 :> v2 @@ u4 :> word
MCGuess     == f1 :> v1 @@ f2 :> v1
MCParses    == {<<v1, f1>>, <<v1, f2>>, <<v2, f2>>}
MCLineOf    == f1 :> l1 @@ f2 :> l1
MCConfirmedVendor == k1 :> v2

\* Two uploads for d1, with the unknown hint on the second.
TwoDeviceOf   == u1 :> d1 @@ u2 :> d1
TwoContentOf  == u1 :> f1 @@ u2 :> f2
UnknownHint   == u1 :> NoHint @@ u2 :> word
=============================================================================
