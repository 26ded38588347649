------------------------- MODULE ConfigurationHistory -------------------------
(***************************************************************************)
(* What the configuration store promises (README.md: every uploaded        *)
(* configuration is versioned, never overwritten): a device has a history  *)
(* of contents, version n is its n-th entry, and the only step is to add   *)
(* a content the history does not have yet.                                *)
(***************************************************************************)
EXTENDS Sequences, SequencesExt

CONSTANTS Devices, Contents

VARIABLE history

Init == history = [d \in Devices |-> <<>>]

Store(d, c) ==
  /\ c \notin ToSet(history[d])
  /\ history' = [history EXCEPT ![d] = Append(@, c)]

Next == \E d \in Devices, c \in Contents : Store(d, c)

Spec == Init /\ [][Next]_history
=============================================================================
