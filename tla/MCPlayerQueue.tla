--------------------------- MODULE MCPlayerQueue ---------------------------
(***************************************************************************)
(* Instances of PlayerQueue for TLC.                                       *)
(***************************************************************************)
EXTENDS PlayerQueue

OneSlot == [blocked |-> FALSE, maxSignedIn |-> 1, maxQueue |-> 2]
TwoSlots == [OneSlot EXCEPT !.maxSignedIn = 2]
ShortQueue == [OneSlot EXCEPT !.maxQueue = 1]
Blocked == [OneSlot EXCEPT !.blocked = TRUE]

OneSlotOnly == {OneSlot}
AnyParameters == {OneSlot, TwoSlots, ShortQueue, Blocked}
=============================================================================
