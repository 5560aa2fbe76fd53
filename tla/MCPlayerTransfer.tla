-------------------------- MODULE MCPlayerTransfer --------------------------
(***************************************************************************)
(* Instances of PlayerTransfer for TLC.  "ann" was created in region 1 and *)
(* "bob", where there is one, in region 2.  In the runs in which players   *)
(* wait, region 2 admits nobody.                                           *)
(***************************************************************************)
EXTENDS PlayerTransfer

Birthplace == [p \in Players |-> IF p = "bob" THEN 2 ELSE 1]

Slots(n) == [blocked |-> FALSE, maxSignedIn |-> n, maxQueue |-> 2]
RoomEverywhere == [r \in Regions |-> Slots(1)]
NoRoomIn2 == [r \in Regions |-> IF r = 2 THEN Slots(0) ELSE Slots(1)]
=============================================================================
