---------------------------- MODULE Destinations ----------------------------
(***************************************************************************)
(* The modules of a BitCraft world and the destinations an inter-module    *)
(* message can name.  Module 0 is the global module, modules 1 ..          *)
(* RegionCount are the regions (world_region_state.region_count).          *)
(***************************************************************************)
EXTENDS Naturals, Sequences

CONSTANT RegionCount

ASSUME RegionCountAssumption == RegionCount \in Nat \ {0}

Global == 0
Regions == 1 .. RegionCount
Modules == Regions \cup {Global}

(***************************************************************************)
(* InterModuleDestination.  The field "region" is only meaningful for the  *)
(* Region(u8) variant; it may name a module that does not exist.           *)
(***************************************************************************)
Broadcasts == {[variant |-> v, region |-> 0] :
                 v \in {"Global", "AllOtherRegions", "GlobalAndAllOtherRegions"}}
ToRegions == {[variant |-> "Region", region |-> r] : r \in 0 .. RegionCount + 1}
InterModuleDestination == Broadcasts \cup ToRegions

(***************************************************************************)
(* The calls of send_inter_module_message that do not panic: the global    *)
(* module cannot address itself, and Region(r) must name another region    *)
(* that exists.                                                            *)
(***************************************************************************)
CanSend(s, dst) ==
    /\ dst.variant \in {"Global", "GlobalAndAllOtherRegions"} => s # Global
    /\ dst.variant = "Region" => dst.region \in Regions \ {s}

(***************************************************************************)
(* The modules that get a copy of the message, in the order their outbox   *)
(* rows are inserted: the global module, then the regions by index.        *)
(***************************************************************************)
OtherRegions(s) ==
    IF s = Global THEN [i \in Regions |-> i]
                  ELSE [i \in 1 .. RegionCount - 1 |-> IF i < s THEN i ELSE i + 1]

Recipients(s, dst) ==
    CASE dst.variant = "Global" -> <<Global>>
      [] dst.variant = "AllOtherRegions" -> OtherRegions(s)
      [] dst.variant = "GlobalAndAllOtherRegions" -> <<Global>> \o OtherRegions(s)
      [] dst.variant = "Region" -> <<dst.region>>

=============================================================================
