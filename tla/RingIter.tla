------------------------------ MODULE RingIter ------------------------------
(***************************************************************************)
(* The iterator over the ring of tiles around a center (ring_iter), which  *)
(* claims and searches walk.  It ends when a side after the sixth would    *)
(* begin.  With a radius of 0, it returns the center without end.          *)
(***************************************************************************)
EXTENDS HexGrid

CONSTANTS
    MaxRadius,      \* bound: radii that are asked for
    MaxCoordinate,  \* bound: coordinates of a center
    Width           \* hashcode: values of a coordinate, 2^16

ASSUME RingAssumption == MaxRadius \in Nat /\ MaxCoordinate \in Nat /\ Width \in Nat \ {0}

VARIABLES
    center, radius,
    coordinate, direction, j, k,
    emitted,        \* what next() returned so far
    ended           \* next() has returned None

ringVars == <<center, radius, coordinate, direction, j, k, emitted, ended>>

Coordinates == -MaxCoordinate .. MaxCoordinate
Centers == {t \in Coordinates \X Coordinates : Distance(t, <<0, 0>>) <= MaxCoordinate}

RingInit ==
    /\ center \in Centers
    /\ radius \in 0 .. MaxRadius
    /\ direction = NE
    /\ coordinate = IF radius <= 0 THEN center ELSE RingStart(center, radius)
    /\ j = 0
    /\ k = IF radius <= 0 THEN 0 ELSE -1
    /\ emitted = <<>>
    /\ ended = FALSE

EmitCenter ==
    /\ radius <= 0 /\ k = 0
    /\ Len(emitted) < 6   \* bound: it goes on for ever
    /\ j' = 10
    /\ emitted' = Append(emitted, coordinate)
    /\ UNCHANGED <<center, radius, coordinate, direction, k, ended>>

EndRing ==
    /\ radius > 0 /\ ~ended
    /\ k + 1 >= radius /\ j + 1 >= 6
    /\ j' = j + 1 /\ k' = k + 1
    /\ ended' = TRUE
    /\ UNCHANGED <<center, radius, coordinate, direction, emitted>>

Turn(d) == NextFlat(d) \* mutant of NextSide
NextSide(d) == PreviousFlat(d)

EmitNext ==
    LET corner == k + 1 >= radius
        d == IF corner THEN NextSide(direction) ELSE direction
    IN  /\ radius > 0 /\ ~ended
        /\ corner => j + 1 < 6
        /\ j' = IF corner THEN j + 1 ELSE j
        /\ k' = IF corner THEN 0 ELSE k + 1
        /\ direction' = d
        /\ coordinate' = Neighbor(coordinate, d)
        /\ emitted' = Append(emitted, coordinate')
        /\ UNCHANGED <<center, radius, ended>>

RingNext == EmitCenter \/ EndRing \/ EmitNext

-----------------------------------------------------------------------------

(***************************************************************************)
(* The iterator returns what ring returns, in the same order.              *)
(***************************************************************************)
IteratorIsRing ==
    radius > 0 =>
        /\ emitted = SubSeq(Ring(center, radius), 1, Len(emitted))
        /\ ended => Len(emitted) = 6 * radius

(***************************************************************************)
(* What a claim or a search walks is exactly the tiles at that distance,   *)
(* each once: no gap between the sides, no corner twice.                   *)
(***************************************************************************)
AtDistance(c, r) ==
    {t \in (X(c) - r .. X(c) + r) \X (Z(c) - r .. Z(c) + r) : Distance(c, t) = r}

RingIsComplete ==
    ended =>
        /\ {emitted[n] : n \in 1 .. Len(emitted)} = AtDistance(center, radius)
        /\ Len(emitted) = Cardinality(AtDistance(center, radius))

(***************************************************************************)
(* The terrain of a tile is that of the large tiles nearest to it: of one, *)
(* or of three around a corner.                                            *)
(***************************************************************************)
LargeTilesNear(t) ==
    LET p == ParentLargeTile(t)
    IN  {<<X(p) + dx, Z(p) + dz>> : dx \in -2 .. 2, dz \in -2 .. 2}

TerrainIsNearest ==
    LET near == LargeTilesNear(coordinate)
        Far(l) == Distance(CenterSmallTile(l), coordinate)
    IN  /\ TerrainCoordinates(coordinate) =
              {l \in near : \A m \in near : Far(l) <= Far(m)}
        /\ IsCorner(coordinate) <=> Cardinality(TerrainCoordinates(coordinate)) = 3

(***************************************************************************)
(* Coordinates survive their conversions: those of offset coordinates, and *)
(* of hashcodes for a tile of the world, which has no negative ones.       *)
(***************************************************************************)
ConversionsAreExact ==
    LET o == ToOffset(coordinate)
    IN  /\ FromOffset(o) = coordinate
        /\ (o[1] \in 0 .. Width - 1 /\ o[2] \in 0 .. Width - 1) =>
               FromHashcode(Hashcode(o, Width), Width) = o

=============================================================================
