------------------------------ MODULE HexGrid ------------------------------
(***************************************************************************)
(* The hexagonal grid.  A tile has coordinates <<x, z>>; a third, y, is    *)
(* such that the sum is 0.  Small tiles are grouped by nine into large     *)
(* tiles, of the terrain, and those into chunks.                           *)
(*                                                                         *)
(* Directions are numbered clockwise from NE = 0; the even ones lead to    *)
(* the six neighbours, the odd ones over a corner.                         *)
(***************************************************************************)
EXTENDS Integers, FiniteSets, Sequences

X(t) == t[1]
Z(t) == t[2]
Y(t) == -X(t) - Z(t)

Plus(t, u) == <<X(t) + X(u), Z(t) + Z(u)>>
Minus(t, u) == <<X(t) - X(u), Z(t) - Z(u)>>

-----------------------------------------------------------------------------

(***************************************************************************)
(* HexDirection                                                            *)
(***************************************************************************)
Directions == 0 .. 11
Flat == {0, 2, 4, 6, 8, 10}
NE == 0
SE == 4
NW == 10

Opposite(d) == IF d < 6 THEN (d + 6) % 12 ELSE (d - 6) % 12
PreviousFlat(d) == IF d = NE THEN NW ELSE d - 2
NextFlat(d) == IF d = NW THEN NE ELSE d + 2

(***************************************************************************)
(* neighbor_n, direction                                                   *)
(***************************************************************************)
Offset(d) ==
    CASE d = 0 -> <<0, 1>>   [] d = 1 -> <<1, 1>>    [] d = 2 -> <<1, 0>>
      [] d = 3 -> <<2, -1>>  [] d = 4 -> <<1, -1>>   [] d = 5 -> <<1, -2>>
      [] d = 6 -> <<0, -1>>  [] d = 7 -> <<-1, -1>>  [] d = 8 -> <<-1, 0>>
      [] d = 9 -> <<-2, 1>>  [] d = 10 -> <<-1, 1>>  [] d = 11 -> <<-1, 2>>

NeighborN(t, d, n) == <<X(t) + n * X(Offset(d)), Z(t) + n * Z(Offset(d))>>
Neighbor(t, d) == NeighborN(t, d, 1)
NeighborsDirect(t) == {Neighbor(t, d) : d \in Flat}

-----------------------------------------------------------------------------

(***************************************************************************)
(* distance_to, rotate_around by one step of 60 degrees, either way        *)
(***************************************************************************)
Abs(n) == IF n < 0 THEN -n ELSE n

Distance(t, u) == (Abs(X(u) - X(t)) + Abs(Y(u) - Y(t)) + Abs(Z(u) - Z(t))) \div 2

Turned(t, c) == LET p == Minus(t, c) IN Plus(<<-Y(p), -X(p)>>, c)
TurnedBack(t, c) == LET p == Minus(t, c) IN Plus(<<-Z(p), -Y(p)>>, c)

-----------------------------------------------------------------------------

(***************************************************************************)
(* ring, without the case of radius 0                                      *)
(***************************************************************************)
RingStart(c, radius) == NeighborN(c, NextFlat(NextFlat(NE)), radius)

RingDirections(radius) ==
    [n \in 1 .. 6 * radius |->
        LET side == (n - 1) \div radius IN (12 - 2 * side) % 12]

Ring(c, radius) ==
    LET d == RingDirections(radius)
        At[n \in 0 .. 6 * radius] ==
            IF n = 0 THEN RingStart(c, radius) ELSE Neighbor(At[n - 1], d[n])
    IN  [n \in 1 .. 6 * radius |-> At[n]]

(***************************************************************************)
(* coordinates_in_radius_with_center_iter, as a set, and coordinates_in_   *)
(* radius, which leaves the center out                                     *)
(***************************************************************************)
AroundInclusive(c, radius) ==
    {c} \cup UNION {{Ring(c, i)[n] : n \in 1 .. 6 * i} : i \in 1 .. radius}

Around(c, radius) == AroundInclusive(c, radius) \ {c}

-----------------------------------------------------------------------------

(***************************************************************************)
(* Conversions.  scale(1/3) rounds to the nearest; the division of offset  *)
(* coordinates truncates.                                                  *)
(***************************************************************************)
ThirdDown(n) == n \div 3 \* mutant of Third
Third(n) == (n + 1) \div 3
ParentLargeTile(t) == <<Third(X(t)), Third(Z(t))>>
CenterSmallTile(l) == <<3 * X(l), 3 * Z(l)>>

Truncated(a, b) == IF a >= 0 THEN a \div b ELSE -((-a) \div b)

ToOffset(t) == <<X(t) + Truncated(Z(t), 2), Z(t)>>
FromOffsetDown(o) == <<o[1] - o[2] \div 2, o[2]>> \* mutant of FromOffset
FromOffset(o) == <<o[1] - Truncated(o[2], 2), o[2]>>

(***************************************************************************)
(* hashcode of offset coordinates, in two fields of 2^16, here of Width    *)
(***************************************************************************)
Hashcode(o, width) == (o[1] % width) + (o[2] % width) * width
FromHashcode(h, width) == <<h % width, (h \div width) % width>>

(***************************************************************************)
(* is_corner, get_terrain_coordinates: a corner tile touches three large   *)
(* tiles, any other tile belongs to one.                                   *)
(***************************************************************************)
IsCorner(t) == X(t) % 3 = Z(t) % 3 /\ X(t) % 3 # 0

TerrainCoordinates(t) ==
    LET d == Minus(t, CenterSmallTile(ParentLargeTile(t)))
        At(dx, dz) == ParentLargeTile(Plus(t, <<dx, dz>>))
    IN  CASE d \in {<<-1, -1>>, <<-1, 2>>, <<2, -1>>} -> {At(-2, 1), At(1, -2), At(1, 1)}
          [] d \in {<<1, -2>>, <<1, 1>>, <<-2, 1>>} -> {At(2, -1), At(-1, 2), At(-1, -1)}
          [] OTHER -> {ParentLargeTile(t)}

(***************************************************************************)
(* ChunkCoordinates, of a small tile by its large tile: none west or north *)
(* of the world                                                            *)
(***************************************************************************)
ChunkOf(t, width) ==
    LET o == ToOffset(ParentLargeTile(t))
    IN  IF o[1] < 0 \/ o[2] < 0 THEN <<-1, -1>>
        ELSE <<o[1] \div width, o[2] \div width>>

(***************************************************************************)
(* ... and from_coordinates, from the offset of the small tile itself      *)
(***************************************************************************)
ChunkOfOffset(t, width) ==
    LET o == ToOffset(t) IN <<Truncated(o[1], 3 * width), Truncated(o[2], 3 * width)>>

-----------------------------------------------------------------------------

(***************************************************************************)
(* simple_raycast from a tile to another: the tiles between them that it   *)
(* looks at.  Positions are multiples of 1 / (n + 1), and the shift of the *)
(* start, 0.01 and 0.02 units of length, is in tenthousandths of a tile.   *)
(***************************************************************************)
Unit == 10000
ShiftX == -3
ShiftZ == 40

Nearest(a, d) == (2 * a + d) \div (2 * d)

FromPosition(px, pz, d) ==
    LET py == -px - pz
        ix == Nearest(px, d)   iy == Nearest(py, d)   iz == Nearest(pz, d)
        dx == Abs(px - ix * d) dy == Abs(py - iy * d) dz == Abs(pz - iz * d)
    IN  IF ix + iy + iz = 0 THEN <<ix, iz>>
        ELSE IF dx > dy /\ dx > dz THEN <<-iy - iz, iz>>
        ELSE IF dz > dy THEN <<ix, -ix - iy>>
        ELSE <<ix, iz>>

RayTiles(start, target) ==
    LET n == Distance(start, target)
        Part(a, shift, b, i) == (a * Unit + shift) * (n + 1 - i) + b * Unit * i
    IN  {FromPosition(Part(X(start), ShiftX, X(target), i),
                      Part(Z(start), ShiftZ, Z(target), i), (n + 1) * Unit) : i \in 1 .. n - 1}

=============================================================================
