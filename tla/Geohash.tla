------------------------------ MODULE Geohash ------------------------------
(***************************************************************************)
(* The geohash functions: encoding a point, decoding a hash to its box,    *)
(* the box next to another, rows and grids of boxes.                       *)
(*                                                                         *)
(* A hash is a sequence of characters.  Latitudes and longitudes are       *)
(* integers from -Half to Half, in units of 180 and 360 degrees divided by *)
(* 2 * Half, a power of two: the halvings of the code, which are exact in  *)
(* its floating point numbers, are exact here.                             *)
(***************************************************************************)
EXTENDS Integers, SequencesExt, FiniteSetsExt

CONSTANT Half

ASSUME GeohashAssumption == Half \in Nat \ {0}

BITS == <<16, 8, 4, 2, 1>>
BASE32 == <<"0", "1", "2", "3", "4", "5", "6", "7", "8", "9", "b", "c", "d", "e", "f", "g",
            "h", "j", "k", "m", "n", "p", "q", "r", "s", "t", "u", "v", "w", "x", "y", "z">>

\* The position of ch in s, counted from 0; -1: npos.
Find(s, ch) == SelectInSeq(s, LAMBDA c : c = ch) - 1

\* A range, as a pair of its ends, and its halves.
Mid(r) == (r[1] + r[2]) \div 2
HalfOf(r, upper) == IF upper THEN <<Mid(r), r[2]>> ELSE <<r[1], Mid(r)>>
World == [lat |-> <<-Half, Half>>, lon |-> <<-Half, Half>>, even |-> TRUE]

\* One bit: the longitude's and the latitude's take turns.
Narrow(box, bit) ==
    IF box.even THEN [box EXCEPT !.lon = HalfOf(@, bit), !.even = FALSE]
    ELSE [box EXCEPT !.lat = HalfOf(@, bit), !.even = TRUE]

\* cd & BITS[j], where cd is -1 with all its bits set for an unknown character.
BitSet(cd, j) == (cd \div BITS[j]) % 2 = 1

NarrowAll(box, ch) ==
    FoldLeft(LAMBDA b, j : Narrow(b, BitSet(Find(BASE32, ch), j)), box, <<1, 2, 3, 4, 5>>)

\* The box of a hash; the point that is returned with it is its centre.
bkGeoHashDecode(hash) == FoldLeft(NarrowAll, World, hash)

Precision(len) == IF len = 0 THEN 8 ELSE IF len > 12 THEN 12 ELSE len

\* Mutant of EncodeBit: each character starts with a bit of the longitude.
EncodeBitRestarts(s, lat, lon) ==
    LET bit == IF s.box.even THEN lon > Mid(s.box.lon) ELSE lat > Mid(s.box.lat)
        ch == s.ch + IF bit THEN BITS[s.bit] ELSE 0
        box == Narrow(s.box, bit)
    IN IF s.bit < 5 THEN [s EXCEPT !.box = box, !.ch = ch, !.bit = @ + 1]
       ELSE [s EXCEPT !.box = [box EXCEPT !.even = TRUE], !.ch = 0, !.bit = 1, !.hash = Append(@, BASE32[ch + 1])]

\* One turn of the loop of bkGeoHashEncode.
EncodeBit(s, lat, lon) ==
    LET bit == IF s.box.even THEN lon > Mid(s.box.lon) ELSE lat > Mid(s.box.lat)
        ch == s.ch + IF bit THEN BITS[s.bit] ELSE 0
        box == Narrow(s.box, bit)
    IN IF s.bit < 5 THEN [s EXCEPT !.box = box, !.ch = ch, !.bit = @ + 1]
       ELSE [s EXCEPT !.box = box, !.ch = 0, !.bit = 1, !.hash = Append(@, BASE32[ch + 1])]

bkGeoHashEncode(lat, lon, len) ==
    FoldLeft(LAMBDA s, k : EncodeBit(s, lat, lon),
             [box |-> World, bit |-> 1, ch |-> 0, hash |-> <<>>],
             [k \in 1..(5 * Precision(len)) |-> k]).hash

\* The tables for hashes of even length; for odd lengths the coordinates
\* change places.
EvenNeighbors == [
    right |-> <<"b", "c", "0", "1", "f", "g", "4", "5", "2", "3", "8", "9", "6", "7", "d", "e",
                "u", "v", "h", "j", "y", "z", "n", "p", "k", "m", "s", "t", "q", "r", "w", "x">>,
    left |-> <<"2", "3", "8", "9", "6", "7", "d", "e", "b", "c", "0", "1", "f", "g", "4", "5",
               "k", "m", "s", "t", "q", "r", "w", "x", "u", "v", "h", "j", "y", "z", "n", "p">>,
    top |-> <<"p", "0", "r", "2", "1", "4", "3", "6", "x", "8", "z", "b", "9", "d", "c", "f",
              "5", "h", "7", "k", "j", "n", "m", "q", "e", "s", "g", "u", "t", "w", "v", "y">>,
    bottom |-> <<"1", "4", "3", "6", "5", "h", "7", "k", "9", "d", "c", "f", "e", "s", "g", "u",
                 "j", "n", "m", "q", "p", "0", "r", "2", "t", "w", "v", "y", "x", "8", "z", "b">>]
EvenBorders == [
    right |-> <<"b", "c", "f", "g", "u", "v", "y", "z">>,
    left |-> <<"0", "1", "4", "5", "h", "j", "n", "p">>,
    top |-> <<"p", "r", "x", "z">>,
    bottom |-> <<"0", "2", "8", "b">>]

Swap == [bottom |-> "left", top |-> "right", left |-> "bottom", right |-> "top"]
Odd(hash) == Len(hash) % 2 = 1
NEIGHBORS(hash, dir) == EvenNeighbors[IF Odd(hash) THEN Swap[dir] ELSE dir]
BORDERS(hash, dir) == EvenBorders[IF Odd(hash) THEN Swap[dir] ELSE dir]

\* Mutant of AtBorder: the box is never at the border of its parent.
AtBorderNever(hash, dir) == FALSE

AtBorder(hash, dir) == Contains(BORDERS(hash, dir), Last(hash))

RECURSIVE bkGeoHashAdjacent(_, _)
bkGeoHashAdjacent(hash, dir) ==
    LET base == IF AtBorder(hash, dir) THEN bkGeoHashAdjacent(Front(hash), dir) ELSE Front(hash)
        cd == Find(NEIGHBORS(hash, dir), Last(hash))
    IN IF hash = <<>> THEN <<>> ELSE IF cd # -1 THEN Append(base, BASE32[cd + 1]) ELSE base

\* The boxes 1, ..., steps away from hash, as the loops reach them.
Walk(hash, dir, steps) ==
    FoldLeft(LAMBDA w, k : Append(w, bkGeoHashAdjacent(Last(w), dir)), <<hash>>,
             [k \in 1..steps |-> k])

\* The centre, then those steps away in either direction, nearest first.
BothWays(center, one, other, steps) ==
    <<center>> \o FlattenSeq(Zip(Tail(Walk(center, one, steps)), Tail(Walk(center, other, steps))))

bkGeoHashRow(center, steps) == BothWays(center, "left", "right", steps)
bkGeoHashGrid(center, steps) ==
    LET rows == BothWays(center, "top", "bottom", steps)
    IN [i \in 1..Len(rows) |-> bkGeoHashRow(rows[i], steps)]

\* The functions of the binding: at least one step, and the grid by columns.
Steps(steps) == IF steps <= 0 THEN 1 ELSE steps
geoHashRow(base, steps) == bkGeoHashRow(base, Steps(steps))
geoHashGrid(base, steps) ==
    LET rc == bkGeoHashGrid(base, Steps(steps))
    IN FlattenSeq([j \in 1..Len(rc[1]) |-> [i \in 1..Len(rc) |-> rc[i][j]]])
-----------------------------------------------------------------------------
Width(r) == r[2] - r[1]
InRange(x, r) == (x > r[1] /\ x <= r[2]) \/ (x = -Half /\ r[1] = -Half)

\* A hash of a point, of len characters, has the point in its box, as narrow
\* as that many bits can make it, and the centre of the box has the same hash.
EncodesPoint(lat, lon, len, hash) ==
    LET box == bkGeoHashDecode(hash)
        bits == 5 * Precision(len)
    IN /\ Len(hash) = Precision(len)
       /\ InRange(lat, box.lat) /\ InRange(lon, box.lon)
       /\ Width(box.lat) * 2^(bits \div 2) = 2 * Half
       /\ Width(box.lon) * 2^(bits - bits \div 2) = 2 * Half
       /\ len \in 1..11 => hash = bkGeoHashEncode(Mid(box.lat), Mid(box.lon), len)

\* The box dx to the right of and dy above a box, the world being a torus.
Shift(r, d) ==
    LET n == (2 * Half) \div Width(r)
        low == (((r[1] + Half) \div Width(r) + d) % n) * Width(r) - Half
    IN <<low, low + Width(r)>>
Shifted(box, dx, dy) == [box EXCEPT !.lon = Shift(@, dx), !.lat = Shift(@, dy)]

DX == [left |-> -1, right |-> 1, top |-> 0, bottom |-> 0]
DY == [left |-> 0, right |-> 0, top |-> 1, bottom |-> -1]
IsNeighbour(hash, dir, next) ==
    /\ Len(next) = Len(hash)
    /\ bkGeoHashDecode(next) = Shifted(bkGeoHashDecode(hash), DX[dir], DY[dir])

\* The grid holds each box that is at most n steps away once, by columns that
\* start with the centre's.
IsGrid(hash, n, grid) ==
    LET box == bkGeoHashDecode(hash)
        away == [k \in 1..(2 * n + 1) |-> IF k % 2 = 0 THEN k \div 2 ELSE -(k \div 2)]
    IN /\ Len(grid) = (2 * n + 1) * (2 * n + 1)
       /\ \A i, j \in 1..(2 * n + 1) :
             bkGeoHashDecode(grid[(j - 1) * (2 * n + 1) + i]) = Shifted(box, -away[j], away[i])
=============================================================================
