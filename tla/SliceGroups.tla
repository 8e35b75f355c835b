------------------------------ MODULE SliceGroups ------------------------------
(* Slice groups, arbitrary slice order and redundant slices: encoder/slices.rs  *)
(* deals the macroblocks of a picture out to slices by MbToSliceGroupMap, and   *)
(* the decoder finds each slice's macroblocks from first_mb_in_slice and the    *)
(* same map (mb_address.rs), which for map types 3 to 5 depends on the          *)
(* slice_group_change_cycle of the slice header.                                *)
(*                                                                              *)
(* The encoder codes progressive frames; the slices of fields, MBAFF frames and *)
(* other frames of interlaced sequences are dealt out in the same way, by pair  *)
(* in MBAFF frames, as some other encoder would.                                *)
EXTENDS Integers, Sequences, SequencesExt, FiniteSetsExt

CONSTANT GroupPictures
  \* w, rows: PicWidthInMbs, PicHeightInMapUnits;  groups: number of slice groups
  \* map: type and its parameters;  cycle: slice_group_change_cycle
  \* coding: "progressive", "field", "mbaff" or "interlaced" frame
  \* each: mbs_per_slice;  aso, redundant: as in SlicesConfig
  \* inter: some macroblocks may be inter;  constrained: constrained_intra_pred_flag

VARIABLES
  grouped,    \* the picture
  arriving,   \* the slices on their way: first_mb_in_slice, macroblocks, redundant
  walk,       \* the slice being decoded: the macroblocks to come, the address reached, id
  owner,      \* decoder, by address: the slice a macroblock was decoded in and is_intra
  alike       \* the decoder walked, and looked beside it, as the encoder did

groupVars == <<grouped, arriving, walk, owner, alike>>

Units(p)     == p.w * p.rows
UnitSet(p)   == 0 .. Units(p) - 1
Changing(p)  == p.map.type \in {3, 4, 5}
Doubled(p)   == p.coding \in {"mbaff", "interlaced"}
PicSize(p)   == IF Doubled(p) THEN 2 * Units(p) ELSE Units(p)
MbaffFlag(p) == IF p.coding = "mbaff" THEN 1 ELSE 0

(* -------------------------- mapUnitToSliceGroupMap -------------------------- *)

Least(a, b) == IF a < b THEN a ELSE b
Most(a, b)  == IF a < b THEN b ELSE a

\* Type 0: runs of each group in turn, until the picture is full.
Interleaved(p) ==
  LET From[i \in 0 .. Units(p), g \in 0 .. p.groups - 1] ==
        IF i = Units(p) THEN <<>>
        ELSE LET next == Least(i + p.map.runs[g + 1], Units(p))
             IN [j \in 1 .. next - i |-> g] \o From[next, (g + 1) % p.groups]
      all == From[0, 0]
  IN [i \in UnitSet(p) |-> all[i + 1]]

\* Type 1.
Dispersed(p) ==
  [i \in UnitSet(p) |-> ((i % p.w) + ((i \div p.w) * p.groups) \div 2) % p.groups]

\* Type 2: rectangles painted from the last group to the first.
InRectangle(p, i, g) ==
  LET a == p.map.topLeft[g + 1]
      z == p.map.bottomRight[g + 1]
  IN /\ i % p.w \in (a % p.w) .. (z % p.w)
     /\ i \div p.w \in (a \div p.w) .. (z \div p.w)

\* MUTANT: painted from the first group to the last.
ForegroundUp(p) ==
  LET Painted[g \in -1 .. p.groups - 2] ==
        IF g = -1 THEN [i \in UnitSet(p) |-> p.groups - 1]
        ELSE [i \in UnitSet(p) |-> IF InRectangle(p, i, g) THEN g ELSE Painted[g - 1][i]]
  IN Painted[p.groups - 2]

Foreground(p) ==
  LET Painted[g \in 0 .. p.groups - 1] ==
        IF g = p.groups - 1 THEN [i \in UnitSet(p) |-> g]
        ELSE [i \in UnitSet(p) |-> IF InRectangle(p, i, g) THEN g ELSE Painted[g + 1][i]]
  IN Painted[0]

UnitsInGroup0(p, cycle) == Least(p.map.rate * cycle, Units(p))

\* Type 3: a spiral from the middle of the picture; every turn of the loop counts.
BoxOut(p, cycle) ==
  LET dir == p.map.direction
      mid == <<(p.w - dir) \div 2, (p.rows - dir) \div 2>>
      Turn(s) ==
        LET x == s.at[1]  y == s.at[2]  IN
        CASE s.dir = <<-1, 0>> /\ x = s.lo[1] ->
               LET b == Most(s.lo[1] - 1, 0) IN
               [s EXCEPT !.lo[1] = b, !.at[1] = b, !.dir = <<0, 2 * dir - 1>>]
          [] s.dir = <<1, 0>> /\ x = s.hi[1] ->
               LET b == Least(s.hi[1] + 1, p.w - 1) IN
               [s EXCEPT !.hi[1] = b, !.at[1] = b, !.dir = <<0, 1 - 2 * dir>>]
          [] s.dir = <<0, -1>> /\ y = s.lo[2] ->
               LET b == Most(s.lo[2] - 1, 0) IN
               [s EXCEPT !.lo[2] = b, !.at[2] = b, !.dir = <<1 - 2 * dir, 0>>]
          [] s.dir = <<0, 1>> /\ y = s.hi[2] ->
               LET b == Least(s.hi[2] + 1, p.rows - 1) IN
               [s EXCEPT !.hi[2] = b, !.at[2] = b, !.dir = <<2 * dir - 1, 0>>]
          [] OTHER -> [s EXCEPT !.at = <<x + s.dir[1], y + s.dir[2]>>]
      Spiral[k \in 0 .. UnitsInGroup0(p, cycle)] ==
        IF k = 0 THEN [at |-> mid, lo |-> mid, hi |-> mid, dir |-> <<dir - 1, dir>>, taken |-> {}]
        ELSE LET s == Spiral[k - 1]
             IN [Turn(s) EXCEPT !.taken = @ \cup {s.at[2] * p.w + s.at[1]}]
      taken == Spiral[UnitsInGroup0(p, cycle)].taken
  IN [i \in UnitSet(p) |-> IF i \in taken THEN 0 ELSE 1]

\* Types 4 and 5: the first units by rows, or by columns.
UpperLeft(p, cycle) ==
  IF p.map.direction = 1 THEN Units(p) - UnitsInGroup0(p, cycle) ELSE UnitsInGroup0(p, cycle)
Raster(p, cycle) ==
  [i \in UnitSet(p) |-> IF i < UpperLeft(p, cycle) THEN p.map.direction ELSE 1 - p.map.direction]
Wipe(p, cycle) ==
  [i \in UnitSet(p) |-> IF (i % p.w) * p.rows + i \div p.w < UpperLeft(p, cycle)
                        THEN p.map.direction ELSE 1 - p.map.direction]

UnitMap(p, cycle) ==
  CASE p.groups = 1   -> [i \in UnitSet(p) |-> 0]
    [] p.map.type = 0 -> Interleaved(p)
    [] p.map.type = 1 -> Dispersed(p)
    [] p.map.type = 2 -> Foreground(p)
    [] p.map.type = 3 -> BoxOut(p, cycle)
    [] p.map.type = 4 -> Raster(p, cycle)
    [] p.map.type = 5 -> Wipe(p, cycle)
    [] p.map.type = 6 -> [i \in UnitSet(p) |-> p.map.ids[i + 1]]

\* MbToSliceGroupMap: fields and progressive frames by macroblock, MBAFF frames
\* by pair, other frames two rows of macroblocks to a row of units.
\* MUTANT: rows of units are taken for pairs in every interlaced frame.
UnitOfPair(p, a) == IF Doubled(p) THEN a \div 2 ELSE a
UnitOf(p, a) ==
  CASE ~ Doubled(p)       -> a
    [] p.coding = "mbaff" -> a \div 2
    [] OTHER              -> (a \div (2 * p.w)) * p.w + (a % p.w)

MbMap(p, cycle) ==
  LET units == UnitMap(p, cycle) IN [a \in 0 .. PicSize(p) - 1 |-> units[UnitOf(p, a)]]

\* NextMbAddress; without groups the map has one, and the walk is in raster order.
\* MUTANT: the raster successor, whatever its group.
NextMbAddressAny(map, size, a) == a + 1
NextMbAddress(map, size, a) ==
  Min({size} \cup {b \in a + 1 .. size - 1 : map[b] = map[a]})

(* --------------------------------- Encoder ---------------------------------- *)

\* The macroblocks of a group in ascending order, in chunks of mbs_per_slice.
Members(p, g) ==
  LET map == MbMap(p, p.cycle)
  IN SelectSeq([k \in 1 .. PicSize(p) |-> k - 1], LAMBDA a : map[a] = g)

Chunks(mbs, each) ==
  LET size == IF each = 0 THEN Most(Len(mbs), 1) ELSE each
  IN [c \in 1 .. (Len(mbs) + size - 1) \div size |->
        SubSeq(mbs, (c - 1) * size + 1, Least(c * size, Len(mbs)))]

SliceMbs(p) ==
  FlattenSeq([g \in 1 .. p.groups |-> Chunks(Members(p, g - 1), p.each * (1 + MbaffFlag(p)))])

Slice(p, mbs, redundant) ==
  [first |-> mbs[1] \div (1 + MbaffFlag(p)), mbs |-> mbs, redundant |-> redundant]

\* Primary slices, reversed under aso, then the redundant ones in order.
SlicesSent(p) ==
  LET primary == [k \in DOMAIN SliceMbs(p) |-> Slice(p, SliceMbs(p)[k], FALSE)]
      again   == [k \in DOMAIN SliceMbs(p) |-> Slice(p, SliceMbs(p)[k], TRUE)]
  IN (IF p.aso THEN Reverse(primary) ELSE primary) \o (IF p.redundant THEN again ELSE <<>>)

\* Width of slice_group_change_cycle: the least number of bits for
\* PicSizeInMapUnits / SliceGroupChangeRate + 1 values, where the encoder divides
\* exactly, the decoder in whole numbers.
WidthWritten(p) == CHOOSE b \in 0 .. 31 : /\ Units(p) + p.map.rate <= p.map.rate * 2 ^ b
                                          /\ b = 0 \/ Units(p) + p.map.rate > p.map.rate * 2 ^ (b - 1)
WidthRead(p) == CHOOSE b \in 0 .. 31 : /\ Units(p) \div p.map.rate + 1 <= 2 ^ b
                                       /\ b = 0 \/ Units(p) \div p.map.rate + 1 > 2 ^ (b - 1)

\* What is around a macroblock of a frame without pairs: left, above, above left.
Around(p, a) ==
  LET x == a % p.w  y == a \div p.w
  IN {n[2] * p.w + n[1] : n \in {n \in {<<x - 1, y>>, <<x, y - 1>>, <<x - 1, y - 1>>} :
                                    n[1] >= 0 /\ n[2] >= 0}}

(* --------------------------------- Decoder ---------------------------------- *)

None == [slice |-> -1, intra |-> FALSE]
Idle == [mbs |-> <<>>, done |-> 0, at |-> 0, id |-> -1]

\* The cycle as the header is read: the first bits of those written; the slice
\* data begins where it was written only if all of them are read.
CycleRead(p) ==
  IF ~ Changing(p) THEN 0
  ELSE IF WidthRead(p) >= WidthWritten(p) THEN p.cycle
  ELSE p.cycle \div 2 ^ (WidthWritten(p) - WidthRead(p))
HeaderWhole(p) == Changing(p) => WidthRead(p) = WidthWritten(p)

GroupInit ==
  /\ grouped \in GroupPictures
  /\ arriving = SlicesSent(grouped)
  /\ walk = Idle
  /\ owner = [a \in 0 .. PicSize(grouped) - 1 |-> None]
  /\ alike = TRUE

Between == walk.done = Len(walk.mbs)

\* A slice starts; a redundant one is passed over.
StartSlice ==
  /\ Between /\ arriving # <<>> /\ alike
  /\ arriving' = Tail(arriving)
  /\ LET s == Head(arriving) IN
     IF s.redundant
     THEN UNCHANGED <<walk, alike>>
     ELSE /\ walk' = [mbs |-> s.mbs, done |-> 0, at |-> s.first * (1 + MbaffFlag(grouped)),
                      id |-> s.first]
          /\ alike' = HeaderWhole(grouped)
  /\ UNCHANGED <<grouped, owner>>

\* The neighbours intra prediction uses: for the encoder those of the same slice,
\* for the decoder those bearing the slice's id; under constrained intra
\* prediction intra ones only.
\* MUTANT: a macroblock not decoded yet passes for one of the slice.
SameSliceUnstamped(n) == owner[n].slice < 0 \/ owner[n].slice = walk.id
SameSlice(n) == owner[n].slice >= 0 /\ owner[n].slice = walk.id
Offered(a) == {n \in Around(grouped, a) :
                 /\ n \in Range(walk.mbs)
                 /\ grouped.constrained /\ grouped.inter => owner[n].intra}
Taken(a) == {n \in Around(grouped, a) :
               SameSlice(n) /\ (grouped.constrained => owner[n].intra)}

\* The next macroblock, of either kind, is decoded at the address reached.
DecodeMb(intra) ==
  /\ ~ Between /\ alike
  /\ alike' = (/\ walk.at = walk.mbs[walk.done + 1] /\ owner[walk.at] = None
               /\ MbaffFlag(grouped) = 0 => Taken(walk.at) = Offered(walk.at))
  /\ owner' = [owner EXCEPT ![walk.at] = [slice |-> walk.id, intra |-> intra]]
  /\ walk' = [walk EXCEPT !.done = @ + 1,
                          !.at = NextMbAddress(MbMap(grouped, CycleRead(grouped)), PicSize(grouped), @)]
  /\ UNCHANGED <<grouped, arriving>>

GroupNext ==
  \/ StartSlice
  \/ \E intra \in (IF grouped.inter THEN BOOLEAN ELSE {TRUE}) : DecodeMb(intra)

\* The decoder reads every slice at the addresses it was coded at, looks at the
\* neighbours the encoder looked at, and has every macroblock once in the end.
SlicesReadBack ==
  /\ alike
  /\ Between /\ arriving = <<>> => \A a \in DOMAIN owner : owner[a] # None

(* ------------------------------- What maps are ------------------------------ *)

\* Interleaved: the group whose run covers the unit in a cycle of all runs.
RunStart(p, g) == FoldSeq(+, 0, SubSeq(p.map.runs, 1, g))
InRun(p, i, g) ==
  i % RunStart(p, p.groups) \in RunStart(p, g) .. RunStart(p, g + 1) - 1

\* Left, right, above and below.
Beside(p, i) ==
  {j \in UnitSet(p) : \/ j = i + 1 /\ j % p.w # 0
                      \/ j = i + p.w}

\* Raster and wipe: the place of a unit by rows or by columns.
Place(p, i) == IF p.map.type = 4 THEN i ELSE (i % p.w) * p.rows + i \div p.w

UnitUnder(p, a) ==
  LET x == IF p.coding = "mbaff" THEN (a \div 2) % p.w ELSE a % p.w
      y == IF p.coding = "mbaff" THEN 2 * ((a \div 2) \div p.w) + (a % 2) ELSE a \div p.w
  IN (IF Doubled(p) THEN y \div 2 ELSE y) * p.w + x

\* The maps of all types but the spiral are those the standard describes, and a
\* macroblock is in the group of the unit that covers its place in the picture.
GroupsAsDefined ==
  walk = Idle /\ grouped.groups > 1 =>
    LET p == grouped
        map == UnitMap(p, p.cycle)
        mb  == MbMap(p, p.cycle)
        n0  == UnitsInGroup0(p, p.cycle)
        zero == IF p.map.direction = 0 THEN 0 .. n0 - 1 ELSE Units(p) - n0 .. Units(p) - 1
    IN /\ p.map.type = 0 => \A i \in UnitSet(p) : InRun(p, i, map[i])
       /\ p.map.type = 1 => \A i \in UnitSet(p) : \A j \in Beside(p, i) : map[i] # map[j]
       /\ p.map.type = 2 =>
            \A i \in UnitSet(p) :
              map[i] = Min({g \in 0 .. p.groups - 2 : InRectangle(p, i, g)} \cup {p.groups - 1})
       /\ p.map.type \in {4, 5} => {Place(p, i) : i \in {i \in UnitSet(p) : map[i] = 0}} = zero
       /\ \A a \in DOMAIN mb : mb[a] = map[UnitUnder(p, a)]
=============================================================================
