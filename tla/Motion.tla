-------------------------------- MODULE Motion --------------------------------
(* Motion vectors of frame macroblocks: what the encoder predicts, sends and    *)
(* keeps (encoder/mod.rs: MvGrid, one entry per 8x8 quarter and list, and the   *)
(* partition_mvs of its reference frames), and what the decoder derives         *)
(* (reconstruct.rs: MbGrid, 4x4 blocks, and the motion stored with a picture).  *)
(* Both call the derivations of mv_deriv.rs on neighbours found in their own    *)
(* grids, and the deblocking filter (Deblock) on grids of their own: the        *)
(* encoder fills one in for it, MbDeblockInfo, macroblock by macroblock.        *)
(*                                                                              *)
(* A vector is one number: its other component goes the same way, and the tests *)
(* that look at both components look at the one.  Positions and sizes are in    *)
(* 4x4 blocks; a macroblock has quarters 0..3 and blocks 0..15 in z-order.      *)
EXTENDS Deblock, FiniteSets, SequencesExt

CONSTANT
  Films   \* records: w, h, temporal, pictures: records slice, poc, pocs, units, plans

VARIABLES
  film,      \* the pictures to be coded and their size
  now,       \* the picture being coded
  mb,        \* the next macroblock
  mine,      \* encoder: the grids of both lists, partition_mvs of the last picture, and
             \* the deblocking filter's grid
  theirs,    \* decoder: the grid, and the last picture's
  agreed     \* the decoder has derived the motion that was meant

motionVars == <<film, now, mb, mine, theirs, agreed>>

Lists == {0, 1}
Quarters == 0..3
Blocks4 == 0..15
Picture == film.pictures[now]
MbsOf == 0 .. (film.w * film.h) - 1

(* ---------------------------------------------------------------------------- *)
(* mv_deriv.rs.  A neighbour: whether its macroblock is available (mb) and its   *)
(* partition is (part), its reference index (-1: none) and vector.               *)

Nb(isMb, part, ref, mv) == [mb |-> isMb, part |-> part, ref |-> ref, mv |-> mv]
Unavailable == Nb(FALSE, FALSE, -1, 0)
NoMotion == Nb(TRUE, TRUE, -1, 0)       \* intra_but_mb_available
NotYet == Nb(TRUE, FALSE, -1, 0)        \* partition_not_yet_decoded_same_mb

\* C, or D in its place: ns holds the neighbours a, b, c and d.
COf(ns) == IF ~ ns.c.part /\ ns.d.part THEN ns.d ELSE ns.c

\* derive_median_mvpred
MedianOf(x, y, z) ==
  x + y + z - (CHOOSE m \in {x, y, z} : \A k \in {x, y, z} : m <= k)
            - (CHOOSE m \in {x, y, z} : \A k \in {x, y, z} : m >= k)

MedianMvpred(a, b, c, ref) ==
  LET three == IF ~ b.part /\ ~ c.part /\ a.part THEN <<a, a, a>> ELSE <<a, b, c>>
      same  == {i \in 1..3 : three[i].ref = ref}
  IN IF Cardinality(same) = 1 THEN three[CHOOSE i \in same : TRUE].mv
     ELSE MedianOf(three[1].mv, three[2].mv, three[3].mv)

\* derive_mvpred_with_d: a partition of half a macroblock favours one neighbour.
Mvpred(ns, ref, shape) ==
  LET favoured == CASE shape = "16x8 top" -> ns.b
                    [] shape \in {"16x8 bottom", "8x16 left"} -> ns.a
                    [] shape = "8x16 right" -> COf(ns)
                    [] OTHER -> Unavailable
  IN IF favoured.ref = ref THEN favoured.mv ELSE MedianMvpred(ns.a, ns.b, COf(ns), ref)

\* derive_p_skip_mv_with_d
PSkipMv(ns) ==
  IF \E n \in {ns.a, ns.b} : ~ n.mb \/ (n.ref = 0 /\ n.mv = 0) THEN 0
  ELSE MedianMvpred(ns.a, ns.b, COf(ns), 0)

MinPositive(x, y) == IF x >= 0 /\ y >= 0 THEN (IF x < y THEN x ELSE y)
                     ELSE IF x > y THEN x ELSE y

\* derive_b_spatial_direct_with_d, and the vectors of quarters whose colocated
\* block does not move; ns is indexed by list.
SpatialDirect(ns, colZero) ==
  LET least(l) == MinPositive(ns[l].a.ref, MinPositive(ns[l].b.ref, COf(ns[l]).ref))
      zero == least(0) < 0 /\ least(1) < 0
  IN [l \in Lists |-> [q \in Quarters |->
        [ref |-> IF zero THEN 0 ELSE least(l),
         mv  |-> IF zero \/ least(l) < 0 \/ (least(l) = 0 /\ colZero[q]) THEN 0
                 ELSE MedianMvpred(ns[l].a, ns[l].b, COf(ns[l]), least(l))]]]

Clip(low, high, x) == IF x < low THEN low ELSE IF x > high THEN high ELSE x

\* derive_b_temporal_direct, and its copy in the decoder, for poc0 < poc1.
TemporalMv(col, list, poc, poc0, poc1) ==
  LET td == Clip(-128, 127, poc1 - poc0)
      tx == (16384 + td \div 2) \div td
      scale == Clip(-1024, 1023, (Clip(-128, 127, poc - poc0) * tx + 32) \div 64)
      mv0 == (scale * col + 128) \div 256
  IN IF list = 0 THEN mv0 ELSE mv0 - col

(* ---------------------------------------------------------------------------- *)
(* Partitions.  form names the macroblock's division; parts are the lists used   *)
(* ({}: direct) and the vectors (list to vector) of each partition; coded, the   *)
(* 4x4 luma blocks (slots of four, in the 8x8 transform) with coefficients.      *)

Rect(x, y, w, h) == [x |-> x, y |-> y, w |-> w, h |-> h]
Rects(form) ==
  CASE form = "16x8" -> <<Rect(0, 0, 4, 2), Rect(0, 2, 4, 2)>>
    [] form = "8x16" -> <<Rect(0, 0, 2, 4), Rect(2, 0, 2, 4)>>
    [] form = "8x8"  -> <<Rect(0, 0, 2, 2), Rect(2, 0, 2, 2), Rect(0, 2, 2, 2), Rect(2, 2, 2, 2)>>
    [] OTHER         -> <<Rect(0, 0, 4, 4)>>

Shape(form, i) ==
  CASE form = "16x8" -> IF i = 1 THEN "16x8 top" ELSE "16x8 bottom"
    [] form = "8x16" -> IF i = 1 THEN "8x16 left" ELSE "8x16 right"
    [] OTHER -> "default"

InRect(r, x, y) == x \in r.x .. r.x + r.w - 1 /\ y \in r.y .. r.y + r.h - 1
XOf(q) == 2 * (q % 2)
YOf(q) == 2 * (q \div 2)
PartAt(form, q) == CHOOSE i \in DOMAIN Rects(form) : InRect(Rects(form)[i], XOf(q), YOf(q))

\* The grid of MbInfo: the decoder's, and the one the encoder hands to the filter.
EmptyInfo ==
  [available |-> FALSE, intra |-> FALSE, t8 |-> FALSE, nz |-> {},
   ref |-> [l \in Lists |-> [q \in Quarters |-> -1]],
   key |-> [l \in Lists |-> [q \in Quarters |-> "none"]],
   mv  |-> [l \in Lists |-> [b \in Blocks4 |-> 0]]]
NewMbGrid == [a \in MbsOf |-> EmptyInfo]

(* ---------------------------------------------------------------------------- *)
(* The encoder.                                                                  *)

EmptyMvSlot ==
  [available |-> FALSE, intra |-> FALSE,
   q |-> [q \in Quarters |-> [ref |-> -1, mv |-> 0]]]
IntraMvSlot == [EmptyMvSlot EXCEPT !.available = TRUE, !.intra = TRUE]
NewMvGrids == [l \in Lists |-> [a \in MbsOf |-> EmptyMvSlot]]

\* neighbour_8x8_partition_mv; inflight tells of the macroblock's own quarters.
EncoderNeighbour(grid, x, y, inflight) ==
  LET nx == (mb % film.w) + (IF x < 0 THEN -1 ELSE IF x > 3 THEN 1 ELSE 0)
      ny == mb \div film.w - (IF y < 0 THEN 1 ELSE 0)
      slot == grid[ny * film.w + nx]
      q == slot.q[QuarterAt(x % 4, y % 4)]
  IN CASE x \in 0..3 /\ y \in 0..3 -> inflight[QuarterAt(x, y)]
       [] (x > 3 /\ y >= 0) \/ nx < 0 \/ ny < 0 \/ nx >= film.w -> Unavailable
       [] OTHER -> IF ~ slot.available THEN Unavailable
                   ELSE IF slot.intra THEN NoMotion
                   ELSE Nb(TRUE, TRUE, q.ref, q.mv)

\* The neighbours of a rectangle: mvp_for_p_8x8_partition, mvp_for_b_16x8_partition,
\* mvp_for_b_8x16_partition and, for a whole macroblock, neighbour_mvs_16x16.
EncoderNeighbours(grid, r, inflight) ==
  [n \in {"a", "b", "c", "d"} |->
     EncoderNeighbour(grid, IF n \in {"a", "d"} THEN r.x - 1 ELSE IF n = "b" THEN r.x ELSE r.x + r.w,
                      IF n = "a" THEN r.y ELSE r.y - 1, inflight)]

NothingInFlight == [q \in Quarters |-> NotYet]
WholeMb == Rect(0, 0, 4, 4)

\* col_zero_flag
EncoderColZero(q) ==
  LET slot == mine.col[mb][q]
  IN ~ slot.intra /\ slot.ref = 0 /\ slot.mv \in -1..1

\* b_spatial_direct_derive and b_temporal_direct_derive
EncoderDirect ==
  IF film.temporal
  THEN [l \in Lists |-> [q \in Quarters |->
         [ref |-> 0,
          mv |-> IF mine.col[mb][q].intra THEN 0
                 ELSE TemporalMv(mine.col[mb][q].mv, l, Picture.poc, Picture.pocs[0], Picture.pocs[1])]]]
  ELSE SpatialDirect([l \in Lists |-> EncoderNeighbours(mine.grids[l], WholeMb, NothingInFlight)],
                     [q \in Quarters |-> EncoderColZero(q)])

Uniform(motion) == \A l \in Lists, q \in Quarters : motion[l][q].mv = motion[l][0].mv

\* The motion a plan means, by list and quarter; an unused list has none.
Motion(plan, direct) ==
  [l \in Lists |-> [q \in Quarters |->
     CASE plan.form = "skip" ->
            [ref |-> IF l = 0 THEN 0 ELSE -1,
             mv  |-> IF l = 0 THEN PSkipMv(EncoderNeighbours(mine.grids[0], WholeMb, NothingInFlight)) ELSE 0]
       [] plan.form = "direct" -> direct[l][q]
       [] plan.form = "intra" -> [ref |-> -1, mv |-> 0]
       [] OTHER -> LET part == plan.parts[PartAt(plan.form, q)]
                   IN IF part.lists = {} THEN direct[l][q]
                      ELSE IF l \in part.lists THEN [ref |-> plan.ref, mv |-> part.mv[l]]
                      ELSE [ref |-> -1, mv |-> 0]]]

\* MUTANT: no quarter of the macroblock is in flight before the last.
InFlightLate(plan, motion, l, i) ==
  [q \in Quarters |-> IF i = 4 /\ PartAt(plan.form, q) < i THEN Nb(TRUE, TRUE, motion[l][q].ref, motion[l][q].mv)
                      ELSE NotYet]

\* What is in flight when partition i is predicted.
InFlight(plan, motion, l, i) ==
  [q \in Quarters |-> IF PartAt(plan.form, q) < i THEN Nb(TRUE, TRUE, motion[l][q].ref, motion[l][q].mv)
                      ELSE NotYet]

\* partition_mvds_b, and the vectors of 16x16 and 8x8 partitions.
Mvds(plan, motion) ==
  [i \in DOMAIN plan.parts |-> [l \in Lists |->
     IF l \notin plan.parts[i].lists THEN 0
     ELSE plan.parts[i].mv[l]
          - Mvpred(EncoderNeighbours(mine.grids[l], Rects(plan.form)[i], InFlight(plan, motion, l, i)),
                   plan.ref, Shape(plan.form, i))]]

\* The slot of a list: one that no quarter uses is kept like an intra macroblock.
MvCommitted(motion, l) ==
  IF \A q \in Quarters : motion[l][q].ref < 0 THEN IntraMvSlot
  ELSE [available |-> TRUE, intra |-> FALSE, q |-> motion[l]]

CodedQuarters(plan) == {b \div 4 : b \in plan.coded}

\* MUTANT: the pictures of a B slice are told apart by their index alone.
RefKeyOfIndex(l, ref) ==
  IF Picture.slice = "P" THEN Picture.units[0][ref + 1] ELSE "index"

\* What tells the reference pictures of a picture apart: the count of the one
\* predicted from, and in B slices a number for each list.
RefKey(l, ref) ==
  IF Picture.slice = "P" THEN Picture.units[0][ref + 1]
  ELSE IF l = 0 THEN "list 0" ELSE "list 1"

\* The macroblock as the encoder's deblocking filter sees it: deblock_mv_arr_b,
\* deblock_arrays_per_8x8_direct, deblock_arrays_per_8x8_mixed and the entries of
\* P macroblocks; every block of an 8x8 transform counts as coded.
DeblockInfo(plan, motion) ==
  [EmptyInfo EXCEPT
     !.available = TRUE, !.intra = (plan.form = "intra"), !.t8 = plan.t8,
     !.nz = IF plan.t8 THEN {b \in Blocks4 : b \div 4 \in CodedQuarters(plan)} ELSE plan.coded,
     !.ref = [l \in Lists |-> [q \in Quarters |-> motion[l][q].ref]],
     !.key = [l \in Lists |-> [q \in Quarters |->
               IF motion[l][q].ref < 0 THEN "none" ELSE RefKey(l, motion[l][q].ref)]],
     !.mv = [l \in Lists |-> [b \in Blocks4 |-> motion[l][b \div 4].mv]]]

\* Four blocks for every coded quarter, and transform_size_8x8_flag with them.
Residual(plan) ==
  LET quarters == SetToSortSeq(CodedQuarters(plan), <)
  IN [cbp |-> CodedQuarters(plan), t8 |-> plan.t8 /\ plan.coded # {},
      nonzero |-> [s \in 1 .. 4 * Len(quarters) |->
                     4 * quarters[1 + ((s - 1) \div 4)] + ((s - 1) % 4) \in plan.coded]]

\* partition_mvs, of list 0 only.
Exported(grid) ==
  [a \in MbsOf |-> [q \in Quarters |->
     IF ~ grid[a].available \/ grid[a].intra THEN [intra |-> TRUE, ref |-> -1, mv |-> 0]
     ELSE [intra |-> FALSE, ref |-> grid[a].q[q].ref, mv |-> grid[a].q[q].mv]]]

(* ---------------------------------------------------------------------------- *)
(* The decoder.                                                                  *)

\* neighbour_from_block
DecoderNeighbour(grid, list, x, y) ==
  LET nx == (mb % film.w) + (IF x < 0 THEN -1 ELSE IF x > 3 THEN 1 ELSE 0)
      ny == mb \div film.w + (IF y < 0 THEN -1 ELSE IF y > 3 THEN 1 ELSE 0)
      at == ny * film.w + nx
      info == grid[at]
      q == QuarterAt(x % 4, y % 4)
  IN CASE nx < 0 \/ ny < 0 \/ nx >= film.w \/ ny >= film.h -> Unavailable
       [] OTHER ->
            IF at # mb /\ ~ info.available THEN Unavailable
            ELSE IF info.intra THEN NoMotion
            ELSE IF info.ref[list][q] >= 0
            THEN Nb(TRUE, TRUE, info.ref[list][q], info.mv[list][BlockAt(x % 4, y % 4)])
            ELSE IF at = mb /\ info.ref[1 - list][q] < 0 THEN NotYet ELSE NoMotion

\* neighbour_mvs_for_list
DecoderNeighbours(grid, list, r) ==
  [n \in {"a", "b", "c", "d"} |->
     DecoderNeighbour(grid, list, IF n \in {"a", "d"} THEN r.x - 1 ELSE IF n = "b" THEN r.x ELSE r.x + r.w,
                      IF n = "a" THEN r.y ELSE r.y - 1)]

\* The colocated motion of a quarter: its corner block, list 0 before list 1.
Colocated(q) ==
  LET info == theirs.col[mb]
      used == {l \in Lists : info.ref[l][q] >= 0}
  IN IF info.intra \/ used = {} THEN [ref |-> -1, mv |-> 0, list |-> 0]
     ELSE LET l == IF 0 \in used THEN 0 ELSE 1
          IN [ref |-> info.ref[l][q], mv |-> info.mv[l][5 * q], list |-> l]

\* is_colocated_zero_mv, of a short-term picture.
DecoderColZero(q) == Colocated(q).ref = 0 /\ Colocated(q).mv \in -1..1

\* The index in list 0 of the frame the colocated block refers to; 0 if none.
TemporalRef(q) ==
  LET col == Colocated(q)
      lists == film.pictures[now - 1].units
      at == {i \in DOMAIN Picture.units[0] : Picture.units[0][i] = lists[col.list][col.ref + 1]}
  IN IF col.ref < 0 \/ at = {} THEN 0 ELSE (CHOOSE i \in at : \A k \in at : i <= k) - 1

\* build_spatial_direct_partitions; derive_temporal_direct_mvs_for_block and
\* build_temporal_direct_partitions.
DecoderDirect(grid) ==
  IF film.temporal
  THEN [l \in Lists |-> [q \in Quarters |->
         [ref |-> IF l = 0 THEN TemporalRef(q) ELSE 0,
          mv |-> TemporalMv(Colocated(q).mv, l, Picture.poc, Picture.pocs[0], Picture.pocs[1])]]]
  ELSE SpatialDirect([l \in Lists |-> DecoderNeighbours(grid, l, WholeMb)],
                     [q \in Quarters |-> DecoderColZero(q)])

\* derive_inter_partitions: the partitions of a macroblock, those of a direct one
\* with their motion; a direct quarter uses the lists it has an index of.
PartsOf(sent, direct) ==
  LET DirectPart(q) ==
        [rect |-> Rect(XOf(q), YOf(q), 2, 2), skip |-> FALSE, shape |-> "default", derived |-> TRUE,
         lists |-> {l \in Lists : direct[l][q].ref >= 0},
         ref |-> [l \in Lists |-> direct[l][q].ref], value |-> [l \in Lists |-> direct[l][q].mv]]
      Explicit(i, lists, skip, mvd) ==
        [rect |-> Rects(sent.form)[i], skip |-> skip, shape |-> Shape(sent.form, i), derived |-> FALSE,
         lists |-> lists, ref |-> [l \in Lists |-> IF l \in lists THEN sent.ref ELSE -1],
         value |-> mvd]
  IN CASE sent.form = "direct" -> [i \in 1..4 |-> DirectPart(i - 1)]
       [] sent.form = "skip" -> <<Explicit(1, {0}, TRUE, [l \in Lists |-> 0])>>
       [] OTHER -> [i \in DOMAIN sent.lists |->
                      IF sent.lists[i] = {} THEN DirectPart(i - 1)
                      ELSE Explicit(i, sent.lists[i], FALSE, sent.mvds[i])]

\* derive_partition_mvs
DecodedMv(grid, part, l) ==
  IF part.derived THEN part.value[l]
  ELSE IF l \notin part.lists THEN 0
  ELSE LET ns == DecoderNeighbours(grid, l, part.rect)
       IN part.value[l] + (IF part.skip THEN PSkipMv(ns) ELSE Mvpred(ns, part.ref[l], part.shape))

\* process_partition, as far as the grid goes: the lists a partition does not use
\* are left alone.
WithPartition(grid, part) ==
  LET mv == [l \in Lists |-> DecodedMv(grid, part, l)]
      covers(b) == InRect(part.rect, XOf(b \div 4) + (b % 2), YOf(b \div 4) + ((b % 4) \div 2))
  IN [grid EXCEPT
        ![mb].mv = [l \in Lists |-> [b \in Blocks4 |->
                      IF l \in part.lists /\ covers(b) THEN mv[l] ELSE @[l][b]]],
        ![mb].ref = [l \in Lists |-> [q \in Quarters |->
                      IF l \in part.lists /\ covers(4 * q) THEN part.ref[l] ELSE @[l][q]]],
        ![mb].key = [l \in Lists |-> [q \in Quarters |->
                      IF l \in part.lists /\ covers(4 * q) THEN Picture.units[l][part.ref[l] + 1]
                      ELSE @[l][q]]]]

\* MUTANT: blocks are looked for where they would be if every quarter were coded.
NonzeroMaskUnpacked(residual) ==
  {b \in Blocks4 : b \div 4 \in residual.cbp /\ b < Len(residual.nonzero) /\ residual.nonzero[1 + b]}

\* compute_luma_nonzero_mask
NonzeroMask(residual) ==
  LET base(b) == 4 * Cardinality({q \in residual.cbp : q < b \div 4})
      blocks(b) == IF residual.t8 THEN 0..3 ELSE {b % 4}
  IN {b \in Blocks4 : b \div 4 \in residual.cbp
                       /\ \E sub \in blocks(b) : residual.nonzero[1 + base(b) + sub]}

\* The macroblock a plan sends, decoded.
Decoded(sent) ==
  LET grid  == theirs.grid
      parts == IF sent.form = "intra" THEN <<>> ELSE PartsOf(sent, DecoderDirect(grid))
  IN [FoldLeft(WithPartition, grid, parts) EXCEPT
        ![mb].available = TRUE, ![mb].intra = (sent.form = "intra"),
        ![mb].t8 = sent.residual.t8, ![mb].nz = NonzeroMask(sent.residual)]

Same(motion, info) ==
  \A l \in Lists, q \in Quarters :
    /\ info.ref[l][q] = motion[l][q].ref
    /\ motion[l][q].ref >= 0 => \A b \in 4 * q .. 4 * q + 3 : info.mv[l][b] = motion[l][q].mv

(* ---------------------------------------------------------------------------- *)

NoColocated == [a \in MbsOf |-> [q \in Quarters |-> [intra |-> TRUE, ref |-> -1, mv |-> 0]]]
IntraInfo == [EmptyInfo EXCEPT !.available = TRUE, !.intra = TRUE]

\* The pictures follow an IDR picture.
MotionInit ==
  /\ film \in Films
  /\ now = 1
  /\ mb = 0
  /\ mine = [grids |-> NewMvGrids, col |-> NoColocated, infos |-> NewMbGrid]
  /\ theirs = [grid |-> NewMbGrid, col |-> [a \in MbsOf |-> IntraInfo]]
  /\ agreed = TRUE

\* encode_p_mb, encode_p_mb_4mv, encode_b_mb and the intra macroblocks; and
\* reconstruct_slice's macroblock.  B_Skip and B_Direct_16x16 are for uniform
\* motion, other direct macroblocks go in quarters.
CodeMotion ==
  /\ mb \in MbsOf
  /\ \E plan \in Picture.plans[mb] : \E direct \in {EncoderDirect} : \E motion \in {Motion(plan, direct)} :
       /\ plan.form = "direct" => Uniform(direct)
       /\ LET sent == [form |-> plan.form, ref |-> plan.ref,
                       lists |-> [i \in DOMAIN plan.parts |-> plan.parts[i].lists],
                       mvds |-> Mvds(plan, motion), residual |-> Residual(plan)]
          IN \E grid \in {Decoded(sent)} :
               /\ theirs' = [theirs EXCEPT !.grid = grid]
               /\ agreed' = (agreed /\ Same(motion, grid[mb]))
       /\ mine' = [mine EXCEPT
                     !.grids = [l \in Lists |-> [@[l] EXCEPT ![mb] = MvCommitted(motion, l)]],
                     !.infos[mb] = DeblockInfo(plan, motion)]
  /\ mb' = mb + 1
  /\ UNCHANGED <<film, now>>

\* The picture becomes the next one's colocated picture, on both sides.
NextPicture ==
  /\ mb \notin MbsOf /\ now < Len(film.pictures)
  /\ now' = now + 1
  /\ mb' = 0
  /\ mine' = [grids |-> NewMvGrids, col |-> Exported(mine.grids[0]), infos |-> NewMbGrid]
  /\ theirs' = [grid |-> NewMbGrid, col |-> theirs.grid]
  /\ UNCHANGED <<film, agreed>>

MotionNext == CodeMotion \/ NextPicture
MotionSpec == MotionInit /\ [][MotionNext]_motionVars

------------------------------------------------------------------------------
\* Whatever the motion of the macroblocks around it and of the colocated picture,
\* the decoder derives for every quarter of every macroblock the reference
\* indices and the vectors the encoder predicted its samples with.
MotionReadBack == agreed

\* The encoder's deblocking filter smoothes the edges of every macroblock as strongly
\* as the decoder's: the pictures both predict the next one from stay the same,
\* although encoder and decoder name reference pictures differently and take the
\* coefficients from different places.  The filters run when the picture is
\* complete; the entries they find are those macroblocks leave when they are coded.
StrengthsReadBack ==
  mb > 0 => \A e \in Edges(mb - 1, film.w) :
              Strength(mine.infos, film.w, e) = Strength(theirs.grid, film.w, e)
==============================================================================
