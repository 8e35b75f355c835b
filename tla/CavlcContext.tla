---------------------------- MODULE CavlcContext ----------------------------
(* The macroblock contexts of a CAVLC slice (macroblock_layer.rs): for every   *)
(* macroblock the number of coefficients of each of its 4x4 blocks, from which *)
(* nC, and with it the coeff_token table, is derived.  The writer and the      *)
(* parser of a slice each keep a grid of their own and call the same           *)
(* derivation.                                                                 *)
(*                                                                             *)
(* A block is named <<plane, index>>: planes "Y", and "Cb4" and "Cr4" where    *)
(* chroma is coded like luma, in z-order; "Cb" and "Cr" in raster order; and   *)
(* "Ydc", "Cbdc" ... for the DC blocks, which have no context slot.  The       *)
(* pictures are progressive and one slice each, so that a macroblock is        *)
(* available once it has been coded.                                           *)
EXTENDS Integers, SequencesExt

LumaPlanes == {"Y", "Cb4", "Cr4"}

\* cat is ChromaArrayType.
PlanesOf(cat) ==
  IF cat = 0 THEN {"Y"} ELSE IF cat = 3 THEN LumaPlanes ELSE {"Y", "Cb", "Cr"}

NoTotals(cat) ==
  [p \in PlanesOf(cat) |-> [b \in IF p \in LumaPlanes THEN 0..15 ELSE 0..7 |-> 0]]

EmptySlot(cat) ==
  [available |-> FALSE, is_skip |-> FALSE, is_i_pcm |-> FALSE, totals |-> NoTotals(cat)]

At(x, y) == [x |-> x, y |-> y]

\* Columns and rows of a plane's 4x4 blocks.
Cols(p) == IF p \in LumaPlanes THEN 4 ELSE 2
Rows(p, cat) == IF p \in LumaPlanes \/ cat = 2 THEN 4 ELSE 2

CellOf(p, b) ==
  IF p \in LumaPlanes
  THEN At(2 * ((b \div 4) % 2) + (b % 2), 2 * (b \div 8) + ((b % 4) \div 2))
  ELSE At(b % 2, b \div 2)

BlockAt(p, c) ==
  IF p \in LumaPlanes
  THEN (8 * (c.y \div 2)) + (4 * (c.x \div 2)) + (2 * (c.y % 2)) + (c.x % 2)
  ELSE 2 * c.y + c.x

\* The block to the left of a cell and the one above it, each as a set with at
\* most one <<macroblock, block>>.
LeftOf(w, addr, p, c) ==
  IF c.x > 0 THEN {<<addr, BlockAt(p, At(c.x - 1, c.y))>>}
  ELSE IF addr % w > 0 THEN {<<addr - 1, BlockAt(p, At(Cols(p) - 1, c.y))>>} ELSE {}

AboveOf(w, addr, p, cat, c) ==
  IF c.y > 0 THEN {<<addr, BlockAt(p, At(c.x, c.y - 1))>>}
  ELSE IF addr >= w THEN {<<addr - w, BlockAt(p, At(c.x, Rows(p, cat) - 1))>>} ELSE {}

\* What a neighbour counts for; empty when its macroblock is not available.
CountsOf(grid, p, neighbours) ==
  {IF grid[n[1]].is_skip THEN 0
   ELSE IF grid[n[1]].is_i_pcm THEN 16
   ELSE grid[n[1]].totals[p][n[2]] : n \in {k \in neighbours : grid[k[1]].available}}

\* combine_nc
Combined(left, above) ==
  LET Of(s) == CHOOSE n \in s : TRUE
  IN IF left = {} THEN (IF above = {} THEN 0 ELSE Of(above))
     ELSE IF above = {} THEN Of(left) ELSE (Of(left) + Of(above) + 1) \div 2

\* The nC of block b of plane p.
Nc(grid, w, addr, p, cat, b) ==
  Combined(CountsOf(grid, p, LeftOf(w, addr, p, CellOf(p, b))),
           CountsOf(grid, p, AboveOf(w, addr, p, cat, CellOf(p, b))))

\* nC of a chroma DC block: -1 in 4:2:0, -2 in 4:2:2.
ChromaDcNc(cat) == 0 - cat

PlaneOfDc == "Ydc" :> "Y" @@ "Cb4dc" :> "Cb4" @@ "Cr4dc" :> "Cr4"

\* The nC of a block; the DC block of an Intra_16x16 plane has that of block 0.
ContextOf(grid, w, addr, cat, of) ==
  IF of[1] \in {"Cbdc", "Crdc"} THEN ChromaDcNc(cat)
  ELSE Nc(grid, w, addr, IF of[1] \in DOMAIN PlaneOfDc THEN PlaneOfDc[of[1]] ELSE of[1], cat, of[2])

-----------------------------------------------------------------------------
(* A token is what is written in one piece: e is its descriptor ("ipm" is      *)
(* prev_intra_pred_mode_flag with its rem_intra_pred_mode, -1 for none), v its *)
(* value, max the range of a te(v).  That of a residual block carries its      *)
(* coefficient count as v, the context nC and size max it is coded with, and   *)
(* the block it holds, which no bit of the stream tells.                       *)

Token(e, v) == [e |-> e, v |-> v, nC |-> 0, max |-> 0, of |-> <<>>]
Te(range, v) == [Token("te", v) EXCEPT !.max = range]
Coeffs(count, nC, max, of) ==
  [e |-> "coeffs", v |-> count, nC |-> nC, max |-> max, of |-> of]

When(condition, tokens) == IF condition THEN tokens ELSE <<>>

\* The blocks of a plane that a luma coded_block_pattern sends, in coding order.
Coded(cbpLuma) ==
  SelectSeq([i \in 1..16 |-> i - 1], LAMBDA b : (cbpLuma \div 2^(b \div 4)) % 2 = 1)
=============================================================================
