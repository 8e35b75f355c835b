------------------------------- MODULE Deblock -------------------------------
(* How strongly the deblocking filter smoothes each edge between 4x4 luma      *)
(* blocks of a frame without MBAFF pairs (reconstruct.rs: deblock_plane_luma   *)
(* with the tests below it; deblock.rs: derive_boundary_strength).  Encoder    *)
(* and decoder run the same filter, each on a grid it filled in by itself.     *)
(*                                                                             *)
(* An entry of a grid: intra; t8, whether the 8x8 transform is used; nz, the   *)
(* blocks with coefficients; by list, ref and key for each quarter (an index,  *)
(* negative when the list is unused, and the picture it stands for) and mv for *)
(* each block.  Blocks are numbered in z-order, quarter by quarter.            *)
EXTENDS Integers

QuarterAt(x, y) == 2 * (y \div 2) + (x \div 2)
BlockAt(x, y) == 4 * QuarterAt(x, y) + 2 * (y % 2) + (x % 2)     \* blk4_raster_index

\* mv_delta_below_4, in quarter samples of a frame
Near(a, b) == a - b \in -3 .. 3

Uses(info, block, l) == info.ref[l][block \div 4] >= 0
Key(info, block, l) == info.key[l][block \div 4]

\* different_ref_or_mv_luma, of block b of p and block c of q.
DifferentRefOrMv(p, b, q, c) ==
  LET Count(info, block) == (IF Uses(info, block, 0) THEN 1 ELSE 0)
                            + (IF Uses(info, block, 1) THEN 1 ELSE 0)
      Only(info, block) == IF Uses(info, block, 0) THEN 0 ELSE 1
      Same(l, m) == Key(p, b, l) = Key(q, c, m)
      Close(l, m) == Near(p.mv[l][b], q.mv[m][c])
      straight == Same(0, 0) /\ Same(1, 1)
      swapped == Same(0, 1) /\ Same(1, 0)
      straightClose == Close(0, 0) /\ Close(1, 1)
      swappedClose == Close(0, 1) /\ Close(1, 0)
      onePicture == Key(p, b, 0) = Key(p, b, 1) /\ Key(q, c, 0) = Key(q, c, 1)
  IN \/ Count(p, b) # Count(q, c)
     \/ /\ Count(p, b) = 1 /\ Count(q, c) = 1
        /\ ~ Same(Only(p, b), Only(q, c)) \/ ~ Close(Only(p, b), Only(q, c))
     \/ /\ Count(p, b) = 2 /\ Count(q, c) = 2
        /\ \/ ~ straight /\ ~ swapped
           \/ onePicture /\ ~ straightClose /\ ~ swappedClose
           \/ ~ onePicture /\ straight /\ ~ straightClose
           \/ ~ onePicture /\ swapped /\ ~ swappedClose

\* derive_boundary_strength
BoundaryStrength(p, b, q, c, mbEdge) ==
  IF p.intra \/ q.intra THEN (IF mbEdge THEN 4 ELSE 3)
  ELSE IF b \in p.nz \/ c \in q.nz THEN 2
  ELSE IF DifferentRefOrMv(p, b, q, c) THEN 1
  ELSE 0

\* The edges filtered with macroblock a of a picture w macroblocks wide: the left
\* ("v") and the upper ("h") of each of its blocks.
Edges(a, w) ==
  {"v", "h"} \X (4 * (a % w) .. 4 * (a % w) + 3) \X (4 * (a \div w) .. 4 * (a \div w) + 3)

\* The strength at an edge of a picture w macroblocks wide; 0 where nothing is filtered.
Strength(grid, w, e) ==
  LET x == e[2]
      y == e[3]
      px == IF e[1] = "v" THEN x - 1 ELSE x
      py == IF e[1] = "h" THEN y - 1 ELSE y
      q == (y \div 4) * w + (x \div 4)
      p == (py \div 4) * w + (px \div 4)
      inside8 == (IF e[1] = "v" THEN x ELSE y) % 2 = 1
  IN IF px < 0 \/ py < 0 \/ (p = q /\ inside8 /\ grid[q].t8) THEN 0
     ELSE BoundaryStrength(grid[p], BlockAt(px % 4, py % 4), grid[q], BlockAt(x % 4, y % 4), p # q)
==============================================================================
