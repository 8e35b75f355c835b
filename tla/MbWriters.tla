------------------------------ MODULE MbWriters ------------------------------
(* The writers of a CAVLC macroblock (encoder/macroblock.rs).  A writer takes  *)
(* a configuration m and returns the tokens it appends to the slice:           *)
(*   modes, chroma   intra modes (-1: the predicted one), intra_chroma_pred_mode *)
(*   preds           the lists each partition or sub-macroblock uses; {}: direct *)
(*   ref, mvd        reference index; mvd[list][partition]                     *)
(*   cbp, t8, delta  coded_block_pattern [y, c], transform_size_8x8_flag,      *)
(*                   mb_qp_delta                                               *)
(*   count, nC       the coefficients and the context of each block            *)
(* and the slice's settings s: cat (ChromaArrayType), t8 (the PPS carries      *)
(* transform_8x8_mode_flag) and num (num_ref_idx_active_minus1 of the lists).  *)
EXTENDS CavlcContext

\* The forward tables that the encoder inverts.
IntraFwd48 ==
  <<47, 31, 15, 0, 23, 27, 29, 30, 7, 11, 13, 14, 39, 43, 45, 46,
    16, 3, 5, 10, 12, 19, 21, 26, 28, 35, 37, 42, 44, 1, 2, 4,
    8, 17, 18, 20, 24, 6, 9, 22, 25, 32, 33, 34, 36, 40, 38, 41>>
InterFwd48 ==
  <<0, 16, 1, 2, 4, 8, 32, 3, 5, 10, 12, 15, 47, 7, 11, 13,
    14, 6, 9, 31, 35, 37, 42, 44, 33, 34, 36, 40, 39, 43, 45, 46,
    17, 18, 20, 24, 19, 21, 26, 28, 23, 27, 29, 30, 22, 25, 38, 41>>
IntraFwd16 == <<15, 0, 7, 11, 13, 14, 3, 5, 10, 12, 1, 2, 4, 8, 6, 9>>
InterFwd16 == <<0, 1, 2, 4, 8, 3, 5, 10, 12, 15, 7, 11, 13, 14, 6, 9>>

CodeNum(table, cbp) == (CHOOSE i \in DOMAIN table : table[i] = cbp) - 1

IntraCbp(m, cat) ==
  Token("ue", IF cat \in {0, 3} THEN CodeNum(IntraFwd16, m.cbp.y)
              ELSE CodeNum(IntraFwd48, 16 * m.cbp.c + m.cbp.y))
InterCbp(m, cat) ==
  Token("ue", IF cat \in {0, 3} THEN CodeNum(InterFwd16, m.cbp.y)
              ELSE CodeNum(InterFwd48, 16 * m.cbp.c + m.cbp.y))

Delta(m) == When(m.cbp # [y |-> 0, c |-> 0], <<Token("se", m.delta)>>)

------------------------------------------------------------------------------
(* Residual blocks.                                                           *)

Block(m, p, b, max) == Coeffs(m.count[<<p, b>>], m.nC[<<p, b>>], max, <<p, b>>)
Blocks(m, p, bs, max) == [i \in DOMAIN bs |-> Block(m, p, bs[i], max)]

\* The luma blocks of every macroblock but Intra_16x16.
Luma(m, p) == Blocks(m, p, Coded(m.cbp.y), 16)

\* One plane of an Intra_16x16 macroblock: DC, then AC.
Luma16x16(m, p, dc) ==
  <<Block(m, dc, 0, 16)>> \o When(m.cbp.y = 15, Blocks(m, p, Coded(15), 15))

\* ChromaWriteKind::emit for 4:2:0 (DC of four, four AC blocks) and 4:2:2.
Subsampled(m, cat) ==
  When(m.cbp.c > 0, <<Block(m, "Cbdc", 0, 4 * cat), Block(m, "Crdc", 0, 4 * cat)>>)
  \o When(m.cbp.c = 2, LET bs == [i \in 1 .. 4 * cat |-> i - 1]
                       IN Blocks(m, "Cb", bs, 15) \o Blocks(m, "Cr", bs, 15))

\* ChromaWriteKind::emit: Mono, Yuv420, Yuv422 and Yuv444Inter, and Yuv444 of
\* an Intra_16x16 macroblock.
Chroma(m, cat) ==
  CASE cat = 0 -> <<>>
    [] cat \in {1, 2} -> Subsampled(m, cat)
    [] cat = 3 -> Luma(m, "Cb4") \o Luma(m, "Cr4")
Chroma16x16(m, cat) ==
  IF cat = 3 THEN Luma16x16(m, "Cb4", "Cb4dc") \o Luma16x16(m, "Cr4", "Cr4dc")
  ELSE Chroma(m, cat)

------------------------------------------------------------------------------
(* Intra macroblocks.                                                         *)

\* intra16x16_mb_type_value
Intra16x16Type(m) == 1 + 4 * (m.cbp.c + (IF m.cbp.y = 15 THEN 3 ELSE 0)) + m.modes[1]

\* write_intra16x16_mb, _chroma, _in_inter_slice, _in_inter_slice_chroma: the
\* offset is 0 in I, 5 in P and 23 in B slices.
WriteIntra16x16(m, s, offset) ==
  <<Token("ue", offset + Intra16x16Type(m))>>
  \o When(s.cat \in {1, 2}, <<Token("ue", m.chroma)>>)
  \o <<Token("se", m.delta)>>
  \o Luma16x16(m, "Y", "Ydc")
  \o Chroma16x16(m, s.cat)

Modes(m) == [i \in DOMAIN m.modes |-> Token("ipm", m.modes[i])]

\* write_i_nxn_mb and its _chroma
WriteINxN(m, s) ==
  <<Token("ue", 0)>> \o When(s.t8, <<Token("u1", 0)>>) \o Modes(m)
  \o <<Token("ue", m.chroma), IntraCbp(m, s.cat)>> \o Delta(m)
  \o Luma(m, "Y") \o Subsampled(m, s.cat)

\* write_i8x8_mb and its _chroma
WriteI8x8(m, s) ==
  <<Token("ue", 0), Token("u1", 1)>> \o Modes(m)
  \o <<Token("ue", m.chroma), IntraCbp(m, s.cat)>> \o Delta(m)
  \o Luma(m, "Y") \o Subsampled(m, s.cat)

\* write_i4x4_mb_mono
WriteI4x4Mono(m, s) ==
  <<Token("ue", 0)>> \o When(s.t8, <<Token("u1", 0)>>) \o Modes(m)
  \o <<IntraCbp(m, 0)>> \o Delta(m) \o Luma(m, "Y")

\* write_i4x4_mb_444
WriteI4x4In444(m, s) ==
  <<Token("ue", 0)>> \o When(s.t8, <<Token("u1", 0)>>) \o Modes(m)
  \o <<IntraCbp(m, 3)>> \o Delta(m) \o Luma(m, "Y") \o Luma(m, "Cb4") \o Luma(m, "Cr4")

\* write_i8x8_mb_444
WriteI8x8In444(m) ==
  <<Token("ue", 0), Token("u1", 1)>> \o Modes(m)
  \o <<IntraCbp(m, 3)>> \o Delta(m) \o Luma(m, "Y") \o Luma(m, "Cb4") \o Luma(m, "Cr4")

------------------------------------------------------------------------------
(* Inter macroblocks.                                                         *)

\* emit_inter_mb_tail
InterTail(m, s) ==
  <<InterCbp(m, s.cat)>>
  \o When(s.t8 /\ m.cbp.y > 0, <<Token("u1", IF m.t8 THEN 1 ELSE 0)>>)
  \o Delta(m) \o Luma(m, "Y") \o Chroma(m, s.cat)

Mvd(mv) == <<Token("se", mv[1]), Token("se", mv[2])>>

\* The partitions that use a list.
Using(m, list) == SelectSeq([i \in DOMAIN m.preds |-> i], LAMBDA i : list \in m.preds[i])

Refs(m, s, list) ==
  When(s.num[list] > 0, [i \in DOMAIN Using(m, list) |-> Te(s.num[list], m.ref)])
Mvds(m, list) ==
  FlattenSeq([i \in DOMAIN Using(m, list) |-> Mvd(m.mvd[list][Using(m, list)[i]])])

\* write_p_l0_16x16_mb and its _chroma
WriteP16x16(m, s) ==
  <<Token("ue", 0)>> \o When(s.num[0] > 0, <<Te(s.num[0], m.ref)>>)
  \o Mvd(m.mvd[0][1]) \o InterTail(m, s)

\* write_p_8x8_all_pl08x8_mb
WriteP8x8(m, s) ==
  <<Token("ue", 3)>> \o [i \in 1..4 |-> Token("ue", 0)]
  \o When(s.num[0] > 0, [i \in 1..4 |-> Te(s.num[0], m.ref)])
  \o Mvds(m, 0) \o InterTail([m EXCEPT !.t8 = FALSE], s)

\* write_b_direct_16x16_mb and its _chroma
WriteBDirect(m, s) == <<Token("ue", 0)>> \o InterTail(m, s)

\* write_b_16x16_mb and its _chroma
WriteB16x16(m, s) ==
  <<Token("ue", CASE m.preds[1] = {0} -> 1 [] m.preds[1] = {1} -> 2 [] OTHER -> 3)>>
  \o Refs(m, s, 0) \o Refs(m, s, 1) \o Mvds(m, 0) \o Mvds(m, 1) \o InterTail(m, s)

\* b_16x8_mb_type_raw; that of 8x16 is one more.
TwoPartType(preds) ==
  LET first  == preds[1]
      second == preds[2]
  IN CASE first = {0} /\ second = {0} -> 4
       [] first = {1} /\ second = {1} -> 6
       [] first = {0} /\ second = {1} -> 8
       [] first = {1} /\ second = {0} -> 10
       [] first = {0} /\ second = {0, 1} -> 12
       [] first = {1} /\ second = {0, 1} -> 14
       [] first = {0, 1} /\ second = {0} -> 16
       [] first = {0, 1} /\ second = {1} -> 18
       [] first = {0, 1} /\ second = {0, 1} -> 20

\* write_b_two_part_pred
TwoPartPred(m, s) == Refs(m, s, 0) \o Refs(m, s, 1) \o Mvds(m, 0) \o Mvds(m, 1)

\* write_b_16x8_mb and its _chroma
WriteB16x8(m, s) ==
  <<Token("ue", TwoPartType(m.preds))>> \o TwoPartPred(m, s) \o InterTail(m, s)

\* write_b_8x16_mb and its _chroma
WriteB8x16(m, s) ==
  <<Token("ue", TwoPartType(m.preds) + 1)>> \o TwoPartPred(m, s) \o InterTail(m, s)

\* write_b_8x8_all_direct_mb
WriteB8x8Direct(m, s) ==
  <<Token("ue", 22)>> \o [i \in 1..4 |-> Token("ue", 0)] \o InterTail(m, s)

\* BSubMbCell::sub_mb_type_raw
CellType(pred) == CASE pred = {} -> 0 [] pred = {0} -> 1 [] pred = {1} -> 2 [] OTHER -> 3

\* write_b_8x8_mixed_mb
WriteB8x8Mixed(m, s) ==
  <<Token("ue", 22)>> \o [i \in 1..4 |-> Token("ue", CellType(m.preds[i]))]
  \o Refs(m, s, 0) \o Refs(m, s, 1) \o Mvds(m, 0) \o Mvds(m, 1) \o InterTail(m, s)
==============================================================================
