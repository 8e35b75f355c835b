------------------------------- MODULE MbParser -------------------------------
(* parse_macroblock (macroblock_layer.rs) for CAVLC, without MBAFF and data     *)
(* partitioning.  The parser knows the slice's settings s: slice (its type),    *)
(* cat (ChromaArrayType), t8 (transform_8x8_mode_flag), num                     *)
(* (num_ref_idx_active_minus1 of the lists) and direct8 (the SPS's              *)
(* direct_8x8_inference_flag), and its own grid of contexts; everything else    *)
(* it must find in the tokens.  ok says that every token had the descriptor,    *)
(* and every residual block the context and the size, that the parser read it   *)
(* with.                                                                        *)
EXTENDS CavlcContext

Eos == Token("end", 0)

\* The i-th token; past the end of the slice data every read fails.
TokenAt(t, i) == IF i <= Len(t) THEN t[i] ELSE Eos

------------------------------------------------------------------------------
(* Macroblock types.  form is the path the parser takes, lists of each          *)
(* partition or sub-macroblock the lists it uses, {} for direct prediction.     *)

Type(form, mode, cbp, lists) == [form |-> form, mode |-> mode, cbp |-> cbp, lists |-> lists]
NoCbp == [y |-> 0, c |-> 0]
Unreadable == Type("error", 0, NoCbp, <<>>)

\* MbType::from_i_slice
FromI(raw) ==
  CASE raw = 0 -> Type("INxN", 0, NoCbp, <<>>)
    [] raw \in 1..24 ->
         Type("I16x16", (raw - 1) % 4,
              [y |-> IF raw > 12 THEN 15 ELSE 0, c |-> ((raw - 1) \div 4) % 3], <<>>)
    [] OTHER -> Unreadable           \* 25, I_PCM, is not written by these slices

\* MbType::from_p_slice
FromP(raw) ==
  CASE raw = 0 -> Type("16x16", 0, NoCbp, <<{0}>>)
    [] raw = 1 -> Type("16x8", 0, NoCbp, <<{0}, {0}>>)
    [] raw = 2 -> Type("8x16", 0, NoCbp, <<{0}, {0}>>)
    [] raw = 3 -> Type("P8x8", 0, NoCbp, <<>>)
    [] raw = 4 -> Type("P8x8ref0", 0, NoCbp, <<>>)
    [] raw \in 5..30 -> FromI(raw - 5)
    [] OTHER -> Unreadable

\* MbType::from_b_slice and mb_part_pred_mode
TwoParts ==
  <<<<{0}, {0}>>, <<{1}, {1}>>, <<{0}, {1}>>, <<{1}, {0}>>, <<{0}, {0, 1}>>,
    <<{1}, {0, 1}>>, <<{0, 1}, {0}>>, <<{0, 1}, {1}>>, <<{0, 1}, {0, 1}>>>>
OnePart == <<{0}, {1}, {0, 1}>>

FromB(raw) ==
  CASE raw = 0 -> Type("direct", 0, NoCbp, <<{}>>)
    [] raw \in 1..3 -> Type("16x16", 0, NoCbp, <<OnePart[raw]>>)
    [] raw \in 4..21 ->
         Type(IF raw % 2 = 0 THEN "16x8" ELSE "8x16", 0, NoCbp, TwoParts[raw \div 2 - 1])
    [] raw = 22 -> Type("B8x8", 0, NoCbp, <<>>)
    [] raw \in 23..48 -> FromI(raw - 23)
    [] OTHER -> Unreadable

MbType(slice, raw) ==
  CASE slice = "I" -> FromI(raw) [] slice = "P" -> FromP(raw) [] slice = "B" -> FromB(raw)

Sub(lists, parts) == [lists |-> lists, parts |-> parts]

\* SubMbType::from_p, from_b, num_sub_mb_part and sub_mb_pred_mode; a reserved
\* value is one partition that reads from either list.
SubTypesP == <<Sub({0}, 1), Sub({0}, 2), Sub({0}, 2), Sub({0}, 4)>>
SubTypesB ==
  <<Sub({}, 1), Sub({0}, 1), Sub({1}, 1), Sub({0, 1}, 1), Sub({0}, 2), Sub({0}, 2),
    Sub({1}, 2), Sub({1}, 2), Sub({0, 1}, 2), Sub({0, 1}, 2), Sub({0}, 4), Sub({1}, 4),
    Sub({0, 1}, 4)>>
SubType(form, raw) ==
  LET types == IF form = "B8x8" THEN SubTypesB ELSE SubTypesP
  IN IF raw + 1 \in DOMAIN types THEN types[raw + 1] ELSE Sub({0, 1}, 1)

IsIntra(ty) == ty.form \in {"INxN", "I16x16"}
IsSubMbPath(ty) == ty.form \in {"P8x8", "P8x8ref0", "B8x8"}

------------------------------------------------------------------------------
(* Prediction: the descriptors in the order of their reads.                     *)

Times(n, e) == [i \in 1..n |-> e]

UsesList(parts, list) ==
  SelectSeq([i \in DOMAIN parts |-> i], LAMBDA i : list \in parts[i].lists)

\* The motion vectors of the partitions that use a list.
MvCount(parts, list) ==
  FoldSeq(LAMBDA i, n : n + parts[i].parts, 0, UsesList(parts, list))

RefCount(ty, s, parts, list) ==
  IF s.num[list] > 0 /\ ty.form # "P8x8ref0" THEN Len(UsesList(parts, list)) ELSE 0

\* The inter part of parse_mb_pred and parse_sub_mb_pred: indices of list 0 and
\* of list 1, then motion vectors of list 0 and of list 1.
InterReads(ty, s, parts) ==
  Times(RefCount(ty, s, parts, 0) + RefCount(ty, s, parts, 1), "te")
  \o Times(2 * (MvCount(parts, 0) + MvCount(parts, 1)), "se")

\* The intra part of parse_mb_pred.
IntraReads(ty, s, t8) ==
  When(ty.form = "INxN", Times(IF t8 THEN 4 ELSE 16, "ipm"))
  \o When(s.cat \in {1, 2}, <<"ue">>)

\* Whether n tokens from i on have these descriptors.
Reads(t, i, kinds) == \A k \in DOMAIN kinds : TokenAt(t, i + k - 1).e = kinds[k]

ValuesFrom(t, i, n) == [k \in 1..n |-> TokenAt(t, i + k - 1).v]

\* The reference index of each partition, 0 where none is read.
RefsFrom(t, i, ty, s, parts, list) ==
  [k \in DOMAIN parts |->
     IF RefCount(ty, s, parts, list) > 0 /\ list \in parts[k].lists
     THEN TokenAt(t, i + Len(SelectSeq(UsesList(parts, list), LAMBDA j : j < k))).v
     ELSE 0]

\* The motion vectors of each partition, in coding order.
MvdsFrom(t, i, parts, list) ==
  [k \in DOMAIN parts |->
     IF list \in parts[k].lists
     THEN LET before == FoldSeq(LAMBDA j, n : n + parts[j].parts, 0,
                                SelectSeq(UsesList(parts, list), LAMBDA j : j < k))
          IN [v \in 1 .. parts[k].parts |-> ValuesFrom(t, i + 2 * (before + v - 1), 2)]
     ELSE <<>>]

------------------------------------------------------------------------------
(* coded_block_pattern and the transform size.                                  *)

IntraCbp48 ==
  <<47, 31, 15, 0, 23, 27, 29, 30, 7, 11, 13, 14, 39, 43, 45, 46,
    16, 3, 5, 10, 12, 19, 21, 26, 28, 35, 37, 42, 44, 1, 2, 4,
    8, 17, 18, 20, 24, 6, 9, 22, 25, 32, 33, 34, 36, 40, 38, 41>>
InterCbp48 ==
  <<0, 16, 1, 2, 4, 8, 32, 3, 5, 10, 12, 15, 47, 7, 11, 13,
    14, 6, 9, 31, 35, 37, 42, 44, 33, 34, 36, 40, 39, 43, 45, 46,
    17, 18, 20, 24, 19, 21, 26, 28, 23, 27, 29, 30, 22, 25, 38, 41>>
IntraCbp16 == <<15, 0, 7, 11, 13, 14, 3, 5, 10, 12, 1, 2, 4, 8, 6, 9>>
InterCbp16 == <<0, 1, 2, 4, 8, 3, 5, 10, 12, 15, 7, 11, 13, 14, 6, 9>>

\* parse_cbp_me; 48 stands for a codeNum out of range.
ParseCbp(codeNum, cat, intra) ==
  LET table == IF cat \in {0, 3} THEN IF intra THEN IntraCbp16 ELSE InterCbp16
               ELSE IF intra THEN IntraCbp48 ELSE InterCbp48
      cbp   == IF codeNum + 1 \in DOMAIN table THEN table[codeNum + 1] ELSE 48
  IN [y |-> cbp % 16, c |-> cbp \div 16]

\* MUTANT: the flag of an I_NxN macroblock is read a second time.
TransformGateAgain(ty, s, parts, cbp) ==
  /\ cbp.y > 0 /\ s.t8
  /\ ty.form # "I16x16"
  /\ IsSubMbPath(ty) => \A i \in DOMAIN parts : parts[i].lists # {} => parts[i].parts = 1

\* t8x8_gate: transform_size_8x8_flag follows the coded_block_pattern.
TransformGate(ty, s, parts, cbp) ==
  /\ cbp.y > 0 /\ s.t8
  /\ ~ IsIntra(ty)
  /\ IsSubMbPath(ty) =>
       \A i \in DOMAIN parts :
         IF parts[i].lists = {} THEN s.direct8 ELSE parts[i].parts = 1
  /\ ty.form = "direct" => s.direct8

------------------------------------------------------------------------------
(* Residual.                                                                    *)

\* The blocks parse_residual_cavlc_only reads, with their sizes.
BlockOf(p, b, max) == [of |-> <<p, b>>, max |-> max]

LumaLike(ty, cbp, p, dc) ==
  IF ty.form = "I16x16"
  THEN <<BlockOf(dc, 0, 16)>> \o When(cbp.y = 15, [i \in 1..16 |-> BlockOf(p, i - 1, 15)])
  ELSE LET bs == Coded(cbp.y) IN [i \in DOMAIN bs |-> BlockOf(p, bs[i], 16)]

ResidualBlocks(ty, cbp, cat) ==
  LumaLike(ty, cbp, "Y", "Ydc")
  \o CASE cat = 0 -> <<>>
       [] cat = 3 -> LumaLike(ty, cbp, "Cb4", "Cb4dc") \o LumaLike(ty, cbp, "Cr4", "Cr4dc")
       [] OTHER ->
            When(cbp.c > 0, <<BlockOf("Cbdc", 0, 4 * cat), BlockOf("Crdc", 0, 4 * cat)>>)
            \o When(cbp.c = 2, [i \in 1 .. 4 * cat |-> BlockOf("Cb", i - 1, 15)]
                               \o [i \in 1 .. 4 * cat |-> BlockOf("Cr", i - 1, 15)])

\* The slot a macroblock leaves: what its tokens counted, 0 elsewhere.
SlotOf(t, i, blocks, cat) ==
  [available |-> TRUE, is_skip |-> FALSE, is_i_pcm |-> FALSE,
   totals |-> [p \in PlanesOf(cat) |-> [b \in DOMAIN NoTotals(cat)[p] |->
     LET at == {k \in DOMAIN blocks : blocks[k].of = <<p, b>>}
     IN IF at = {} THEN 0 ELSE TokenAt(t, i + (CHOOSE k \in at : TRUE) - 1).v]]]

ReadsBlocks(t, i, blocks, grid, w, addr, cat) ==
  \A k \in DOMAIN blocks :
    /\ TokenAt(t, i + k - 1).e = "coeffs"
    /\ TokenAt(t, i + k - 1).max = blocks[k].max
    /\ TokenAt(t, i + k - 1).nC = ContextOf(grid, w, addr, cat, blocks[k].of)

------------------------------------------------------------------------------
\* parse_macroblock_dp on the tokens t of the macroblock at addr.
ParseMb(t, s, grid, w, addr) ==
  LET ty    == MbType(s.slice, TokenAt(t, 1).v)
      sub   == IsSubMbPath(ty)
      parts == IF sub THEN [k \in 1..4 |-> SubType(ty.form, TokenAt(t, k + 1).v)]
               ELSE [k \in DOMAIN ty.lists |-> Sub(ty.lists[k], 1)]
      early == ty.form = "INxN" /\ s.t8
      t8i   == early /\ TokenAt(t, 2).v = 1
      head  == <<"ue">> \o When(sub, Times(4, "ue")) \o When(early, <<"u1">>)
      pred  == IF IsIntra(ty) THEN IntraReads(ty, s, t8i) ELSE InterReads(ty, s, parts)
      p0    == Len(head) + 1                     \* first token of the prediction
      p1    == p0 + Len(pred)                    \* coded_block_pattern
      mvs   == p0 + RefCount(ty, s, parts, 0) + RefCount(ty, s, parts, 1)
      cbp   == IF ty.form = "I16x16" THEN ty.cbp
               ELSE ParseCbp(TokenAt(t, p1).v, s.cat, IsIntra(ty))
      gate  == TransformGate(ty, s, parts, cbp)
      qp    == cbp # NoCbp \/ ty.form = "I16x16"
      tail  == When(ty.form # "I16x16", <<"ue">>) \o When(gate, <<"u1">>) \o When(qp, <<"se">>)
      p2    == p1 + Len(tail)                    \* first residual block
      blks  == ResidualBlocks(ty, cbp, s.cat)
      slots == [grid EXCEPT ![addr] = SlotOf(t, p2, blks, s.cat)]
  IN [ok |-> /\ ty # Unreadable
             /\ cbp.c <= 2
             /\ Reads(t, 1, head \o pred \o tail)
             /\ \A k \in p0 .. mvs - 1 : ~ IsIntra(ty) =>
                  TokenAt(t, k).max = s.num[IF k < p0 + RefCount(ty, s, parts, 0) THEN 0 ELSE 1]
             /\ ReadsBlocks(t, p2, blks, slots, w, addr, s.cat),
      length |-> p2 + Len(blks) - 1,
      grid   |-> slots,
      delta  |-> IF qp THEN TokenAt(t, p2 - 1).v ELSE 0,
      mb |->
        [form |-> ty.form,
         modes |-> CASE ty.form = "I16x16" -> <<ty.mode>>
                     [] ty.form = "INxN" -> ValuesFrom(t, p0, IF t8i THEN 4 ELSE 16)
                     [] OTHER -> <<>>,
         chroma |-> IF IsIntra(ty) /\ s.cat \in {1, 2} THEN TokenAt(t, p1 - 1).v ELSE 0,
         lists |-> [k \in DOMAIN parts |-> parts[k].lists],
         refs |-> [l \in {0, 1} |->
                     RefsFrom(t, IF l = 0 THEN p0 ELSE p0 + RefCount(ty, s, parts, 0),
                              ty, s, parts, l)],
         mvds |-> [l \in {0, 1} |->
                     MvdsFrom(t, IF l = 0 THEN mvs ELSE mvs + 2 * MvCount(parts, 0), parts, l)],
         cbp |-> cbp,
         t8 |-> IF gate THEN TokenAt(t, p1 + 1).v = 1 ELSE t8i,
         residual |-> {<<blks[k].of, TokenAt(t, p2 + k - 1).of, TokenAt(t, p2 + k - 1).v>> :
                         k \in DOMAIN blks}]]
==============================================================================
