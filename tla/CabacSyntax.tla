------------------------------ MODULE CabacSyntax ------------------------------
(* The binarisations of CABAC: how encoder/cabac_syntax.rs writes each syntax    *)
(* element as bins, and how cabac_ctx.rs and parse_residual_block_cabac read it  *)
(* back.  A bin is <<ctxIdx, value>>; bypass and terminate bins have no context. *)
(* What an element's contexts take from the neighbours comes with the element as *)
(* its increment inc: both sides are handed it.                                  *)
EXTENDS Integers, Sequences, FiniteSets, SequencesExt

CONSTANTS
  Elements       \* records with the element's kind e, its value v and its increments

VARIABLES
  element,   \* the element written
  written,   \* its bins
  read       \* what the decoder made of them: v, rest, agreed; or none yet

syntaxVars == <<element, written, read>>

Bypass == -1
Terminate == -2

Bit(v, i) == (v \div 2^i) % 2
Flag(b) == IF b THEN 1 ELSE 0
Least(a, b) == IF a <= b THEN a ELSE b

\* n bins of one context, all ones.
Ones(k, n) == [i \in 1 .. n |-> <<k, 1>>]

\* Bins of value v under the contexts ks, the highest bit first.
Digits(v, ks) == [i \in DOMAIN ks |-> <<ks[i], Bit(v, Len(ks) - i)>>]

--------------------------------------------------------------------------------
(* The encoder.                                                                  *)

\* encode_mb_type_intra_suffix after its first bin; o is the offset.
SuffixIncs(o, b3) ==
  IF o = 3 THEN IF b3 = 1 THEN <<3, 4, 5, 6, 7>> ELSE <<3, 4, 6, 7>>
  ELSE IF b3 = 1 THEN <<1, 2, 2, 3, 3>> ELSE <<1, 2, 3, 3>>
EncodeIntraType(o, v) ==
  LET high == v >= 13
      off  == IF high THEN v - 12 ELSE v
      b3   == Flag(off > 4)
      bits == IF off <= 4 THEN off - 1 ELSE 8 + (off - 5)
      incs == SuffixIncs(o, b3)
      ks   == [i \in 1 .. Len(incs) - 1 |-> o + incs[i + 1]]
  IN IF v = 25 THEN <<<<Terminate, 1>>>>
     ELSE <<<<Terminate, 0>>, <<o + incs[1], Flag(high)>>>> \o Digits(bits, ks)
EncodeSuffix(o, v) ==
  <<<<o, Flag(v > 0)>>>> \o (IF v = 0 THEN <<>> ELSE EncodeIntraType(o, v))

EncodeMbTypeI(v, inc) ==
  <<<<3 + inc, Flag(v > 0)>>>> \o (IF v = 0 THEN <<>> ELSE EncodeIntraType(3, v))

EncodeMbTypeP(v) ==
  LET b1 == Flag(v \in {1, 2})
      b2 == Flag(v \in {1, 3})
  IN IF v >= 5 THEN <<<<14, 1>>>> \o EncodeSuffix(17, v - 5)
     ELSE <<<<14, 0>>, <<15, b1>>, <<IF b1 = 1 THEN 17 ELSE 16, b2>>>>

EncodeMbTypeB(v, inc) ==
  LET Fives(bits) == [i \in DOMAIN bits |-> <<32, bits[i]>>]
  IN <<<<27 + inc, Flag(v > 0)>>>> \o
     CASE v = 0        -> <<>>
       [] v \in 1..2   -> <<<<30, 0>>, <<32, v - 1>>>>
       [] v \in 3..10  -> <<<<30, 1>>, <<31, 0>>>> \o Digits(v - 3, <<32, 32, 32>>)
       [] v \in 11..48 -> <<<<30, 1>>, <<31, 1>>>> \o
            CASE v = 22       -> Fives(<<1, 1, 1>>)
              [] v = 11       -> Fives(<<1, 1, 0>>)
              [] v \in 23..48 -> Fives(<<1, 0, 1>>) \o EncodeSuffix(32, v - 23)
              [] OTHER        -> Digits(v - 12, <<32, 32, 32, 32>>)

EncodeSubMbTypeP(v) ==
  CASE v = 0 -> <<<<21, 1>>>>
    [] v = 1 -> <<<<21, 0>>, <<22, 0>>>>
    [] v \in 2..3 -> <<<<21, 0>>, <<22, 1>>, <<23, Flag(v = 2)>>>>

EncodeSubMbTypeB(v) ==
  CASE v = 0        -> <<<<36, 0>>>>
    [] v \in 1..2   -> <<<<36, 1>>, <<37, 0>>, <<39, v - 1>>>>
    [] v \in 3..6   -> <<<<36, 1>>, <<37, 1>>, <<38, 0>>>> \o Digits(v - 3, <<39, 39>>)
    [] v \in 7..10  -> <<<<36, 1>>, <<37, 1>>, <<38, 1>>, <<39, 0>>>> \o Digits(v - 7, <<39, 39>>)
    [] v \in 11..12 -> <<<<36, 1>>, <<37, 1>>, <<38, 1>>, <<39, 1>>, <<39, v - 11>>>>

\* A unary code: the first bin, the second, and those from the third on.
Unary(v, k1, k2, k3) ==
  CASE v = 0 -> <<<<k1, 0>>>>
    [] v = 1 -> <<<<k1, 1>>, <<k2, 0>>>>
    [] v > 1 -> <<<<k1, 1>>, <<k2, 1>>>> \o Ones(k3, v - 2) \o <<<<k3, 0>>>>
EncodeQpDelta(v, inc) == Unary(IF v > 0 THEN 2 * v - 1 ELSE -2 * v, 60 + inc, 62, 63)
EncodeRefIdx(v, inc) == Unary(v, 54 + inc, 58, 59)

\* The escape of order k: a growing power of two for each one, then the rest.
RECURSIVE Escape(_, _)
Escape(v, k) ==
  IF v >= 2^k THEN <<<<Bypass, 1>>>> \o Escape(v - 2^k, k + 1)
  ELSE <<<<Bypass, 0>>>> \o Digits(v, [i \in 1 .. k |-> Bypass])

MvdOffset(comp) == IF comp = "x" THEN 40 ELSE 47
MvdIncs(inc) == <<inc, 3, 4, 5, 6, 6, 6, 6, 6>>
EncodeMvd(v, comp, inc) ==
  LET size == IF v < 0 THEN -v ELSE v
      prefix == Least(size, 9)
      ks   == [i \in 1 .. 9 |-> MvdOffset(comp) + MvdIncs(inc)[i]]
  IN [i \in 1 .. prefix |-> <<ks[i], 1>>]
     \o (IF prefix < 9 THEN <<<<ks[prefix + 1], 0>>>> ELSE Escape(size - 9, 3))
     \o (IF v = 0 THEN <<>> ELSE <<<<Bypass, Flag(v < 0)>>>>)

EncodeChromaMode(v, inc) ==
  CASE v = 0 -> <<<<64 + inc, 0>>>>
    [] v = 1 -> <<<<64 + inc, 1>>, <<67, 0>>>>
    [] v > 1 -> <<<<64 + inc, 1>>, <<67, 1>>, <<67, Flag(v = 3)>>>>

EncodeRemMode(v) == [i \in 1 .. 3 |-> <<69, Bit(v, i - 1)>>]

\* A bug: the neighbours' terms also where the neighbour is in the macroblock.
EncodeCbpOutside(v, n, chroma) ==
  LET b(i) == Bit(v, i)
      c    == v \div 16
      inc(i) == n.left[i - (i % 2)] + 2 * n.above[i % 2]
  IN [i \in 1 .. 4 |-> <<73 + inc(i - 1), b(i - 1)>>]
     \o (IF chroma THEN <<<<77 + n.chroma[0], Flag(c > 0)>>>> ELSE <<>>)
     \o (IF chroma /\ c > 0 THEN <<<<81 + n.chroma[1], Flag(c = 2)>>>> ELSE <<>>)

\* encode_coded_block_pattern: v is luma + 16 * chroma, n the terms of the
\* neighbours: left of blocks 0 and 2, above blocks 0 and 1, for either chroma bin.
EncodeCbp(v, n, chroma) ==
  LET b(i) == Bit(v, i)
      c    == v \div 16
      inc(i) == CASE i = 0 -> n.left[0] + 2 * n.above[0]
                  [] i = 1 -> (1 - b(0)) + 2 * n.above[1]
                  [] i = 2 -> n.left[2] + 2 * (1 - b(0))
                  [] i = 3 -> (1 - b(2)) + 2 * (1 - b(1))
  IN [i \in 1 .. 4 |-> <<73 + inc(i - 1), b(i - 1)>>]
     \o (IF chroma THEN <<<<77 + n.chroma[0], Flag(c > 0)>>>> ELSE <<>>)
     \o (IF chroma /\ c > 0 THEN <<<<81 + n.chroma[1], Flag(c = 2)>>>> ELSE <<>>)

--------------------------------------------------------------------------------
(* Residual blocks.  The tables are the same in both files.                      *)

\* Block categories: 0 to 4 luma and chroma, 5 luma 8x8; 6 to 8, 9 and 10 to 12, 13
\* the same of Cb and Cr in 4:4:4.
Group(cat) == CASE cat \in 0..4 -> 1 [] cat = 5 -> 2 [] cat \in 6..8 -> 3 [] cat = 9 -> 4
                [] cat \in 10..12 -> 5 [] cat = 13 -> 6

CbfBase(cat) == CASE cat \in 0..4 -> 85 [] cat \in 6..8 -> 460 [] cat \in 10..12 -> 472
                  [] cat \in {5, 9, 13} -> 1012
CbfOffset == <<0, 4, 8, 12, 16, 0, 0, 4, 8, 4, 0, 4, 8, 8>>
SigOffset == <<0, 15, 29, 44, 47, 0, 0, 15, 29, 0, 0, 15, 29, 0>>
LevelOffset == <<0, 10, 20, 30, 39, 0, 0, 10, 20, 0, 0, 10, 20, 0>>
SigBase  == [frame |-> <<105, 402, 484, 660, 528, 718>>, field |-> <<277, 436, 776, 675, 820, 733>>]
LastBase == [frame |-> <<166, 417, 572, 690, 616, 748>>, field |-> <<338, 451, 864, 699, 908, 757>>]
LevelBase == <<227, 426, 952, 708, 982, 766>>

\* Table 9-43: the increments of an 8x8 block's coefficients.
Sig8x8 == [frame |->
  <<
    0, 1, 2, 3, 4, 5, 5, 4, 4, 3, 3, 4, 4, 4, 5, 5, 4, 4, 4, 4, 3, 3, 6, 7, 7, 7, 8, 9,
    10, 9, 8, 7, 7, 6, 11, 12, 13, 11, 6, 7, 8, 9, 14, 10, 9, 8, 6, 11, 12, 13, 11, 6,
    9, 14, 10, 9, 11, 12, 13, 11, 14, 10, 12
  >>, field |->
  <<
    0, 1, 1, 2, 2, 3, 3, 4, 5, 6, 7, 7, 7, 8, 4, 5, 6, 9, 10, 10, 8, 11, 12, 11, 9, 9,
    10, 10, 8, 11, 12, 11, 9, 9, 10, 10, 8, 11, 12, 11, 9, 9, 10, 10, 8, 13, 13, 9, 9,
    10, 10, 8, 13, 13, 9, 9, 10, 10, 14, 14, 14, 14, 14
  >>]
Last8x8 ==
  <<
    0, 1, 1, 1, 1, 1, 1, 1, 1, 1, 1, 1, 1, 1, 1, 1, 2, 2, 2, 2, 2, 2, 2, 2, 2, 2, 2, 2,
    2, 2, 2, 2, 3, 3, 3, 3, 3, 3, 3, 3, 4, 4, 4, 4, 4, 4, 4, 4, 5, 5, 5, 5, 6, 6, 6, 6,
    7, 7, 7, 7, 8, 8, 8
  >>

Is8x8(cat) == cat \in {5, 9, 13}

\* sig_coeff_inc and last_coeff_inc of coefficient i; c8x8 is num_c8x8.
SigInc(cat, i, mode, c8x8) ==
  CASE cat = 3 -> Least(i \div c8x8, 2) [] Is8x8(cat) -> Sig8x8[mode][i + 1] [] OTHER -> i
LastInc(cat, i, c8x8) ==
  CASE cat = 3 -> Least(i \div c8x8, 2) [] Is8x8(cat) -> Last8x8[i + 1] [] OTHER -> i

CbfCtx(b) == CbfBase(b.cat) + CbfOffset[b.cat + 1] + b.inc
SigCtx(b, i, c8x8) ==
  SigBase[b.mode][Group(b.cat)] + SigOffset[b.cat + 1] + SigInc(b.cat, i, b.mode, c8x8)
LastCtx(b, i, c8x8) ==
  LastBase[b.mode][Group(b.cat)] + SigOffset[b.cat + 1] + LastInc(b.cat, i, c8x8)

\* The contexts of a level's first bin and of the others, from how many levels
\* before it were one and how many were greater.
LevelCtx0(b, eq1, gt1) ==
  LevelBase[Group(b.cat)] + LevelOffset[b.cat + 1] + (IF gt1 # 0 THEN 0 ELSE Least(4, 1 + eq1))
LevelCtx1(b, gt1) ==
  LevelBase[Group(b.cat)] + LevelOffset[b.cat + 1] + 5 + Least(IF b.cat = 3 THEN 3 ELSE 4, gt1)

\* A bug: the escape starts one later.
EncodeLevelTo14(b, eq1, gt1, v) ==
  LET k1 == LevelCtx1(b, gt1)
  IN CASE v = 0       -> <<<<LevelCtx0(b, eq1, gt1), 0>>>>
       [] v \in 1..14 -> <<<<LevelCtx0(b, eq1, gt1), 1>>>> \o Ones(k1, v - 1) \o <<<<k1, 0>>>>
       [] v > 14      -> <<<<LevelCtx0(b, eq1, gt1), 1>>>> \o Ones(k1, 14) \o Escape(v - 15, 0)

\* encode_coeff_abs_level_minus1.
EncodeLevel(b, eq1, gt1, v) ==
  LET k1 == LevelCtx1(b, gt1)
  IN CASE v = 0       -> <<<<LevelCtx0(b, eq1, gt1), 0>>>>
       [] v \in 1..13 -> <<<<LevelCtx0(b, eq1, gt1), 1>>>> \o Ones(k1, v - 1) \o <<<<k1, 0>>>>
       [] v > 13      -> <<<<LevelCtx0(b, eq1, gt1), 1>>>> \o Ones(k1, 13) \o Escape(v - 14, 0)

\* encode_residual_block_cabac: the coded_block_flag, unless skipped; which
\* coefficients there are and which is the last; their levels from the last on.
EncodeResidual(b) ==
  LET coefs == b.v
      there == {i \in DOMAIN coefs : coefs[i] # 0}
      last  == CHOOSE i \in there : \A j \in there : j <= i
      Abs(i) == IF coefs[i] < 0 THEN -coefs[i] ELSE coefs[i]
      c8x8  == IF b.chroma = 2 THEN 2 ELSE 1
      At(i) == <<<<SigCtx(b, i - 1, c8x8), Flag(i \in there)>>>>
               \o (IF i \in there THEN <<<<LastCtx(b, i - 1, c8x8), Flag(i = last)>>>> ELSE <<>>)
      Level(i) ==
        LET after == {j \in there : j > i}
            eq1   == {j \in after : Abs(j) = 1}
        IN IF i \notin there THEN <<>>
           ELSE EncodeLevel(b, Cardinality(eq1), Cardinality(after \ eq1), Abs(i) - 1)
                \o <<<<Bypass, Flag(coefs[i] < 0)>>>>
      skipCbf == Len(coefs) = 64 /\ b.chroma # 3
  IN (IF skipCbf THEN <<>> ELSE <<<<CbfCtx(b), Flag(there # {})>>>>)
     \o (IF there = {} THEN <<>>
         ELSE FlattenSeq([i \in 1 .. Least(last, Len(coefs) - 1) |-> At(i)])
              \o FlattenSeq([i \in 1 .. last |-> Level(last + 1 - i)]))

Encode(el) ==
  CASE el.e = "mb_type_i"     -> EncodeMbTypeI(el.v, el.inc)
    [] el.e = "mb_type_p"     -> EncodeMbTypeP(el.v)
    [] el.e = "mb_type_b"     -> EncodeMbTypeB(el.v, el.inc)
    [] el.e = "sub_mb_type_p" -> EncodeSubMbTypeP(el.v)
    [] el.e = "sub_mb_type_b" -> EncodeSubMbTypeB(el.v)
    [] el.e = "mb_qp_delta"   -> EncodeQpDelta(el.v, el.inc)
    [] el.e = "ref_idx"       -> EncodeRefIdx(el.v, el.inc)
    [] el.e = "mvd"           -> EncodeMvd(el.v, el.comp, el.inc)
    [] el.e = "intra_chroma_pred_mode" -> EncodeChromaMode(el.v, el.inc)
    [] el.e = "rem_intra_pred_mode"    -> EncodeRemMode(el.v)
    [] el.e = "coded_block_pattern"    -> EncodeCbp(el.v, el.inc, el.chroma)
    [] el.e = "residual_block"         -> EncodeResidual(el)

--------------------------------------------------------------------------------
(* The decoder.  A reader r has the bins left (rest), the last one read (bin),   *)
(* whether each was read under the context it was written with (agreed), and     *)
(* the value so far (v).                                                         *)

Read(r, k) ==
  IF r.rest = <<>> THEN [r EXCEPT !.agreed = FALSE, !.bin = 0]
  ELSE [r EXCEPT !.rest = Tail(@), !.bin = r.rest[1][2], !.agreed = @ /\ r.rest[1][1] = k]
Value(r, v) == [r EXCEPT !.v = v]

\* The bins under contexts ks in turn, added to the value as its binary digits.
RECURSIVE ReadDigits(_, _)
ReadDigits(r, ks) ==
  IF ks = <<>> THEN r
  ELSE LET q == Read(r, Head(ks)) IN ReadDigits(Value(q, 2 * q.v + q.bin), Tail(ks))

\* How many ones come before the zero, at most max.
RECURSIVE CountOnes(_, _, _)
CountOnes(r, k, max) ==
  IF r.v >= max THEN r
  ELSE LET q == Read(r, k) IN IF q.bin = 0 THEN q ELSE CountOnes(Value(q, q.v + 1), k, max)

\* decode_mb_type_i_suffix after its first bin.
DecodeIntraType(r, o) ==
  LET b1 == Read(r, Terminate)
      b2 == Read(b1, o + (IF o = 3 THEN 3 ELSE 1))
      b3 == Read(b2, o + (IF o = 3 THEN 4 ELSE 2))
      ks == IF b3.bin # 0 THEN IF o = 3 THEN <<o + 5, o + 6, o + 7>> ELSE <<o + 2, o + 3, o + 3>>
            ELSE IF o = 3 THEN <<o + 6, o + 7>> ELSE <<o + 3, o + 3>>
      rest == ReadDigits(Value(b3, 0), ks)
  IN IF b1.bin = 1 THEN Value(b1, 25)
     ELSE Value(rest, 12 * b2.bin + (IF b3.bin = 0 THEN 1 ELSE 5) + rest.v)
DecodeSuffix(r, o) ==
  LET b0 == Read(r, o) IN IF b0.bin = 0 THEN Value(b0, 0) ELSE DecodeIntraType(b0, o)
Plus(r, n) == Value(r, r.v + n)

DecodeMbTypeI(r, inc) ==
  LET b0 == Read(r, 3 + inc) IN IF b0.bin = 0 THEN Value(b0, 0) ELSE DecodeIntraType(b0, 3)

DecodeMbTypeP(r) ==
  LET b0 == Read(r, 14)
      b1 == Read(b0, 15)
      b2 == Read(b1, IF b1.bin # 1 THEN 16 ELSE 17)
  IN IF b0.bin = 1 THEN Plus(DecodeSuffix(b0, 17), 5)
     ELSE Value(b2, CASE b1.bin = 0 /\ b2.bin = 0 -> 0 [] b1.bin = 0 /\ b2.bin = 1 -> 3
                      [] b1.bin = 1 /\ b2.bin = 1 -> 1 [] b1.bin = 1 /\ b2.bin = 0 -> 2)

DecodeMbTypeB(r, inc) ==
  LET b0 == Read(r, 27 + inc)
      b1 == Read(b0, 30)
      b2 == Read(b1, IF b1.bin # 0 THEN 31 ELSE 32)
      b5 == ReadDigits(Value(b2, 0), <<32, 32, 32>>)
      b6 == ReadDigits(b5, <<32>>)
  IN CASE b0.bin = 0 -> Value(b0, 0)
       [] b0.bin # 0 /\ b1.bin = 0 -> Value(b2, 1 + b2.bin)
       [] b0.bin # 0 /\ b1.bin # 0 /\ b2.bin = 0 -> Plus(b5, 3)
       [] b0.bin # 0 /\ b1.bin # 0 /\ b2.bin # 0 ->
            CASE b5.v = 7 -> Value(b5, 22)
              [] b5.v = 6 -> Value(b5, 11)
              [] b5.v = 5 -> Plus(DecodeSuffix(b5, 32), 23)
              [] OTHER    -> Plus(b6, 12)

DecodeSubMbTypeP(r) ==
  LET b0 == Read(r, 21)
      b1 == Read(b0, 22)
      b2 == Read(b1, 23)
  IN CASE b0.bin = 1 -> Value(b0, 0)
       [] b0.bin = 0 /\ b1.bin = 0 -> Value(b1, 1)
       [] b0.bin = 0 /\ b1.bin = 1 -> Value(b2, IF b2.bin = 1 THEN 2 ELSE 3)

DecodeSubMbTypeB(r) ==
  LET b0 == Read(r, 36)
      b1 == Read(b0, 37)
      b2 == Read(b1, IF b1.bin # 0 THEN 38 ELSE 39)
      b4 == ReadDigits(Value(b2, 0), <<39, 39>>)
      b5 == ReadDigits(Value(b4, b4.v % 2), <<39>>)
  IN CASE b0.bin = 0 -> Value(b0, 0)
       [] b0.bin # 0 /\ b1.bin = 0 -> Value(b2, 1 + b2.bin)
       [] b0.bin # 0 /\ b1.bin # 0 /\ b2.bin = 0 -> Plus(b4, 3)
       [] b0.bin # 0 /\ b1.bin # 0 /\ b2.bin # 0 ->
            IF b4.v >= 2 THEN Plus(Value(b4, b4.v % 2), 11) ELSE Plus(b5, 7)

\* A unary code, given up after the value max.
DecodeUnary(r, k1, k2, k3, max) ==
  LET b0 == Read(r, k1)
      b1 == Read(b0, k2)
  IN CASE b0.bin = 0 -> Value(b0, 0)
       [] b0.bin # 0 /\ b1.bin = 0 -> Value(b1, 1)
       [] b0.bin # 0 /\ b1.bin # 0 -> CountOnes(Value(b1, 2), k3, max + 1)
DecodeQpDelta(r, inc) ==
  LET m == DecodeUnary(r, 60 + inc, 62, 63, 100)
  IN Value(m, IF m.v % 2 = 1 THEN (m.v + 1) \div 2 ELSE -(m.v \div 2))
DecodeRefIdx(r, inc) == DecodeUnary(r, 54 + inc, 58, 59, 32)

\* The escape of order k, the powers of its ones added to the value; more than
\* max ones are an error.
RECURSIVE Unescape(_, _, _)
Unescape(r, k, max) ==
  LET b    == Read(r, Bypass)
      tail == ReadDigits(Value(b, 0), [i \in 1 .. k |-> Bypass])
  IN CASE b.bin = 1 /\ k >= max -> [b EXCEPT !.agreed = FALSE]
       [] b.bin = 1 /\ k < max  -> Unescape(Plus(b, 2^k), k + 1, max)
       [] b.bin = 0             -> Plus(tail, b.v)

RECURSIVE MvdPrefix(_, _)
MvdPrefix(r, ks) ==
  IF ks = <<>> THEN r
  ELSE LET q == Read(r, Head(ks)) IN IF q.bin = 0 THEN q ELSE MvdPrefix(Plus(q, 1), Tail(ks))
DecodeMvd(r, comp, inc) ==
  LET prefix == MvdPrefix(Value(r, 0), [i \in 1 .. 9 |-> MvdOffset(comp) + MvdIncs(inc)[i]])
      size   == IF prefix.v < 9 THEN prefix ELSE Unescape(prefix, 3, 30)
      sign   == Read(size, Bypass)
  IN IF size.v = 0 THEN size ELSE Value(sign, IF sign.bin = 1 THEN -size.v ELSE size.v)

DecodeChromaMode(r, inc) ==
  LET b0 == Read(r, 64 + inc)
      b1 == Read(b0, 67)
      b2 == Read(b1, 67)
  IN CASE b0.bin = 0 -> Value(b0, 0)
       [] b0.bin # 0 /\ b1.bin = 0 -> Value(b1, 1)
       [] b0.bin # 0 /\ b1.bin # 0 -> Value(b2, 2 + b2.bin)

DecodeRemMode(r) ==
  LET b0 == Read(r, 69)
      b1 == Read(b0, 69)
      b2 == Read(b1, 69)
  IN Value(b2, b0.bin + 2 * b1.bin + 4 * b2.bin)

\* decode_coded_block_pattern.
DecodeCbp(r, n, chroma) ==
  LET b0 == Read(r, 73 + n.left[0] + 2 * n.above[0])
      b1 == Read(b0, 73 + (1 - b0.bin) + 2 * n.above[1])
      b2 == Read(b1, 73 + n.left[2] + 2 * (1 - b0.bin))
      b3 == Read(b2, 73 + (1 - b2.bin) + 2 * (1 - b1.bin))
      luma == Value(b3, b0.bin + 2 * b1.bin + 4 * b2.bin + 8 * b3.bin)
      c0 == Read(luma, 77 + n.chroma[0])
      c1 == Read(c0, 81 + n.chroma[1])
  IN CASE ~ chroma -> luma
       [] chroma /\ c0.bin = 0 -> c0
       [] chroma /\ c0.bin # 0 -> Plus(c1, 16 * (1 + c1.bin))

\* decode_coeff_abs_level_minus1.
DecodeLevel(r, b, eq1, gt1) ==
  LET b0 == Read(r, LevelCtx0(b, eq1, gt1))
      prefix == CountOnes(Value(b0, 1), LevelCtx1(b, gt1), 14)
  IN IF b0.bin = 0 THEN Value(b0, 0)
     ELSE IF prefix.v < 14 THEN prefix ELSE Unescape(prefix, 0, 21)

\* The map of significant coefficients from i on (their set is the value), until
\* the last one; the last position is significant if nothing before was last.
RECURSIVE DecodeMap(_, _, _, _)
DecodeMap(r, b, i, len) ==
  LET c8x8 == IF b.chroma = 2 THEN 2 ELSE 1
      sig  == Read(r, SigCtx(b, i, c8x8))
      last == Read(Value(sig, sig.v \cup {i}), LastCtx(b, i, c8x8))
  IN CASE i + 1 >= len -> Value(r, r.v \cup {len - 1})
       [] i + 1 < len /\ sig.bin = 0 -> DecodeMap(sig, b, i + 1, len)
       [] i + 1 < len /\ sig.bin = 1 ->
            IF last.bin = 1 THEN last ELSE DecodeMap(last, b, i + 1, len)

\* The levels at the positions there, from the last on; out are the coefficients.
RECURSIVE DecodeLevels(_, _, _, _, _, _)
DecodeLevels(r, b, there, eq1, gt1, out) ==
  IF there = {} THEN Value(r, out)
  ELSE LET pos  == CHOOSE i \in there : \A j \in there : j <= i
           size == DecodeLevel(r, b, eq1, gt1)
           sign == Read(size, Bypass)
           one  == size.v = 0
       IN DecodeLevels(sign, b, there \ {pos}, eq1 + Flag(one), gt1 + Flag(~ one),
            [out EXCEPT ![pos + 1] = (size.v + 1) * (IF sign.bin = 1 THEN -1 ELSE 1)])

\* parse_residual_block_cabac of a block of len coefficients.
DecodeResidual(r, b, len) ==
  LET none  == [i \in 1 .. len |-> 0]
      cbf   == IF len # 64 \/ b.chroma = 3 THEN Read(r, CbfCtx(b)) ELSE [r EXCEPT !.bin = 1]
      there == DecodeMap(Value(cbf, {}), b, 0, len)
  IN IF cbf.bin = 0 THEN Value(cbf, none) ELSE DecodeLevels(there, b, there.v, 0, 0, none)

Decode(el, r) ==
  CASE el.e = "mb_type_i"     -> DecodeMbTypeI(r, el.inc)
    [] el.e = "mb_type_p"     -> DecodeMbTypeP(r)
    [] el.e = "mb_type_b"     -> DecodeMbTypeB(r, el.inc)
    [] el.e = "sub_mb_type_p" -> DecodeSubMbTypeP(r)
    [] el.e = "sub_mb_type_b" -> DecodeSubMbTypeB(r)
    [] el.e = "mb_qp_delta"   -> DecodeQpDelta(r, el.inc)
    [] el.e = "ref_idx"       -> DecodeRefIdx(r, el.inc)
    [] el.e = "mvd"           -> DecodeMvd(r, el.comp, el.inc)
    [] el.e = "intra_chroma_pred_mode" -> DecodeChromaMode(r, el.inc)
    [] el.e = "rem_intra_pred_mode"    -> DecodeRemMode(r)
    [] el.e = "coded_block_pattern"    -> DecodeCbp(r, el.inc, el.chroma)
    [] el.e = "residual_block"         -> DecodeResidual(r, el, Len(el.v))

--------------------------------------------------------------------------------
SyntaxInit ==
  /\ element \in Elements
  /\ written = <<>> /\ read = <<>>

WriteElement ==
  /\ written = <<>>
  /\ written' = Encode(element)
  /\ UNCHANGED <<element, read>>

ReadElement ==
  /\ written # <<>> /\ read = <<>>
  /\ read' = Decode(element, [rest |-> written, bin |-> 0, agreed |-> TRUE, v |-> 0])
  /\ UNCHANGED <<element, written>>

SyntaxNext == WriteElement \/ ReadElement
SyntaxSpec == SyntaxInit /\ [][SyntaxNext]_syntaxVars

\* Every syntax element comes back with the value it had, of all its bins and no
\* others, each read under the context it was written under.
ElementsReadBack ==
  read # <<>> => read.agreed /\ read.rest = <<>> /\ read.v = element.v
================================================================================
