------------------------------ MODULE CabacEngine ------------------------------
(* The arithmetic coder: CabacEncoder (encoder/cabac_engine.rs) writes a slice's *)
(* bins and CabacDecoder (cabac.rs) reads them. A bin is a decision under a      *)
(* context, a bypass bin, or the end_of_slice_flag.  The encoder keeps back the  *)
(* bits a carry may still change (outstanding_bits) and drops the first it puts. *)
(*                                                                               *)
(* One context is coded, from any of a few states: of the others the registers   *)
(* only see their states as well.                                                *)
EXTENDS Integers, Sequences

CONSTANTS
  MaxBins,       \* bins before the slice is ended
  StartStates    \* <<state_idx, val_mps>> the context may start in

VARIABLES
  start,     \* the context's state at the start of the slice
  count,     \* bins encoded
  sent,      \* the bins encoded and not decoded yet: <<kind, bin>>
  ctx,       \* encoder: the context (CtxState)
  reg,       \* encoder: low, range (cod_i_low, cod_i_range), outstanding, first, bits
  bins,      \* decoder: ctx, range, offset, rest (the bits not read); none before the end
  same       \* every bin was decoded as it was encoded

engineVars == <<start, count, sent, ctx, reg, bins, same>>

RangeTabLps ==
  <<
    <<128, 176, 208, 240>>, <<128, 167, 197, 227>>, <<128, 158, 187, 216>>,
    <<123, 150, 178, 205>>, <<116, 142, 169, 195>>, <<111, 135, 160, 185>>,
    <<105, 128, 152, 175>>, <<100, 122, 144, 166>>, <<95, 116, 137, 158>>,
    <<90, 110, 130, 150>>, <<85, 104, 123, 142>>, <<81, 99, 117, 135>>,
    <<77, 94, 111, 128>>, <<73, 89, 105, 122>>, <<69, 85, 100, 116>>,
    <<66, 80, 95, 110>>, <<62, 76, 90, 104>>, <<59, 72, 86, 99>>, <<56, 69, 81, 94>>,
    <<53, 65, 77, 89>>, <<51, 62, 73, 85>>, <<48, 59, 69, 80>>, <<46, 56, 66, 76>>,
    <<43, 53, 63, 72>>, <<41, 50, 59, 69>>, <<39, 48, 56, 65>>, <<37, 45, 54, 62>>,
    <<35, 43, 51, 59>>, <<33, 41, 48, 56>>, <<32, 39, 46, 53>>, <<30, 37, 43, 50>>,
    <<29, 35, 41, 48>>, <<27, 33, 39, 45>>, <<26, 31, 37, 43>>, <<24, 30, 35, 41>>,
    <<23, 28, 33, 39>>, <<22, 27, 32, 37>>, <<21, 26, 30, 35>>, <<20, 24, 29, 33>>,
    <<19, 23, 27, 31>>, <<18, 22, 26, 30>>, <<17, 21, 25, 28>>, <<16, 20, 23, 27>>,
    <<15, 19, 22, 25>>, <<14, 18, 21, 24>>, <<14, 17, 20, 23>>, <<13, 16, 19, 22>>,
    <<12, 15, 18, 21>>, <<12, 14, 17, 20>>, <<11, 14, 16, 19>>, <<11, 13, 15, 18>>,
    <<10, 12, 15, 17>>, <<10, 12, 14, 16>>, <<9, 11, 13, 15>>, <<9, 11, 12, 14>>,
    <<8, 10, 12, 14>>, <<8, 9, 11, 13>>, <<7, 9, 11, 12>>, <<7, 9, 10, 12>>,
    <<7, 8, 10, 11>>, <<6, 8, 9, 11>>, <<6, 7, 9, 10>>, <<6, 7, 8, 9>>, <<2, 2, 2, 2>>
  >>

TransIdxLps ==
  <<
    0, 0, 1, 2, 2, 4, 4, 5, 6, 7, 8, 9, 9, 11, 11, 12, 13, 13, 15, 15, 16, 16, 18, 18,
    19, 19, 21, 21, 22, 22, 23, 24, 24, 25, 26, 26, 27, 27, 28, 29, 29, 30, 30, 30, 31,
    32, 32, 33, 33, 33, 34, 34, 35, 35, 35, 36, 36, 36, 37, 37, 37, 38, 38, 63
  >>

TransIdxMps(s) == IF s < 62 THEN s + 1 ELSE s

RangeLps(c, range) == RangeTabLps[c[1] + 1][1 + ((range \div 64) % 4)]

\* The context after a bin: in state 0 the most probable value changes.
AfterBin(c, bin) ==
  IF bin = c[2] THEN <<TransIdxMps(c[1]), c[2]>>
  ELSE <<TransIdxLps[c[1] + 1], IF c[1] = 0 THEN 1 - c[2] ELSE c[2]>>

--------------------------------------------------------------------------------
(* The encoder.                                                                  *)

\* A bug: the outstanding bits first, as put_bit's own comment has it.
PutOutstandingFirst(r, bit) ==
  [r EXCEPT !.outstanding = 0, !.first = FALSE,
            !.bits = @ \o [i \in 1 .. r.outstanding |-> 1 - bit]
                       \o (IF r.first THEN <<>> ELSE <<bit>>)]

\* put_bit: the bit, but for the first, then the outstanding ones.
PutBit(r, bit) ==
  [r EXCEPT !.outstanding = 0, !.first = FALSE,
            !.bits = @ \o (IF r.first THEN <<>> ELSE <<bit>>)
                       \o [i \in 1 .. r.outstanding |-> 1 - bit]]

Doubled(r) == [r EXCEPT !.low = 2 * @, !.range = 2 * @]

\* renorm_e: bits are put until the range has nine.
RECURSIVE RenormE(_)
RenormE(r) ==
  IF r.range >= 256 THEN r
  ELSE RenormE(Doubled(
         CASE r.low < 256  -> PutBit(r, 0)
           [] r.low >= 512 -> PutBit([r EXCEPT !.low = @ - 512], 1)
           [] r.low \in 256 .. 511 -> [r EXCEPT !.low = @ - 256, !.outstanding = @ + 1]))

Bin(kind, bin) ==
  /\ bins = <<>> /\ count < MaxBins
  /\ count' = count + 1
  /\ sent' = Append(sent, <<kind, bin>>)
  /\ UNCHANGED <<start, bins, same>>

EncodeDecision ==
  \E bin \in {0, 1} :
    LET lps == RangeLps(ctx, reg.range)
    IN /\ Bin("decision", bin)
       /\ reg' = RenormE(IF bin = ctx[2] THEN [reg EXCEPT !.range = @ - lps]
                         ELSE [reg EXCEPT !.low = @ + (reg.range - lps), !.range = lps])
       /\ ctx' = AfterBin(ctx, bin)

EncodeBypass ==
  \E bin \in {0, 1} :
    LET r == [reg EXCEPT !.low = 2 * @ + bin * reg.range]
    IN /\ Bin("bypass", bin)
       /\ reg' = CASE r.low >= 1024 -> PutBit([r EXCEPT !.low = @ - 1024], 1)
                   [] r.low < 512   -> PutBit(r, 0)
                   [] r.low \in 512 .. 1023 -> [r EXCEPT !.low = @ - 512, !.outstanding = @ + 1]
       /\ UNCHANGED ctx

EncodeTerminate ==
  /\ Bin("terminate", 0)
  /\ reg' = RenormE([reg EXCEPT !.range = @ - 2])
  /\ UNCHANGED ctx

\* encode_flush, and finish: the stop bit, and zeros up to the byte.
Flushed(r) ==
  LET s == RenormE([r EXCEPT !.range = 2])
      t == PutBit(s, (s.low \div 512) % 2)
  IN [t EXCEPT !.bits = @ \o <<(s.low \div 256) % 2, (s.low \div 128) % 2>>]
Finished(bits) == bits \o [i \in 1 .. 8 - (Len(bits) % 8) |-> IF i = 1 THEN 1 ELSE 0]

\* The bits as a number, the first the highest.
Number(bits) ==
  LET Upto[i \in 0 .. Len(bits)] == IF i = 0 THEN 0 ELSE 2 * Upto[i - 1] + bits[i]
  IN Upto[Len(bits)]

\* encode_terminate with 1 ends the slice; the decoder starts with nine bits of it.
EndSlice ==
  /\ bins = <<>>
  /\ reg' = Flushed([reg EXCEPT !.low = @ + (reg.range - 2)])
  /\ LET all == Finished(reg'.bits)
     IN bins' = [ctx |-> start, range |-> 510, offset |-> Number(SubSeq(all, 1, 9)),
                 rest |-> SubSeq(all, 10, Len(all))]
  /\ sent' = Append(sent, <<"terminate", 1>>)
  /\ UNCHANGED <<start, count, ctx, same>>

--------------------------------------------------------------------------------
(* The decoder.                                                                  *)

\* The next bit shifted into the offset; a read past the end is an error.
ReadBit(d) ==
  [d EXCEPT !.offset = 2 * @ + (IF d.rest = <<>> THEN 0 ELSE d.rest[1]),
            !.rest = IF d.rest = <<>> THEN <<>> ELSE Tail(@)]

RECURSIVE RenormD(_)
RenormD(d) == IF d.range >= 256 THEN d ELSE RenormD(ReadBit([d EXCEPT !.range = 2 * @]))

\* Each decodes one bin: the value, and the decoder after it.
DecodeDecision(d) ==
  LET lps   == RangeLps(d.ctx, d.range)
      range == d.range - lps
      bin   == IF d.offset >= range THEN 1 - d.ctx[2] ELSE d.ctx[2]
      next  == IF d.offset >= range
               THEN [d EXCEPT !.offset = @ - range, !.range = lps]
               ELSE [d EXCEPT !.range = range]
  IN <<bin, RenormD([next EXCEPT !.ctx = AfterBin(@, bin)])>>

DecodeBypass(d) ==
  LET r == ReadBit(d)
  IN IF r.offset >= r.range THEN <<1, [r EXCEPT !.offset = @ - r.range]>> ELSE <<0, r>>

DecodeTerminate(d) ==
  LET r == [d EXCEPT !.range = @ - 2]
  IN IF r.offset >= r.range THEN <<1, r>> ELSE <<0, RenormD(r)>>

\* The syntax asks for the bins in the order they were written.
DecodeBin ==
  /\ bins # <<>> /\ sent # <<>>
  /\ LET got == CASE sent[1][1] = "decision"  -> DecodeDecision(bins)
                  [] sent[1][1] = "bypass"    -> DecodeBypass(bins)
                  [] sent[1][1] = "terminate" -> DecodeTerminate(bins)
     IN bins' = got[2] /\ same' = (same /\ got[1] = sent[1][2])
  /\ sent' = Tail(sent)
  /\ UNCHANGED <<start, count, ctx, reg>>

--------------------------------------------------------------------------------
EngineInit ==
  /\ start \in StartStates
  /\ count = 0 /\ sent = <<>> /\ ctx = start
  /\ reg = [low |-> 0, range |-> 510, outstanding |-> 0, first |-> TRUE, bits |-> <<>>]
  /\ bins = <<>> /\ same = TRUE

EngineNext == EncodeDecision \/ EncodeBypass \/ EncodeTerminate \/ EndSlice \/ DecodeBin
EngineSpec == EngineInit /\ [][EngineNext]_engineVars

\* The bins come back as they were written, whatever carries ran through the
\* bits kept back, and the decoder stops right before the stop bit, having read
\* nothing that is not the coder's.
BinsReadBack ==
  /\ same
  /\ bins # <<>> => Len(bins.rest) >= 1
  /\ bins # <<>> /\ sent = <<>> =>
       /\ bins.ctx = ctx
       /\ bins.rest = [i \in 1 .. Len(bins.rest) |-> IF i = 1 THEN 1 ELSE 0]
================================================================================
