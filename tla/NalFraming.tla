------------------------------- MODULE NalFraming -------------------------------
(* The bytes between encoder and decoder: BitWriter (encoder/bitstream.rs) and   *)
(* build_nal_unit (encoder/nal.rs) make NAL units of syntax elements, the        *)
(* splitters and parse_nal_unit (nal.rs) take the stream apart again and         *)
(* BitReader (bitstream.rs) reads the elements.  Which elements come next is     *)
(* known to both sides; where an element list ends is not: slice data goes on    *)
(* while more_rbsp_data.                                                         *)
(*                                                                               *)
(* A muxer that frames the same units with lengths (AVCC) is external.           *)
EXTENDS Integers, Sequences, SequencesExt, FiniteSetsExt

CONSTANTS
  Fields,       \* syntax elements: e (u, i, ue, se, te), v, and n (width) or max
  Framings,     \* 0: Annex B; else the number of bytes of an AVCC length
  Headers,      \* bound: <<nal_ref_idc, nal_unit_type>> of the units in turn
  MaxFields     \* bound: elements in all units

VARIABLES
  sized,      \* the framing
  bits,       \* BitWriter: the bits of the unit being written
  unit,       \* its header and elements
  units,      \* the finished units not read yet
  stream,     \* the bytes written and not split yet
  open,       \* BitReader: the bits to come of the unit being read; <<>> before
  readBack    \* every unit and element was read as written

framingVars == <<sized, bits, unit, units, stream, open, readBack>>

(* ------------------------------- Bits and bytes ------------------------------- *)

\* The n bits of v, first bit first, and their value again.
BitsOf(n, v) == [i \in 1 .. n |-> IF n - i > 30 THEN 0 ELSE (v \div 2 ^ (n - i)) % 2]
ValueOf(s) == FoldLeft(LAMBDA a, b : 2 * a + b, 0, s)

BytesOf(s) == [k \in 1 .. Len(s) \div 8 |-> ValueOf(SubSeq(s, 8 * k - 7, 8 * k))]
BitsOfBytes(b) == FlattenSeq([k \in 1 .. Len(b) |-> BitsOf(8, b[k])])

(* --------------------------------- BitWriter --------------------------------- *)

LeadingZeros(v) == CHOOSE n \in 0 .. 30 : 2 ^ n <= v /\ v < 2 ^ (n + 1)

\* ue(v): as many zeros as bits follow the first one of value + 1.
Ue(v) == LET n == LeadingZeros(v + 1) IN [i \in 1 .. n |-> 0] \o BitsOf(n + 1, v + 1)
SeCode(v) == IF v <= 0 THEN -2 * v ELSE 2 * v - 1
Written(f) ==
  CASE f.e = "u"  -> BitsOf(f.n, f.v)
    [] f.e = "i"  -> BitsOf(f.n, f.v % 2 ^ f.n)
    [] f.e = "ue" -> Ue(f.v)
    [] f.e = "se" -> Ue(SeCode(f.v))
    [] f.e = "te" -> CASE f.max = 0 -> <<>>
                       [] f.max = 1 -> <<IF f.v = 0 THEN 1 ELSE 0>>
                       [] OTHER     -> Ue(f.v)

\* rbsp_trailing_bits: a one, and zeros up to the next byte.
Trailing(n) == <<1>> \o [i \in 1 .. 7 - (n % 8) |-> 0]

(* -------------------------------- build_nal_unit ------------------------------ *)

HeaderByte(h) == (h[1] % 4) * 32 + (h[2] % 32)

\* insert_emulation_prevention: 3 after two zeros that a byte up to 3 follows.
\* MUTANT: only bytes that would make a start code are escaped.
EscapesUpTo1(b) == b <= 1
EscapesBefore(b) == b <= 3
Escaped(rbsp) ==
  LET From[i \in 1 .. Len(rbsp) + 1] ==
        CASE i > Len(rbsp) -> <<>>
          [] /\ i + 2 <= Len(rbsp) /\ rbsp[i] = 0 /\ rbsp[i + 1] = 0
             /\ EscapesBefore(rbsp[i + 2]) -> <<0, 0, 3>> \o From[i + 2]
          [] OTHER -> <<rbsp[i]>> \o From[i + 1]
  IN From[1]

NalUnit(h, rbsp) == <<HeaderByte(h)>> \o Escaped(rbsp)

\* With a start code, or with its length in front.
Framed(n, nal) ==
  IF n = 0 THEN <<0, 0, 0, 1>> \o nal ELSE BytesOf(BitsOf(8 * n, Len(nal))) \o nal

(* ---------------------------------- Splitters --------------------------------- *)

\* find_start_code_prefix: where the first 0 0 1 begins; behind the end if none does.
StartCode(s) ==
  Min({Len(s) + 1} \cup {i \in 1 .. Len(s) - 2 : s[i] = 0 /\ s[i + 1] = 0 /\ s[i + 2] = 1})

\* AnnexBSplitter: up to the next start code, without the zeros before it.
WithoutZeros(s) == SubSeq(s, 1, Max({0} \cup {i \in DOMAIN s : s[i] # 0}))
AnnexBNext(s) ==
  LET after == SubSeq(s, StartCode(s) + 3, Len(s))
      next  == StartCode(after)
  IN [nal |-> WithoutZeros(SubSeq(after, 1, next - 1)), rest |-> SubSeq(after, next, Len(after))]

AvccNext(n, s) ==
  LET len == ValueOf(BitsOfBytes(SubSeq(s, 1, n)))
  IN [nal |-> SubSeq(s, n + 1, n + len), rest |-> SubSeq(s, n + len + 1, Len(s))]

(* -------------------------------- parse_nal_unit ------------------------------ *)

HeaderRead(byte) == <<(byte \div 32) % 4, byte % 32>>

Unescaped(raw) ==
  LET From[i \in 1 .. Len(raw) + 1] ==
        CASE i > Len(raw) -> <<>>
          [] i + 2 <= Len(raw) /\ raw[i] = 0 /\ raw[i + 1] = 0 /\ raw[i + 2] = 3
             -> <<0, 0>> \o From[i + 3]
          [] OTHER -> <<raw[i]>> \o From[i + 1]
  IN From[1]

(* --------------------------------- BitReader ---------------------------------- *)

\* MUTANT: the stop bit is taken for data.
MoreRbspDataToStop(s) == \E i \in 1 .. Len(s) : s[i] = 1

\* The position lies before that of the last one of the data, the stop bit.
MoreRbspData(s) == \E i \in 2 .. Len(s) : s[i] = 1

\* <<value, bits used>>; leading zeros, a one and as many bits.
ReadUe(s) ==
  LET z == Min({i \in DOMAIN s : s[i] = 1}) - 1
  IN <<2 ^ z - 1 + ValueOf(SubSeq(s, z + 2, 2 * z + 1)), 2 * z + 1>>
Signed(n, v) == IF v >= 2 ^ (n - 1) THEN v - 2 ^ n ELSE v
SeValue(k) == IF k % 2 = 1 THEN (k + 1) \div 2 ELSE -(k \div 2)
ReadField(f, s) ==
  CASE f.e = "u"  -> <<ValueOf(SubSeq(s, 1, f.n)), f.n>>
    [] f.e = "i"  -> <<Signed(f.n, ValueOf(SubSeq(s, 1, f.n))), f.n>>
    [] f.e = "ue" -> ReadUe(s)
    [] f.e = "se" -> <<SeValue(ReadUe(s)[1]), ReadUe(s)[2]>>
    [] f.e = "te" -> CASE f.max = 0 -> <<0, 0>>
                       [] f.max = 1 -> <<1 - s[1], 1>>
                       [] OTHER     -> ReadUe(s)
TrailingRead(s) == s[1] = 1 /\ \A i \in 2 .. Len(s) : s[i] = 0 /\ i <= 8

(* ----------------------------------- Steps ------------------------------------ *)

Count == FoldSeq(LAMBDA u, n : n + Len(u.fields), Len(unit.fields), units)

FramingInit ==
  /\ sized \in Framings
  /\ bits = <<>>
  /\ unit = [header |-> Headers[1], fields |-> <<>>]
  /\ units = <<>> /\ stream = <<>> /\ open = <<>> /\ readBack = TRUE

WriteField(f) ==
  /\ unit.header # <<>> /\ Count < MaxFields
  /\ bits' = bits \o Written(f)
  /\ unit' = [unit EXCEPT !.fields = Append(@, f)]
  /\ UNCHANGED <<sized, units, stream, open, readBack>>

\* A unit is finished; another one begins, or none.
EndUnit(last) ==
  /\ unit.header # <<>> /\ unit.fields # <<>>
  /\ last \/ Len(units) + 1 < Len(Headers)
  /\ stream' = stream \o Framed(sized, NalUnit(unit.header, BytesOf(bits \o Trailing(Len(bits)))))
  /\ units' = Append(units, unit)
  /\ unit' = [header |-> IF last THEN <<>> ELSE Headers[Len(units) + 2], fields |-> <<>>]
  /\ bits' = <<>>
  /\ UNCHANGED <<sized, open, readBack>>

\* The next unit of the stream is split off and unpacked.
Split ==
  /\ unit.header = <<>> /\ open = <<>> /\ stream # <<>>
  /\ LET got == IF sized = 0 THEN AnnexBNext(stream) ELSE AvccNext(sized, stream)
     IN /\ stream' = got.rest
        /\ open' = BitsOfBytes(Unescaped(Tail(got.nal)))
        /\ readBack' = (units # <<>> /\ got.nal # <<>> /\ HeaderRead(Head(got.nal)) = Head(units).header)
  /\ UNCHANGED <<sized, bits, unit, units>>

\* The next element, or the trailing bits when none is left.
Read ==
  /\ open # <<>> /\ units # <<>>
  /\ LET left == Head(units).fields IN
     IF left # <<>>
     THEN LET got == ReadField(Head(left), open)
          IN /\ open' = SubSeq(open, got[2] + 1, Len(open))
             /\ units' = [units EXCEPT ![1].fields = Tail(@)]
             /\ readBack' = (MoreRbspData(open) /\ got[1] = Head(left).v)
     ELSE /\ open' = <<>>
          /\ units' = Tail(units)
          /\ readBack' = (~ MoreRbspData(open) /\ TrailingRead(open))
  /\ UNCHANGED <<sized, bits, unit, stream>>

FramingNext ==
  \/ \E f \in Fields : WriteField(f)
  \/ \E last \in BOOLEAN : EndUnit(last)
  \/ Split
  \/ Read

\* Every unit comes out of the stream with its header, every element with its
\* value and more_rbsp_data up to the last one, and nothing else is in the stream.
UnitsReadBack ==
  /\ readBack
  /\ unit.header = <<>> /\ open = <<>> => (units = <<>>) = (stream = <<>>)
================================================================================
