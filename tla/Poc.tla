---------------------------------- MODULE Poc ----------------------------------
(***************************************************************************)
(* Picture order counts, clause 8.2.1: the three derivations of            *)
(* src/src/poc.rs and what src/src/h264_decoder.rs feeds them - the        *)
(* frame_num gate, gap filling, the state carried over a memory management *)
(* control operation 5, and the counts stored with a reference picture.    *)
(*                                                                         *)
(* The other side of the model is the stream: it knows the order of every  *)
(* picture and the number of frames since its sequence began, and codes    *)
(* only frame_num, pic_order_cnt_lsb and the deltas.  Decoding is correct  *)
(* when the decoder recovers what the stream meant.                        *)
(*                                                                         *)
(* delta_pic_order_always_zero_flag is the choice deltas = {0}.            *)
(***************************************************************************)
EXTENDS Integers, Sequences

CONSTANTS
  Streams,       \* the kinds of stream: a sequence parameter set and its use
  MaxFrameNum,   \* 2 ^ (log2_max_frame_num_minus4 + 4)
  MaxLsb,        \* MaxPicOrderCntLsb, type 0
  IntMax         \* i32::MAX

Stream ==
  [type         : 0 .. 2,     \* pic_order_cnt_type
   nonRefOffset : Int,        \* offset_for_non_ref_pic, type 1
   topToBottom  : Int,        \* offset_for_top_to_bottom_field, type 1
   refOffsets   : Seq(Int),   \* offset_for_ref_frame, type 1
   gaps         : BOOLEAN,    \* gaps_in_frame_num_value_allowed_flag
   structures   : SUBSET {"frame", "top", "bottom"},
   mmco5        : SUBSET {"frame", "top", "bottom"}, \* those that carry operation 5
   deltas       : SUBSET Int, \* delta_pic_order_cnt values
   drops        : BOOLEAN,    \* TRUE: pictures may be lost once opened
   maxOrder     : Nat,        \* bound: orders a stream codes (type 0)
   maxAbs       : Nat]        \* bound: frames in a sequence

ASSUME PocAssumption ==
  /\ \A s \in Streams : s \in Stream
  /\ MaxFrameNum \in Nat \ {0}
  /\ MaxLsb \in Nat \ {0} /\ MaxLsb % 2 = 0
  /\ IntMax \in Nat /\ MaxLsb <= IntMax

VARIABLES
  sps,       \* the stream being decoded: its sequence parameter set and use
  st,        \* poc_state
  hadMmco5,  \* prev_had_mmco5
  topFoc,    \* prev_reference_top_foc
  prevRef,   \* prev_ref_frame_num, -1 for None
  phase,     \* "idle", "gap", "derive", "open" or "panicked"
  pic,       \* the first slice header of the picture in progress
  expected,  \* fill_frame_num_gap: the frame_num of the next gap frame
  poc,       \* the counts derived for the picture in progress
  stored,    \* the counts of the last reference picture stored
  anchor,    \* stream: order of the previous reference picture (type 0)
  absRef,    \* stream: frames up to the previous reference frame
  first,     \* stream: the field that awaits its second field
  lost       \* history: a count was lost since the last IDR picture

decoder == <<sps, st, hadMmco5, topFoc, prevRef>>
stream  == <<anchor, absRef, first, lost>>
vars == <<decoder, phase, pic, expected, poc, stored, stream>>

Lesser(x, y) == IF x < y THEN x ELSE y

Opposite(p) == IF p = "top" THEN "bottom" ELSE "top"

\* PicOrderCnt( ), eq. 8-1.
PicOrderCnt(structure, top, bottom) ==
  CASE structure = "frame"  -> Lesser(top, bottom)
    [] structure = "top"    -> top
    [] structure = "bottom" -> bottom

\* What an i32 holds.
Int32 == -IntMax - 1 .. IntMax

\* The i32 that a sum or difference outside the range becomes where overflow is
\* not checked.
Wrapped(x) == ((x + IntMax + 1) % (2 * (IntMax + 1))) - IntMax - 1

\* The count of a parity that was not coded is the largest integer.
CountsAbsentMax(structure, top, bottom) ==
  LET t == IF structure = "bottom" THEN IntMax ELSE top
      b == IF structure = "top" THEN IntMax ELSE bottom
  IN  [top |-> t, bottom |-> b, poc |-> PicOrderCnt(structure, t, b)]

\* The count of a parity that was not coded is 0.
Counts(structure, top, bottom) ==
  LET t == IF structure = "bottom" THEN 0 ELSE top
      b == IF structure = "top" THEN 0 ELSE bottom
  IN  [top |-> t, bottom |-> b, poc |-> PicOrderCnt(structure, t, b)]

NoCounts == Counts("frame", 0, 0)

NoState == [msb |-> 0, lsb |-> 0, frameNum |-> 0, offset |-> 0]

-----------------------------------------------------------------------------
(***************************************************************************)
(* Type 0: the most significant part is tracked across reference pictures. *)
(***************************************************************************)
\* An IDR picture that carries on from the previous one.
PrevOrderKept(h) == IF hadMmco5 THEN [msb |-> 0, lsb |-> topFoc % MaxLsb]
                    ELSE [msb |-> st.msb, lsb |-> st.lsb]

PrevOrder(h) ==
  CASE h.idr                -> [msb |-> 0, lsb |-> 0]
    [] ~ h.idr /\ hadMmco5  -> [msb |-> 0, lsb |-> topFoc % MaxLsb]
    [] ~ h.idr /\ ~ hadMmco5 -> [msb |-> st.msb, lsb |-> st.lsb]

\* The two comparisons with half the range swapped in strictness.
MsbOffByOne(prev, lsb) ==
  CASE prev.lsb - lsb > MaxLsb \div 2  -> prev.msb + MaxLsb
    [] lsb - prev.lsb >= MaxLsb \div 2 -> prev.msb - MaxLsb
    [] OTHER                           -> prev.msb

\* eq. 8-3
Msb(prev, lsb) ==
  CASE prev.lsb - lsb >= MaxLsb \div 2 -> prev.msb + MaxLsb
    [] lsb - prev.lsb > MaxLsb \div 2  -> prev.msb - MaxLsb
    [] OTHER                           -> prev.msb

Type0(h) ==
  LET msb == Msb(PrevOrder(h), h.lsb)
      top == msb + h.lsb
  IN  [counts |-> Counts(h.structure, top,
                         IF h.structure = "frame" THEN top + h.delta[1] ELSE top),
       wide   |-> {msb},
       st     |-> IF h.ref
                  THEN [st EXCEPT !.msb = msb, !.lsb = h.lsb, !.frameNum = h.frameNum]
                  ELSE [st EXCEPT !.frameNum = h.frameNum]]

(***************************************************************************)
(* Types 1 and 2: FrameNumOffset counts the wraps of frame_num.            *)
(***************************************************************************)
\* The wrap detected against the frame_num coded before operation 5.
PrevFrameNumStale == st.frameNum

PrevFrameNum == IF hadMmco5 THEN 0 ELSE st.frameNum

PrevFrameNumOffset == IF hadMmco5 THEN 0 ELSE st.offset

\* eq. 8-6 and 8-11
FrameNumOffset(h) ==
  CASE h.idr -> 0
    [] ~ h.idr /\ PrevFrameNum > h.frameNum  -> PrevFrameNumOffset + MaxFrameNum
    [] ~ h.idr /\ PrevFrameNum <= h.frameNum -> PrevFrameNumOffset

AbsFrameNum(h) ==
  LET n == IF sps.refOffsets = <<>> THEN 0 ELSE FrameNumOffset(h) + h.frameNum
  IN  IF ~ h.ref /\ n > 0 THEN n - 1 ELSE n

\* The sums of the first elements of f: [n] is f[1] + ... + f[n].
SumsOf(f) == LET sum[n \in Nat] == IF n = 0 THEN 0 ELSE sum[n - 1] + f[n] IN sum

OffsetsUpTo(n) == SumsOf(sps.refOffsets)[n]

\* A cycle counted from absFrameNum itself rather than its predecessor.
ExpectedCountLate(n) ==
  IF n = 0 THEN 0
  ELSE (n \div Len(sps.refOffsets)) * OffsetsUpTo(Len(sps.refOffsets))
         + OffsetsUpTo(((n - 1) % Len(sps.refOffsets)) + 1)

\* eq. 8-8 and 8-9: whole cycles, then the frames of the current one.
ExpectedCount(n) ==
  IF n = 0 THEN 0
  ELSE ((n - 1) \div Len(sps.refOffsets)) * OffsetsUpTo(Len(sps.refOffsets))
         + OffsetsUpTo(((n - 1) % Len(sps.refOffsets)) + 1)

StateOf(h) == [st EXCEPT !.frameNum = h.frameNum, !.offset = FrameNumOffset(h)]

Type1(h) ==
  LET count  == ExpectedCount(AbsFrameNum(h)) + (IF h.ref THEN 0 ELSE sps.nonRefOffset)
      top    == count + h.delta[1]
      bottom == IF h.structure = "frame" THEN top + sps.topToBottom + h.delta[2]
                ELSE count + sps.topToBottom + h.delta[1]
  IN  [counts |-> Counts(h.structure, top, bottom), wide |-> {}, st |-> StateOf(h)]

Type2(h) ==
  LET n     == 2 * (FrameNumOffset(h) + h.frameNum)
      count == CASE h.idr -> 0
                 [] ~ h.idr /\ h.ref   -> n
                 [] ~ h.idr /\ ~ h.ref -> n - 1
  IN  [counts |-> Counts(h.structure, count, count), wide |-> {}, st |-> StateOf(h)]

Derived(h) ==
  CASE sps.type = 0 -> Type0(h)
    [] sps.type = 1 -> Type1(h)
    [] sps.type = 2 -> Type2(h)

\* Counts truncated to 32 bits without a check.
FitsUnchecked(d) == TRUE

\* i32::try_from on the way out.
Fits(d) == {d.counts.top, d.counts.bottom} \cup d.wide \subseteq Int32

-----------------------------------------------------------------------------
(***************************************************************************)
(* The stream.  order is the order of a frame's top field or of a field,   *)
(* abs the number of its frame since the sequence began; the decoder sees  *)
(* neither.                                                                *)
(***************************************************************************)
FrameNums == 0 .. MaxFrameNum - 1

NoHeader == [idr |-> FALSE, ref |-> FALSE, mmco5 |-> FALSE, structure |-> "frame",
             frameNum |-> 0, lsb |-> 0, delta |-> <<0, 0>>, order |-> 0, abs |-> 0]

IsSecondField(h) ==
  /\ first # NoHeader
  /\ ~ h.idr
  /\ h.structure = Opposite(first.structure)
  /\ h.abs = IF first.mmco5 THEN 0 ELSE first.abs

Half == MaxLsb \div 2

\* Type 1: what the n-th frame adds to the order, the offsets used in turn.
OffsetOfFrame ==
  [n \in Nat \ {0} |-> sps.refOffsets[((n - 1) % Len(sps.refOffsets)) + 1]]

\* The order a picture has among those of its sequence, for each type.
Orders(h) ==
  CASE sps.type = 0 ->
         {o \in -sps.maxOrder .. sps.maxOrder :
            o - (IF h.idr THEN 0 ELSE anchor) \in -(Half - 1) .. Half}
    [] sps.type = 1 ->
         LET frames == IF sps.refOffsets = <<>> THEN 0
                       ELSE IF h.ref \/ h.abs = 0 THEN h.abs ELSE h.abs - 1
         IN  {SumsOf(OffsetOfFrame)[frames]
                  + h.delta[1] + (IF h.ref THEN 0 ELSE sps.nonRefOffset)
                  + (IF h.structure = "bottom" THEN sps.topToBottom ELSE 0)}
    [] sps.type = 2 -> {IF h.ref THEN 2 * h.abs ELSE 2 * h.abs - 1}

\* The order of the bottom field of a frame.
BottomOrder(h) ==
  CASE sps.type = 0 -> h.order + h.delta[1]
    [] sps.type = 1 -> h.order + sps.topToBottom + h.delta[2]
    [] sps.type = 2 -> h.order

\* 8.2.1: an IDR frame has count 0.
StartsAtZero(h) ==
  sps.type = 0 => IF h.structure = "frame" THEN Lesser(h.order, BottomOrder(h)) = 0
                 ELSE h.order = 0

\* What of a header does not follow from the rest.
Variants ==
  [idr : BOOLEAN, ref : BOOLEAN, mmco5 : BOOLEAN, structure : sps.structures,
   frameNum : {0}, lsb : {0}, delta : sps.deltas \X sps.deltas, order : {0}, abs : 0 .. sps.maxAbs]

\* 7.4.3: a new frame has the number after that of the previous reference
\* frame, or a later one where gaps are allowed.
StreamMayCode(h) ==
  /\ h.idr => h.ref /\ h.abs = 0
  /\ h.mmco5 => h.ref /\ ~ h.idr /\ h.structure \in sps.mmco5 /\ ~ IsSecondField(h)
  /\ sps.type # 1 => h.delta[2] = 0
  /\ sps.type = 2 \/ (sps.type = 0 /\ h.structure # "frame") => h.delta[1] = 0
  /\ \/ h.idr
     \/ IsSecondField(h)
     \/ /\ prevRef # -1
        /\ h.abs > absRef
        /\ h.abs - absRef < MaxFrameNum
        /\ sps.gaps \/ h.abs = absRef + 1

Headers ==
  UNION {{[h EXCEPT !.order = o, !.lsb = o % MaxLsb, !.frameNum = h.abs % MaxFrameNum] :
            o \in {x \in Orders(h) : h.idr => StartsAtZero([h EXCEPT !.order = x])}} :
         h \in {g \in Variants : StreamMayCode(g)}}

Rebased(h) == IF h.structure = "frame" THEN h.order - Lesser(h.order, BottomOrder(h)) ELSE 0

-----------------------------------------------------------------------------
Init ==
  /\ sps \in Streams
  /\ st = NoState /\ hadMmco5 = FALSE /\ topFoc = 0 /\ prevRef = -1
  /\ phase = "idle" /\ pic = NoHeader /\ expected = 0
  /\ poc = NoCounts /\ stored = NoCounts
  /\ anchor = 0 /\ absRef = 0 /\ first = NoHeader /\ lost = FALSE

\* The stream codes a picture, refused by the decoder or not: its view of the
\* previous reference picture.
Coded(h, refused) ==
  /\ anchor' = IF h.ref THEN (IF h.mmco5 THEN Rebased(h) ELSE h.order) ELSE anchor
  /\ absRef' = CASE h.ref /\ h.mmco5   -> 0
                 [] h.ref /\ ~ h.mmco5 -> h.abs
                 [] ~ h.ref            -> IF h.abs - 1 > absRef THEN h.abs - 1 ELSE absRef
  /\ first' = IF h.structure # "frame" /\ ~ IsSecondField(h) THEN h ELSE NoHeader
  /\ lost' = (refused \/ (lost /\ ~ h.idr))

Successor(n) == (n + 1) % MaxFrameNum

PassesGate(h) ==
  h.idr \/ sps.gaps \/ prevRef = -1 \/ h.frameNum \in {prevRef, Successor(prevRef)}

NeedsGapFill(h) ==
  ~ h.idr /\ sps.gaps /\ prevRef # -1 /\ Successor(prevRef) # h.frameNum

\* A picture whose frame_num the gate refuses is lost to the decoder.
Reject(h) ==
  /\ phase = "idle"
  /\ ~ PassesGate(h)
  /\ Coded(h, TRUE)
  /\ UNCHANGED <<decoder, phase, pic, expected, poc, stored>>

OpenPicture(h) ==
  /\ phase = "idle"
  /\ PassesGate(h)
  /\ Coded(h, FALSE)
  /\ pic' = h
  /\ IF NeedsGapFill(h)
     THEN phase' = "gap" /\ expected' = Successor(prevRef)
     ELSE phase' = "derive" /\ UNCHANGED expected
  /\ UNCHANGED <<decoder, poc, stored>>

\* Gap frames that do not count towards FrameNumOffset.
GapStateOffsetKept(n) == [st EXCEPT !.frameNum = n]

\* poc_state over a non-existing frame, as fill_frame_num_gap steps it.
GapState(n) ==
  IF sps.type = 0 THEN [st EXCEPT !.frameNum = n]
  ELSE [st EXCEPT !.frameNum = n, !.offset = IF st.frameNum > n THEN @ + MaxFrameNum ELSE @]

GapStep ==
  /\ phase = "gap"
  /\ expected # pic.frameNum
  /\ st' = GapState(expected)
  /\ prevRef' = expected
  /\ expected' = Successor(expected)
  /\ UNCHANGED <<sps, hadMmco5, topFoc, phase, pic, poc, stored, stream>>

GapDone ==
  /\ phase = "gap"
  /\ expected = pic.frameNum
  /\ phase' = "derive"
  /\ expected' = 0
  /\ UNCHANGED <<decoder, pic, poc, stored, stream>>

\* derive_poc succeeds: the state moves on before a slice is reconstructed.
DerivePoc ==
  /\ phase = "derive"
  /\ Fits(Derived(pic))
  /\ poc' = Derived(pic).counts
  /\ st' = Derived(pic).st
  /\ phase' = "open"
  /\ UNCHANGED <<sps, hadMmco5, topFoc, prevRef, pic, expected, stored, stream>>

Close == phase' = "idle" /\ pic' = NoHeader /\ poc' = NoCounts

Lost(by) == lost' = (lost \/ by) /\ UNCHANGED <<anchor, absRef, first>>

\* PocError::Overflow: the picture is refused and the state kept.
Overflow ==
  /\ phase = "derive"
  /\ ~ Fits(Derived(pic))
  /\ Close
  /\ Lost(TRUE)
  /\ UNCHANGED <<decoder, expected, stored>>

\* No slice succeeded, or macroblocks are missing.  A lost picture that would
\* have begun a sequence loses the count of the sequence with it.
Drop ==
  /\ sps.drops /\ phase = "open"
  /\ Close
  /\ Lost(pic.idr \/ pic.mmco5)
  /\ UNCHANGED <<decoder, expected, stored>>

\* The counts stored without the subtraction of operation 5.
StoredCountsKept(h, c) == c

\* The counts of a reference picture in the DPB, once operation 5 is done.
StoredCounts(h, c) ==
  IF ~ h.mmco5 THEN c
  ELSE LET top == Wrapped(c.top - c.poc)
           bottom == Wrapped(c.bottom - c.poc)
       IN  [top |-> top, bottom |-> bottom, poc |-> Lesser(top, bottom)]

\* The count by which the same picture is ordered for output.
OutputPoc(h, c) ==
  IF h.mmco5 THEN PicOrderCnt(h.structure, Wrapped(c.top - c.poc), Wrapped(c.bottom - c.poc))
  ELSE c.poc

TopFocAfter(h, c) == IF h.mmco5 THEN Wrapped(c.top - c.poc) ELSE 0

\* Operation 5 takes a count out of 32 bits: the subtractions are plain i32
\* arithmetic, which derive_poc's refusal does not cover.
ResetOverflows(h, c) == h.mmco5 /\ ~ ({c.top - c.poc, c.bottom - c.poc} \subseteq Int32)

\* Reference pictures; a build without overflow checks wraps.
FinalizeReference ==
  /\ phase = "open" /\ pic.ref
  /\ hadMmco5' = pic.mmco5
  /\ topFoc' = TopFocAfter(pic, poc)
  /\ prevRef' = IF pic.mmco5 THEN 0 ELSE pic.frameNum
  /\ stored' = StoredCounts(pic, poc)
  /\ Close
  /\ UNCHANGED <<sps, st, expected, stream>>

\* A build with overflow checks panics before anything is stored.
FinalizePanics ==
  /\ phase = "open" /\ pic.ref
  /\ ResetOverflows(pic, poc)
  /\ phase' = "panicked"
  /\ UNCHANGED <<decoder, pic, expected, poc, stored, stream>>

FinalizeNonReference ==
  /\ phase = "open" /\ ~ pic.ref
  /\ Close
  /\ UNCHANGED <<decoder, expected, stored, stream>>

Next ==
  \/ phase = "idle" /\ \E h \in Headers : Reject(h) \/ OpenPicture(h)
  \/ GapStep
  \/ GapDone
  \/ DerivePoc
  \/ Overflow
  \/ Drop
  \/ FinalizeReference
  \/ FinalizePanics
  \/ FinalizeNonReference

Spec == Init /\ [][Next]_vars

-----------------------------------------------------------------------------
(***************************************************************************)
(* Correctness.                                                            *)
(***************************************************************************)
\* Type invariant.  What the decoder keeps in an i32 fits in one, by two ways:
\* derive_poc refuses a picture whose counts do not fit (Fits), and what
\* operation 5 subtracts wraps or panics.
TypeOK ==
  /\ sps \in Streams
  /\ st \in [msb : Int32, lsb : 0 .. MaxLsb - 1, frameNum : FrameNums, offset : Nat]
  /\ hadMmco5 \in BOOLEAN /\ lost \in BOOLEAN
  /\ topFoc \in Int32
  /\ prevRef \in FrameNums \cup {-1}
  /\ phase \in {"idle", "gap", "derive", "open", "panicked"}
  /\ expected \in FrameNums
  /\ poc \in [top : Int32, bottom : Int32, poc : Int32]
  /\ stored \in [top : Int32, bottom : Int32, poc : Int32]
  /\ pic.structure \in {"frame", "top", "bottom"} /\ pic.frameNum \in FrameNums

\* The streams whose counts can be recovered.  Type 0: no bottom field has
\* operation 5, a stream with operation 5 has deltas of less than a cycle of
\* the LSB, and loses pictures only where it codes frames without gaps.
\* Types 1 and 2: a stream with gaps codes frames, none with operation 5.
Recoverable ==
  /\ MaxFrameNum > 2
  /\ \A s \in Streams :
       /\ s.type = 0 /\ s.mmco5 # {} =>
            /\ "bottom" \notin s.mmco5
            /\ \A d \in s.deltas : d \in -(MaxLsb - 1) .. MaxLsb - 1
            /\ s.drops => ~ s.gaps /\ s.structures \subseteq {"frame"}
       /\ s.type # 0 /\ s.gaps => s.mmco5 = {} /\ s.structures \subseteq {"frame"}

\* 8.2.1: the decoder recovers the order of every picture it opens from what
\* the stream codes of it, through wraps of pic_order_cnt_lsb and frame_num,
\* operation 5, gaps and dropped pictures (derive_poc); and where a picture it
\* refused cost it the count, the next IDR picture gives it back.
RecoversOrder ==
  phase \in {"open", "panicked"} /\ ~ lost =>
    poc = Counts(pic.structure, pic.order,
                 IF pic.structure = "frame" THEN BottomOrder(pic) ELSE pic.order)

\* finalize_in_progress_picture subtracts in unchecked i32 after operation 5.  A
\* count leaves 32 bits there only where the stream's own do: a frame of type 1
\* whose fields are too far apart, or a lone field of the least order there is.
ResetsFit ==
  phase = "panicked" /\ ~ lost =>
    IF pic.structure = "frame"
    THEN sps.type = 1 /\ BottomOrder(pic) - pic.order \notin -IntMax .. IntMax
    ELSE pic.order = -IntMax - 1

\* finalize_in_progress_picture resets the counts of an operation-5 picture
\* twice, for the DPB and for output; both give a frame the same PicOrderCnt.
StoredPocIsOutputPoc ==
  [][phase = "open" /\ phase' = "idle" /\ stored' # stored /\ pic.structure = "frame"
       => stored'.poc = OutputPoc(pic, poc)]_vars
=============================================================================
