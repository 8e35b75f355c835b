----------------------------- MODULE EncoderStreams -----------------------------
(***************************************************************************)
(* The picture-level drivers of src/src/encoder: which pictures they code, *)
(* in which order, what the slice headers say of frame_num, order count,   *)
(* reference list and marking, and which decoded pictures the encoder      *)
(* predicts from.                                                          *)
(*                                                                         *)
(* One action is one turn of a driver's loop: push_frame of a session, a   *)
(* frame of a sequence, a group of B field pairs.  The coded pictures go   *)
(* to todo, whence a decoder takes them slice by slice.                    *)
(*                                                                         *)
(* frame_num and pic_order_cnt_lsb are written in a fixed number of bits:  *)
(* BitWriter::u drops the high-order ones.                                 *)
(***************************************************************************)
EXTENDS Integers, Sequences, FiniteSets, SequencesExt

CONSTANTS
  Drivers,       \* configurations of the encoder, see Driver
  MaxFrameNum,   \* 2 ^ (log2_max_frame_num_minus4 + 4)
  MaxLsb         \* 2 ^ (log2_max_pic_order_cnt_lsb_minus4 + 4)

None == -1       \* an Option that is None

\* A configuration: frames pushed by the caller, max_num_ref_frames and the
\* size of the picture in macroblocks, and what one of the drivers adds.
Driver ==
  [kind : {"session", "multiref", "paff", "paff_b", "sequence"}, frames : Nat \ {0},
   refs : Nat \ {0}, mbs : Nat \ {0},
   gop : Nat \ {0}, bFrames : 0 .. 16,                \* session
   longIdr : BOOLEAN, longAt : Int, unmarkAt : Int, longFirstAt : Int,   \* multiref
   p : BOOLEAN,                                       \* paff, sequence
   axis : {"none", "cross", "idr_frame", "long_term_anchor", "unpair_first_top"},  \* paff
   framePics : SUBSET Nat,                            \* paff
   stride : 2 .. 4,                                   \* paff_b
   slices : Seq(Nat \X BOOLEAN)]                      \* sequence: see SequenceFrame

\* Every picture has slices, the redundant ones after the others.
ASSUME EncoderStreamsAssumption ==
  /\ Drivers \subseteq Driver
  /\ \A d \in Drivers : d.slices # <<>> /\ ~ d.slices[1][2]
  /\ MaxFrameNum \in Nat /\ MaxFrameNum > 1
  /\ MaxLsb \in Nat /\ MaxLsb > 2 /\ MaxLsb % 2 = 0

VARIABLES
  cfg,      \* the driver's configuration
  enc,      \* the driver's state
  coded,    \* number of pictures coded
  todo      \* the pictures coded but not sent yet

encoder == <<cfg, enc, coded, todo>>

(***************************************************************************)
(* A coded picture.  id, display, order, l0, l1 and held are the encoder's *)
(* own view, of which nothing is transmitted: the number of the picture in *)
(* coding order, its place in display order, its order count relative to   *)
(* the IDR picture, the pictures it predicts from at each index (id and    *)
(* "frame" or a parity) and its reference buffer afterwards.               *)
(***************************************************************************)
Blank ==
  [id |-> 0, display |-> 0, order |-> 0, l0 |-> <<>>, l1 |-> <<>>, held |-> {},
   idr |-> FALSE, ref |-> TRUE, structure |-> "frame", frameNum |-> 0, lsb |-> 0,
   type |-> "I", active |-> 1, rplm |-> <<>>, mmco |-> <<>>, longTerm |-> FALSE,
   delay |-> 0, slices |-> <<<<0, FALSE>>>>]

Numbered(pic, frameNum, order) ==
  [pic EXCEPT !.frameNum = frameNum % MaxFrameNum, !.lsb = order % MaxLsb, !.order = order]

Predicted(pic, l0) == [pic EXCEPT !.type = "P", !.l0 = l0]

Bipredicted(pic, l0, l1) == [pic EXCEPT !.type = "B", !.l0 = l0, !.l1 = l1]

Code(pics) ==
  /\ todo = <<>>
  /\ todo' = pics
  /\ coded' = coded + Len(pics)
  /\ UNCHANGED cfg

-----------------------------------------------------------------------------
(***************************************************************************)
(* EncoderSession (session.rs).  enc holds idx, pending, gop_start,        *)
(* dec_in_gop, next_ref_frame_num and the id of prev.                      *)
(***************************************************************************)
\* frame_num of encode_au.
SessionFrameNum(e, kind) ==
  CASE kind = "I" -> 0
    [] kind = "P" -> e.nextRef
    [] kind = "B" -> (e.nextRef - 1) % MaxFrameNum

\* dpb_output_delay of the pic_timing SEI.
OutputDelay(e, display) ==
  IF cfg.bFrames > 0 THEN 2 * ((display - e.gopStart) + 1 - e.decInGop) ELSE 0

\* encode_au: the next picture of kind, of display index display, and the state
\* of the session after it.  A B picture lies between prev and anchor.
Au(e, kind, display, anchor) ==
  LET base == [Blank EXCEPT !.id = e.id, !.display = display, !.idr = (kind = "I"),
                            !.ref = (kind # "B"), !.delay = OutputDelay(e, display)]
      pic  == CASE kind = "I" -> base
                [] kind = "P" -> Predicted(base, <<<<e.prev, "frame">>>>)
                [] kind = "B" -> Bipredicted(base, <<<<e.prev, "frame">>>>, <<<<anchor, "frame">>>>)
      n    == SessionFrameNum(e, kind)
  IN  [pic |-> Numbered(pic, n, 2 * (display - e.gopStart)),
       enc |-> [e EXCEPT !.id = @ + 1, !.decInGop = @ + 1,
                         !.nextRef = IF kind = "B" THEN @ ELSE (n + 1) % MaxFrameNum]]

\* encode_minigop: the last pending picture first, as the anchor.
MiniGop(e) ==
  LET anchor == Au(e, "P", Last(e.pending), None)
      after[i \in 0 .. Len(e.pending) - 1] ==
        IF i = 0 THEN anchor ELSE Au(after[i - 1].enc, "B", e.pending[i], anchor.pic.id)
      m == Len(e.pending) - 1
  IN  [pics |-> [i \in 1 .. m + 1 |-> after[i - 1].pic],
       enc  |-> [after[m].enc EXCEPT !.prev = anchor.pic.id, !.pending = <<>>]]

\* flush_pending
Flushed(e) == IF e.pending = <<>> THEN [pics |-> <<>>, enc |-> e] ELSE MiniGop(e)

\* The access units of a GOP counted on from the previous one.
PushIdrCountsOn(e, d) ==
  LET before == Flushed(e)
      idr    == Au([before.enc EXCEPT !.gopStart = d, !.nextRef = 0], "I", d, None)
  IN  [pics |-> Append(before.pics, idr.pic), enc |-> [idr.enc EXCEPT !.prev = idr.pic.id]]

PushIdr(e, d) ==
  LET before == Flushed(e)
      idr    == Au([before.enc EXCEPT !.gopStart = d, !.decInGop = 0, !.nextRef = 0], "I", d, None)
  IN  [pics |-> Append(before.pics, idr.pic), enc |-> [idr.enc EXCEPT !.prev = idr.pic.id]]

PushP(e, d) ==
  LET au == Au(e, "P", d, None)
  IN  [pics |-> <<au.pic>>, enc |-> [au.enc EXCEPT !.prev = au.pic.id]]

PushPending(e, d) ==
  LET full == [e EXCEPT !.pending = Append(@, d)]
  IN  IF Len(full.pending) = cfg.bFrames + 1 THEN MiniGop(full)
      ELSE [pics |-> <<>>, enc |-> full]

\* push_frame
SessionPush ==
  /\ cfg.kind = "session"
  /\ enc.idx < cfg.frames
  /\ LET d   == enc.idx
         e   == [enc EXCEPT !.idx = @ + 1]
         out == IF d % cfg.gop = 0 THEN PushIdr(e, d)
                ELSE IF cfg.bFrames = 0 THEN PushP(e, d) ELSE PushPending(e, d)
     IN  Code(out.pics) /\ enc' = out.enc

\* Buffered pictures dropped at the end.
SessionFinishDrops ==
  /\ cfg.kind = "session"
  /\ enc.idx = cfg.frames /\ enc.pending # <<>>
  /\ Code(<<>>)
  /\ enc' = [enc EXCEPT !.pending = <<>>]

\* finish
SessionFinish ==
  /\ cfg.kind = "session"
  /\ enc.idx = cfg.frames /\ enc.pending # <<>>
  /\ Code(Flushed(enc).pics)
  /\ enc' = Flushed(enc).enc

-----------------------------------------------------------------------------
(***************************************************************************)
(* encode_multiref_sequence (multiref.rs).  enc.dpb mirrors the decoder's  *)
(* reference buffer: id, frame_num and long_term_idx of each entry.        *)
(***************************************************************************)
IsShort(e) == e.lt = None

Shorts(d) == {e \in d : IsShort(e)}

OldestShort(d) == CHOOSE e \in Shorts(d) : \A g \in Shorts(d) : e.frameNum <= g.frameNum

WithoutOldest(d) == d \ {OldestShort(d)}

Ids(s) == [i \in DOMAIN s |-> <<s[i].id, "frame">>]

\* init_list0
InitList0(d) ==
  SetToSortSeq(Shorts(d), LAMBDA e, g : e.frameNum > g.frameNum)
    \o SetToSortSeq(d \ Shorts(d), LAMBDA e, g : e.lt < g.lt)

FirstLong(s) == CHOOSE i \in DOMAIN s : ~ IsShort(s[i]) /\ \A j \in 1 .. i - 1 : IsShort(s[j])

\* The long-term picture moved to index 0 by a modification command.
LongFirst(s) == <<s[FirstLong(s)]>> \o RemoveAt(s, FirstLong(s))

\* Room taken for granted until the buffer has overflowed.
Overfull(d) == Cardinality(d) > cfg.refs

Full(d) == Cardinality(d) >= cfg.refs

EvictOldest(d, k) == <<[op |-> 1, diff |-> k - OldestShort(d).frameNum - 1]>>

\* The operations coded with frame k, and the buffer once they and the
\* picture, with LongTermFrameIdx lt, are in it.
Marked(d, k) ==
  LET ltIdx   == IF cfg.longIdr THEN 1 ELSE 0
      entry(i) == [id |-> coded, frameNum |-> k, lt |-> i]
  IN  CASE k = cfg.longAt ->
             [mmco |-> (IF Full(d) THEN EvictOldest(d, k) ELSE <<>>)
                         \o <<[op |-> 4, max |-> ltIdx + 1], [op |-> 6, idx |-> ltIdx]>>,
              dpb  |-> (IF Full(d) THEN WithoutOldest(d) ELSE d) \cup {entry(ltIdx)}]
        [] k = cfg.unmarkAt /\ k # cfg.longAt ->
             LET over == Overfull(d)
                 kept == {e \in d : e.lt # ltIdx}
             IN  [mmco |-> <<[op |-> 2, num |-> ltIdx]>>
                             \o (IF over THEN EvictOldest(d, k) ELSE <<>>),
                  dpb  |-> (IF over THEN kept \ {OldestShort(d)} ELSE kept) \cup {entry(None)}]
        [] k \notin {cfg.longAt, cfg.unmarkAt} ->
             [mmco |-> <<>>,
              dpb  |-> (IF Full(d) THEN WithoutOldest(d) ELSE d) \cup {entry(None)}]

MultirefIdr ==
  [Blank EXCEPT !.id = coded, !.idr = TRUE, !.longTerm = cfg.longIdr]

MultirefFrame ==
  /\ cfg.kind = "multiref"
  /\ enc.k < cfg.frames
  /\ LET k     == enc.k
         first == {[id |-> coded, frameNum |-> 0, lt |-> IF cfg.longIdr THEN 0 ELSE None]}
         init  == InitList0(enc.dpb)
         moved == k = cfg.longFirstAt /\ Shorts(enc.dpb) # enc.dpb
         list  == IF moved THEN LongFirst(init) ELSE init
         n     == IF Len(list) < cfg.refs THEN Len(list) ELSE cfg.refs
         after == IF k = 0 THEN [mmco |-> <<>>, dpb |-> first] ELSE Marked(enc.dpb, k)
         p     == [Predicted([Blank EXCEPT !.id = coded, !.display = k], Ids(SubSeq(list, 1, n)))
                     EXCEPT !.active = n, !.mmco = after.mmco,
                            !.rplm = IF moved THEN <<[op |-> "long", arg |-> list[1].lt]>> ELSE <<>>]
         pic   == IF k = 0 THEN MultirefIdr ELSE Numbered(p, k, 2 * k)
     IN  /\ Code(<<[pic EXCEPT !.held = {<<e.id, e.lt>> : e \in after.dpb}]>>)
         /\ enc' = [k |-> k + 1, dpb |-> after.dpb]

-----------------------------------------------------------------------------
(***************************************************************************)
(* encode_paff_sequence (field.rs).  enc: frame k is next, the last field  *)
(* of each parity and those of frame 0, each an id and a parity.           *)
(***************************************************************************)
\* One field; refs are the fields it predicts from, none for an I field.
Field(id, d, parity, frameNum, idr, refs) ==
  LET base == [Blank EXCEPT !.id = id, !.display = d, !.structure = parity, !.idr = idr]
  IN  Numbered(IF refs = <<>> THEN base ELSE Predicted(base, refs), frameNum,
               2 * d + (IF parity = "bottom" THEN 1 ELSE 0))

Pair(id) == [top |-> <<id, "top">>, bottom |-> <<id + 1, "bottom">>]

\* The field that field parity of frame k predicts from.
PaffReference(k, parity) ==
  CASE cfg.axis = "long_term_anchor" -> enc.anchor[parity]
    [] cfg.axis = "unpair_first_top" /\ k = 2 /\ parity = "top" -> enc.anchor[parity]
    [] OTHER -> enc.last[parity]

PaffRefs(k, parity) ==
  IF k = 0 THEN (IF cfg.axis = "cross" /\ parity = "bottom" THEN <<<<coded, "top">>>> ELSE <<>>)
  ELSE IF cfg.p THEN <<PaffReference(k, parity)>> ELSE <<>>

PaffRplm(k, parity) ==
  IF cfg.axis = "long_term_anchor" /\ (k > 1 \/ (k = 1 /\ parity = "bottom"))
  THEN <<[op |-> "long", arg |-> 1]>> ELSE <<>>

PaffMmco(k, parity) ==
  CASE cfg.axis = "long_term_anchor" /\ k = 1 /\ parity = "top" ->
         <<[op |-> 4, max |-> 1], [op |-> 3, diff |-> 1, idx |-> 0], [op |-> 3, diff |-> 2, idx |-> 0]>>
    [] cfg.axis = "unpair_first_top" /\ k = 1 /\ parity = "bottom" -> <<[op |-> 1, diff |-> 0]>>
    [] OTHER -> <<>>

PaffField(k, parity) ==
  [Field(IF parity = "top" THEN coded ELSE coded + 1, k, parity, k,
         k = 0 /\ parity = "top", PaffRefs(k, parity))
     EXCEPT !.rplm = PaffRplm(k, parity), !.mmco = PaffMmco(k, parity)]

\* A frame picture: the IDR frame, or one of frame_picture_indices.
PaffFramePicture(k) == Numbered([Blank EXCEPT !.id = coded, !.display = k, !.idr = (k = 0)], k, 2 * k)

PaffFrame ==
  /\ cfg.kind = "paff"
  /\ enc.k < cfg.frames
  /\ LET k       == enc.k
         asFrame == k \in cfg.framePics \/ (k = 0 /\ cfg.axis = "idr_frame")
         own     == IF asFrame THEN [top |-> <<coded, "top">>, bottom |-> <<coded, "bottom">>]
                    ELSE Pair(coded)
     IN  /\ Code(IF asFrame THEN <<PaffFramePicture(k)>>
                 ELSE <<PaffField(k, "top"), PaffField(k, "bottom")>>)
         /\ enc' = [k |-> k + 1, anchor |-> IF k = 0 THEN own ELSE enc.anchor,
                    last |-> IF k \in cfg.framePics THEN enc.last ELSE own]

-----------------------------------------------------------------------------
(***************************************************************************)
(* encode_paff_b_sequence (field.rs): anchor pairs with B pairs between    *)
(* them, in groups of stride frames.  enc: d is the display index of the   *)
(* next anchor, fn the frame_num of the last reference pair, prev the      *)
(* previous anchor.                                                        *)
(***************************************************************************)
\* encode_anchor_pair
AnchorPair(id, d, fn, prev, rplm) ==
  LET field(parity, i) ==
        [Field(id + i, d, parity, fn, d = 0 /\ parity = "top",
               IF d = 0 THEN <<>> ELSE <<prev[parity]>>) EXCEPT !.rplm = rplm]
  IN  <<field("top", 0), field("bottom", 1)>>

\* encode_b_pair
BPair(id, d, fn, l0, l1, isRef) ==
  LET field(parity, i) ==
        Numbered(Bipredicted([Blank EXCEPT !.id = id + i, !.display = d, !.structure = parity,
                                           !.ref = isRef],
                             <<l0[parity]>>, <<l1[parity]>>),
                 fn, 2 * d + i)
  IN  <<field("top", 0), field("bottom", 1)>>

\* Later anchors of the stride-4 layout without a modification command.
AnchorRplmNever(fn) == <<>>

\* The previous anchor pair, behind the reference B pair in the initial list.
AnchorRplm(fn) == IF fn >= 3 THEN <<[op |-> "subtract", arg |-> 3]>> ELSE <<>>

\* The fourth frame's reference B pair, and the B pairs around it.
Stride4(d, fn, prev) ==
  LET next == Pair(coded)
      refB == Pair(coded + 2)
  IN  AnchorPair(coded, d, fn + 1, prev, AnchorRplm(fn + 1))
        \o BPair(coded + 2, d - 2, fn + 2, prev, next, TRUE)
        \o BPair(coded + 4, d - 3, fn + 2, prev, refB, FALSE)
        \o BPair(coded + 6, d - 1, fn + 2, refB, next, FALSE)

\* The anchor and the non-reference B pairs it encloses.
StrideB(d, fn, prev) ==
  AnchorPair(coded, d, fn + 1, prev, <<>>)
    \o FlattenSeq([i \in 1 .. cfg.stride - 1 |->
         BPair(coded + 2 * i, d - cfg.stride + i, fn + 1, prev, Pair(coded), FALSE)])

\* The display index of the anchor after that at d; with stride 2 a trailing odd
\* frame becomes one.
NextAnchor(d) ==
  CASE d + cfg.stride < cfg.frames -> d + cfg.stride
    [] d + cfg.stride >= cfg.frames /\ cfg.stride = 2 /\ d < cfg.frames - 1 -> cfg.frames - 1
    [] OTHER -> cfg.frames

PaffBGroup ==
  /\ cfg.kind = "paff_b"
  /\ enc.d < cfg.frames
  /\ LET d == enc.d
     IN  Code(CASE d = 0 -> AnchorPair(coded, 0, 0, Pair(0), <<>>)
                [] d > 0 /\ d % cfg.stride # 0 -> AnchorPair(coded, d, enc.fn + 1, enc.prev, <<>>)
                [] d > 0 /\ d % cfg.stride = 0 -> IF cfg.stride = 4 THEN Stride4(d, enc.fn, enc.prev)
                                                ELSE StrideB(d, enc.fn, enc.prev))
  /\ enc' = [d |-> NextAnchor(enc.d), prev |-> Pair(coded),
             fn |-> CASE enc.d = 0 -> 0
                      [] enc.d > 0 -> enc.fn + (IF cfg.stride = 4 THEN 2 ELSE 1)]

-----------------------------------------------------------------------------
(***************************************************************************)
(* One I or P frame after the other: encode_deep_sequence,                 *)
(* encode_mbaff_sequence, encode_mbaff_cabac_sequence and                  *)
(* encode_slices_sequence, the last with several slices to a picture.      *)
(* cfg.slices lists them in the order sent, each with TRUE for a copy that *)
(* belongs to a redundant picture.                                         *)
(***************************************************************************)
SequenceFrame ==
  /\ cfg.kind = "sequence"
  /\ enc.k < cfg.frames
  /\ LET k    == enc.k
         base == [Blank EXCEPT !.id = coded, !.display = k, !.idr = (k = 0), !.slices = cfg.slices]
     IN  Code(<<Numbered(IF cfg.p /\ k > 0 THEN Predicted(base, <<<<coded - 1, "frame">>>>) ELSE base,
                         k, 2 * k)>>)
  /\ enc' = [k |-> enc.k + 1]

-----------------------------------------------------------------------------
EncoderInit ==
  /\ cfg \in Drivers
  /\ coded = 0
  /\ todo = <<>>
  /\ enc = CASE cfg.kind = "session" ->
                  [idx |-> 0, pending |-> <<>>, gopStart |-> 0, decInGop |-> 0, nextRef |-> 0,
                   prev |-> None, id |-> 0]
             [] cfg.kind = "multiref" -> [k |-> 0, dpb |-> {}]
             [] cfg.kind = "paff"     -> [k |-> 0, anchor |-> Pair(0), last |-> Pair(0)]
             [] cfg.kind = "paff_b"   -> [d |-> 0, fn |-> 0, prev |-> Pair(0)]
             [] cfg.kind = "sequence" -> [k |-> 0]

EncoderDone ==
  /\ todo = <<>>
  /\ CASE cfg.kind = "session" -> enc.idx = cfg.frames /\ enc.pending = <<>>
       [] cfg.kind = "paff_b"  -> enc.d >= cfg.frames
       [] OTHER                -> enc.k = cfg.frames
=============================================================================
