---------------------------------- MODULE Dpb ----------------------------------
(***************************************************************************)
(* The reference side of the decoded picture buffer as H264CodecDecoder    *)
(* drives it (src/src/h264_decoder.rs): the frame_num gate and gap filling *)
(* of handle_slice_with_dp, and the reference marking, retention and       *)
(* storing of finalize_in_progress_picture, over the marking operations of *)
(* RefMarking.                                                             *)
(*                                                                         *)
(* The decoder is sequential.  Each iteration of its two loops, one gap    *)
(* frame or one memory management control operation, is a step of its own, *)
(* so that gaps and operation lists of every length are covered; phase is  *)
(* the program counter.  The operations of a list are chosen as they are   *)
(* applied: nothing in the code looks ahead in the list.                   *)
(***************************************************************************)
EXTENDS RefMarking

CONSTANTS
  MaxNumRefFrames,   \* SPS max_num_ref_frames
  GapsAllowed,       \* SPS gaps_in_frame_num_value_allowed_flag
  Diffs,             \* the difference_of_pic_nums_minus1 values a stream codes
  LtIdx,             \* the long_term_frame_idx values a stream codes
  Structures,        \* the picture structures a stream codes
  Modes,             \* the adaptive_ref_pic_marking_mode_flag values it codes
  Conforming,        \* TRUE: only streams obeying the frame_num rules of 7.4.3
  MaxPictures        \* bound: keys minted before the stream ends

ASSUME DpbAssumption ==
  /\ MaxNumRefFrames \in Nat
  /\ GapsAllowed \in BOOLEAN
  /\ Diffs \subseteq Nat
  /\ LtIdx \subseteq Nat
  /\ Structures \subseteq Structure
  /\ Modes \subseteq BOOLEAN
  /\ Conforming \in BOOLEAN
  /\ MaxPictures \in Nat

VARIABLES
  dpb,       \* dpb_entries, a function from live keys to entries
  store,     \* the keys of ref_store
  nextKey,   \* next_dpb_key
  prevRef,   \* prev_ref_frame_num, -1 for None
  phase,     \* "idle", "gap", "open" or "mmco"
  pic,       \* the first slice header of the picture in progress
  cur,       \* current_entry while operations are applied
  gap,       \* fill_frame_num_gap: expected, and the key of its first frame
  mmco5,     \* mmco5_triggered
  first      \* the stream's view: the field that awaits its second field

vars == <<dpb, store, nextKey, prevRef, phase, pic, cur, gap, mmco5, first>>

FrameNums == 0 .. MaxFrameNum - 1

NoGap == [expected |-> 0, firstKey |-> 0]

\* frame is a history field: the key of the first field of the same frame.
Entry == [frameNum : FrameNums, ltIdx : Nat, structure : Structure,
          marking : Marking, field : [Parity -> Marking], frame : Nat]

NewEntry(frameNum, structure, frame) ==
  MarkAll([frameNum |-> frameNum, ltIdx |-> 0, structure |-> structure,
           marking |-> "short", field |-> [p \in Parity |-> "unused"],
           frame |-> frame], "short")

NoEntry == NewEntry(0, "frame", 0)

\* What the first slice header of a picture tells the reference DPB.
Header == [idr : BOOLEAN, ref : BOOLEAN, frameNum : FrameNums,
           structure : Structure, longTermFlag : BOOLEAN, adaptive : BOOLEAN]

NoHeader == [idr |-> FALSE, ref |-> FALSE, frameNum |-> 0,
             structure |-> "frame", longTermFlag |-> FALSE, adaptive |-> FALSE]

\* An IDR picture is a reference with frame_num 0 and no operation list; the
\* long_term_reference_flag belongs to IDR pictures (7.3.3.3).
WellFormed(h) ==
  /\ h.structure \in Structures
  /\ h.idr => h.ref /\ h.frameNum = 0 /\ ~ h.adaptive
  /\ h.longTermFlag => h.idr
  /\ h.adaptive => h.ref
  /\ h.ref /\ ~ h.idr => h.adaptive \in Modes

NoField == [structure |-> "frame", frameNum |-> 0, ref |-> FALSE, key |-> 0]

IsSecondField(h) ==
  /\ first # NoField
  /\ ~ h.idr
  /\ h.structure = Opposite(first.structure)
  /\ h.frameNum = first.frameNum
  /\ h.ref = first.ref

Successor(n) == (n + 1) % MaxFrameNum

\* Samples of dead entries kept, as before the store was pruned.
KeptAll(keys, live) == keys

\* prune_ref_store: release the samples of entries that are gone.
Pruned(keys, live) == keys \cap live

(***************************************************************************)
(* 7.4.3: a stream starts with an IDR picture; a new frame never repeats   *)
(* the frame_num of the preceding reference frame, skips values only when  *)
(* gaps are allowed, and neither takes nor skips one that a short-term     *)
(* reference has (UnusedShortTermFrameNum).  The frames filled into a gap  *)
(* slide the window as well (8.2.5.2).                                     *)
(***************************************************************************)
FramesAhead(frameNum) == (frameNum - prevRef) % MaxFrameNum

NoShortTermUpTo(frameNum) ==
  \A k \in DOMAIN dpb :
    AnyFieldIs(dpb[k], "short") => ~ FramesAhead(dpb[k].frameNum) \in 1 .. FramesAhead(frameNum)

StreamMayCode(h) ==
  Conforming =>
    \/ h.idr
    \/ IsSecondField(h)
    \/ /\ prevRef # -1
       /\ h.frameNum # prevRef
       /\ NoShortTermUpTo(h.frameNum)
       /\ \/ h.frameNum = Successor(prevRef)
          \/ GapsAllowed /\ Cardinality(UnitsWith(dpb, "long")) < AtLeastOne(MaxNumRefFrames)

\* An operation list assigns the current picture's LongTermFrameIdx once.
StreamMayAssign(idx) == Conforming => ~ (cur.marking = "long" /\ cur.ltIdx = idx)

Frames(d) == {d[k].frame : k \in RefKeys(d)}

\* 8.2.5.1 requires a stream's operations to leave at most max_num_ref_frames
\* frames marked, and a window that must slide to hold a short-term one.
MarkingMayLeave(d) ==
  Conforming => Cardinality(Frames(d)) <= AtLeastOne(MaxNumRefFrames)

WindowMaySlide(d, h) ==
  Conforming => \/ IsSecondField(h)
                \/ Cardinality(UnitsWith(d, "long")) < AtLeastOne(MaxNumRefFrames)

-----------------------------------------------------------------------------
Init ==
  /\ dpb = [k \in {} |-> 0]
  /\ store = {}
  /\ nextKey = 0
  /\ prevRef = -1
  /\ phase = "idle"
  /\ pic = NoHeader
  /\ cur = NoEntry
  /\ gap = NoGap
  /\ mmco5 = FALSE
  /\ first = NoField

\* The frame_num check of handle_slice_with_dp; a picture that fails it is
\* rejected without any effect here.
PassesGate(h) ==
  \/ h.idr \/ GapsAllowed \/ prevRef = -1
  \/ h.frameNum \in {prevRef, Successor(prevRef)}

NeedsGapFill(h) ==
  /\ ~ h.idr /\ GapsAllowed
  /\ prevRef # -1
  /\ Successor(prevRef) # h.frameNum

OpenPicture(h) ==
  /\ phase = "idle"
  /\ nextKey < MaxPictures
  /\ PassesGate(h)
  /\ pic' = h
  /\ IF NeedsGapFill(h)
     THEN /\ phase' = "gap"
          /\ gap' = [expected |-> Successor(prevRef), firstKey |-> nextKey]
     ELSE phase' = "open" /\ UNCHANGED gap
  /\ UNCHANGED <<dpb, store, nextKey, prevRef, cur, mmco5, first>>

\* One iteration of the loop of fill_frame_num_gap.
GapStep ==
  /\ phase = "gap"
  /\ gap.expected # pic.frameNum
  /\ nextKey < MaxPictures
  /\ LET slid == SlidingWindow(dpb, MaxNumRefFrames, gap.expected, "frame")
         kept == Retained(slid)
     IN  dpb' = [k \in (DOMAIN kept) \cup {nextKey} |->
                   IF k = nextKey THEN NewEntry(gap.expected, "frame", nextKey)
                   ELSE kept[k]]
  /\ nextKey' = nextKey + 1
  /\ prevRef' = gap.expected
  /\ gap' = [gap EXCEPT !.expected = Successor(@)]
  /\ UNCHANGED <<store, phase, pic, cur, mmco5, first>>

\* Gray pictures for the gap frames that survived, then prune_ref_store.
GapDone ==
  /\ phase = "gap"
  /\ gap.expected = pic.frameNum
  /\ phase' = "open"
  /\ store' = Pruned(store \cup gap.firstKey .. nextKey - 1, DOMAIN dpb)
  /\ gap' = NoGap
  /\ UNCHANGED <<dpb, nextKey, prevRef, pic, cur, mmco5, first>>

\* in_progress.take(): nothing of the picture is left once it is finalized.
Close ==
  /\ phase' = "idle"
  /\ pic' = NoHeader
  /\ cur' = NoEntry
  /\ mmco5' = FALSE

\* No slice of the picture succeeded, or some macroblock was never decoded.
DropPicture ==
  /\ phase = "open"
  /\ ~ Conforming
  /\ Close
  /\ first' = NoField
  /\ UNCHANGED <<dpb, store, nextKey, prevRef, gap>>

-----------------------------------------------------------------------------
\* The key of the frame a picture belongs to, and what the stream may still
\* complete once the picture is decoded.
FrameKey(h, key) == IF IsSecondField(h) THEN first.key ELSE key

AwaitsSecond(h, frameNum, key) ==
  IF h.structure \in Parity /\ ~ IsSecondField(h)
  THEN [structure |-> h.structure, frameNum |-> frameNum, ref |-> h.ref, key |-> key]
  ELSE NoField

\* The end of the reference branch of finalize_in_progress_picture: retain,
\* insert into the store, push, prune, remember frame_num.
StoreCurrent(d, c, key, frameNum) ==
  LET kept == Retained(d)
  IN  /\ dpb' = [k \in (DOMAIN kept) \cup {key} |->
                   IF k = key THEN [c EXCEPT !.frameNum = frameNum] ELSE kept[k]]
      /\ store' = Pruned(store \cup {key}, (DOMAIN kept) \cup {key})
      /\ prevRef' = frameNum
      /\ first' = AwaitsSecond(pic, frameNum, c.frame)
      /\ Close
      /\ UNCHANGED gap

FinalizeNonReference ==
  /\ phase = "open"
  /\ ~ pic.ref
  /\ nextKey' = nextKey + 1
  /\ first' = AwaitsSecond(pic, pic.frameNum, nextKey)
  /\ Close
  /\ UNCHANGED <<dpb, store, prevRef, gap>>

FinalizeIdr ==
  /\ phase = "open"
  /\ pic.idr
  /\ LET c == NewEntry(pic.frameNum, pic.structure, FrameKey(pic, nextKey))
     IN  StoreCurrent(MarkAllUnused(dpb),
                      IF pic.longTermFlag THEN MarkAll(c, "long") ELSE c,
                      nextKey, pic.frameNum)
  /\ nextKey' = nextKey + 1

FinalizeSlidingWindow ==
  /\ phase = "open"
  /\ pic.ref /\ ~ pic.idr /\ ~ pic.adaptive
  /\ WindowMaySlide(dpb, pic)
  /\ StoreCurrent(SlidingWindow(dpb, MaxNumRefFrames, pic.frameNum, pic.structure),
                  NewEntry(pic.frameNum, pic.structure, FrameKey(pic, nextKey)),
                  nextKey, pic.frameNum)
  /\ nextKey' = nextKey + 1

BeginAdaptiveMarking ==
  /\ phase = "open"
  /\ pic.adaptive
  /\ phase' = "mmco"
  /\ cur' = NewEntry(pic.frameNum, pic.structure, FrameKey(pic, nextKey))
  /\ nextKey' = nextKey + 1
  /\ mmco5' = FALSE
  /\ UNCHANGED <<dpb, store, prevRef, pic, gap, first>>

-----------------------------------------------------------------------------
\* One iteration of the loop of apply_mmco.
MarkingStep(d) ==
  /\ phase = "mmco"
  /\ dpb' = d
  /\ UNCHANGED <<store, nextKey, prevRef, phase, pic, gap, first>>

\* LongTermPicNum values: of frames, and of fields of either parity.
LongTermNums == LtIdx \cup {2 * i : i \in LtIdx} \cup {2 * i + 1 : i \in LtIdx}

Mmco1(diff) == MarkingStep(MarkShortTermUnused(dpb, cur, diff)) /\ UNCHANGED <<cur, mmco5>>
Mmco2(num)  == MarkingStep(MarkLongTermUnused(dpb, cur, num)) /\ UNCHANGED <<cur, mmco5>>

Mmco3(diff, idx) ==
  /\ StreamMayAssign(idx)
  /\ MarkingStep(AssignLongTerm(dpb, cur, diff, idx))
  /\ UNCHANGED <<cur, mmco5>>

Mmco4(maxPlus1) == MarkingStep(SetMaxLongTermIdx(dpb, maxPlus1)) /\ UNCHANGED <<cur, mmco5>>

Mmco5 ==
  /\ MarkingStep(MarkAllUnused(dpb))
  /\ mmco5' = TRUE
  /\ UNCHANGED cur

Mmco6(idx) ==
  /\ Conforming => cur.marking # "long"
  /\ MarkingStep(AssignCurrentLongTerm(dpb, cur, idx))
  /\ cur' = CurrentLongTerm(cur, idx)
  /\ UNCHANGED mmco5

\* A picture that carried operation 5 is stored with frame_num 0.
EndAdaptiveMarking ==
  /\ phase = "mmco"
  /\ LET c == MarkedCurrent(cur)
         frameNum == IF mmco5 THEN 0 ELSE cur.frameNum
     IN  StoreCurrent(dpb, c, nextKey - 1, frameNum)
  /\ MarkingMayLeave(dpb')
  /\ UNCHANGED nextKey

AdaptiveMarkingStep ==
  \/ \E diff \in Diffs : Mmco1(diff)
  \/ \E num \in LongTermNums : Mmco2(num)
  \/ \E diff \in Diffs, idx \in LtIdx : Mmco3(diff, idx)
  \/ \E i \in LtIdx \cup {0} : Mmco4(i)
  \/ Mmco5
  \/ \E idx \in LtIdx : Mmco6(idx)
  \/ EndAdaptiveMarking

Next ==
  \/ \E h \in Header : WellFormed(h) /\ StreamMayCode(h) /\ OpenPicture(h)
  \/ GapStep
  \/ GapDone
  \/ DropPicture
  \/ FinalizeNonReference
  \/ FinalizeIdr
  \/ FinalizeSlidingWindow
  \/ BeginAdaptiveMarking
  \/ AdaptiveMarkingStep

Spec == Init /\ [][Next]_vars

-----------------------------------------------------------------------------
(***************************************************************************)
(* Correctness.                                                            *)
(***************************************************************************)

\* Type invariant: the variables hold entries, keys and headers.
TypeOK ==
  /\ DOMAIN dpb \subseteq 0 .. nextKey - 1
  /\ dpb = [k \in DOMAIN dpb |-> dpb[k]]
  /\ \A k \in DOMAIN dpb : dpb[k] \in Entry
  /\ store \subseteq 0 .. nextKey - 1
  /\ nextKey \in Nat
  /\ prevRef \in FrameNums \cup {-1}
  /\ phase \in {"idle", "gap", "open", "mmco"}
  /\ pic \in Header
  /\ cur \in Entry
  /\ gap \in [expected : FrameNums, firstKey : Nat]
  /\ mmco5 \in BOOLEAN
  /\ first \in [structure : Structure, frameNum : FrameNums, ref : BOOLEAN, key : Nat]

\* The frame-level marking of every entry is the one its fields' markings
\* give, and a coded field never marks the parity it lacks (DpbEntry::
\* field_markings: "keep the two in sync").
InSync(e) ==
  /\ e.marking = UnitMarking(e.structure, e.field)
  /\ \A p \in Parity : ~ HasField(e, p) => e.field[p] = "unused"

MarkingsInSync == InSync(cur) /\ \A k \in DOMAIN dpb : InSync(dpb[k])

\* Between markings the reference store holds the samples of exactly the DPB
\* entries: no entry without samples, no samples that nothing can refer to
\* (prune_ref_store).
StoreMatchesDpb == phase # "gap" => store = DOMAIN dpb

\* Outside a list of operations, every entry is still used for reference.
OnlyReferencesHeld == phase # "mmco" => DOMAIN dpb = RefKeys(dpb)

\* 8.2.5.3: for a conforming stream, at most Max(max_num_ref_frames, 1)
\* frames, complementary pairs and lone fields are used for reference, with
\* pairs completing, operation lists and gap frames in between.
WithinWindow == Cardinality(RefUnits(dpb)) <= AtLeastOne(MaxNumRefFrames)

\* Fields are grouped exactly by the frame they were coded in, although
\* ref_units only compares frame_num and parity.
UnitsAreFrames ==
  \A j, k \in RefKeys(dpb) : j \in Unit(dpb, k) <=> dpb[j].frame = dpb[k].frame

\* 8.2.5.4.3 and 8.2.5.4.6: a LongTermFrameIdx belongs to one frame only.
LongTermIdxUnique ==
  \A j, k \in DOMAIN dpb :
    /\ AnyFieldIs(dpb[j], "long")
    /\ AnyFieldIs(dpb[k], "long")
    /\ dpb[j].ltIdx = dpb[k].ltIdx
    => dpb[j].frame = dpb[k].frame

\* While the second field of a complementary reference field pair is decoded,
\* its first field is still in the DPB and may be referred to.
FirstFieldHeld ==
  phase = "open" /\ IsSecondField(pic) /\ pic.ref
    => \E k \in DOMAIN dpb : dpb[k].frame = first.key

\* 8.2.5.3: storing the second field of a complementary reference field pair
\* evicts neither field of the pair (sliding_window_marking's early return).
PairSurvivesSlidingWindow ==
  [][phase = "open" /\ phase' = "idle" /\ pic.ref /\ ~ pic.adaptive /\ IsSecondField(pic)
       => \A k \in DOMAIN dpb : dpb[k].frame = first.key => k \in DOMAIN dpb']_vars

\* The short-term references are the newest ones: while a picture is open, if
\* the frame i frame_nums back is held, so is every frame in between, coded or
\* filled into a gap.
FramesBack(k) == (pic.frameNum - dpb[k].frameNum) % MaxFrameNum

WindowIsNewest ==
  phase = "open" /\ ~ pic.idr =>
    \A k \in DOMAIN dpb : dpb[k].marking = "short" =>
      \A i \in 1 .. FramesBack(k) :
        \E j \in DOMAIN dpb : dpb[j].marking = "short" /\ FramesBack(j) = i

\* A reference picture only loses status: its fields go from short-term to
\* long-term to unused, an entry that left never returns, and what enters is
\* new.
Rank(m) == IF m = "short" THEN 2 ELSE IF m = "long" THEN 1 ELSE 0

NeverRevived ==
  [][/\ \A k \in (DOMAIN dpb') \ DOMAIN dpb : k >= nextKey - 1
     /\ \A k \in (DOMAIN dpb') \cap DOMAIN dpb, p \in Parity :
          Rank(dpb'[k].field[p]) <= Rank(dpb[k].field[p])]_vars
=============================================================================
