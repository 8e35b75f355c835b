------------------------------ MODULE RefMarking ------------------------------
(***************************************************************************)
(* Decoded reference picture marking, clause 8.2.5, as src/src/ref_list.rs *)
(* computes it.                                                            *)
(*                                                                         *)
(* The code keeps the reference pictures in dpb_entries, a Vec in which    *)
(* every new entry is appended with a freshly minted dpb_key and from      *)
(* which entries are only removed.  Position order is therefore key order, *)
(* and a DPB is modelled as a function from the live keys to entries: "the *)
(* first entry such that" is the one with the least key.                   *)
(*                                                                         *)
(* Picture order counts, samples and motion data are left out: no marking  *)
(* operation reads them.                                                   *)
(***************************************************************************)
EXTENDS Integers, FiniteSets, FiniteSetsExt

CONSTANT MaxFrameNum      \* 2 ^ (log2_max_frame_num_minus4 + 4)

ASSUME MaxFrameNumAssumption == MaxFrameNum \in Nat \ {0}

Marking   == {"short", "long", "unused"}
Parity    == {"top", "bottom"}
Structure == {"frame", "top", "bottom"}

Opposite(p) == IF p = "top" THEN "bottom" ELSE "top"

IsField(e) == e.structure \in Parity

\* A frame carries both its fields, a coded field only its own parity.
HasField(e, p) == e.structure \in {"frame", p}

\* mark_all / sync_field_markings: the unit and every decoded field.
MarkAll(e, m) ==
  [e EXCEPT !.marking = m,
            !.field = [p \in Parity |-> IF HasField(e, p) THEN m ELSE "unused"]]

\* The frame-level marking that per-field markings f give a structure.
UnitMarking(structure, f) ==
  IF structure \in Parity THEN f[structure]
  ELSE IF f["top"] = f["bottom"] THEN f["top"] ELSE "unused"

\* A field marked without resyncing the frame-level marking.
SetFieldMarkingOnly(e, p, m) == [e EXCEPT !.field[p] = m]

SetFieldMarking(e, p, m) ==
  LET f == [e.field EXCEPT ![p] = m]
  IN  [e EXCEPT !.field = f, !.marking = UnitMarking(e.structure, f)]

HasFieldMarked(e, p, m) == HasField(e, p) /\ e.field[p] = m
AnyFieldIs(e, m)        == \E p \in Parity : HasFieldMarked(e, p, m)
IsAnyFieldRef(e)        == AnyFieldIs(e, "short") \/ AnyFieldIs(e, "long")

(***************************************************************************)
(* Picture numbers (eq. 8-27 to 8-33).  cur is the frame_num of the        *)
(* current picture, curStruct its structure.                               *)
(***************************************************************************)
FrameNumWrap(frameNum, cur) ==
  IF frameNum > cur THEN frameNum - MaxFrameNum ELSE frameNum

FieldPicNum(e, p, cur, curStruct) ==
  2 * FrameNumWrap(e.frameNum, cur) + (IF p = curStruct THEN 1 ELSE 0)

FieldLongTermPicNum(e, p, curStruct) ==
  2 * e.ltIdx + (IF p = curStruct THEN 1 ELSE 0)

CurrPicNum(cur, curStruct) == IF curStruct = "frame" THEN cur ELSE 2 * cur + 1

PicNumX(cur, curStruct, diff) == CurrPicNum(cur, curStruct) - (diff + 1)

-----------------------------------------------------------------------------
(***************************************************************************)
(* ref_units.  The code walks the entries in order and pairs a field with  *)
(* the first later unused field of the same frame_num and the opposite     *)
(* parity.  Since every earlier field is then used up, that greedy walk    *)
(* pairs the n-th top with the n-th bottom field of a frame_num.           *)
(***************************************************************************)
RefKeys(d) == {k \in DOMAIN d : IsAnyFieldRef(d[k])}

SameParityUpTo(d, k) ==
  {j \in RefKeys(d) : /\ j <= k
                      /\ d[j].structure = d[k].structure
                      /\ d[j].frameNum = d[k].frameNum}

\* Fields paired by parity alone.
PairedAnyFrame(d, j, k) ==
  IsField(d[j]) /\ IsField(d[k]) /\ d[j].structure # d[k].structure

Paired(d, j, k) ==
  /\ IsField(d[j]) /\ IsField(d[k])
  /\ d[j].frameNum = d[k].frameNum
  /\ d[j].structure # d[k].structure
  /\ Cardinality(SameParityUpTo(d, j)) = Cardinality(SameParityUpTo(d, k))

Unit(d, k)  == {j \in RefKeys(d) : j = k \/ Paired(d, j, k)}
RefUnits(d) == {Unit(d, k) : k \in RefKeys(d)}

UnitHas(d, u, m) == \E k \in u : AnyFieldIs(d[k], m)

MarkUnused(d, keys) ==
  [k \in DOMAIN d |-> IF k \in keys THEN MarkAll(d[k], "unused") ELSE d[k]]

\* Entries kept although nothing of them is a reference any more.
RetainedAll(d) == d

\* dpb_entries.retain(|e| e.is_any_field_ref())
Retained(d) == [k \in RefKeys(d) |-> d[k]]

(***************************************************************************)
(* Sliding window, 8.2.5.3.  structure is the structure of the picture     *)
(* about to be added, "frame" also for a synthetic gap frame (the code     *)
(* passes None for it, and a frame is never exempt).                       *)
(***************************************************************************)
\* Without the exemption for second fields.
NeverExempt(d, frameNum, structure) == FALSE

SecondOfShortTermPair(d, frameNum, structure) ==
  /\ structure \in Parity
  /\ \E k \in DOMAIN d : /\ IsField(d[k])
                         /\ d[k].frameNum = frameNum
                         /\ d[k].structure # structure
                         /\ d[k].marking = "short"

UnitsWith(d, m) == {u \in RefUnits(d) : UnitHas(d, u, m)}

\* The newest unit evicted instead of the oldest.
NewerUnit(d, cur, u, v) ==
  FrameNumWrap(d[Min(u)].frameNum, cur) >= FrameNumWrap(d[Min(v)].frameNum, cur)

\* The short-term unit with the least FrameNumWrap of its first entry, the
\* earlier one of two that tie (Iterator::min_by_key keeps the first).
OlderUnit(d, cur, u, v) ==
  LET a == FrameNumWrap(d[Min(u)].frameNum, cur)
      b == FrameNumWrap(d[Min(v)].frameNum, cur)
  IN  a < b \/ (a = b /\ Min(u) <= Min(v))

OldestShortTermUnit(d, cur) ==
  CHOOSE u \in UnitsWith(d, "short") :
    \A v \in UnitsWith(d, "short") : OlderUnit(d, cur, u, v)

AtLeastOne(n) == IF n = 0 THEN 1 ELSE n          \* max_num_ref_frames.max(1)

\* The window allowed to overflow by one before it slides.
WindowOverfull(d, maxNumRefFrames) ==
  Cardinality(UnitsWith(d, "short")) + Cardinality(UnitsWith(d, "long"))
    > AtLeastOne(maxNumRefFrames)

WindowFull(d, maxNumRefFrames) ==
  Cardinality(UnitsWith(d, "short")) + Cardinality(UnitsWith(d, "long"))
    >= AtLeastOne(maxNumRefFrames)

SlidingWindow(d, maxNumRefFrames, frameNum, structure) ==
  IF \/ SecondOfShortTermPair(d, frameNum, structure)
     \/ ~ WindowFull(d, maxNumRefFrames)
     \/ UnitsWith(d, "short") = {}
  THEN d
  ELSE MarkUnused(d, OldestShortTermUnit(d, frameNum))

-----------------------------------------------------------------------------
(***************************************************************************)
(* The six memory management control operations, 8.2.5.4.  c is the entry  *)
(* of the current picture; frameNum its frame_num as coded.                *)
(***************************************************************************)

\* find_st_field: the first entry, and its top field before its bottom one.
ShortTermFieldsAt(d, c, diff) ==
  {t \in (DOMAIN d) \X Parity :
     /\ HasFieldMarked(d[t[1]], t[2], "short")
     /\ FieldPicNum(d[t[1]], t[2], c.frameNum, c.structure)
          = PicNumX(c.frameNum, c.structure, diff)}

LongTermFieldsAt(d, c, picNum) ==
  {t \in (DOMAIN d) \X Parity :
     /\ HasFieldMarked(d[t[1]], t[2], "long")
     /\ FieldLongTermPicNum(d[t[1]], t[2], c.structure) = picNum}

FirstField(fields) ==
  LET k == Min({t[1] : t \in fields})
  IN  <<k, IF <<k, "top">> \in fields THEN "top" ELSE "bottom">>

ShortTermFramesAt(d, c, diff) ==
  {k \in DOMAIN d : /\ d[k].marking = "short"
                    /\ FrameNumWrap(d[k].frameNum, c.frameNum)
                         = PicNumX(c.frameNum, "frame", diff)}

LongTermFramesAt(d, picNum) ==
  {k \in DOMAIN d : d[k].marking = "long" /\ d[k].ltIdx = picNum}

\* MMCO 1
MarkShortTermUnused(d, c, diff) ==
  IF IsField(c)
  THEN IF ShortTermFieldsAt(d, c, diff) = {} THEN d
       ELSE LET t == FirstField(ShortTermFieldsAt(d, c, diff))
            IN  [d EXCEPT ![t[1]] = SetFieldMarking(@, t[2], "unused")]
  ELSE MarkUnused(d, ShortTermFramesAt(d, c, diff))

\* MMCO 2
MarkLongTermUnused(d, c, picNum) ==
  IF IsField(c)
  THEN IF LongTermFieldsAt(d, c, picNum) = {} THEN d
       ELSE LET t == FirstField(LongTermFieldsAt(d, c, picNum))
            IN  [d EXCEPT ![t[1]] = SetFieldMarking(@, t[2], "unused")]
  ELSE MarkUnused(d, LongTermFramesAt(d, picNum))

(***************************************************************************)
(* evict_ltfi: the previous holder of a LongTermFrameIdx loses it, unless  *)
(* it is the other field of the frame that gains it.  spareEntry is that   *)
(* frame's entry together with the gaining parity (when the frame is one   *)
(* entry), spareFrameNum its frame_num (when its fields are entries of     *)
(* their own); both are sets of at most one element, empty for None.       *)
(***************************************************************************)
SparedHolder(e, k, p, spareEntry, spareFrameNum) ==
  \/ \E s \in spareEntry : s[1] = k /\ s[2] # p
  \/ IsField(e) /\ e.frameNum \in spareFrameNum

EvictHolder(e, k, spareEntry, spareFrameNum) ==
  IF \A p \in Parity : HasFieldMarked(e, p, "long")
  THEN MarkAll(e, "unused")
  ELSE LET p == CHOOSE q \in Parity : HasFieldMarked(e, q, "long")
       IN  IF SparedHolder(e, k, p, spareEntry, spareFrameNum) THEN e
           ELSE SetFieldMarking(e, p, "unused")

\* An index reassigned without unmarking its previous holder.
NoEviction(d, idx, spareEntry, spareFrameNum) == d

EvictLongTermIdx(d, idx, spareEntry, spareFrameNum) ==
  [k \in DOMAIN d |->
     IF d[k].ltIdx = idx /\ AnyFieldIs(d[k], "long")
     THEN EvictHolder(d[k], k, spareEntry, spareFrameNum)
     ELSE d[k]]

\* MMCO 3
AssignLongTermField(d, c, diff, idx) ==
  IF ShortTermFieldsAt(d, c, diff) = {} THEN EvictLongTermIdx(d, idx, {}, {})
  ELSE LET t == FirstField(ShortTermFieldsAt(d, c, diff))
           evicted == EvictLongTermIdx(d, idx, {t}, {d[t[1]].frameNum})
       IN  [evicted EXCEPT
              ![t[1]] = [SetFieldMarking(@, t[2], "long") EXCEPT !.ltIdx = idx]]

AssignLongTermFrame(d, c, diff, idx) ==
  LET evicted == EvictLongTermIdx(d, idx, {}, {})
      hits    == ShortTermFramesAt(evicted, c, diff)
  IN  [k \in DOMAIN d |->
         IF k \in hits THEN [MarkAll(evicted[k], "long") EXCEPT !.ltIdx = idx]
         ELSE evicted[k]]

AssignLongTerm(d, c, diff, idx) ==
  IF IsField(c) THEN AssignLongTermField(d, c, diff, idx)
  ELSE AssignLongTermFrame(d, c, diff, idx)

\* A long-term field above the maximum index demoted instead of unmarked.
DemoteLong(e) ==
  LET f == [p \in Parity |-> IF HasFieldMarked(e, p, "long") THEN "short" ELSE e.field[p]]
  IN  [e EXCEPT !.field = f, !.marking = UnitMarking(e.structure, f)]

\* MMCO 4: every long-term field above the new maximum index.
UnmarkLong(e) ==
  LET f == [p \in Parity |-> IF HasFieldMarked(e, p, "long") THEN "unused" ELSE e.field[p]]
  IN  [e EXCEPT !.field = f, !.marking = UnitMarking(e.structure, f)]

SetMaxLongTermIdx(d, maxPlus1) ==
  [k \in DOMAIN d |->
     IF AnyFieldIs(d[k], "long") /\ d[k].ltIdx >= maxPlus1
     THEN UnmarkLong(d[k]) ELSE d[k]]

\* MMCO 5, and IDR pictures.
MarkAllUnused(d) == MarkUnused(d, DOMAIN d)

\* MMCO 6, on the current picture and on the DPB.
CurrentLongTerm(c, idx) == [MarkAll(c, "long") EXCEPT !.ltIdx = idx]

\* The other field of the current frame, already long-term, shares the index.
IsLongTermMate(e, c) ==
  /\ IsField(c) /\ IsField(e)
  /\ e.frameNum = c.frameNum
  /\ e.structure # c.structure
  /\ AnyFieldIs(e, "long")

AssignCurrentLongTerm(d, c, idx) ==
  LET evicted == EvictLongTermIdx(d, idx, {}, IF IsField(c) THEN {c.frameNum} ELSE {})
  IN  [k \in DOMAIN d |->
         IF IsLongTermMate(evicted[k], c) THEN [evicted[k] EXCEPT !.ltIdx = idx]
         ELSE evicted[k]]

\* perform_marking, last step: the current picture is short-term unless an
\* operation 6 made it long-term.
MarkedCurrent(c) == MarkAll(c, IF c.marking = "long" THEN "long" ELSE "short")
=============================================================================
