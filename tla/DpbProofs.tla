------------------------------- MODULE DpbProofs -------------------------------
(***************************************************************************)
(* Proofs about Dpb.                                                       *)
(*                                                                         *)
(* For every stream, conforming or not, the DPB entries keep frame and     *)
(* field markings in step, only references are held, the store holds       *)
(* exactly their samples, and a marking is never strengthened: each        *)
(* marking operation maps a well-formed DPB to a well-formed DPB with the  *)
(* same keys and weaker-or-equal field markings (Fades); Inv says where    *)
(* every key comes from in each phase.                                     *)
(*                                                                         *)
(* For conforming streams, the window is never exceeded, pairs stay        *)
(* together, a unit is a frame, an index belongs to one frame, and the     *)
(* window holds the newest frames.  Units are counted by labels (kind,     *)
(* frame_num and rank, which both fields of a pair share), StreamInv       *)
(* relates what the stream knows of its pictures to the entries, and       *)
(* WindowInv, TellsInv, LongInv and NewestInv are built on it.             *)
(***************************************************************************)
EXTENDS Dpb, FiniteSetTheorems, TLAPS

\* A DPB of well-formed entries.
IsDpb(d) ==
  /\ DOMAIN d \subseteq Nat
  /\ d = [k \in DOMAIN d |-> d[k]]
  /\ \A k \in DOMAIN d : d[k] \in Entry /\ InSync(d[k])

\* g is a well-formed entry of the same picture as e, and its fields are marked
\* no stronger.
Weakens(e, g) ==
  /\ g \in Entry /\ InSync(g)
  /\ g.structure = e.structure /\ g.frameNum = e.frameNum /\ g.frame = e.frame
  /\ \A p \in Parity : Rank(g.field[p]) <= Rank(e.field[p])

\* e results from d by an operation that only weakens markings.
Fades(d, e) ==
  /\ DOMAIN e = DOMAIN d
  /\ e = [k \in DOMAIN d |-> e[k]]
  /\ \A k \in DOMAIN d : Weakens(d[k], e[k])

-----------------------------------------------------------------------------
(* Lemmas about single entries. *)

\* The least element of a non-empty set of naturals is one of its elements.
LEMMA MinInSet ==
  ASSUME NEW T \in SUBSET Nat, T # {}
  PROVE  Min(T) \in T /\ \A y \in T : Min(T) <= y
<1>1. IsWellFoundedOn({ss \in Nat \X Nat : ss[1] < ss[2]}, Nat)
  BY NatLessThanWellFounded, Zenon DEF OpToRel
<1>2. PICK x \in T : \A y \in T : ~ (<<y, x>> \in {ss \in Nat \X Nat : ss[1] < ss[2]})
  BY <1>1, WFMin
<1>3. \A y \in T : x <= y
  <2>. SUFFICES ASSUME NEW y \in T PROVE ~ (y < x)
    OBVIOUS
  <2>. QED
    BY <1>2
<1>. QED
  BY <1>3 DEF Min

\* mark_all and sync_field_markings leave entry and fields agreeing.
LEMMA MarkAllEntry ==
  ASSUME NEW e \in Entry, NEW m \in Marking
  PROVE  /\ MarkAll(e, m) \in Entry
         /\ InSync(MarkAll(e, m))
         /\ \A p \in Parity : MarkAll(e, m).field[p] = IF HasField(e, p) THEN m ELSE "unused"
         /\ MarkAll(e, m).structure = e.structure
         /\ MarkAll(e, m).frameNum = e.frameNum /\ MarkAll(e, m).frame = e.frame
         /\ MarkAll(e, m).marking = m
BY DEF MarkAll, Entry, InSync, UnitMarking, HasField, Marking, Parity, Structure

\* set_field_marking changes one field and resyncs the frame-level marking.
LEMMA SetFieldMarkingEntry ==
  ASSUME NEW e \in Entry, InSync(e), NEW p \in Parity, HasField(e, p), NEW m \in Marking
  PROVE  /\ SetFieldMarking(e, p, m) \in Entry
         /\ InSync(SetFieldMarking(e, p, m))
         /\ \A q \in Parity : SetFieldMarking(e, p, m).field[q] = IF q = p THEN m ELSE e.field[q]
         /\ SetFieldMarking(e, p, m).structure = e.structure
         /\ SetFieldMarking(e, p, m).frameNum = e.frameNum
         /\ SetFieldMarking(e, p, m).frame = e.frame
BY DEF SetFieldMarking, Entry, InSync, UnitMarking, HasField, Marking, Parity, Structure

\* An index may be set on any entry without touching its markings.
LEMMA SetIdxEntry ==
  ASSUME NEW e \in Entry, InSync(e), NEW idx \in Nat
  PROVE  /\ [e EXCEPT !.ltIdx = idx] \in Entry
         /\ InSync([e EXCEPT !.ltIdx = idx])
         /\ [e EXCEPT !.ltIdx = idx].field = e.field
         /\ [e EXCEPT !.ltIdx = idx].structure = e.structure
         /\ [e EXCEPT !.ltIdx = idx].frameNum = e.frameNum
         /\ [e EXCEPT !.ltIdx = idx].frame = e.frame
BY DEF Entry, InSync, UnitMarking, HasField

\* The frame-level marking is one of the field markings, or unused.
LEMMA UnitMarkingType ==
  ASSUME NEW s \in Structure, NEW f \in [Parity -> Marking]
  PROVE  UnitMarking(s, f) \in Marking
BY DEF UnitMarking, Structure, Parity, Marking

\* MMCO 4 on one entry.
LEMMA UnmarkLongEntry ==
  ASSUME NEW e \in Entry, InSync(e)
  PROVE  Weakens(e, UnmarkLong(e))
<1>. DEFINE f == [p \in Parity |-> IF HasFieldMarked(e, p, "long") THEN "unused" ELSE e.field[p]]
<1>1. f \in [Parity -> Marking] /\ \A p \in Parity : f[p] \in {"unused", e.field[p]}
  BY DEF Entry, Marking
<1>2. UnitMarking(e.structure, f) \in Marking
  <2>. HIDE DEF f
  <2>. QED  BY <1>1, UnitMarkingType DEF Entry
<1>3. UnmarkLong(e) = [e EXCEPT !.field = f, !.marking = UnitMarking(e.structure, f)]
  BY DEF UnmarkLong
<1>4. UnmarkLong(e) \in Entry
  BY <1>1, <1>2, <1>3 DEF Entry
<1>5. /\ UnmarkLong(e).field = f
      /\ UnmarkLong(e).structure = e.structure
      /\ UnmarkLong(e).frameNum = e.frameNum /\ UnmarkLong(e).frame = e.frame
      /\ UnmarkLong(e).marking = UnitMarking(e.structure, f)
  BY <1>3 DEF Entry
<1>6. InSync(UnmarkLong(e))
  BY <1>1, <1>5 DEF InSync, HasField
<1>7. \A p \in Parity : Rank(UnmarkLong(e).field[p]) <= Rank(e.field[p])
  BY <1>1, <1>5 DEF Rank, Entry, Marking
<1>. QED
  BY <1>4, <1>5, <1>6, <1>7 DEF Weakens

\* The entry made for a new picture.
LEMMA NewEntryEntry ==
  ASSUME NEW n \in FrameNums, NEW s \in Structure, NEW f \in Nat
  PROVE  /\ NewEntry(n, s, f) \in Entry
         /\ InSync(NewEntry(n, s, f))
         /\ NewEntry(n, s, f).marking = "short"
         /\ NewEntry(n, s, f).frameNum = n
         /\ NewEntry(n, s, f).structure = s
         /\ NewEntry(n, s, f).frame = f
BY DEF NewEntry, MarkAll, Entry, InSync, UnitMarking, HasField, Marking, Parity, Structure

\* An entry in sync is a reference exactly when some field of it is.
LEMMA RefOfMarking ==
  ASSUME NEW e \in Entry, InSync(e), e.marking \in {"short", "long"}
  PROVE  IsAnyFieldRef(e)
BY DEF IsAnyFieldRef, AnyFieldIs, HasFieldMarked, Entry, InSync, UnitMarking, HasField,
       Marking, Parity, Structure

\* Ranks run from 0 (unused) to 2 (short-term).
LEMMA RankRange ==
  ASSUME NEW m
  PROVE  Rank(m) \in 0 .. 2 /\ Rank(m) <= Rank(m) /\ Rank("unused") <= Rank(m)
BY DEF Rank

\* Leaving an entry alone weakens it trivially.
LEMMA SameEntry ==
  ASSUME NEW e \in Entry, InSync(e)
  PROVE  Weakens(e, e)
BY RankRange DEF Weakens

\* mark_all(Unused) on one entry.
LEMMA MarkAllUnusedEntry ==
  ASSUME NEW e \in Entry
  PROVE  Weakens(e, MarkAll(e, "unused"))
<1>1. "unused" \in Marking
  BY DEF Marking
<1>2. \A p \in Parity : MarkAll(e, "unused").field[p] = "unused"
  BY <1>1, MarkAllEntry
<1>. QED
  BY <1>1, <1>2, MarkAllEntry, RankRange DEF Weakens

\* set_field_marking on a field that becomes weaker.
LEMMA WeakerFieldEntry ==
  ASSUME NEW e \in Entry, InSync(e), NEW q \in Parity, HasField(e, q),
         NEW m \in Marking, Rank(m) <= Rank(e.field[q])
  PROVE  Weakens(e, SetFieldMarking(e, q, m))
<1>1. \A p \in Parity : SetFieldMarking(e, q, m).field[p] = IF p = q THEN m ELSE e.field[p]
  BY SetFieldMarkingEntry
<1>. QED
  BY <1>1, SetFieldMarkingEntry, RankRange DEF Weakens

\* Setting the index after a weakening is still a weakening.
LEMMA WeakensSetIdx ==
  ASSUME NEW e, NEW g, Weakens(e, g), NEW idx \in Nat
  PROVE  Weakens(e, [g EXCEPT !.ltIdx = idx])
BY SetIdxEntry DEF Weakens

\* Two weakenings in a row are one.
LEMMA WeakensTransitive ==
  ASSUME NEW e, NEW g, NEW h, Weakens(e, g), Weakens(g, h)
  PROVE  Weakens(e, h)
<1>. SUFFICES ASSUME NEW p \in Parity
              PROVE  Rank(h.field[p]) <= Rank(e.field[p])
  BY DEF Weakens
<1>1. Rank(h.field[p]) <= Rank(g.field[p]) /\ Rank(g.field[p]) <= Rank(e.field[p])
  BY DEF Weakens
<1>2. Rank(h.field[p]) \in Int /\ Rank(g.field[p]) \in Int /\ Rank(e.field[p]) \in Int
  BY RankRange
<1>. QED
  BY <1>1, <1>2

\* The previous holder of an index, in evict_ltfi.
LEMMA EvictHolderEntry ==
  ASSUME NEW e \in Entry, InSync(e), AnyFieldIs(e, "long"),
         NEW k, NEW spareEntry, NEW spareFrameNum
  PROVE  Weakens(e, EvictHolder(e, k, spareEntry, spareFrameNum))
<1>. DEFINE q == CHOOSE q \in Parity : HasFieldMarked(e, q, "long")
<1>1. q \in Parity /\ HasFieldMarked(e, q, "long")
  BY DEF AnyFieldIs
<1>. HIDE DEF q
<1>2. Weakens(e, SetFieldMarking(e, q, "unused"))
  BY <1>1, WeakerFieldEntry, RankRange DEF HasFieldMarked, Marking
<1>3. EvictHolder(e, k, spareEntry, spareFrameNum)
        \in {MarkAll(e, "unused"), e, SetFieldMarking(e, q, "unused")}
  BY DEF EvictHolder, q
<1>. QED
  BY <1>2, <1>3, SameEntry, MarkAllUnusedEntry

-----------------------------------------------------------------------------
(* Lemmas about whole DPBs: each operation of 8.2.5 only weakens markings. *)

\* A weakened DPB is still a DPB with the same keys.
LEMMA FadesIsDpb ==
  ASSUME NEW d, IsDpb(d), NEW e, Fades(d, e)
  PROVE  IsDpb(e)
BY DEF IsDpb, Fades, Weakens

\* A DPB is a weakening of itself.
LEMMA FadesSame ==
  ASSUME NEW d, IsDpb(d)
  PROVE  Fades(d, d)
BY SameEntry DEF IsDpb, Fades

\* Marking any entries unused only weakens (sliding window, operation 5).
LEMMA MarkUnusedFades ==
  ASSUME NEW d, IsDpb(d), NEW keys
  PROVE  Fades(d, MarkUnused(d, keys))
BY SameEntry, MarkAllUnusedEntry DEF MarkUnused, Fades, IsDpb

\* evict_ltfi only weakens.
LEMMA EvictLongTermIdxFades ==
  ASSUME NEW d, IsDpb(d), NEW idx, NEW spareEntry, NEW spareFrameNum
  PROVE  Fades(d, EvictLongTermIdx(d, idx, spareEntry, spareFrameNum))
BY SameEntry, EvictHolderEntry DEF EvictLongTermIdx, Fades, IsDpb

\* Operation 4 only weakens.
LEMMA SetMaxLongTermIdxFades ==
  ASSUME NEW d, IsDpb(d), NEW maxPlus1
  PROVE  Fades(d, SetMaxLongTermIdx(d, maxPlus1))
BY SameEntry, UnmarkLongEntry DEF SetMaxLongTermIdx, Fades, IsDpb

\* sliding_window_marking only weakens.
LEMMA SlidingWindowFades ==
  ASSUME NEW d, IsDpb(d), NEW maxNumRefFrames, NEW frameNum, NEW structure
  PROVE  Fades(d, SlidingWindow(d, maxNumRefFrames, frameNum, structure))
BY FadesSame, MarkUnusedFades DEF SlidingWindow

\* The field find_st_field or find_lt_field returns is one of the candidates.
LEMMA FirstFieldIn ==
  ASSUME NEW fields, fields \subseteq Nat \X Parity, fields # {}
  PROVE  FirstField(fields) \in fields
<1>. DEFINE keys == {t[1] : t \in fields}
<1>1. Min(keys) \in keys
  <2>1. keys \in SUBSET Nat /\ keys # {}
    OBVIOUS
  <2>. HIDE DEF keys
  <2>. QED
    BY <2>1, MinInSet
<1>2. PICK t \in fields : t[1] = Min(keys)
  BY <1>1
<1>3. t = <<Min(keys), t[2]>> /\ t[2] \in Parity
  BY <1>2
<1>4. t[2] = "top" \/ t[2] = "bottom"
  BY <1>3 DEF Parity
<1>5. FirstField(fields)
        = <<Min(keys), IF <<Min(keys), "top">> \in fields THEN "top" ELSE "bottom">>
  BY DEF FirstField
<1>. QED
  BY <1>2, <1>3, <1>4, <1>5

\* Weakening one field of one entry.
LEMMA OneFieldFades ==
  ASSUME NEW d, IsDpb(d), NEW fields, fields \subseteq (DOMAIN d) \X Parity, fields # {},
         \A t \in fields : HasField(d[t[1]], t[2])
  PROVE  Fades(d, [d EXCEPT ![FirstField(fields)[1]] =
                     SetFieldMarking(@, FirstField(fields)[2], "unused")])
<1>. DEFINE t == FirstField(fields)
<1>1. t \in fields /\ t[1] \in DOMAIN d /\ t[2] \in Parity /\ HasField(d[t[1]], t[2])
  BY FirstFieldIn DEF IsDpb
<1>. HIDE DEF t
<1>2. Weakens(d[t[1]], SetFieldMarking(d[t[1]], t[2], "unused"))
  BY <1>1, WeakerFieldEntry, RankRange DEF IsDpb, Marking
<1>3. Fades(d, [d EXCEPT ![t[1]] = SetFieldMarking(@, t[2], "unused")])
  BY <1>1, <1>2, SameEntry DEF Fades, IsDpb
<1>. QED
  BY <1>3 DEF t

\* Operation 1 only weakens.
LEMMA MarkShortTermUnusedFades ==
  ASSUME NEW d, IsDpb(d), NEW c, NEW diff
  PROVE  Fades(d, MarkShortTermUnused(d, c, diff))
<1>1. /\ ShortTermFieldsAt(d, c, diff) \subseteq (DOMAIN d) \X Parity
      /\ \A t \in ShortTermFieldsAt(d, c, diff) : HasField(d[t[1]], t[2])
  BY DEF ShortTermFieldsAt, HasFieldMarked
<1>. QED
  BY <1>1, OneFieldFades, FadesSame, MarkUnusedFades DEF MarkShortTermUnused

\* Operation 2 only weakens.
LEMMA MarkLongTermUnusedFades ==
  ASSUME NEW d, IsDpb(d), NEW c, NEW picNum
  PROVE  Fades(d, MarkLongTermUnused(d, c, picNum))
<1>1. /\ LongTermFieldsAt(d, c, picNum) \subseteq (DOMAIN d) \X Parity
      /\ \A t \in LongTermFieldsAt(d, c, picNum) : HasField(d[t[1]], t[2])
  BY DEF LongTermFieldsAt, HasFieldMarked
<1>. QED
  BY <1>1, OneFieldFades, FadesSame, MarkUnusedFades DEF MarkLongTermUnused

\* The entry whose field or fields an operation 3 makes long-term.
LEMMA ShortToLongFieldEntry ==
  ASSUME NEW e \in Entry, NEW q \in Parity, HasFieldMarked(e, q, "short"),
         NEW g, Weakens(e, g), NEW idx \in Nat
  PROVE  Weakens(e, [SetFieldMarking(g, q, "long") EXCEPT !.ltIdx = idx])
<1>. DEFINE h == SetFieldMarking(g, q, "long")
<1>1. g \in Entry /\ InSync(g) /\ HasField(g, q) /\ "long" \in Marking
  BY DEF Weakens, HasFieldMarked, HasField, Marking
<1>2. /\ h \in Entry /\ InSync(h) /\ h.structure = e.structure
      /\ h.frameNum = e.frameNum /\ h.frame = e.frame
      /\ \A p \in Parity : h.field[p] = IF p = q THEN "long" ELSE g.field[p]
  BY <1>1, SetFieldMarkingEntry DEF Weakens
<1>3. Rank("long") <= Rank(e.field[q])
  BY DEF Rank, HasFieldMarked
<1>. HIDE DEF h
<1>4. Weakens(e, h)
  BY <1>2, <1>3 DEF Weakens
<1>5. Weakens(e, [h EXCEPT !.ltIdx = idx])
  BY <1>4, WeakensSetIdx
<1>. QED
  BY <1>5 DEF h

\* An entry marked short-term as a unit has every field of its structure short-term.
LEMMA ShortUnitFields ==
  ASSUME NEW e \in Entry, InSync(e), e.marking = "short", NEW p \in Parity, HasField(e, p)
  PROVE  e.field[p] = "short"
BY DEF Entry, InSync, UnitMarking, HasField, Parity, Structure

\* A short-term frame turned long-term, whatever the eviction before it did.
LEMMA ShortToLongEntry ==
  ASSUME NEW e \in Entry, NEW g, Weakens(e, g), g.marking = "short", NEW idx \in Nat
  PROVE  Weakens(e, [MarkAll(g, "long") EXCEPT !.ltIdx = idx])
<1>. DEFINE h == MarkAll(g, "long")
<1>1. g \in Entry /\ InSync(g) /\ "long" \in Marking
  BY DEF Weakens, Marking
<1>2. /\ h \in Entry /\ InSync(h) /\ h.structure = g.structure
      /\ h.frameNum = g.frameNum /\ h.frame = g.frame
      /\ \A p \in Parity : h.field[p] = IF HasField(g, p) THEN "long" ELSE "unused"
  BY <1>1, MarkAllEntry
<1>. HIDE DEF h
<1>3. ASSUME NEW p \in Parity PROVE Rank(h.field[p]) <= Rank(g.field[p])
  <2>1. CASE HasField(g, p)
    <3>1. g.field[p] = "short" /\ h.field[p] = "long"
      BY <1>1, <1>2, <2>1, ShortUnitFields
    <3>. QED
      BY <3>1 DEF Rank
  <2>2. CASE ~ HasField(g, p)
    BY <1>2, <2>2, RankRange
  <2>. QED
    BY <2>1, <2>2
<1>4. Weakens(g, h)
  BY <1>2, <1>3 DEF Weakens
<1>5. Weakens(e, [h EXCEPT !.ltIdx = idx])
  BY <1>4, WeakensTransitive, WeakensSetIdx
<1>. QED
  BY <1>5 DEF h

\* The field form of operation 3 only weakens.
LEMMA AssignLongTermFieldFades ==
  ASSUME NEW d, IsDpb(d), NEW c, NEW diff, NEW idx \in Nat
  PROVE  Fades(d, AssignLongTermField(d, c, diff, idx))
<1>. DEFINE fields == ShortTermFieldsAt(d, c, diff)
            t == FirstField(fields)
            evicted == EvictLongTermIdx(d, idx, {t}, {d[t[1]].frameNum})
            assigned == [SetFieldMarking(evicted[t[1]], t[2], "long") EXCEPT !.ltIdx = idx]
<1>1. CASE fields = {}
  BY <1>1, EvictLongTermIdxFades DEF AssignLongTermField
<1>2. CASE fields # {}
  <2>1. AssignLongTermField(d, c, diff, idx)
          = [evicted EXCEPT ![t[1]] = assigned]
    BY <1>2 DEF AssignLongTermField
  <2>2. /\ fields \subseteq (DOMAIN d) \X Parity
        /\ \A u \in fields : HasFieldMarked(d[u[1]], u[2], "short")
    BY DEF ShortTermFieldsAt
  <2>3. t \in fields /\ t[1] \in DOMAIN d /\ t[2] \in Parity
    BY <1>2, <2>2, FirstFieldIn DEF IsDpb
  <2>4. HasFieldMarked(d[t[1]], t[2], "short")
    BY <2>2, <2>3
  <2>5. Fades(d, evicted)
    BY EvictLongTermIdxFades
  <2>. HIDE DEF t, evicted
  <2>6. Weakens(d[t[1]], assigned)
    BY <2>3, <2>4, <2>5, ShortToLongFieldEntry DEF Fades, IsDpb
  <2>. HIDE DEF assigned
  <2>7. Fades(d, [evicted EXCEPT ![t[1]] = assigned])
    BY <2>3, <2>5, <2>6 DEF Fades
  <2>. QED
    BY <2>1, <2>7
<1>. QED
  BY <1>1, <1>2

\* The frame form of operation 3 only weakens.
LEMMA AssignLongTermFrameFades ==
  ASSUME NEW d, IsDpb(d), NEW c, NEW diff, NEW idx \in Nat
  PROVE  Fades(d, AssignLongTermFrame(d, c, diff, idx))
<1>. DEFINE evicted == EvictLongTermIdx(d, idx, {}, {})
            hits == ShortTermFramesAt(evicted, c, diff)
<1>1. Fades(d, evicted)
  BY EvictLongTermIdxFades
<1>2. AssignLongTermFrame(d, c, diff, idx)
        = [k \in DOMAIN d |->
             IF k \in hits THEN [MarkAll(evicted[k], "long") EXCEPT !.ltIdx = idx]
             ELSE evicted[k]]
  BY DEF AssignLongTermFrame
<1>3. \A k \in hits : evicted[k].marking = "short"
  BY DEF ShortTermFramesAt
<1>. HIDE DEF evicted, hits
<1>4. \A k \in DOMAIN d :
        k \in hits => Weakens(d[k], [MarkAll(evicted[k], "long") EXCEPT !.ltIdx = idx])
  BY <1>1, <1>3, ShortToLongEntry DEF Fades, IsDpb
<1>. QED
  BY <1>1, <1>2, <1>4 DEF Fades

\* Operation 3 only weakens.
LEMMA AssignLongTermFades ==
  ASSUME NEW d, IsDpb(d), NEW c, NEW diff, NEW idx \in Nat
  PROVE  Fades(d, AssignLongTerm(d, c, diff, idx))
BY AssignLongTermFieldFades, AssignLongTermFrameFades DEF AssignLongTerm

\* Operation 6 only weakens the entries already in the DPB.
LEMMA AssignCurrentLongTermFades ==
  ASSUME NEW d, IsDpb(d), NEW c, NEW idx \in Nat
  PROVE  Fades(d, AssignCurrentLongTerm(d, c, idx))
<1>. DEFINE evicted == EvictLongTermIdx(d, idx, {}, IF IsField(c) THEN {c.frameNum} ELSE {})
<1>1. Fades(d, evicted)
  BY EvictLongTermIdxFades
<1>2. AssignCurrentLongTerm(d, c, idx)
        = [k \in DOMAIN d |->
             IF IsLongTermMate(evicted[k], c) THEN [evicted[k] EXCEPT !.ltIdx = idx]
             ELSE evicted[k]]
  BY DEF AssignCurrentLongTerm
<1>. HIDE DEF evicted
<1>3. \A k \in DOMAIN d : Weakens(d[k], [evicted[k] EXCEPT !.ltIdx = idx])
  BY <1>1, WeakensSetIdx DEF Fades
<1>. QED
  BY <1>1, <1>2, <1>3 DEF Fades

\* Retaining drops entries, and only those no field of which is a reference.
LEMMA RetainedDpb ==
  ASSUME NEW d, IsDpb(d)
  PROVE  /\ IsDpb(Retained(d))
         /\ DOMAIN Retained(d) \subseteq DOMAIN d
         /\ \A k \in DOMAIN Retained(d) : Retained(d)[k] = d[k] /\ IsAnyFieldRef(d[k])
BY DEF Retained, RefKeys, IsDpb

-----------------------------------------------------------------------------
(* The inductive invariant.  While a gap is filled its frames are in the DPB *)
(* before their samples are in the store; while operations are applied the   *)
(* newest key belongs to the current picture, which is not in the DPB yet.   *)

GapKeys ==
  phase = "gap" => /\ gap.firstKey <= nextKey
                   /\ DOMAIN dpb \subseteq store \cup (gap.firstKey .. nextKey - 1)

CurrentKeyFree == phase = "mmco" => nextKey >= 1 /\ DOMAIN dpb \subseteq 0 .. nextKey - 2

Inv ==
  /\ TypeOK /\ MarkingsInSync /\ StoreMatchesDpb /\ OnlyReferencesHeld
  /\ GapKeys /\ CurrentKeyFree

\* The successor of a frame_num is a frame_num.
LEMMA SuccessorType ==
  ASSUME NEW n \in FrameNums
  PROVE  Successor(n) \in FrameNums
<1>1. MaxFrameNum \in Nat /\ MaxFrameNum > 0
  BY MaxFrameNumAssumption
<1>2. n + 1 \in Int
  BY <1>1 DEF FrameNums
<1>3. (n + 1) % MaxFrameNum \in 0 .. MaxFrameNum - 1
  BY <1>1, <1>2
<1>. QED
  BY <1>3 DEF Successor, FrameNums

\* The invariant gives a typed DPB in sync.
LEMMA InvIsDpb ==
  ASSUME Inv
  PROVE  IsDpb(dpb) /\ cur \in Entry /\ InSync(cur)
BY DEF Inv, TypeOK, MarkingsInSync, IsDpb

\* The decoder starts in the invariant.
LEMMA InitInv == Init => Inv
<1>. SUFFICES ASSUME Init PROVE Inv
  OBVIOUS
<1>1. DOMAIN dpb = {} /\ RefKeys(dpb) = {}
  BY DEF Init, RefKeys
<1>2. 0 \in FrameNums /\ "frame" \in Structure
  BY MaxFrameNumAssumption DEF FrameNums, Structure
<1>3. NoEntry \in Entry /\ InSync(NoEntry)
  BY <1>2, NewEntryEntry DEF NoEntry
<1>4. TypeOK
  BY <1>1, <1>2, <1>3 DEF Init, TypeOK, NoHeader, Header, NoGap, NoField
<1>5. MarkingsInSync /\ StoreMatchesDpb /\ OnlyReferencesHeld
  BY <1>1, <1>3 DEF Init, MarkingsInSync, StoreMatchesDpb, OnlyReferencesHeld
<1>. QED
  BY <1>4, <1>5 DEF Init, Inv, GapKeys, CurrentKeyFree

\* A DPB that gains one entry under a fresh key.
LEMMA AddEntry ==
  ASSUME NEW d, IsDpb(d), NEW key \in Nat, NEW c \in Entry, InSync(c),
         NEW e, e = [k \in (DOMAIN d) \cup {key} |-> IF k = key THEN c ELSE d[k]]
  PROVE  IsDpb(e) /\ DOMAIN e = (DOMAIN d) \cup {key}
BY DEF IsDpb

\* The frame_num of an entry may be reset (operation 5).
LEMMA SetFrameNumEntry ==
  ASSUME NEW c \in Entry, InSync(c), IsAnyFieldRef(c), NEW n \in FrameNums
  PROVE  /\ [c EXCEPT !.frameNum = n] \in Entry
         /\ InSync([c EXCEPT !.frameNum = n])
         /\ IsAnyFieldRef([c EXCEPT !.frameNum = n])
<1>. DEFINE e == [c EXCEPT !.frameNum = n]
<1>1. e \in Entry /\ e.marking = c.marking /\ e.structure = c.structure /\ e.field = c.field
  BY DEF Entry
<1>. HIDE DEF e
<1>2. InSync(e) /\ IsAnyFieldRef(e)
  BY <1>1 DEF InSync, HasField, IsAnyFieldRef, AnyFieldIs, HasFieldMarked
<1>. QED
  BY <1>1, <1>2 DEF e

\* What StoreCurrent leaves behind, and what it does to markings.
LEMMA StoreCurrentLeaves ==
  ASSUME Inv, NEW d, Fades(dpb, d), NEW c \in Entry, InSync(c), c.marking \in {"short", "long"},
         NEW key \in Nat, DOMAIN dpb \subseteq 0 .. key - 1, nextKey' = key + 1,
         store = DOMAIN dpb, NEW n \in FrameNums, StoreCurrent(d, c, key, n)
  PROVE  /\ Inv'
         /\ \A k \in (DOMAIN dpb') \ DOMAIN dpb : k = key
         /\ \A k \in (DOMAIN dpb') \cap DOMAIN dpb, p \in Parity :
              Rank(dpb'[k].field[p]) <= Rank(dpb[k].field[p])
<1>. DEFINE kept == Retained(d)
            entry == [c EXCEPT !.frameNum = n]
<1>1. IsDpb(d) /\ DOMAIN d = DOMAIN dpb
  BY InvIsDpb, FadesIsDpb DEF Fades
<1>2. /\ IsDpb(kept) /\ DOMAIN kept \subseteq DOMAIN dpb
      /\ \A k \in DOMAIN kept : kept[k] = d[k] /\ IsAnyFieldRef(kept[k])
  BY <1>1, RetainedDpb
<1>3. entry \in Entry /\ InSync(entry) /\ IsAnyFieldRef(entry)
  BY RefOfMarking, SetFrameNumEntry
<1>4. dpb' = [k \in (DOMAIN kept) \cup {key} |-> IF k = key THEN entry ELSE kept[k]]
  BY DEF StoreCurrent
<1>5. store' = Pruned(store \cup {key}, (DOMAIN kept) \cup {key})
  BY DEF StoreCurrent
<1>. HIDE DEF kept, entry
<1>6. IsDpb(dpb') /\ DOMAIN dpb' = (DOMAIN kept) \cup {key}
  BY <1>2, <1>3, <1>4, AddEntry
<1>7. store' = DOMAIN dpb'
  BY <1>2, <1>5, <1>6 DEF Pruned
<1>8. \A k \in DOMAIN dpb' : IsAnyFieldRef(dpb'[k])
  BY <1>2, <1>3, <1>4
<1>9. DOMAIN dpb' \subseteq 0 .. nextKey' - 1
  BY <1>2, <1>6
<1>10. /\ phase' = "idle" /\ pic' \in Header /\ cur' \in Entry /\ InSync(cur)'
       /\ mmco5' \in BOOLEAN /\ gap' = gap
  <2>1. 0 \in FrameNums /\ "frame" \in Structure
    BY MaxFrameNumAssumption DEF FrameNums, Structure
  <2>. QED
    BY <2>1, NewEntryEntry DEF StoreCurrent, Close, NoHeader, Header, NoEntry
<1>11. first' \in [structure : Structure, frameNum : FrameNums, ref : BOOLEAN, key : Nat]
  <2>1. 0 \in FrameNums /\ "frame" \in Structure /\ Parity \subseteq Structure
    BY MaxFrameNumAssumption DEF FrameNums, Structure, Parity
  <2>2. c.frame \in Nat /\ pic.ref \in BOOLEAN
    BY DEF Entry, Inv, TypeOK, Header
  <2>. QED
    BY <2>1, <2>2 DEF StoreCurrent, AwaitsSecond, NoField
<1>12. prevRef' = n
  BY DEF StoreCurrent
<1>13. TypeOK'
  BY <1>6, <1>7, <1>9, <1>10, <1>11, <1>12 DEF TypeOK, Inv, IsDpb
<1>14. (MarkingsInSync /\ StoreMatchesDpb /\ OnlyReferencesHeld /\ GapKeys /\ CurrentKeyFree)'
  BY <1>6, <1>7, <1>8, <1>10
     DEF MarkingsInSync, StoreMatchesDpb, OnlyReferencesHeld, GapKeys, CurrentKeyFree,
         IsDpb, RefKeys
<1>15. \A k \in (DOMAIN dpb') \ DOMAIN dpb : k = key
  BY <1>2, <1>6
<1>16. ASSUME NEW k \in (DOMAIN dpb') \cap DOMAIN dpb, NEW p \in Parity
       PROVE  Rank(dpb'[k].field[p]) <= Rank(dpb[k].field[p])
  <2>1. k # key /\ k \in DOMAIN kept
    BY <1>6, <1>16
  <2>2. dpb'[k] = d[k]
    BY <1>2, <1>4, <2>1
  <2>. QED
    BY <2>2 DEF Fades, Weakens
<1>. QED
  BY <1>13, <1>14, <1>15, <1>16 DEF Inv

\* A step of NeverRevived.
Weakening ==
  /\ \A k \in (DOMAIN dpb') \ DOMAIN dpb : k >= nextKey - 1
  /\ \A k \in (DOMAIN dpb') \cap DOMAIN dpb, p \in Parity :
       Rank(dpb'[k].field[p]) <= Rank(dpb[k].field[p])

\* A step that leaves the DPB alone.
LEMMA SameDpbWeakening ==
  ASSUME dpb' = dpb
  PROVE  Weakening
BY RankRange DEF Weakening

\* Close resets the picture to well-typed values.
LEMMA CloseTypes ==
  ASSUME Close
  PROVE  phase' = "idle" /\ pic' \in Header /\ cur' \in Entry /\ InSync(cur)' /\ mmco5' \in BOOLEAN
<1>1. 0 \in FrameNums /\ "frame" \in Structure
  BY MaxFrameNumAssumption DEF FrameNums, Structure
<1>. QED
  BY <1>1, NewEntryEntry DEF Close, NoHeader, Header, NoEntry

\* The stream view of a lone field is well typed.
LEMMA FieldRecordType ==
  ASSUME Inv, NEW h \in Header, NEW n \in FrameNums, NEW key \in Nat
  PROVE  /\ AwaitsSecond(h, n, key) \in
              [structure : Structure, frameNum : FrameNums, ref : BOOLEAN, key : Nat]
         /\ NoField \in [structure : Structure, frameNum : FrameNums, ref : BOOLEAN, key : Nat]
<1>1. 0 \in FrameNums /\ "frame" \in Structure /\ Parity \subseteq Structure
  BY MaxFrameNumAssumption DEF FrameNums, Structure, Parity
<1>. QED
  BY <1>1 DEF AwaitsSecond, NoField, Header

\* Opening a picture keeps the invariant and no marking grows.
LEMMA OpenPictureInv ==
  ASSUME Inv, NEW h \in Header, OpenPicture(h)
  PROVE  Inv' /\ Weakening
<1>1. DOMAIN dpb \subseteq 0 .. nextKey - 1 /\ store = DOMAIN dpb /\ phase = "idle"
  BY DEF Inv, TypeOK, StoreMatchesDpb, OpenPicture
<1>2. gap' \in [expected : FrameNums, firstKey : Nat]
  <2>1. CASE NeedsGapFill(h)
    <3>1. prevRef \in FrameNums
      BY <2>1 DEF NeedsGapFill, Inv, TypeOK
    <3>. QED
      BY <2>1, <3>1, SuccessorType DEF OpenPicture, Inv, TypeOK
  <2>2. CASE ~ NeedsGapFill(h)
    BY <2>2 DEF OpenPicture, Inv, TypeOK
  <2>. QED
    BY <2>1, <2>2
<1>3. phase' \in {"gap", "open"}
  BY DEF OpenPicture
<1>4. UNCHANGED <<dpb, store, nextKey, prevRef, cur, mmco5, first>> /\ pic' = h
  BY DEF OpenPicture
<1>5. TypeOK'
  BY <1>2, <1>3, <1>4 DEF Inv, TypeOK
<1>6. (MarkingsInSync /\ StoreMatchesDpb /\ OnlyReferencesHeld)'
  BY <1>1, <1>3, <1>4
     DEF Inv, MarkingsInSync, StoreMatchesDpb, OnlyReferencesHeld, InSync, RefKeys
<1>7. GapKeys' /\ CurrentKeyFree'
  <2>1. phase' = "gap" => gap'.firstKey = nextKey
    BY DEF OpenPicture
  <2>. QED
    BY <1>1, <1>3, <1>4, <2>1 DEF GapKeys, CurrentKeyFree, Inv, TypeOK
<1>. QED
  BY <1>4, <1>5, <1>6, <1>7, SameDpbWeakening DEF Inv

\* One gap frame keeps the invariant and no marking grows.
LEMMA GapStepInv ==
  ASSUME Inv, GapStep
  PROVE  Inv' /\ Weakening
<1>. DEFINE slid == SlidingWindow(dpb, MaxNumRefFrames, gap.expected, "frame")
            kept == Retained(slid)
            c    == NewEntry(gap.expected, "frame", nextKey)
<1>1. nextKey \in Nat /\ gap.expected \in FrameNums /\ "frame" \in Structure
      /\ DOMAIN dpb \subseteq 0 .. nextKey - 1 /\ store \subseteq 0 .. nextKey - 1
      /\ phase = "gap"
  BY DEF Inv, TypeOK, Structure, GapStep
<1>2. c \in Entry /\ InSync(c) /\ IsAnyFieldRef(c)
  BY <1>1, NewEntryEntry, RefOfMarking
<1>3. Fades(dpb, slid) /\ IsDpb(slid) /\ DOMAIN slid = DOMAIN dpb
  BY InvIsDpb, SlidingWindowFades, FadesIsDpb DEF Fades
<1>4. dpb' = [k \in (DOMAIN kept) \cup {nextKey} |-> IF k = nextKey THEN c ELSE kept[k]]
  BY DEF GapStep
<1>. HIDE DEF slid, c
<1>5. /\ IsDpb(kept) /\ DOMAIN kept \subseteq DOMAIN dpb
      /\ \A k \in DOMAIN kept : kept[k] = slid[k] /\ IsAnyFieldRef(kept[k])
  BY <1>3, RetainedDpb
<1>. HIDE DEF kept
<1>6. IsDpb(dpb') /\ DOMAIN dpb' = (DOMAIN kept) \cup {nextKey}
  <2>1. DOMAIN dpb' = (DOMAIN kept) \cup {nextKey}
    BY <1>4
  <2>2. \A k \in DOMAIN dpb' : dpb'[k] = IF k = nextKey THEN c ELSE kept[k]
    BY <1>4
  <2>. QED
    BY <1>1, <1>2, <1>4, <1>5, <2>1, <2>2 DEF IsDpb
<1>7. UNCHANGED <<store, phase, pic, cur, mmco5, first>> /\ nextKey' = nextKey + 1
      /\ prevRef' = gap.expected /\ gap' = [gap EXCEPT !.expected = Successor(@)]
  BY DEF GapStep
<1>8. gap' \in [expected : FrameNums, firstKey : Nat] /\ gap'.firstKey = gap.firstKey
  BY <1>1, <1>7, SuccessorType DEF Inv, TypeOK
<1>9. TypeOK'
  BY <1>1, <1>5, <1>6, <1>7, <1>8 DEF Inv, TypeOK, IsDpb
<1>10. \A k \in DOMAIN dpb' : IsAnyFieldRef(dpb'[k])
  BY <1>2, <1>4, <1>5
<1>11. (MarkingsInSync /\ StoreMatchesDpb /\ OnlyReferencesHeld)'
  BY <1>1, <1>6, <1>7, <1>10 
     DEF Inv, MarkingsInSync, StoreMatchesDpb, OnlyReferencesHeld, InSync, RefKeys, IsDpb
<1>12. GapKeys' /\ CurrentKeyFree'
  <2>1. gap.firstKey <= nextKey /\ DOMAIN dpb \subseteq store \cup (gap.firstKey .. nextKey - 1)
        /\ gap.firstKey \in Nat
    BY <1>1 DEF Inv, GapKeys, TypeOK
  <2>2. DOMAIN dpb' \subseteq store \cup (gap.firstKey .. nextKey)
    BY <1>1, <1>5, <1>6, <2>1
  <2>. QED
    BY <1>1, <1>7, <1>8, <2>1, <2>2 DEF GapKeys, CurrentKeyFree
<1>13. Weakening
  <2>1. ASSUME NEW k \in (DOMAIN dpb') \cap DOMAIN dpb, NEW p \in Parity
        PROVE  Rank(dpb'[k].field[p]) <= Rank(dpb[k].field[p])
    <3>1. k # nextKey /\ k \in DOMAIN kept
      BY <1>1, <1>6, <2>1
    <3>2. dpb'[k] = slid[k]
      BY <1>4, <1>5, <3>1
    <3>. QED
      BY <1>3, <3>2 DEF Fades, Weakens
  <2>. QED
    BY <1>1, <1>5, <1>6, <2>1 DEF Weakening
<1>. QED
  BY <1>9, <1>11, <1>12, <1>13 DEF Inv

\* The end of a gap keeps the invariant and no marking grows.
LEMMA GapDoneInv ==
  ASSUME Inv, GapDone
  PROVE  Inv' /\ Weakening
<1>1. /\ nextKey \in Nat /\ gap.firstKey \in Nat /\ gap.firstKey <= nextKey
      /\ DOMAIN dpb \subseteq 0 .. nextKey - 1
      /\ DOMAIN dpb \subseteq store \cup (gap.firstKey .. nextKey - 1)
  BY DEF Inv, TypeOK, GapKeys, GapDone
<1>2. /\ phase' = "open" /\ gap' = NoGap
      /\ UNCHANGED <<dpb, nextKey, prevRef, pic, cur, mmco5, first>>
      /\ store' = Pruned(store \cup gap.firstKey .. nextKey - 1, DOMAIN dpb)
  BY DEF GapDone
<1>3. store' = DOMAIN dpb
  BY <1>1, <1>2 DEF Pruned
<1>4. gap' \in [expected : FrameNums, firstKey : Nat]
  BY <1>2, MaxFrameNumAssumption DEF NoGap, FrameNums
<1>5. TypeOK'
  BY <1>1, <1>2, <1>3, <1>4 DEF Inv, TypeOK
<1>6. (MarkingsInSync /\ StoreMatchesDpb /\ OnlyReferencesHeld /\ GapKeys /\ CurrentKeyFree)'
  BY <1>2, <1>3 
     DEF Inv, MarkingsInSync, StoreMatchesDpb, OnlyReferencesHeld, InSync, RefKeys,
         GapKeys, CurrentKeyFree, GapDone
<1>. QED
  BY <1>2, <1>5, <1>6, SameDpbWeakening DEF Inv

\* A step that only ends the picture, with or without consuming a key.
LEMMA CloseInv ==
  ASSUME Inv, Close, phase # "gap", phase # "mmco", UNCHANGED <<dpb, store, prevRef, gap>>,
         nextKey' = nextKey \/ nextKey' = nextKey + 1,
         first' \in [structure : Structure, frameNum : FrameNums, ref : BOOLEAN, key : Nat]
  PROVE  Inv' /\ Weakening
<1>1. phase' = "idle" /\ pic' \in Header /\ cur' \in Entry /\ InSync(cur)' /\ mmco5' \in BOOLEAN
  BY CloseTypes
<1>2. TypeOK'
  <2>1. nextKey \in Nat /\ DOMAIN dpb \subseteq 0 .. nextKey - 1 /\ store \subseteq 0 .. nextKey - 1
    BY DEF Inv, TypeOK
  <2>2. nextKey' \in Nat /\ DOMAIN dpb \subseteq 0 .. nextKey' - 1
        /\ store \subseteq 0 .. nextKey' - 1
    <3>1. CASE nextKey' = nextKey
      BY <2>1, <3>1
    <3>2. CASE nextKey' = nextKey + 1
      BY <2>1, <3>2
    <3>. QED
      BY <3>1, <3>2
  <2>. QED
    BY <1>1, <2>2 DEF Inv, TypeOK
<1>3. (StoreMatchesDpb /\ OnlyReferencesHeld /\ GapKeys /\ CurrentKeyFree)'
  BY <1>1 DEF Inv, StoreMatchesDpb, OnlyReferencesHeld, RefKeys, GapKeys, CurrentKeyFree
<1>4. MarkingsInSync'
  BY <1>1 DEF Inv, MarkingsInSync, InSync
<1>. QED
  BY <1>2, <1>3, <1>4, SameDpbWeakening DEF Inv

\* Dropping a picture keeps the invariant and no marking grows.
LEMMA DropPictureInv ==
  ASSUME Inv, DropPicture
  PROVE  Inv' /\ Weakening
<1>1. pic \in Header /\ 0 \in FrameNums /\ 0 \in Nat
  BY MaxFrameNumAssumption DEF Inv, TypeOK, FrameNums
<1>2. first' \in [structure : Structure, frameNum : FrameNums, ref : BOOLEAN, key : Nat]
  BY <1>1, FieldRecordType DEF DropPicture
<1>. QED
  BY <1>2, CloseInv DEF DropPicture

\* A non-reference picture keeps the invariant and no marking grows.
LEMMA FinalizeNonReferenceInv ==
  ASSUME Inv, FinalizeNonReference
  PROVE  Inv' /\ Weakening
<1>1. pic \in Header /\ pic.frameNum \in FrameNums /\ nextKey \in Nat
  BY DEF Inv, TypeOK, Header
<1>2. first' \in [structure : Structure, frameNum : FrameNums, ref : BOOLEAN, key : Nat]
  BY <1>1, FieldRecordType DEF FinalizeNonReference
<1>. QED
  BY <1>2, CloseInv DEF FinalizeNonReference

\* The entry FinalizeIdr, FinalizeSlidingWindow and BeginAdaptiveMarking make.
LEMMA PictureEntry ==
  ASSUME Inv, phase = "open"
  PROVE  /\ NewEntry(pic.frameNum, pic.structure, FrameKey(pic, nextKey)) \in Entry
         /\ InSync(NewEntry(pic.frameNum, pic.structure, FrameKey(pic, nextKey)))
         /\ NewEntry(pic.frameNum, pic.structure, FrameKey(pic, nextKey)).marking = "short"
         /\ nextKey \in Nat /\ pic.frameNum \in FrameNums
         /\ DOMAIN dpb \subseteq 0 .. nextKey - 1 /\ store = DOMAIN dpb
<1>1. pic.frameNum \in FrameNums /\ pic.structure \in Structure /\ FrameKey(pic, nextKey) \in Nat
  BY DEF Inv, TypeOK, Header, FrameKey
<1>. QED
  BY <1>1, NewEntryEntry DEF Inv, TypeOK, StoreMatchesDpb

\* An IDR picture keeps the invariant and no marking grows.
LEMMA FinalizeIdrInv ==
  ASSUME Inv, FinalizeIdr
  PROVE  Inv' /\ Weakening
<1>. DEFINE c == NewEntry(pic.frameNum, pic.structure, FrameKey(pic, nextKey))
            e == IF pic.longTermFlag THEN MarkAll(c, "long") ELSE c
<1>1. /\ c \in Entry /\ InSync(c) /\ c.marking = "short"
      /\ nextKey \in Nat /\ pic.frameNum \in FrameNums
      /\ DOMAIN dpb \subseteq 0 .. nextKey - 1 /\ store = DOMAIN dpb
  BY PictureEntry DEF FinalizeIdr
<1>2. Fades(dpb, MarkAllUnused(dpb))
  BY InvIsDpb, MarkUnusedFades DEF MarkAllUnused
<1>3. StoreCurrent(MarkAllUnused(dpb), e, nextKey, pic.frameNum) /\ nextKey' = nextKey + 1
  BY DEF FinalizeIdr
<1>4. e \in Entry /\ InSync(e) /\ e.marking \in {"short", "long"}
  <2>. HIDE DEF c
  <2>1. "long" \in Marking
    BY DEF Marking
  <2>. QED
    BY <1>1, <2>1, MarkAllEntry
<1>. HIDE DEF e
<1>. QED
  BY <1>1, <1>2, <1>3, <1>4, StoreCurrentLeaves DEF Weakening

\* Sliding-window marking keeps the invariant and no marking grows.
LEMMA FinalizeSlidingWindowInv ==
  ASSUME Inv, FinalizeSlidingWindow
  PROVE  Inv' /\ Weakening
<1>. DEFINE c == NewEntry(pic.frameNum, pic.structure, FrameKey(pic, nextKey))
            d == SlidingWindow(dpb, MaxNumRefFrames, pic.frameNum, pic.structure)
<1>1. /\ c \in Entry /\ InSync(c) /\ c.marking = "short"
      /\ nextKey \in Nat /\ pic.frameNum \in FrameNums
      /\ DOMAIN dpb \subseteq 0 .. nextKey - 1 /\ store = DOMAIN dpb
  BY PictureEntry DEF FinalizeSlidingWindow
<1>2. Fades(dpb, d)
  BY InvIsDpb, SlidingWindowFades
<1>3. StoreCurrent(d, c, nextKey, pic.frameNum) /\ nextKey' = nextKey + 1
  BY DEF FinalizeSlidingWindow
<1>. HIDE DEF c, d
<1>4. /\ Inv'
      /\ \A k \in (DOMAIN dpb') \ DOMAIN dpb : k = nextKey
      /\ \A k \in (DOMAIN dpb') \cap DOMAIN dpb, p \in Parity :
           Rank(dpb'[k].field[p]) <= Rank(dpb[k].field[p])
  BY <1>1, <1>2, <1>3, StoreCurrentLeaves
<1>. QED
  BY <1>1, <1>4 DEF Weakening

\* Beginning an operation list keeps the invariant and no marking grows.
LEMMA BeginAdaptiveMarkingInv ==
  ASSUME Inv, BeginAdaptiveMarking
  PROVE  Inv' /\ Weakening
<1>1. /\ cur' \in Entry /\ InSync(cur)'
      /\ nextKey \in Nat /\ DOMAIN dpb \subseteq 0 .. nextKey - 1 /\ store = DOMAIN dpb
  BY PictureEntry DEF BeginAdaptiveMarking, InSync
<1>2. /\ phase' = "mmco" /\ mmco5' = FALSE /\ nextKey' = nextKey + 1
      /\ UNCHANGED <<dpb, store, prevRef, pic, gap, first>>
  BY DEF BeginAdaptiveMarking
<1>3. /\ nextKey' \in Nat /\ nextKey' >= 1 /\ DOMAIN dpb \subseteq 0 .. nextKey' - 1
      /\ DOMAIN dpb \subseteq 0 .. nextKey' - 2
  BY <1>1, <1>2
<1>4. TypeOK'
  BY <1>1, <1>2, <1>3 DEF Inv, TypeOK
<1>5. (MarkingsInSync /\ StoreMatchesDpb /\ OnlyReferencesHeld /\ GapKeys /\ CurrentKeyFree)'
  BY <1>1, <1>2, <1>3
     DEF Inv, MarkingsInSync, StoreMatchesDpb, OnlyReferencesHeld, InSync, GapKeys, CurrentKeyFree
<1>. QED
  BY <1>2, <1>4, <1>5, SameDpbWeakening DEF Inv

\* One operation of a list: the DPB keeps its keys and only weakens.
LEMMA MarkingStepInv ==
  ASSUME Inv, NEW d, Fades(dpb, d), MarkingStep(d), cur' \in Entry, InSync(cur)',
         mmco5' \in BOOLEAN
  PROVE  Inv' /\ Weakening
<1>1. /\ IsDpb(d) /\ DOMAIN d = DOMAIN dpb /\ d = [k \in DOMAIN d |-> d[k]]
      /\ \A k \in DOMAIN d : d[k] \in Entry /\ InSync(d[k])
  BY InvIsDpb, FadesIsDpb DEF Fades, Weakens
<1>2. /\ phase = "mmco" /\ dpb' = d
      /\ UNCHANGED <<store, nextKey, prevRef, phase, pic, gap, first>>
  BY DEF MarkingStep
<1>3. TypeOK'
  BY <1>1, <1>2 DEF Inv, TypeOK
<1>4. (MarkingsInSync /\ StoreMatchesDpb /\ OnlyReferencesHeld /\ GapKeys /\ CurrentKeyFree)'
  BY <1>1, <1>2
     DEF Inv, MarkingsInSync, StoreMatchesDpb, OnlyReferencesHeld, GapKeys, CurrentKeyFree
<1>5. Weakening
  BY <1>1, <1>2 DEF Weakening, Fades, Weakens
<1>. QED
  BY <1>3, <1>4, <1>5 DEF Inv

\* Ending an operation list keeps the invariant and no marking grows.
LEMMA EndAdaptiveMarkingInv ==
  ASSUME Inv, EndAdaptiveMarking
  PROVE  Inv' /\ Weakening
<1>. DEFINE c == MarkedCurrent(cur)
            n == IF mmco5 THEN 0 ELSE cur.frameNum
<1>1. c \in Entry /\ InSync(c) /\ c.marking \in {"short", "long"}
  BY InvIsDpb, MarkAllEntry DEF MarkedCurrent, Marking
<1>2. n \in FrameNums
  BY InvIsDpb, MaxFrameNumAssumption DEF Entry, FrameNums
<1>3. StoreCurrent(dpb, c, nextKey - 1, n) /\ nextKey' = nextKey
  BY DEF EndAdaptiveMarking
<1>4. /\ nextKey \in Nat /\ nextKey >= 1 /\ DOMAIN dpb \subseteq 0 .. nextKey - 2
      /\ store = DOMAIN dpb
  BY DEF Inv, TypeOK, CurrentKeyFree, StoreMatchesDpb, EndAdaptiveMarking
<1>5. Fades(dpb, dpb)
  BY InvIsDpb, FadesSame
<1>6. /\ nextKey - 1 \in Nat /\ nextKey' = (nextKey - 1) + 1
      /\ DOMAIN dpb \subseteq 0 .. (nextKey - 1) - 1
  BY <1>3, <1>4
<1>. HIDE DEF c, n
<1>7. /\ Inv'
      /\ \A k \in (DOMAIN dpb') \ DOMAIN dpb : k = nextKey - 1
      /\ \A k \in (DOMAIN dpb') \cap DOMAIN dpb, p \in Parity :
           Rank(dpb'[k].field[p]) <= Rank(dpb[k].field[p])
  BY <1>1, <1>2, <1>3, <1>4, <1>5, <1>6, StoreCurrentLeaves
<1>. QED
  BY <1>4, <1>7 DEF Weakening

\* Every operation of a list keeps the invariant and no marking grows.
LEMMA AdaptiveMarkingStepInv ==
  ASSUME Inv, AdaptiveMarkingStep
  PROVE  Inv' /\ Weakening
<1>1. IsDpb(dpb) /\ cur \in Entry /\ InSync(cur) /\ mmco5 \in BOOLEAN
  BY InvIsDpb DEF Inv, TypeOK
<1>2. ASSUME NEW diff \in Diffs, Mmco1(diff) PROVE Inv' /\ Weakening
  BY <1>1, <1>2, MarkShortTermUnusedFades, MarkingStepInv DEF Mmco1, InSync
<1>3. ASSUME NEW num \in LongTermNums, Mmco2(num) PROVE Inv' /\ Weakening
  BY <1>1, <1>3, MarkLongTermUnusedFades, MarkingStepInv DEF Mmco2, InSync
<1>4. ASSUME NEW diff \in Diffs, NEW idx \in LtIdx, Mmco3(diff, idx) PROVE Inv' /\ Weakening
  <2>1. idx \in Nat
    BY DpbAssumption
  <2>. QED
    BY <1>1, <1>4, <2>1, AssignLongTermFades, MarkingStepInv DEF Mmco3, InSync
<1>5. ASSUME NEW i, Mmco4(i) PROVE Inv' /\ Weakening
  BY <1>1, <1>5, SetMaxLongTermIdxFades, MarkingStepInv DEF Mmco4, InSync
<1>6. CASE Mmco5
  <2>1. Fades(dpb, MarkAllUnused(dpb))
    BY <1>1, MarkUnusedFades DEF MarkAllUnused
  <2>. QED
    BY <1>1, <1>6, <2>1, MarkingStepInv DEF Mmco5, InSync
<1>7. ASSUME NEW idx \in LtIdx, Mmco6(idx) PROVE Inv' /\ Weakening
  <2>1. idx \in Nat /\ "long" \in Marking
    BY DpbAssumption DEF Marking
  <2>2. MarkAll(cur, "long") \in Entry /\ InSync(MarkAll(cur, "long"))
    BY <1>1, <2>1, MarkAllEntry
  <2>3. CurrentLongTerm(cur, idx) \in Entry /\ InSync(CurrentLongTerm(cur, idx))
    BY <2>1, <2>2, SetIdxEntry DEF CurrentLongTerm
  <2>4. cur' \in Entry /\ InSync(cur)' /\ mmco5' \in BOOLEAN
    BY <1>1, <1>7, <2>3 DEF Mmco6, InSync
  <2>. QED
    BY <1>1, <1>7, <2>1, <2>4, AssignCurrentLongTermFades, MarkingStepInv DEF Mmco6
<1>8. CASE EndAdaptiveMarking
  BY <1>8, EndAdaptiveMarkingInv
<1>. QED
  BY <1>2, <1>3, <1>4, <1>5, <1>6, <1>7, <1>8 DEF AdaptiveMarkingStep

\* Every step keeps the invariant and no marking grows.
LEMMA NextInv ==
  ASSUME Inv, Next
  PROVE  Inv' /\ Weakening
BY OpenPictureInv, GapStepInv, GapDoneInv, DropPictureInv, FinalizeNonReferenceInv,
   FinalizeIdrInv, FinalizeSlidingWindowInv, BeginAdaptiveMarkingInv, AdaptiveMarkingStepInv
   DEF Next

\* So does a step that changes nothing.
LEMMA StutterInv ==
  ASSUME Inv, UNCHANGED vars
  PROVE  Inv'
BY DEF vars, Inv, TypeOK, MarkingsInSync, StoreMatchesDpb, OnlyReferencesHeld, GapKeys,
       CurrentKeyFree, InSync, RefKeys

-----------------------------------------------------------------------------
\* The decoder's reference state is well typed and the four parts of Inv hold,
\* for every MaxFrameNum, max_num_ref_frames and stream.
THEOREM Invariance == Spec => []Inv
<1>1. Inv /\ [Next]_vars => Inv'
  BY NextInv, StutterInv
<1>. QED
  BY <1>1, InitInv, PTL DEF Spec

\* Type correctness of the DPB model.
THEOREM TypeCorrect == Spec => []TypeOK
<1>1. Inv => TypeOK
  BY DEF Inv
<1>. QED
  BY <1>1, Invariance, PTL

\* Frame-level and per-field markings of an entry never disagree.
THEOREM SyncCorrect == Spec => []MarkingsInSync
<1>1. Inv => MarkingsInSync
  BY DEF Inv
<1>. QED
  BY <1>1, Invariance, PTL

\* The store holds the samples of exactly the DPB entries, so a reference list
\* entry always resolves to samples.
THEOREM StoreCorrect == Spec => []StoreMatchesDpb
<1>1. Inv => StoreMatchesDpb
  BY DEF Inv
<1>. QED
  BY <1>1, Invariance, PTL

\* Nothing stays in the DPB once it is no reference any more.
THEOREM RetentionCorrect == Spec => []OnlyReferencesHeld
<1>1. Inv => OnlyReferencesHeld
  BY DEF Inv
<1>. QED
  BY <1>1, Invariance, PTL

\* No step strengthens a marking or brings an entry back.
THEOREM NoRevival == Spec => NeverRevived
<1>1. Inv /\ [Next]_vars => [Weakening]_vars
  BY NextInv
<1>2. Spec => [][Weakening]_vars
  BY <1>1, Invariance, PTL DEF Spec
<1>. QED
  BY <1>2 DEF NeverRevived, Weakening

-----------------------------------------------------------------------------
(***************************************************************************)
(* Counting units.  ref_units pairs the n-th top with the n-th bottom      *)
(* field of a frame_num, so that a field's unit is told by its frame_num   *)
(* and its rank n among the fields of its parity, and the units of a       *)
(* frame_num are as many as the fields of the parity that has more.        *)
(***************************************************************************)
FiniteDpb(d) == IsDpb(d) /\ IsFiniteSet(DOMAIN d)

UpTo(T, k) == {j \in T : j <= k}

FieldsOf(d, p, n) == {k \in RefKeys(d) : d[k].structure = p /\ d[k].frameNum = n}

\* The unit of an entry: of a frame -1 and its key, of a field its frame_num
\* and its rank.
Label(d, k) ==
  IF IsField(d[k]) THEN <<d[k].frameNum, Cardinality(SameParityUpTo(d, k))>> ELSE <<-1, k>>

Labels(d) == {Label(d, k) : k \in RefKeys(d)}

\* Ranks run from 1 to the size of the set, and later elements have greater ones.
LEMMA RankRises ==
  ASSUME NEW T \in SUBSET Nat, IsFiniteSet(T), NEW k \in T
  PROVE  /\ IsFiniteSet(UpTo(T, k))
         /\ Cardinality(UpTo(T, k)) \in 1 .. Cardinality(T)
         /\ \A j \in T : j < k => Cardinality(UpTo(T, j)) < Cardinality(UpTo(T, k))
<1>1. /\ UpTo(T, k) \in SUBSET T /\ k \in UpTo(T, k)
  BY DEF UpTo
<1>2. /\ IsFiniteSet(UpTo(T, k))
      /\ Cardinality(UpTo(T, k)) \in Nat /\ Cardinality(T) \in Nat
      /\ Cardinality(UpTo(T, k)) <= Cardinality(T)
      /\ Cardinality(UpTo(T, k)) # 0
  BY <1>1, FS_Subset, FS_CardinalityType, FS_EmptySet
<1>3. ASSUME NEW j \in T, j < k
      PROVE  Cardinality(UpTo(T, j)) < Cardinality(UpTo(T, k))
  <2>1. UpTo(T, j) \in SUBSET UpTo(T, k) /\ UpTo(T, j) # UpTo(T, k)
    <3>1. j \in Nat /\ k \in Nat /\ ~ (k <= j)
      BY <1>3
    <3>2. ASSUME NEW x \in UpTo(T, j) PROVE x \in UpTo(T, k)
      <4>1. x \in T /\ x \in Nat /\ x <= j
        BY <3>2 DEF UpTo
      <4>2. x <= k
        BY <1>3, <3>1, <4>1
      <4>. QED
        BY <4>1, <4>2 DEF UpTo
    <3>3. k \notin UpTo(T, j)
      BY <3>1 DEF UpTo
    <3>. QED
      BY <1>1, <3>2, <3>3
  <2>2. /\ Cardinality(UpTo(T, j)) <= Cardinality(UpTo(T, k))
        /\ Cardinality(UpTo(T, j)) # Cardinality(UpTo(T, k))
        /\ IsFiniteSet(UpTo(T, j))
    BY <1>2, <2>1, FS_Subset
  <2>. QED
    BY <1>2, <2>2, FS_CardinalityType
<1>. QED
  BY <1>2, <1>3

\* Every rank is some element's.
LEMMA RankReached ==
  ASSUME NEW T \in SUBSET Nat, IsFiniteSet(T), NEW n \in 1 .. Cardinality(T)
  PROVE  \E k \in T : Cardinality(UpTo(T, k)) = n
<1>. DEFINE Missing == {m \in 1 .. Cardinality(T) : \A k \in T : Cardinality(UpTo(T, k)) # m}
            m == Min(Missing)
<1>1. Cardinality(T) \in Nat
  BY FS_CardinalityType
<1>2. SUFFICES ASSUME Missing # {} PROVE FALSE
  OBVIOUS
<1>3. m \in Missing /\ \A y \in Missing : m <= y
  <2>1. Missing \in SUBSET Nat
    BY <1>1
  <2>. HIDE DEF Missing
  <2>. QED
    BY <1>2, <2>1, MinInSet
<1>. HIDE DEF m
<1>4. m \in 1 .. Cardinality(T) /\ \A k \in T : Cardinality(UpTo(T, k)) # m
  BY <1>3
<1>5. CASE m = 1
  <2>1. T # {}
    BY <1>1, <1>4, <1>5, FS_EmptySet
  <2>2. Min(T) \in T /\ \A y \in T : Min(T) <= y
    BY <2>1, MinInSet
  <2>3. UpTo(T, Min(T)) = {Min(T)}
    <3>1. ASSUME NEW x \in T, x <= Min(T) PROVE x = Min(T)
      <4>1. x \in Nat /\ Min(T) \in Nat /\ Min(T) <= x
        BY <2>2
      <4>. QED
        BY <3>1, <4>1
    <3>2. Min(T) <= Min(T)
      BY <2>2
    <3>. QED
      BY <2>2, <3>1, <3>2 DEF UpTo
  <2>. QED
    BY <1>4, <1>5, <2>2, <2>3, FS_Singleton
<1>6. CASE m # 1
  <2>1. m - 1 \in 1 .. Cardinality(T) /\ ~ (m <= m - 1)
    BY <1>1, <1>4, <1>6
  <2>2. m - 1 \notin Missing
    BY <1>3, <2>1
  <2>3. PICK k \in T : Cardinality(UpTo(T, k)) = m - 1
    BY <2>1, <2>2
  <2>. DEFINE Later == {i \in T : i > k}
              j == Min(Later)
  <2>4. Later # {}
    <3>1. SUFFICES ASSUME Later = {} PROVE FALSE
      OBVIOUS
    <3>2. UpTo(T, k) = T
      <4>1. ASSUME NEW x \in T PROVE x <= k
        <5>1. x \in Nat /\ k \in Nat /\ ~ (x > k)
          BY <3>1
        <5>. QED
          BY <5>1
      <4>. QED
        BY <4>1 DEF UpTo
    <3>. QED
      BY <1>1, <1>4, <2>3, <3>2
  <2>5. j \in Later /\ \A y \in Later : j <= y
    <3>1. Later \in SUBSET Nat
      OBVIOUS
    <3>. HIDE DEF Later
    <3>. QED
      BY <2>4, <3>1, MinInSet
  <2>. HIDE DEF j
  <2>6. UpTo(T, j) = UpTo(T, k) \cup {j} /\ j \notin UpTo(T, k) /\ j \in T
    <3>1. j \in T /\ j > k /\ \A y \in T : y > k => j <= y
      BY <2>5
    <3>2. j \in Nat /\ k \in Nat
      BY <3>1
    <3>3. ASSUME NEW x \in T PROVE x <= j <=> x <= k \/ x = j
      <4>1. x \in Nat /\ (x > k => j <= x)
        BY <3>1
      <4>. QED
        BY <3>1, <3>2, <4>1
    <3>4. ~ (j <= k)
      BY <3>1, <3>2
    <3>. QED
      BY <3>1, <3>3, <3>4 DEF UpTo
  <2>7. Cardinality(UpTo(T, j)) = (m - 1) + 1
    BY <2>3, <2>6, RankRises, FS_AddElement
  <2>. QED
    BY <1>1, <1>4, <2>6, <2>7
<1>. QED
  BY <1>5, <1>6

\* The fields of one parity and frame_num, and the rank that labels one of them.
LEMMA FieldsOfFinite ==
  ASSUME NEW d, FiniteDpb(d)
  PROVE  /\ RefKeys(d) \in SUBSET Nat /\ IsFiniteSet(RefKeys(d))
         /\ \A p, n : /\ FieldsOf(d, p, n) \in SUBSET Nat
                      /\ IsFiniteSet(FieldsOf(d, p, n))
                      /\ Cardinality(FieldsOf(d, p, n)) \in Nat
         /\ \A k \in RefKeys(d) :
              SameParityUpTo(d, k) = UpTo(FieldsOf(d, d[k].structure, d[k].frameNum), k)
<1>1. RefKeys(d) \in SUBSET DOMAIN d /\ DOMAIN d \subseteq Nat
  BY DEF RefKeys, FiniteDpb, IsDpb
<1>2. IsFiniteSet(RefKeys(d))
  BY <1>1, FS_Subset DEF FiniteDpb
<1>3. ASSUME NEW p, NEW n
      PROVE  /\ FieldsOf(d, p, n) \in SUBSET RefKeys(d)
             /\ IsFiniteSet(FieldsOf(d, p, n))
             /\ Cardinality(FieldsOf(d, p, n)) \in Nat
  <2>1. FieldsOf(d, p, n) \in SUBSET RefKeys(d)
    BY DEF FieldsOf
  <2>. QED
    BY <1>2, <2>1, FS_Subset, FS_CardinalityType
<1>4. ASSUME NEW k \in RefKeys(d)
      PROVE  SameParityUpTo(d, k) = UpTo(FieldsOf(d, d[k].structure, d[k].frameNum), k)
  BY DEF SameParityUpTo, UpTo, FieldsOf
<1>. QED
  BY <1>1, <1>2, <1>3, <1>4

\* What labels there are.
LEMMA LabelKinds ==
  ASSUME NEW d, FiniteDpb(d)
  PROVE  /\ \A l \in Labels(d) :
              \/ \E k \in RefKeys(d) : ~ IsField(d[k]) /\ l = <<-1, k>>
              \/ \E n \in FrameNums, p \in Parity :
                   \E r \in 1 .. Cardinality(FieldsOf(d, p, n)) : l = <<n, r>>
         /\ \A k \in RefKeys(d) : ~ IsField(d[k]) => <<-1, k>> \in Labels(d)
         /\ \A n \in FrameNums, p \in Parity :
              \A r \in 1 .. Cardinality(FieldsOf(d, p, n)) : <<n, r>> \in Labels(d)
<1>1. ASSUME NEW k \in RefKeys(d), IsField(d[k])
      PROVE  \E n \in FrameNums, p \in Parity :
               \E r \in 1 .. Cardinality(FieldsOf(d, p, n)) : Label(d, k) = <<n, r>>
  <2>. DEFINE n == d[k].frameNum
              p == d[k].structure
              r == Cardinality(UpTo(FieldsOf(d, p, n), k))
  <2>1. n \in FrameNums /\ p \in Parity /\ k \in FieldsOf(d, p, n)
    BY <1>1 DEF RefKeys, FiniteDpb, IsDpb, Entry, IsField, FieldsOf
  <2>2. Label(d, k) = <<n, r>>
    BY <1>1, FieldsOfFinite DEF Label
  <2>3. FieldsOf(d, p, n) \in SUBSET Nat /\ IsFiniteSet(FieldsOf(d, p, n))
    BY FieldsOfFinite
  <2>. HIDE DEF n, p
  <2>4. r \in 1 .. Cardinality(FieldsOf(d, p, n))
    BY <2>1, <2>3, RankRises
  <2>. QED
    BY <2>1, <2>2, <2>4
<1>2. ASSUME NEW n \in FrameNums, NEW p \in Parity, NEW r \in 1 .. Cardinality(FieldsOf(d, p, n))
      PROVE  <<n, r>> \in Labels(d)
  <2>1. PICK k \in FieldsOf(d, p, n) : Cardinality(UpTo(FieldsOf(d, p, n), k)) = r
    BY FieldsOfFinite, RankReached
  <2>2. k \in RefKeys(d) /\ d[k].structure = p /\ d[k].frameNum = n
    BY DEF FieldsOf
  <2>3. SameParityUpTo(d, k) = UpTo(FieldsOf(d, p, n), k)
    BY <2>2, FieldsOfFinite
  <2>4. Label(d, k) = <<n, r>>
    BY <2>1, <2>2, <2>3 DEF Label, IsField
  <2>. QED
    BY <2>2, <2>4 DEF Labels
<1>. QED
  BY <1>1, <1>2 DEF Labels, Label

\* A unit holds the references of its label, so there are as many units as labels.
LEMMA UnitOfLabel ==
  ASSUME NEW d, FiniteDpb(d), NEW j \in RefKeys(d), NEW k \in RefKeys(d)
  PROVE  j \in Unit(d, k) <=> Label(d, j) = Label(d, k)
<1>. DEFINE F(i) == FieldsOf(d, d[i].structure, d[i].frameNum)
<1>1. /\ j \in DOMAIN d /\ k \in DOMAIN d /\ j \in Nat /\ k \in Nat
      /\ d[j].frameNum \in Nat /\ d[k].frameNum \in Nat
      /\ d[j].structure \in Structure /\ d[k].structure \in Structure
  BY MaxFrameNumAssumption DEF RefKeys, FiniteDpb, IsDpb, Entry, FrameNums
<1>2. /\ F(j) \in SUBSET Nat /\ IsFiniteSet(F(j)) /\ j \in F(j)
      /\ F(k) \in SUBSET Nat /\ IsFiniteSet(F(k)) /\ k \in F(k)
      /\ SameParityUpTo(d, j) = UpTo(F(j), j) /\ SameParityUpTo(d, k) = UpTo(F(k), k)
  <2>1. ASSUME NEW i \in RefKeys(d)
        PROVE  /\ F(i) \in SUBSET Nat /\ IsFiniteSet(F(i)) /\ i \in F(i)
               /\ SameParityUpTo(d, i) = UpTo(F(i), i)
    <3>1. i \in F(i)
      BY DEF FieldsOf
    <3>. QED
      BY <3>1, FieldsOfFinite
  <2>. QED
    BY <2>1
<1>3. CASE j = k
  BY <1>3 DEF Unit
<1>4. CASE j # k /\ ~ (IsField(d[j]) /\ IsField(d[k]))
  <2>1. j \notin Unit(d, k)
    BY <1>4 DEF Unit, Paired
  <2>2. Label(d, j) # Label(d, k)
    BY <1>1, <1>4 DEF Label
  <2>. QED
    BY <2>1, <2>2
<1>5. CASE j # k /\ IsField(d[j]) /\ IsField(d[k])
  <2>1. Label(d, j) = Label(d, k)
          <=> /\ d[j].frameNum = d[k].frameNum
              /\ Cardinality(SameParityUpTo(d, j)) = Cardinality(SameParityUpTo(d, k))
    BY <1>5 DEF Label
  <2>2. CASE d[j].structure # d[k].structure
    BY <1>5, <2>1, <2>2 DEF Unit, Paired
  <2>3. CASE d[j].structure = d[k].structure
    <3>1. j \notin Unit(d, k)
      BY <1>5, <2>3 DEF Unit, Paired
    <3>2. ASSUME d[j].frameNum = d[k].frameNum
          PROVE  Cardinality(SameParityUpTo(d, j)) # Cardinality(SameParityUpTo(d, k))
      <4>. DEFINE T == F(j)
      <4>1. F(k) = T
        BY <2>3, <3>2
      <4>2. T \in SUBSET Nat /\ IsFiniteSet(T) /\ j \in T /\ k \in T
        BY <1>2, <4>1
      <4>3. SameParityUpTo(d, j) = UpTo(T, j) /\ SameParityUpTo(d, k) = UpTo(T, k)
        BY <1>2, <4>1
      <4>. HIDE DEF T
      <4>4. /\ Cardinality(UpTo(T, j)) \in Int /\ Cardinality(UpTo(T, k)) \in Int
            /\ j < k => Cardinality(UpTo(T, j)) < Cardinality(UpTo(T, k))
            /\ k < j => Cardinality(UpTo(T, k)) < Cardinality(UpTo(T, j))
        BY <4>2, RankRises, FS_CardinalityType
      <4>. QED
        BY <1>1, <1>5, <4>3, <4>4
    <3>. QED
      BY <2>1, <3>1, <3>2
  <2>. QED
    BY <2>2, <2>3
<1>. QED
  BY <1>3, <1>4, <1>5

\* There are as many units as labels.
LEMMA CountUnits ==
  ASSUME NEW d, FiniteDpb(d)
  PROVE  /\ IsFiniteSet(Labels(d)) /\ IsFiniteSet(RefUnits(d))
         /\ Cardinality(RefUnits(d)) = Cardinality(Labels(d))
         /\ Cardinality(RefUnits(d)) \in Nat
<1>. DEFINE f == [k \in RefKeys(d) |-> Label(d, k)]
            g == [l \in Labels(d) |-> {k \in RefKeys(d) : Label(d, k) = l}]
<1>1. IsFiniteSet(Labels(d))
  <2>1. f \in Surjection(RefKeys(d), Labels(d))
    BY DEF Surjection, Labels
  <2>. HIDE DEF f
  <2>. QED
    BY <2>1, FieldsOfFinite, FS_Surjection
<1>2. ASSUME NEW k \in RefKeys(d) PROVE Unit(d, k) = g[Label(d, k)]
  <2>1. Label(d, k) \in Labels(d) /\ Unit(d, k) \subseteq RefKeys(d)
    BY DEF Labels, Unit
  <2>2. \A j \in RefKeys(d) : j \in Unit(d, k) <=> Label(d, j) = Label(d, k)
    BY UnitOfLabel
  <2>. QED
    BY <2>1, <2>2
<1>3. ASSUME NEW l \in Labels(d), NEW m \in Labels(d), g[l] = g[m] PROVE l = m
  <2>1. PICK k \in RefKeys(d) : Label(d, k) = l
    BY DEF Labels
  <2>2. k \in g[l]
    BY <2>1
  <2>3. k \in g[m]
    BY <1>3, <2>2
  <2>. QED
    BY <2>1, <2>3
<1>4. g \in Bijection(Labels(d), RefUnits(d))
  <2>1. \A l \in Labels(d) : g[l] \in RefUnits(d)
    <3>1. SUFFICES ASSUME NEW l \in Labels(d) PROVE g[l] \in RefUnits(d)
      OBVIOUS
    <3>2. PICK k \in RefKeys(d) : Label(d, k) = l
      BY DEF Labels
    <3>. HIDE DEF g
    <3>. QED
      BY <1>2, <3>2 DEF RefUnits
  <2>2. \A u \in RefUnits(d) : \E l \in Labels(d) : g[l] = u
    <3>. HIDE DEF g
    <3>. QED
      BY <1>2 DEF RefUnits, Labels
  <2>3. g = [l \in Labels(d) |-> g[l]]
    OBVIOUS
  <2>. HIDE DEF g
  <2>4. g \in [Labels(d) -> RefUnits(d)]
    BY <2>1, <2>3
  <2>. QED
    BY <1>3, <2>2, <2>4 DEF Bijection, Injection, IsInjective, Surjection
<1>. HIDE DEF g
<1>5. ExistsBijection(Labels(d), RefUnits(d))
  BY <1>4 DEF ExistsBijection
<1>. QED
  BY <1>1, <1>5, FS_Bijection, FS_CardinalityType

\* e has references of d, each of the picture it was of in d.
SomeRefsOf(e, d) ==
  /\ RefKeys(e) \subseteq RefKeys(d)
  /\ \A k \in RefKeys(e) : e[k].structure = d[k].structure /\ e[k].frameNum = d[k].frameNum

\* The counts of fields fall with the references.
LEMMA FewerFields ==
  ASSUME NEW d, FiniteDpb(d), NEW e, FiniteDpb(e), SomeRefsOf(e, d), NEW p, NEW n
  PROVE  /\ FieldsOf(e, p, n) \subseteq FieldsOf(d, p, n)
         /\ Cardinality(FieldsOf(e, p, n)) <= Cardinality(FieldsOf(d, p, n))
<1>1. FieldsOf(e, p, n) \in SUBSET FieldsOf(d, p, n)
  BY DEF SomeRefsOf, FieldsOf
<1>. QED
  BY <1>1, FieldsOfFinite, FS_Subset

\* With fewer references there are no more units.
LEMMA FewerUnits ==
  ASSUME NEW d, FiniteDpb(d), NEW e, FiniteDpb(e), SomeRefsOf(e, d)
  PROVE  /\ Labels(e) \subseteq Labels(d)
         /\ Cardinality(RefUnits(e)) <= Cardinality(RefUnits(d))
<1>1. ASSUME NEW l \in Labels(e) PROVE l \in Labels(d)
  <2>1. CASE \E k \in RefKeys(e) : ~ IsField(e[k]) /\ l = <<-1, k>>
    <3>1. PICK k \in RefKeys(e) : ~ IsField(e[k]) /\ l = <<-1, k>>
      BY <2>1
    <3>2. k \in RefKeys(d) /\ ~ IsField(d[k])
      BY <3>1 DEF SomeRefsOf, IsField
    <3>. QED
      BY <3>1, <3>2, LabelKinds
  <2>2. CASE \E n \in FrameNums, p \in Parity :
               \E r \in 1 .. Cardinality(FieldsOf(e, p, n)) : l = <<n, r>>
    <3>. PICK n \in FrameNums, p \in Parity :
           \E r \in 1 .. Cardinality(FieldsOf(e, p, n)) : l = <<n, r>>
      BY <2>2
    <3>1. PICK r \in 1 .. Cardinality(FieldsOf(e, p, n)) : l = <<n, r>>
      OBVIOUS
    <3>2. r \in 1 .. Cardinality(FieldsOf(d, p, n))
      BY <3>1, FewerFields, FieldsOfFinite
    <3>. QED
      BY <3>1, <3>2, LabelKinds
  <2>. QED
    BY <2>1, <2>2, LabelKinds
<1>2. Labels(e) \in SUBSET Labels(d)
  BY <1>1
<1>. QED
  BY <1>2, CountUnits, FS_Subset

\* A label that is gone makes at least one unit fewer.
LEMMA LabelGone ==
  ASSUME NEW d, FiniteDpb(d), NEW e, FiniteDpb(e), SomeRefsOf(e, d),
         NEW l \in Labels(d), l \notin Labels(e)
  PROVE  Cardinality(RefUnits(e)) + 1 <= Cardinality(RefUnits(d))
<1>1. Labels(e) \in SUBSET (Labels(d) \ {l})
  BY FewerUnits
<1>2. /\ IsFiniteSet(Labels(d) \ {l})
      /\ Cardinality(Labels(d) \ {l}) = Cardinality(Labels(d)) - 1
  BY CountUnits, FS_RemoveElement
<1>3. Cardinality(Labels(e)) <= Cardinality(Labels(d)) - 1
  BY <1>1, <1>2, FS_Subset
<1>. QED
  BY <1>3, CountUnits

\* With a whole unit gone there is at least one unit fewer: of its frame_num, the
\* greatest label is no more.
LEMMA OneUnitFewer ==
  ASSUME NEW d, FiniteDpb(d), NEW e, FiniteDpb(e), SomeRefsOf(e, d),
         NEW k \in RefKeys(d), RefKeys(e) \cap Unit(d, k) = {}
  PROVE  Cardinality(RefUnits(e)) + 1 <= Cardinality(RefUnits(d))
<1>1. k \in Unit(d, k) /\ k \notin RefKeys(e)
  BY DEF Unit
<1>2. CASE ~ IsField(d[k])
  <2>1. <<-1, k>> \in Labels(d)
    BY <1>2, LabelKinds
  <2>2. <<-1, k>> \notin Labels(e)
    <3>1. \A n \in FrameNums : n # -1
      BY MaxFrameNumAssumption DEF FrameNums
    <3>. QED
      BY <1>1, <3>1, LabelKinds
  <2>. QED
    BY <2>1, <2>2, LabelGone
<1>3. CASE IsField(d[k])
  <2>. DEFINE n == d[k].frameNum
              D(p) == Cardinality(FieldsOf(d, p, n))
              E(p) == Cardinality(FieldsOf(e, p, n))
              r == Cardinality(SameParityUpTo(d, k))
              top == IF D("top") >= D("bottom") THEN D("top") ELSE D("bottom")
  <2>1. n \in FrameNums /\ d[k].structure \in Parity /\ k \in FieldsOf(d, d[k].structure, n)
    BY <1>3 DEF RefKeys, FiniteDpb, IsDpb, Entry, IsField, FieldsOf
  <2>2. \A p \in Parity : D(p) \in Nat /\ E(p) \in Nat /\ E(p) <= D(p)
    BY FewerFields, FieldsOfFinite
  <2>3. r \in 1 .. D(d[k].structure)
    <3>. DEFINE T == FieldsOf(d, d[k].structure, n)
    <3>1. SameParityUpTo(d, k) = UpTo(T, k) /\ T \in SUBSET Nat /\ IsFiniteSet(T)
      BY FieldsOfFinite
    <3>2. k \in T
      BY <2>1
    <3>. HIDE DEF T
    <3>3. Cardinality(UpTo(T, k)) \in 1 .. Cardinality(T)
      BY <3>1, <3>2, RankRises
    <3>. QED
      BY <3>1, <3>3 DEF T
  <2>4. ASSUME NEW p \in Parity, D(p) >= r PROVE E(p) + 1 <= D(p)
    <3>. DEFINE T == FieldsOf(d, p, n)
    <3>1. T \in SUBSET Nat /\ IsFiniteSet(T) /\ Cardinality(T) = D(p)
      BY FieldsOfFinite
    <3>2. r \in 1 .. Cardinality(T)
      BY <2>2, <2>3, <2>4, <3>1
    <3>. HIDE DEF T, r
    <3>3. PICK j \in T : Cardinality(UpTo(T, j)) = r
      BY <3>1, <3>2, RankReached
    <3>4. j \in RefKeys(d) /\ d[j].structure = p /\ d[j].frameNum = n /\ IsField(d[j])
      BY DEF T, FieldsOf, IsField
    <3>5. SameParityUpTo(d, j) = UpTo(T, j)
      BY <3>4, FieldsOfFinite DEF T
    <3>6. Label(d, j) = Label(d, k)
      BY <1>3, <3>3, <3>4, <3>5 DEF Label, r
    <3>7. j \in Unit(d, k)
      BY <3>4, <3>6, UnitOfLabel
    <3>8. j \notin FieldsOf(e, p, n) /\ FieldsOf(e, p, n) \subseteq T
      <4>1. FieldsOf(e, p, n) \subseteq T
        BY FewerFields DEF T
      <4>2. FieldsOf(e, p, n) \subseteq RefKeys(e)
        BY DEF FieldsOf
      <4>. QED
        BY <3>7, <4>1, <4>2
    <3>9. FieldsOf(e, p, n) \in SUBSET (T \ {j})
      BY <3>8
    <3>10. IsFiniteSet(T \ {j}) /\ Cardinality(T \ {j}) = D(p) - 1
      BY <3>1, <3>3, FS_RemoveElement
    <3>11. E(p) <= D(p) - 1
      BY <3>9, <3>10, FS_Subset
    <3>. QED
      BY <2>2, <3>11
  <2>5. "top" \in Parity /\ "bottom" \in Parity /\ \A p \in Parity : p = "top" \/ p = "bottom"
    BY DEF Parity
  <2>. HIDE DEF n, D, E, r
  <2>6. /\ top \in Nat /\ \A p \in Parity : D(p) <= top
        /\ top >= 1 /\ \E p \in Parity : top = D(p)
    BY <2>1, <2>2, <2>3, <2>5
  <2>7. \A p \in Parity : E(p) < top
    <3>1. r \in Int /\ r <= top
      BY <2>1, <2>2, <2>3, <2>6
    <3>. HIDE DEF top
    <3>. QED
      BY <2>2, <2>4, <2>6, <3>1
  <2>. HIDE DEF top
  <2>8. <<n, top>> \in Labels(d)
    <3>1. PICK p \in Parity : top = D(p)
      BY <2>6
    <3>2. top \in 1 .. Cardinality(FieldsOf(d, p, n))
      BY <2>6, <3>1 DEF D
    <3>. QED
      BY <2>1, <3>2, LabelKinds
  <2>9. <<n, top>> \notin Labels(e)
    <3>1. SUFFICES ASSUME <<n, top>> \in Labels(e) PROVE FALSE
      OBVIOUS
    <3>2. n # -1
      BY <2>1, MaxFrameNumAssumption DEF FrameNums
    <3>3. PICK p \in Parity : top \in 1 .. Cardinality(FieldsOf(e, p, n))
      BY <3>1, <3>2, LabelKinds
    <3>. QED
      BY <2>2, <2>6, <2>7, <3>3 DEF E
  <2>. QED
    BY <2>8, <2>9, LabelGone
<1>. QED
  BY <1>2, <1>3

\* e is d with one more reference.
OneRefMore(e, d, key) ==
  /\ RefKeys(e) = RefKeys(d) \cup {key} /\ key \notin RefKeys(d)
  /\ \A k \in RefKeys(d) : e[k].structure = d[k].structure /\ e[k].frameNum = d[k].frameNum

\* The fields of a DPB that gains a reference.
LEMMA OneFieldMore ==
  ASSUME NEW d, FiniteDpb(d), NEW e, FiniteDpb(e), NEW key, OneRefMore(e, d, key), NEW p, NEW n
  PROVE  Cardinality(FieldsOf(e, p, n))
           = IF e[key].structure = p /\ e[key].frameNum = n
             THEN Cardinality(FieldsOf(d, p, n)) + 1 ELSE Cardinality(FieldsOf(d, p, n))
<1>1. FieldsOf(e, p, n) = IF e[key].structure = p /\ e[key].frameNum = n
                          THEN FieldsOf(d, p, n) \cup {key} ELSE FieldsOf(d, p, n)
  BY DEF OneRefMore, FieldsOf
<1>2. key \notin FieldsOf(d, p, n)
  BY DEF OneRefMore, FieldsOf
<1>3. IsFiniteSet(FieldsOf(d, p, n))
  BY FieldsOfFinite
<1>4. Cardinality(FieldsOf(d, p, n) \cup {key}) = Cardinality(FieldsOf(d, p, n)) + 1
  BY <1>2, <1>3, FS_AddElement
<1>. QED
  BY <1>1, <1>4

\* A reference more makes one unit more at most, and none if it is a field and the
\* other parity of its frame_num has more fields.
LEMMA OneUnitMore ==
  ASSUME NEW d, FiniteDpb(d), NEW e, FiniteDpb(e), NEW key, OneRefMore(e, d, key)
  PROVE  /\ Cardinality(RefUnits(e)) <= Cardinality(RefUnits(d)) + 1
         /\ /\ IsField(e[key])
            /\ Cardinality(FieldsOf(d, e[key].structure, e[key].frameNum))
                 < Cardinality(FieldsOf(d, Opposite(e[key].structure), e[key].frameNum))
            => Cardinality(RefUnits(e)) <= Cardinality(RefUnits(d))
<1>. DEFINE s == e[key].structure
            m == e[key].frameNum
            c == Cardinality(FieldsOf(d, s, m))
            new == IF IsField(e[key]) THEN <<m, c + 1>> ELSE <<-1, key>>
<1>1. ASSUME NEW l \in Labels(e) PROVE l \in Labels(d) \/ l = new
  <2>1. CASE \E k \in RefKeys(e) : ~ IsField(e[k]) /\ l = <<-1, k>>
    <3>1. PICK k \in RefKeys(e) : ~ IsField(e[k]) /\ l = <<-1, k>>
      BY <2>1
    <3>2. k = key \/ (k \in RefKeys(d) /\ ~ IsField(d[k]))
      BY <3>1 DEF OneRefMore, IsField
    <3>. QED
      BY <3>1, <3>2, LabelKinds
  <2>2. CASE \E n \in FrameNums, p \in Parity :
               \E r \in 1 .. Cardinality(FieldsOf(e, p, n)) : l = <<n, r>>
    <3>. PICK n \in FrameNums, p \in Parity :
           \E r \in 1 .. Cardinality(FieldsOf(e, p, n)) : l = <<n, r>>
      BY <2>2
    <3>1. PICK r \in 1 .. Cardinality(FieldsOf(e, p, n)) : l = <<n, r>>
      OBVIOUS
    <3>2. Cardinality(FieldsOf(d, p, n)) \in Nat
      BY FieldsOfFinite
    <3>3. CASE r \in 1 .. Cardinality(FieldsOf(d, p, n))
      BY <3>1, <3>3, LabelKinds
    <3>4. CASE r \notin 1 .. Cardinality(FieldsOf(d, p, n))
      <4>1. s = p /\ m = n /\ r = c + 1
        BY <3>2, <3>4, OneFieldMore
      <4>2. IsField(e[key])
        BY <4>1 DEF IsField
      <4>. QED
        BY <3>1, <4>1, <4>2
    <3>. QED
      BY <3>3, <3>4
  <2>. QED
    BY <2>1, <2>2, LabelKinds
<1>2. Cardinality(RefUnits(e)) <= Cardinality(RefUnits(d)) + 1
  <2>. HIDE DEF new
  <2>1. Labels(e) \in SUBSET (Labels(d) \cup {new})
    BY <1>1
  <2>2. /\ IsFiniteSet(Labels(d)) /\ Cardinality(Labels(d)) = Cardinality(RefUnits(d))
        /\ Cardinality(Labels(e)) = Cardinality(RefUnits(e))
        /\ Cardinality(RefUnits(d)) \in Nat /\ Cardinality(RefUnits(e)) \in Nat
    BY CountUnits
  <2>3. /\ IsFiniteSet(Labels(d) \cup {new})
        /\ Cardinality(Labels(d) \cup {new}) \in Nat
        /\ Cardinality(Labels(d) \cup {new}) <= Cardinality(Labels(d)) + 1
    <3>1. CASE new \in Labels(d)
      <4>1. Labels(d) \cup {new} = Labels(d)
        BY <3>1
      <4>. QED
        BY <2>2, <4>1
    <3>2. CASE new \notin Labels(d)
      <4>1. /\ IsFiniteSet(Labels(d) \cup {new})
            /\ Cardinality(Labels(d) \cup {new}) = Cardinality(Labels(d)) + 1
        BY <2>2, <3>2, FS_AddElement
      <4>. QED
        BY <2>2, <4>1
    <3>. QED
      BY <3>1, <3>2
  <2>4. Cardinality(Labels(e)) <= Cardinality(Labels(d) \cup {new})
    BY <2>1, <2>3, FS_Subset
  <2>. QED
    BY <2>2, <2>3, <2>4
<1>3. ASSUME IsField(e[key]), c < Cardinality(FieldsOf(d, Opposite(s), m))
      PROVE  Cardinality(RefUnits(e)) <= Cardinality(RefUnits(d))
  <2>1. m \in FrameNums /\ Opposite(s) \in Parity
    <3>1. e[key] \in Entry
      BY DEF OneRefMore, RefKeys, FiniteDpb, IsDpb
    <3>. QED
      BY <3>1 DEF Entry, Opposite, Parity
  <2>2. c + 1 \in 1 .. Cardinality(FieldsOf(d, Opposite(s), m))
    <3>1. c \in Nat /\ Cardinality(FieldsOf(d, Opposite(s), m)) \in Nat
      BY FieldsOfFinite
    <3>. HIDE DEF c
    <3>. QED
      BY <1>3, <3>1
  <2>3. new \in Labels(d)
    <3>1. new = <<m, c + 1>>
      BY <1>3
    <3>. HIDE DEF new, m, c, s
    <3>. QED
      BY <2>1, <2>2, <3>1, LabelKinds
  <2>. HIDE DEF new
  <2>4. Labels(e) \in SUBSET Labels(d)
    BY <1>1, <2>3
  <2>. QED
    BY <2>4, CountUnits, FS_Subset
<1>. QED
  BY <1>2, <1>3

-----------------------------------------------------------------------------
(***************************************************************************)
(* Units and frames.  The stream's own grouping (the frame history field)  *)
(* has at least as many frames as ref_units finds units: the fields of the *)
(* parity a frame_num has more of are all of different frames.             *)
(***************************************************************************)

\* Only the two fields of a pair share a frame.
FramesApart(d) ==
  \A j, k \in RefKeys(d) : j # k /\ d[j].frame = d[k].frame =>
    /\ IsField(d[j]) /\ IsField(d[k])
    /\ d[j].structure # d[k].structure /\ d[j].frameNum = d[k].frameNum

\* The parity frame_num n has more fields of; t if there are as many of both.
MoreOf(d, n, t) ==
  IF Cardinality(FieldsOf(d, Opposite(t), n)) > Cardinality(FieldsOf(d, t, n))
  THEN Opposite(t) ELSE t

\* k stands for the unit it is labelled with.
StandsFor(d, t, k) == IsField(d[k]) => d[k].structure = MoreOf(d, d[k].frameNum, t)

\* The opposite of a parity is the other one.
LEMMA OppositeParity ==
  ASSUME NEW t \in Parity
  PROVE  /\ Opposite(t) \in Parity /\ Opposite(t) # t /\ Opposite(Opposite(t)) = t
         /\ \A p \in Parity : p = t \/ p = Opposite(t)
         /\ t # "frame"
BY DEF Parity, Opposite

\* Every label has a reference that stands for it.
LEMMA Representative ==
  ASSUME NEW d, FiniteDpb(d), NEW t \in Parity, NEW l \in Labels(d)
  PROVE  \E k \in RefKeys(d) : Label(d, k) = l /\ StandsFor(d, t, k)
<1>1. CASE \E k \in RefKeys(d) : ~ IsField(d[k]) /\ l = <<-1, k>>
  BY <1>1 DEF Label, StandsFor
<1>2. CASE \E n \in FrameNums, p \in Parity :
             \E r \in 1 .. Cardinality(FieldsOf(d, p, n)) : l = <<n, r>>
  <2>. PICK n \in FrameNums, p \in Parity :
         \E r \in 1 .. Cardinality(FieldsOf(d, p, n)) : l = <<n, r>>
    BY <1>2
  <2>1. PICK r \in 1 .. Cardinality(FieldsOf(d, p, n)) : l = <<n, r>>
    OBVIOUS
  <2>. DEFINE q == MoreOf(d, n, t)
              T == FieldsOf(d, q, n)
  <2>2. q \in Parity /\ Cardinality(FieldsOf(d, p, n)) <= Cardinality(FieldsOf(d, q, n))
    <3>1. \A s \in Parity : Cardinality(FieldsOf(d, s, n)) \in Nat
      BY FieldsOfFinite
    <3>. QED
      BY <3>1, OppositeParity DEF MoreOf
  <2>. HIDE DEF q
  <2>3. /\ T \in SUBSET Nat /\ IsFiniteSet(T) /\ Cardinality(T) \in Nat
        /\ Cardinality(FieldsOf(d, p, n)) \in Nat
    BY FieldsOfFinite
  <2>4. r \in 1 .. Cardinality(T)
    BY <2>2, <2>3
  <2>. HIDE DEF T
  <2>5. PICK k \in T : Cardinality(UpTo(T, k)) = r
    BY <2>3, <2>4, RankReached
  <2>6. k \in RefKeys(d) /\ d[k].structure = q /\ d[k].frameNum = n
    BY DEF T, FieldsOf
  <2>7. SameParityUpTo(d, k) = UpTo(T, k) /\ IsField(d[k])
    BY <2>2, <2>6, FieldsOfFinite DEF T, IsField
  <2>8. Label(d, k) = l
    BY <2>1, <2>5, <2>6, <2>7 DEF Label
  <2>. QED
    BY <2>6, <2>8 DEF StandsFor, q
<1>. QED
  BY <1>1, <1>2, LabelKinds

\* References that stand for different labels are of different frames.
LEMMA RepresentativesApart ==
  ASSUME NEW d, FiniteDpb(d), FramesApart(d), NEW t \in Parity,
         NEW j \in RefKeys(d), NEW k \in RefKeys(d), StandsFor(d, t, j), StandsFor(d, t, k),
         d[j].frame = d[k].frame
  PROVE  j = k
BY DEF FramesApart, StandsFor

\* There are at most as many units as frames of the references that can stand for
\* a unit.
LEMMA UnitsPerRepresentative ==
  ASSUME NEW d, FiniteDpb(d), FramesApart(d), NEW t \in Parity, NEW F,
         IsFiniteSet(F), \A k \in RefKeys(d) : StandsFor(d, t, k) => d[k].frame \in F
  PROVE  Cardinality(RefUnits(d)) <= Cardinality(F)
<1>. DEFINE Of(l) == CHOOSE k \in RefKeys(d) : Label(d, k) = l /\ StandsFor(d, t, k)
            g == [l \in Labels(d) |-> d[Of(l)].frame]
<1>1. \A l \in Labels(d) : Of(l) \in RefKeys(d) /\ Label(d, Of(l)) = l /\ StandsFor(d, t, Of(l))
  BY Representative
<1>. HIDE DEF Of
<1>2. g \in [Labels(d) -> F]
  BY <1>1
<1>3. ASSUME NEW l \in Labels(d), NEW m \in Labels(d), g[l] = g[m] PROVE l = m
  <2>1. Of(l) = Of(m)
    BY <1>1, <1>3, RepresentativesApart
  <2>. QED
    BY <1>1, <2>1
<1>. HIDE DEF g
<1>4. g \in Injection(Labels(d), F)
  BY <1>2, <1>3 DEF Injection, IsInjective
<1>5. Cardinality(Labels(d)) <= Cardinality(F)
  BY <1>4, FS_Injection
<1>. QED
  BY <1>5, CountUnits

\* The frames are finitely many.
LEMMA FramesFinite ==
  ASSUME NEW d, FiniteDpb(d)
  PROVE  IsFiniteSet(Frames(d)) /\ Cardinality(Frames(d)) \in Nat
<1>. DEFINE f == [k \in RefKeys(d) |-> d[k].frame]
<1>1. f \in Surjection(RefKeys(d), Frames(d))
  BY DEF Surjection, Frames
<1>. HIDE DEF f
<1>2. IsFiniteSet(Frames(d))
  BY <1>1, FieldsOfFinite, FS_Surjection
<1>. QED
  BY <1>2, FS_CardinalityType

\* There are at most as many units as frames.
LEMMA UnitsPerFrame ==
  ASSUME NEW d, FiniteDpb(d), FramesApart(d)
  PROVE  Cardinality(RefUnits(d)) <= Cardinality(Frames(d))
<1>1. "top" \in Parity /\ \A k \in RefKeys(d) : d[k].frame \in Frames(d)
  BY DEF Parity, Frames
<1>. QED
  BY <1>1, FramesFinite, UnitsPerRepresentative

\* Where a field whose frame has no other is to be joined by its second, either
\* the second's parity has fewer fields, or the frames are more than the units.
LEMMA RoomWithLoneField ==
  ASSUME NEW d, FiniteDpb(d), FramesApart(d), NEW f \in RefKeys(d), IsField(d[f]),
         \A k \in RefKeys(d) : d[k].frame = d[f].frame => k = f
  PROVE  \/ Cardinality(FieldsOf(d, Opposite(d[f].structure), d[f].frameNum))
              < Cardinality(FieldsOf(d, d[f].structure, d[f].frameNum))
         \/ Cardinality(RefUnits(d)) + 1 <= Cardinality(Frames(d))
<1>. DEFINE p == d[f].structure
            n == d[f].frameNum
            F == Frames(d) \ {d[f].frame}
<1>1. p \in Parity /\ Opposite(p) \in Parity /\ Opposite(Opposite(p)) = p /\ p # Opposite(p)
  <2>1. p \in Parity
    BY DEF IsField, RefKeys, FiniteDpb, IsDpb, Entry
  <2>. QED
    BY <2>1, OppositeParity
<1>2. SUFFICES ASSUME ~ (Cardinality(FieldsOf(d, Opposite(p), n)) < Cardinality(FieldsOf(d, p, n)))
               PROVE  Cardinality(RefUnits(d)) + 1 <= Cardinality(Frames(d))
  OBVIOUS
<1>3. ~ StandsFor(d, Opposite(p), f)
  <2>1. /\ Cardinality(FieldsOf(d, Opposite(p), n)) \in Nat
        /\ Cardinality(FieldsOf(d, p, n)) \in Nat
    BY FieldsOfFinite
  <2>2. MoreOf(d, n, Opposite(p)) = Opposite(p)
    BY <1>1, <1>2, <2>1 DEF MoreOf
  <2>. QED
    BY <1>1, <2>2 DEF StandsFor
<1>4. \A k \in RefKeys(d) : StandsFor(d, Opposite(p), k) => d[k].frame \in F
  BY <1>3 DEF Frames
<1>5. IsFiniteSet(F) /\ Cardinality(F) = Cardinality(Frames(d)) - 1
  <2>1. d[f].frame \in Frames(d)
    BY DEF Frames
  <2>. QED
    BY <2>1, FramesFinite, FS_RemoveElement
<1>. HIDE DEF F
<1>6. Cardinality(RefUnits(d)) <= Cardinality(F)
  BY <1>1, <1>4, <1>5, UnitsPerRepresentative
<1>. QED
  BY <1>5, <1>6, FramesFinite, CountUnits

-----------------------------------------------------------------------------
(* Distances between frame_nums. *)

\* Quotient and remainder are unique.
LEMMA RemainderUnique ==
  ASSUME NEW K \in Nat \ {0}, NEW a \in Int, NEW q \in Int, NEW r \in 0 .. K - 1, a = (K * q) + r
  PROVE  a % K = r
<1>. DEFINE s == a % K
            z == (a \div K) - q
            m == K * z
<1>1. s \in 0 .. K - 1 /\ z \in Int /\ m = r - s
  <2>1. a % K \in 0 .. K - 1 /\ (a \div K) \in Int /\ a = (K * (a \div K)) + (a % K)
    OBVIOUS
  <2>2. K * ((a \div K) - q) = (K * (a \div K)) - (K * q)
    BY <2>1
  <2>. QED
    BY <2>1, <2>2
<1>2. m \in Int /\ (z >= 1 => m >= K) /\ (z <= -1 => m <= -K)
  <2>. HIDE DEF z
  <2>. QED
    BY <1>1
<1>. HIDE DEF z, m, s
<1>3. z = 0
  BY <1>1, <1>2
<1>4. m = 0
  BY <1>3 DEF m
<1>. QED
  BY <1>1, <1>4 DEF s

\* How far frame_num n is ahead of p, and which one follows p.
LEMMA Ahead ==
  ASSUME NEW n \in FrameNums, NEW p \in FrameNums
  PROVE  /\ (n - p) % MaxFrameNum = IF n >= p THEN n - p ELSE (n - p) + MaxFrameNum
         /\ Successor(p) = IF p = MaxFrameNum - 1 THEN 0 ELSE p + 1
<1>1. MaxFrameNum \in Nat \ {0} /\ n \in Int /\ p \in Int
      /\ 0 <= n /\ n < MaxFrameNum /\ 0 <= p /\ p < MaxFrameNum
  BY MaxFrameNumAssumption DEF FrameNums
<1>2. (n - p) % MaxFrameNum = IF n >= p THEN n - p ELSE (n - p) + MaxFrameNum
  <2>. DEFINE a == n - p
              b == a + MaxFrameNum
  <2>1. CASE n >= p
    <3>1. a \in Int /\ a \in 0 .. MaxFrameNum - 1
      BY <1>1, <2>1
    <3>. HIDE DEF a
    <3>2. a = (MaxFrameNum * 0) + a
      BY <1>1, <3>1
    <3>3. a % MaxFrameNum = a
      BY <1>1, <3>1, <3>2, RemainderUnique
    <3>. QED
      BY <2>1, <3>3 DEF a
  <2>2. CASE ~ (n >= p)
    <3>1. a \in Int /\ b \in 0 .. MaxFrameNum - 1 /\ -1 \in Int
      BY <1>1, <2>2
    <3>2. a = (MaxFrameNum * (-1)) + b
      BY <1>1
    <3>. HIDE DEF a, b
    <3>3. a % MaxFrameNum = b
      BY <1>1, <3>1, <3>2, RemainderUnique
    <3>. QED
      BY <2>2, <3>3 DEF a, b
  <2>. QED
    BY <2>1, <2>2
<1>3. Successor(p) = IF p = MaxFrameNum - 1 THEN 0 ELSE p + 1
  <2>. DEFINE a == p + 1
  <2>1. CASE p = MaxFrameNum - 1
    <3>1. a \in Int /\ 0 \in 0 .. MaxFrameNum - 1 /\ 1 \in Int
      BY <1>1
    <3>2. a = (MaxFrameNum * 1) + 0
      BY <1>1, <2>1
    <3>. HIDE DEF a
    <3>3. a % MaxFrameNum = 0
      BY <1>1, <3>1, <3>2, RemainderUnique
    <3>. QED
      BY <2>1, <3>3 DEF a, Successor
  <2>2. CASE p # MaxFrameNum - 1
    <3>1. a \in Int /\ a \in 0 .. MaxFrameNum - 1
      BY <1>1, <2>2
    <3>. HIDE DEF a
    <3>2. a = (MaxFrameNum * 0) + a
      BY <1>1, <3>1
    <3>3. a % MaxFrameNum = a
      BY <1>1, <3>1, <3>2, RemainderUnique
    <3>. QED
      BY <2>2, <3>3 DEF a, Successor
  <2>. QED
    BY <2>1, <2>2
<1>. QED
  BY <1>2, <1>3

-----------------------------------------------------------------------------
(* How a step of the decoder changes the DPB. *)

\* A weakened DPB has some of the references, of the same pictures.
LEMMA FadesRefs ==
  ASSUME NEW d, FiniteDpb(d), NEW e, Fades(d, e)
  PROVE  /\ FiniteDpb(e) /\ SomeRefsOf(e, d)
         /\ \A k \in DOMAIN d : /\ e[k].structure = d[k].structure
                                /\ e[k].frameNum = d[k].frameNum /\ e[k].frame = d[k].frame
                                /\ AnyFieldIs(e[k], "short") => AnyFieldIs(d[k], "short")
<1>1. IsDpb(d) /\ IsDpb(e) /\ DOMAIN e = DOMAIN d
  BY FadesIsDpb DEF FiniteDpb, Fades
<1>2. ASSUME NEW k \in DOMAIN d
      PROVE  /\ e[k].structure = d[k].structure
             /\ e[k].frameNum = d[k].frameNum /\ e[k].frame = d[k].frame
             /\ AnyFieldIs(e[k], "short") => AnyFieldIs(d[k], "short")
             /\ IsAnyFieldRef(e[k]) => IsAnyFieldRef(d[k])
  <2>1. Weakens(d[k], e[k]) /\ d[k] \in Entry
    BY <1>1 DEF Fades, IsDpb
  <2>2. ASSUME NEW p \in Parity
        PROVE  /\ e[k].field[p] = "short" => d[k].field[p] = "short"
               /\ e[k].field[p] = "long" => d[k].field[p] \in {"short", "long"}
    <3>1. Rank(e[k].field[p]) <= Rank(d[k].field[p]) /\ d[k].field[p] \in Marking
      BY <2>1 DEF Weakens, Entry
    <3>. QED
      BY <3>1 DEF Rank, Marking
  <2>. QED
    BY <2>1, <2>2 DEF Weakens, IsAnyFieldRef, AnyFieldIs, HasFieldMarked, HasField
<1>. QED
  BY <1>1, <1>2 DEF FiniteDpb, SomeRefsOf, RefKeys

\* e is d without what is no reference any more, and with c under a fresh key.
Gains(d, e, key, c) ==
  /\ e = [k \in RefKeys(d) \cup {key} |-> IF k = key THEN c ELSE d[k]]
  /\ key \in Nat /\ key \notin DOMAIN d
  /\ c \in Entry /\ InSync(c) /\ IsAnyFieldRef(c)

\* Such a DPB holds the references of d and the new one.
LEMMA GainsRefs ==
  ASSUME NEW d, FiniteDpb(d), NEW e, NEW key, NEW c, Gains(d, e, key, c)
  PROVE  /\ FiniteDpb(e) /\ OneRefMore(e, d, key)
         /\ DOMAIN e = RefKeys(d) \cup {key} /\ RefKeys(e) = RefKeys(d) \cup {key}
         /\ e[key] = c /\ key \notin RefKeys(d)
         /\ \A k \in RefKeys(d) : k \in DOMAIN d /\ k # key /\ e[k] = d[k]
<1>1. key \notin RefKeys(d) /\ RefKeys(d) \subseteq DOMAIN d
  BY DEF Gains, RefKeys
<1>2. /\ DOMAIN e = RefKeys(d) \cup {key} /\ e[key] = c
      /\ \A k \in RefKeys(d) : k \in DOMAIN d /\ k # key /\ e[k] = d[k]
  BY <1>1 DEF Gains
<1>3. RefKeys(e) = RefKeys(d) \cup {key}
  <2>1. \A k \in RefKeys(d) : IsAnyFieldRef(d[k])
    BY DEF RefKeys
  <2>2. \A k \in DOMAIN e : IsAnyFieldRef(e[k])
    BY <1>2, <2>1 DEF Gains
  <2>. QED
    BY <1>2, <2>2 DEF RefKeys
<1>4. IsDpb(e)
  <2>1. \A k \in DOMAIN e : e[k] \in Entry /\ InSync(e[k]) /\ k \in Nat
    BY <1>1, <1>2 DEF FiniteDpb, IsDpb, Gains
  <2>. QED
    BY <1>2, <2>1 DEF IsDpb, Gains
<1>5. IsFiniteSet(DOMAIN e)
  BY <1>2, FieldsOfFinite, FS_AddElement
<1>. QED
  BY <1>1, <1>2, <1>3, <1>4, <1>5 DEF FiniteDpb, OneRefMore

\* The DPB of the decoder is finite.
LEMMA InvFinite ==
  ASSUME Inv
  PROVE  /\ FiniteDpb(dpb) /\ nextKey \in Nat
         /\ \A k \in DOMAIN dpb : k \in Nat /\ k < nextKey
<1>1. DOMAIN dpb \in SUBSET (0 .. nextKey - 1) /\ nextKey \in Nat
  BY DEF Inv, TypeOK
<1>2. IsFiniteSet(DOMAIN dpb)
  <2>. DEFINE b == nextKey - 1
  <2>1. 0 \in Int /\ b \in Int
    BY <1>1
  <2>2. IsFiniteSet(0 .. b)
    <3>. HIDE DEF b
    <3>. QED
      BY <2>1, FS_Interval
  <2>. QED
    BY <1>1, <2>2, FS_Subset
<1>. QED
  BY <1>1, <1>2, InvIsDpb DEF FiniteDpb

-----------------------------------------------------------------------------
(***************************************************************************)
(* What a conforming stream keeps true of the decoder's reference state,   *)
(* when fields and gaps in frame_num do not meet: how the frame_num of the *)
(* picture in progress lies to those of the references, which frame each   *)
(* entry belongs to, and where the field is that awaits its second.        *)
(***************************************************************************)
NoFieldGaps == GapsAllowed => Structures \subseteq {"frame"}

PictureWellFormed == phase # "idle" => WellFormed(pic)

FramesWithGaps ==
  GapsAllowed =>
    /\ first = NoField /\ pic.structure = "frame" /\ cur.structure = "frame"
    /\ \A k \in DOMAIN dpb : dpb[k].structure = "frame"

\* A picture that is no IDR picture and no second field.
NewFrame == phase # "idle" /\ ~ pic.idr /\ ~ IsSecondField(pic)

PictureNumber ==
  NewFrame =>
    /\ prevRef # -1 /\ pic.frameNum # prevRef /\ NoShortTermUpTo(pic.frameNum)
    /\ phase # "gap" => pic.frameNum = Successor(prevRef)

GapNumbers ==
  phase = "gap" =>
    /\ GapsAllowed /\ ~ pic.idr /\ gap.expected = Successor(prevRef)
    /\ Cardinality(UnitsWith(dpb, "long")) < AtLeastOne(MaxNumRefFrames)

FramesOfEntries ==
  /\ \A k \in DOMAIN dpb : dpb[k].frame <= k
  /\ \A j, k \in DOMAIN dpb : j # k /\ dpb[j].frame = dpb[k].frame =>
       /\ IsField(dpb[j]) /\ IsField(dpb[k]) /\ dpb[j].structure # dpb[k].structure
       /\ dpb[j].frameNum = dpb[k].frameNum

\* The field that awaits its second is the only one of its frame, and no other
\* short-term reference has its frame_num.
FirstInDpb ==
  first # NoField =>
    /\ first.structure \in Parity /\ first.key < nextKey
    /\ \A k \in DOMAIN dpb : dpb[k].frame = first.key =>
         /\ first.ref /\ k = first.key
         /\ dpb[k].structure = first.structure /\ dpb[k].frameNum = first.frameNum
    /\ first.ref => \A k \in DOMAIN dpb :
         k # first.key /\ AnyFieldIs(dpb[k], "short") => dpb[k].frameNum # first.frameNum
    /\ first.ref /\ phase \in {"idle", "open"} =>
         first.key \in DOMAIN dpb /\ dpb[first.key].frame = first.key

CurrentOfPicture ==
  phase = "mmco" =>
    /\ pic.adaptive /\ cur.structure = pic.structure /\ cur.frameNum = pic.frameNum
    /\ cur.frame = FrameKey(pic, nextKey - 1)
    /\ mmco5 => RefKeys(dpb) = {}

StreamInv ==
  /\ PictureWellFormed /\ FramesWithGaps /\ PictureNumber /\ GapNumbers
  /\ FramesOfEntries /\ FirstInDpb /\ CurrentOfPicture

\* The step stores the picture in progress: the DPB weakened to d gains entry c
\* under key, stored with frame_num n.
Stores(d, c, key, n) ==
  /\ Fades(dpb, d) /\ Gains(d, dpb', key, c)
  /\ c.structure = pic.structure /\ c.frameNum = n /\ c.frame = FrameKey(pic, key)
  /\ c.marking \in {"short", "long"}
  /\ \A k \in DOMAIN dpb : k < key
  /\ nextKey' = key + 1 /\ nextKey <= key + 1 /\ n \in FrameNums
  /\ phase \in {"open", "mmco"} /\ pic.ref
  /\ n = pic.frameNum \/ RefKeys(d) = {}
  /\ pic.idr => RefKeys(d) = {}
  /\ first' = AwaitsSecond(pic, n, FrameKey(pic, key)) /\ prevRef' = n
  /\ Close /\ UNCHANGED gap

\* The end of the reference branch of finalize_in_progress_picture stores it.
LEMMA StoreCurrentStores ==
  ASSUME Inv, phase \in {"open", "mmco"}, pic.ref,
         NEW d, Fades(dpb, d),
         NEW c \in Entry, InSync(c), c.marking \in {"short", "long"},
         NEW key \in Nat, DOMAIN dpb \subseteq 0 .. key - 1,
         nextKey' = key + 1, nextKey <= key + 1, NEW n \in FrameNums, StoreCurrent(d, c, key, n),
         c.structure = pic.structure, c.frame = FrameKey(pic, key),
         n = pic.frameNum \/ RefKeys(d) = {}, pic.idr => RefKeys(d) = {}
  PROVE  Stores(d, [c EXCEPT !.frameNum = n], key, n)
<1>. DEFINE e == [c EXCEPT !.frameNum = n]
<1>1. e \in Entry /\ InSync(e) /\ IsAnyFieldRef(e)
  BY RefOfMarking, SetFrameNumEntry
<1>2. e.structure = c.structure /\ e.frame = c.frame /\ e.frameNum = n /\ e.marking = c.marking
  BY DEF Entry
<1>3. /\ dpb' = [k \in (DOMAIN Retained(d)) \cup {key} |->
                   IF k = key THEN e ELSE Retained(d)[k]]
      /\ first' = AwaitsSecond(pic, n, c.frame) /\ prevRef' = n /\ Close /\ UNCHANGED gap
  BY DEF StoreCurrent
<1>. HIDE DEF e
<1>4. \A k \in DOMAIN dpb : k < key
  OBVIOUS
<1>5. Gains(d, dpb', key, e)
  <2>1. DOMAIN d = DOMAIN dpb /\ key \notin DOMAIN dpb
    BY DEF Fades
  <2>2. dpb' = [k \in RefKeys(d) \cup {key} |-> IF k = key THEN e ELSE d[k]]
    BY <1>3 DEF Retained
  <2>. QED
    BY <1>1, <2>1, <2>2 DEF Gains
<1>6. Stores(d, e, key, n)
  BY <1>2, <1>3, <1>4, <1>5 DEF Stores
<1>. QED
  BY <1>6 DEF e

\* Marking every field unused leaves no reference.
LEMMA NoRefsLeft ==
  ASSUME NEW d, IsDpb(d)
  PROVE  RefKeys(MarkAllUnused(d)) = {}
<1>1. SUFFICES ASSUME NEW k \in RefKeys(MarkAllUnused(d)) PROVE FALSE
  OBVIOUS
<1>2. k \in DOMAIN d /\ MarkAllUnused(d)[k] = MarkAll(d[k], "unused") /\ d[k] \in Entry
  BY DEF RefKeys, MarkAllUnused, MarkUnused, IsDpb
<1>3. "unused" \in Marking
  BY DEF Marking
<1>4. \A p \in Parity : MarkAll(d[k], "unused").field[p] = "unused"
  BY <1>2, <1>3, MarkAllEntry
<1>5. IsAnyFieldRef(MarkAllUnused(d)[k])
  BY DEF RefKeys
<1>. QED
  BY <1>2, <1>4, <1>5 DEF IsAnyFieldRef, AnyFieldIs, HasFieldMarked

\* An IDR picture is stored into an empty DPB.
LEMMA IdrStores ==
  ASSUME Inv, StreamInv, FinalizeIdr
  PROVE  \E c : Stores(MarkAllUnused(dpb), c, nextKey, pic.frameNum)
<1>. DEFINE new == NewEntry(pic.frameNum, pic.structure, FrameKey(pic, nextKey))
            c == IF pic.longTermFlag THEN MarkAll(new, "long") ELSE new
<1>1. /\ new \in Entry /\ InSync(new) /\ new.marking = "short" /\ nextKey \in Nat
      /\ pic.frameNum \in FrameNums /\ DOMAIN dpb \subseteq 0 .. nextKey - 1
  BY PictureEntry DEF FinalizeIdr
<1>2. pic.structure \in Structure /\ FrameKey(pic, nextKey) \in Nat
  BY <1>1 DEF Inv, TypeOK, Header, FrameKey
<1>3. new.structure = pic.structure /\ new.frame = FrameKey(pic, nextKey)
  BY <1>1, <1>2, NewEntryEntry
<1>4. "long" \in Marking
  BY DEF Marking
<1>5. /\ StoreCurrent(MarkAllUnused(dpb), c, nextKey, pic.frameNum)
      /\ nextKey' = nextKey + 1 /\ nextKey <= nextKey + 1 /\ phase = "open" /\ pic.idr
  BY <1>1 DEF FinalizeIdr
<1>. HIDE DEF new
<1>6. /\ c \in Entry /\ InSync(c) /\ c.marking \in {"short", "long"}
      /\ c.structure = pic.structure /\ c.frame = FrameKey(pic, nextKey)
  BY <1>1, <1>3, <1>4, MarkAllEntry
<1>7. Fades(dpb, MarkAllUnused(dpb)) /\ RefKeys(MarkAllUnused(dpb)) = {}
  BY InvIsDpb, MarkUnusedFades, NoRefsLeft DEF MarkAllUnused
<1>8. pic.ref
  BY <1>5 DEF StreamInv, PictureWellFormed, WellFormed
<1>. HIDE DEF c
<1>9. Stores(MarkAllUnused(dpb), [c EXCEPT !.frameNum = pic.frameNum], nextKey, pic.frameNum)
  BY <1>1, <1>5, <1>6, <1>7, <1>8, StoreCurrentStores
<1>. QED
  BY <1>9

\* The DPB the sliding window leaves for the picture in progress.
Slid == SlidingWindow(dpb, MaxNumRefFrames, pic.frameNum, pic.structure)

\* A sliding-window picture is stored after the window has slid.
LEMMA SlidingWindowStores ==
  ASSUME Inv, FinalizeSlidingWindow
  PROVE  \E c : Stores(Slid, c, nextKey, pic.frameNum) /\ c.marking = "short"
<1>. DEFINE c == NewEntry(pic.frameNum, pic.structure, FrameKey(pic, nextKey))
<1>1. /\ c \in Entry /\ InSync(c) /\ c.marking = "short" /\ nextKey \in Nat
      /\ pic.frameNum \in FrameNums /\ DOMAIN dpb \subseteq 0 .. nextKey - 1
  BY PictureEntry DEF FinalizeSlidingWindow
<1>2. pic.structure \in Structure /\ FrameKey(pic, nextKey) \in Nat
  BY <1>1 DEF Inv, TypeOK, Header, FrameKey
<1>3. c.structure = pic.structure /\ c.frame = FrameKey(pic, nextKey)
  BY <1>1, <1>2, NewEntryEntry
<1>4. /\ StoreCurrent(Slid, c, nextKey, pic.frameNum)
      /\ nextKey' = nextKey + 1 /\ phase = "open" /\ pic.ref /\ ~ pic.idr
  BY DEF FinalizeSlidingWindow, Slid
<1>5. Fades(dpb, Slid) /\ nextKey <= nextKey + 1
  BY <1>1, InvIsDpb, SlidingWindowFades DEF Slid
<1>. HIDE DEF c
<1>6. Stores(Slid, [c EXCEPT !.frameNum = pic.frameNum], nextKey, pic.frameNum)
  BY <1>1, <1>3, <1>4, <1>5, StoreCurrentStores
<1>7. [c EXCEPT !.frameNum = pic.frameNum].marking = "short"
  BY <1>1 DEF Entry
<1>. QED
  BY <1>6, <1>7

\* A picture with an operation list is stored after its operations.
LEMMA EndAdaptiveStores ==
  ASSUME Inv, StreamInv, EndAdaptiveMarking
  PROVE  \E n : Stores(dpb, [MarkedCurrent(cur) EXCEPT !.frameNum = n], nextKey - 1, n)
<1>. DEFINE c == MarkedCurrent(cur)
            n == IF mmco5 THEN 0 ELSE cur.frameNum
            key == nextKey - 1
<1>1. /\ phase = "mmco" /\ StoreCurrent(dpb, c, key, n) /\ nextKey' = nextKey
  BY DEF EndAdaptiveMarking
<1>2. /\ pic.adaptive /\ cur.structure = pic.structure /\ cur.frameNum = pic.frameNum
      /\ cur.frame = FrameKey(pic, key) /\ (mmco5 => RefKeys(dpb) = {})
      /\ pic.ref /\ ~ pic.idr
  BY <1>1 DEF StreamInv, CurrentOfPicture, PictureWellFormed, WellFormed
<1>3. /\ c \in Entry /\ InSync(c) /\ c.marking \in {"short", "long"}
      /\ c.structure = cur.structure /\ c.frame = cur.frame
  <2>1. "short" \in Marking /\ "long" \in Marking
    BY DEF Marking
  <2>. QED
    BY <2>1, InvIsDpb, MarkAllEntry DEF MarkedCurrent
<1>4. n \in FrameNums
  BY InvIsDpb, MaxFrameNumAssumption DEF Entry, FrameNums
<1>5. key \in Nat /\ nextKey' = key + 1 /\ nextKey <= key + 1 /\ DOMAIN dpb \subseteq 0 .. key - 1
  BY <1>1 DEF Inv, TypeOK, CurrentKeyFree
<1>6. Fades(dpb, dpb) /\ (n = pic.frameNum \/ RefKeys(dpb) = {})
  BY <1>2, InvIsDpb, FadesSame
<1>. HIDE DEF c, n, key
<1>7. Stores(dpb, [c EXCEPT !.frameNum = n], key, n)
  BY <1>1, <1>2, <1>3, <1>4, <1>5, <1>6, StoreCurrentStores
<1>. QED
  BY <1>7 DEF c, key

-----------------------------------------------------------------------------
(* The stream's facts are kept by every step. *)

\* The frame_num of a new frame is no short-term reference's.
LEMMA NumberIsNew ==
  ASSUME Inv, StreamInv, NewFrame, NEW k \in DOMAIN dpb, AnyFieldIs(dpb[k], "short")
  PROVE  dpb[k].frameNum # pic.frameNum
<1>1. /\ prevRef # -1 /\ pic.frameNum # prevRef /\ NoShortTermUpTo(pic.frameNum)
  BY DEF StreamInv, PictureNumber
<1>2. prevRef \in FrameNums /\ pic.frameNum \in FrameNums
  BY <1>1 DEF Inv, TypeOK, Header
<1>3. /\ prevRef \in Int /\ pic.frameNum \in Int /\ MaxFrameNum \in Int
      /\ prevRef >= 0 /\ prevRef < MaxFrameNum /\ pic.frameNum >= 0 /\ pic.frameNum < MaxFrameNum
  BY <1>2, MaxFrameNumAssumption DEF FrameNums
<1>4. FramesAhead(pic.frameNum) = IF pic.frameNum >= prevRef THEN pic.frameNum - prevRef
                                  ELSE (pic.frameNum - prevRef) + MaxFrameNum
  BY <1>2, Ahead DEF FramesAhead
<1>5. FramesAhead(pic.frameNum) \in 1 .. FramesAhead(pic.frameNum)
  BY <1>1, <1>3, <1>4
<1>. QED
  BY <1>1, <1>5 DEF NoShortTermUpTo

\* The entries of a DPB that gained one.
LEMMA StoredEntries ==
  ASSUME Inv, NEW d, NEW c, NEW key, NEW n, Stores(d, c, key, n)
  PROVE  /\ FiniteDpb(d) /\ SomeRefsOf(d, dpb)
         /\ FiniteDpb(dpb') /\ OneRefMore(dpb', d, key)
         /\ DOMAIN dpb' = RefKeys(d) \cup {key} /\ RefKeys(dpb') = RefKeys(d) \cup {key}
         /\ dpb'[key] = c /\ key \in Nat /\ key \notin DOMAIN dpb
         /\ \A k \in RefKeys(d) :
              /\ k \in DOMAIN dpb /\ k \in Nat /\ k < key /\ dpb'[k] = d[k]
              /\ dpb'[k].structure = dpb[k].structure
              /\ dpb'[k].frameNum = dpb[k].frameNum /\ dpb'[k].frame = dpb[k].frame
              /\ AnyFieldIs(dpb'[k], "short") => AnyFieldIs(dpb[k], "short")
<1>1. FiniteDpb(dpb) /\ Fades(dpb, d) /\ Gains(d, dpb', key, c) /\ \A k \in DOMAIN dpb : k < key
  BY InvFinite DEF Stores
<1>2. /\ FiniteDpb(d) /\ SomeRefsOf(d, dpb) /\ DOMAIN d = DOMAIN dpb
      /\ \A k \in DOMAIN dpb :
           /\ d[k].structure = dpb[k].structure
           /\ d[k].frameNum = dpb[k].frameNum /\ d[k].frame = dpb[k].frame
           /\ AnyFieldIs(d[k], "short") => AnyFieldIs(dpb[k], "short")
  BY <1>1, FadesRefs DEF Fades
<1>3. /\ FiniteDpb(dpb') /\ OneRefMore(dpb', d, key)
      /\ DOMAIN dpb' = RefKeys(d) \cup {key} /\ RefKeys(dpb') = RefKeys(d) \cup {key}
      /\ dpb'[key] = c
      /\ \A k \in RefKeys(d) : k \in DOMAIN d /\ dpb'[k] = d[k]
  <2>. DEFINE e == dpb'
  <2>1. Gains(d, e, key, c) /\ FiniteDpb(d)
    BY <1>1, <1>2
  <2>. HIDE DEF e
  <2>2. /\ FiniteDpb(e) /\ OneRefMore(e, d, key)
        /\ DOMAIN e = RefKeys(d) \cup {key} /\ RefKeys(e) = RefKeys(d) \cup {key}
        /\ e[key] = c /\ key \notin RefKeys(d)
        /\ \A k \in RefKeys(d) : k \in DOMAIN d /\ k # key /\ e[k] = d[k]
    BY <2>1, GainsRefs
  <2>. QED
    BY <2>2 DEF e
<1>4. key \in Nat /\ key \notin DOMAIN dpb
  BY <1>1, <1>2 DEF Gains
<1>5. \A k \in DOMAIN dpb : k \in Nat
  BY InvFinite
<1>. QED
  BY <1>1, <1>2, <1>3, <1>4, <1>5

\* Storing a picture leaves every entry in the frame it belongs to.
LEMMA StoresFrames ==
  ASSUME Inv, StreamInv, NEW d, NEW c, NEW key, NEW n, Stores(d, c, key, n)
  PROVE  FramesOfEntries'
<1>1. /\ \A k \in DOMAIN dpb : dpb[k].frame <= k
      /\ \A j, k \in DOMAIN dpb : j # k /\ dpb[j].frame = dpb[k].frame =>
           /\ IsField(dpb[j]) /\ IsField(dpb[k]) /\ dpb[j].structure # dpb[k].structure
           /\ dpb[j].frameNum = dpb[k].frameNum
  BY DEF StreamInv, FramesOfEntries
<1>2. /\ c.structure = pic.structure /\ c.frameNum = n /\ c.frame = FrameKey(pic, key)
      /\ nextKey <= key + 1 /\ (n = pic.frameNum \/ RefKeys(d) = {})
  BY DEF Stores
<1>3. /\ nextKey \in Nat /\ first.key \in Nat /\ first.structure \in Structure
      /\ \A k \in DOMAIN dpb : dpb[k].frame \in Nat
  BY DEF Inv, TypeOK, Entry
<1>4. ASSUME IsSecondField(pic)
      PROVE  /\ c.frame = first.key /\ first.key <= key
             /\ first.structure \in Parity /\ c.structure = Opposite(first.structure)
             /\ \A k \in RefKeys(d) : dpb[k].frame = first.key =>
                  dpb[k].structure = first.structure /\ dpb[k].frameNum = n
  <2>1. /\ first # NoField /\ pic.structure = Opposite(first.structure)
        /\ pic.frameNum = first.frameNum
    BY <1>4 DEF IsSecondField
  <2>2. /\ first.structure \in Parity /\ first.key < nextKey
        /\ \A k \in DOMAIN dpb : dpb[k].frame = first.key =>
             dpb[k].structure = first.structure /\ dpb[k].frameNum = first.frameNum
    BY <2>1 DEF StreamInv, FirstInDpb
  <2>3. key \in Nat /\ \A k \in RefKeys(d) : k \in DOMAIN dpb
    BY StoredEntries
  <2>4. c.frame = first.key
    BY <1>2, <1>4 DEF FrameKey
  <2>. QED
    BY <1>2, <1>3, <2>1, <2>2, <2>3, <2>4
<1>5. ~ IsSecondField(pic) => c.frame = key
  BY <1>2 DEF FrameKey
<1>6. /\ DOMAIN dpb' = RefKeys(d) \cup {key} /\ dpb'[key] = c /\ key \in Nat
      /\ \A k \in RefKeys(d) :
           /\ k \in DOMAIN dpb /\ k \in Nat /\ k < key
           /\ dpb'[k].structure = dpb[k].structure
           /\ dpb'[k].frameNum = dpb[k].frameNum /\ dpb'[k].frame = dpb[k].frame
  BY StoredEntries
<1>7. ASSUME NEW k \in DOMAIN dpb' PROVE dpb'[k].frame <= k
  BY <1>1, <1>4, <1>5, <1>6
<1>8. ASSUME NEW k \in RefKeys(d), dpb'[k].frame = dpb'[key].frame
      PROVE  /\ IsField(dpb'[k]) /\ IsField(dpb'[key])
             /\ dpb'[k].structure # dpb'[key].structure
             /\ dpb'[k].frameNum = dpb'[key].frameNum
  <2>1. IsSecondField(pic)
    <3>1. dpb[k].frame # key
      <4>1. dpb[k].frame \in Nat /\ k \in Nat /\ key \in Nat /\ dpb[k].frame <= k /\ k < key
        BY <1>1, <1>3, <1>6
      <4>. QED
        BY <4>1
    <3>. QED
      BY <1>5, <1>6, <1>8, <3>1
  <2>2. /\ dpb[k].frame = first.key /\ first.structure \in Parity
        /\ c.structure = Opposite(first.structure)
        /\ dpb[k].structure = first.structure /\ dpb[k].frameNum = n
    BY <1>4, <1>6, <1>8, <2>1
  <2>. QED
    BY <1>2, <1>6, <2>2, OppositeParity DEF IsField
<1>9. ASSUME NEW j \in DOMAIN dpb', NEW k \in DOMAIN dpb', j # k, dpb'[j].frame = dpb'[k].frame
      PROVE  /\ IsField(dpb'[j]) /\ IsField(dpb'[k])
             /\ dpb'[j].structure # dpb'[k].structure
             /\ dpb'[j].frameNum = dpb'[k].frameNum
  <2>1. CASE j \in RefKeys(d) /\ k \in RefKeys(d)
    BY <1>1, <1>6, <1>9, <2>1 DEF IsField
  <2>2. CASE j = key \/ k = key
    BY <1>6, <1>8, <1>9, <2>2
  <2>. QED
    BY <1>6, <2>1, <2>2
<1>. QED
  BY <1>7, <1>9 DEF FramesOfEntries

\* Storing a picture keeps the field that awaits its second in the DPB, alone.
LEMMA StoresFirst ==
  ASSUME Inv, StreamInv, NEW d, NEW c, NEW key, NEW n, Stores(d, c, key, n)
  PROVE  FirstInDpb'
<1>1. SUFFICES ASSUME first' # NoField PROVE FirstInDpb'
  BY DEF FirstInDpb
<1>2. /\ first' = AwaitsSecond(pic, n, FrameKey(pic, key)) /\ nextKey' = key + 1
      /\ c.structure = pic.structure /\ c.frameNum = n /\ c.frame = FrameKey(pic, key)
      /\ pic.ref /\ (n = pic.frameNum \/ RefKeys(d) = {}) /\ (pic.idr => RefKeys(d) = {})
      /\ phase \in {"open", "mmco"}
  BY DEF Stores
<1>3. pic.structure \in Parity /\ ~ IsSecondField(pic) /\ FrameKey(pic, key) = key
  BY <1>1, <1>2 DEF AwaitsSecond, FrameKey
<1>4. /\ first'.structure = pic.structure /\ first'.frameNum = n
      /\ first'.ref = pic.ref /\ first'.key = key
  BY <1>2, <1>3 DEF AwaitsSecond
<1>5. /\ DOMAIN dpb' = RefKeys(d) \cup {key} /\ dpb'[key] = c /\ key \in Nat
      /\ \A k \in RefKeys(d) :
           /\ k \in DOMAIN dpb /\ k \in Nat /\ k < key
           /\ dpb'[k].frameNum = dpb[k].frameNum /\ dpb'[k].frame = dpb[k].frame
           /\ AnyFieldIs(dpb'[k], "short") => AnyFieldIs(dpb[k], "short")
  BY StoredEntries
<1>6. \A k \in RefKeys(d) : dpb'[k].frame # key
  <2>1. \A k \in DOMAIN dpb : dpb[k].frame <= k /\ dpb[k].frame \in Nat
    BY DEF StreamInv, FramesOfEntries, Inv, TypeOK, Entry
  <2>. QED
    BY <1>5, <2>1
<1>7. ASSUME NEW k \in RefKeys(d), AnyFieldIs(dpb'[k], "short")
      PROVE  dpb'[k].frameNum # n
  <2>1. n = pic.frameNum /\ NewFrame
    BY <1>2, <1>3 DEF NewFrame
  <2>. QED
    BY <1>5, <1>7, <2>1, NumberIsNew
<1>8. first'.structure \in Parity /\ first'.key < nextKey'
  BY <1>2, <1>3, <1>4, <1>5
<1>9. ASSUME NEW k \in DOMAIN dpb', dpb'[k].frame = first'.key
      PROVE  /\ first'.ref /\ k = first'.key
             /\ dpb'[k].structure = first'.structure /\ dpb'[k].frameNum = first'.frameNum
  <2>1. k = key
    BY <1>4, <1>5, <1>6, <1>9
  <2>. QED
    BY <1>2, <1>4, <1>5, <2>1
<1>10. ASSUME NEW k \in DOMAIN dpb', k # first'.key, AnyFieldIs(dpb'[k], "short")
       PROVE  dpb'[k].frameNum # first'.frameNum
  BY <1>4, <1>5, <1>7, <1>10
<1>11. first'.key \in DOMAIN dpb' /\ dpb'[first'.key].frame = first'.key
  BY <1>2, <1>3, <1>4, <1>5
<1>. QED
  BY <1>8, <1>9, <1>10, <1>11 DEF FirstInDpb

\* Storing a picture keeps the stream's facts.
LEMMA StoresStream ==
  ASSUME Inv, StreamInv, NEW d, NEW c, NEW key, NEW n, Stores(d, c, key, n)
  PROVE  StreamInv'
<1>1. phase' = "idle" /\ pic' = NoHeader /\ cur' = NoEntry
  BY DEF Stores, Close
<1>2. (PictureWellFormed /\ PictureNumber /\ GapNumbers /\ CurrentOfPicture)'
  BY <1>1 DEF PictureWellFormed, PictureNumber, NewFrame, GapNumbers, CurrentOfPicture
<1>3. FramesWithGaps'
  <2>1. SUFFICES ASSUME GapsAllowed PROVE FramesWithGaps'
    BY DEF FramesWithGaps
  <2>2. pic.structure = "frame" /\ \A k \in DOMAIN dpb : dpb[k].structure = "frame"
    BY <2>1 DEF StreamInv, FramesWithGaps
  <2>3. first' = NoField /\ c.structure = "frame"
    BY <2>2 DEF Stores, AwaitsSecond, Parity
  <2>4. \A k \in DOMAIN dpb' : dpb'[k].structure = "frame"
    <3>1. /\ DOMAIN dpb' = RefKeys(d) \cup {key} /\ dpb'[key] = c
          /\ \A k \in RefKeys(d) : k \in DOMAIN dpb /\ dpb'[k].structure = dpb[k].structure
      BY StoredEntries
    <3>. QED
      BY <2>2, <2>3, <3>1
  <2>5. pic'.structure = "frame" /\ cur'.structure = "frame"
    <3>1. 0 \in FrameNums /\ "frame" \in Structure
      BY MaxFrameNumAssumption DEF FrameNums, Structure
    <3>. QED
      BY <1>1, <3>1, NewEntryEntry DEF NoHeader, NoEntry
  <2>. QED
    BY <2>3, <2>4, <2>5 DEF FramesWithGaps
<1>. QED
  BY <1>2, <1>3, StoresFrames, StoresFirst DEF StreamInv

\* A picture opened by a conforming stream.
LEMMA OpenPictureStream ==
  ASSUME Conforming, NoFieldGaps, Inv, StreamInv,
         NEW h \in Header, WellFormed(h), StreamMayCode(h), OpenPicture(h)
  PROVE  StreamInv'
<1>1. /\ UNCHANGED <<dpb, store, nextKey, prevRef, cur, mmco5, first>> /\ pic' = h
      /\ phase = "idle" /\ phase' \in {"gap", "open"}
      /\ NeedsGapFill(h) => phase' = "gap" /\ gap'.expected = Successor(prevRef)
      /\ ~ NeedsGapFill(h) => phase' = "open"
  BY DEF OpenPicture
<1>2. IsSecondField(pic)' <=> IsSecondField(h)
  BY <1>1 DEF IsSecondField
<1>3. GapsAllowed => h.structure = "frame" /\ ~ IsSecondField(h)
  BY DEF NoFieldGaps, WellFormed, StreamInv, FramesWithGaps, IsSecondField
<1>4. ~ h.idr /\ ~ IsSecondField(h) =>
        /\ prevRef # -1 /\ h.frameNum # prevRef /\ NoShortTermUpTo(h.frameNum)
        /\ \/ h.frameNum = Successor(prevRef)
           \/ GapsAllowed /\ Cardinality(UnitsWith(dpb, "long")) < AtLeastOne(MaxNumRefFrames)
  BY DEF StreamMayCode
<1>5. PictureWellFormed' /\ FramesOfEntries' /\ CurrentOfPicture'
  BY <1>1 DEF StreamInv, PictureWellFormed, FramesOfEntries, CurrentOfPicture
<1>6. FramesWithGaps' /\ FirstInDpb'
  BY <1>1, <1>3 DEF StreamInv, FramesWithGaps, FirstInDpb
<1>7. PictureNumber'
  <2>1. SUFFICES ASSUME NewFrame' PROVE PictureNumber'
    BY DEF PictureNumber
  <2>2. ~ h.idr /\ ~ IsSecondField(h)
    BY <1>1, <1>2, <2>1 DEF NewFrame
  <2>3. NoShortTermUpTo(pic.frameNum)'
    BY <1>1, <1>4, <2>2 DEF NoShortTermUpTo, FramesAhead
  <2>4. phase' # "gap" => h.frameNum = Successor(prevRef)
    BY <1>1, <1>4, <2>2 DEF NeedsGapFill
  <2>5. Successor(prevRef)' = Successor(prevRef)
    BY <1>1 DEF Successor
  <2>. QED
    BY <1>1, <1>4, <2>2, <2>3, <2>4, <2>5 DEF PictureNumber
<1>8. GapNumbers'
  <2>1. SUFFICES ASSUME phase' = "gap" PROVE GapNumbers'
    BY DEF GapNumbers
  <2>2. NeedsGapFill(h)
    BY <1>1, <2>1
  <2>3. /\ GapsAllowed /\ ~ h.idr /\ gap'.expected = Successor(prevRef)
        /\ h.frameNum # Successor(prevRef)
    BY <1>1, <2>2 DEF NeedsGapFill
  <2>4. Cardinality(UnitsWith(dpb, "long")) < AtLeastOne(MaxNumRefFrames)
    BY <1>3, <1>4, <2>3
  <2>5. Successor(prevRef)' = Successor(prevRef)
    BY <1>1 DEF Successor
  <2>. QED
    BY <1>1, <2>3, <2>4, <2>5 DEF GapNumbers
<1>. QED
  BY <1>5, <1>6, <1>7, <1>8 DEF StreamInv

\* A gap that is filled.
LEMMA GapDoneStream ==
  ASSUME StreamInv, GapDone
  PROVE  StreamInv'
<1>1. /\ UNCHANGED <<dpb, nextKey, prevRef, pic, cur, mmco5, first>>
      /\ phase = "gap" /\ phase' = "open" /\ gap.expected = pic.frameNum
  BY DEF GapDone
<1>2. IsSecondField(pic)' <=> IsSecondField(pic)
  BY <1>1 DEF IsSecondField
<1>3. first = NoField /\ pic.frameNum = Successor(prevRef)
  BY <1>1 DEF StreamInv, FramesWithGaps, GapNumbers
<1>4. (PictureWellFormed /\ FramesOfEntries /\ CurrentOfPicture /\ FramesWithGaps /\ GapNumbers)'
  BY <1>1 DEF StreamInv, PictureWellFormed, FramesOfEntries, CurrentOfPicture, FramesWithGaps,
     GapNumbers
<1>5. FirstInDpb'
  BY <1>1, <1>3 DEF FirstInDpb
<1>6. PictureNumber'
  <2>1. NewFrame' => NewFrame
    BY <1>1, <1>2 DEF NewFrame
  <2>2. NoShortTermUpTo(pic.frameNum)' <=> NoShortTermUpTo(pic.frameNum)
    BY <1>1 DEF NoShortTermUpTo, FramesAhead
  <2>3. Successor(prevRef)' = Successor(prevRef)
    BY <1>1 DEF Successor
  <2>. QED
    BY <1>1, <1>3, <2>1, <2>2, <2>3 DEF StreamInv, PictureNumber
<1>. QED
  BY <1>4, <1>5, <1>6 DEF StreamInv

\* A non-reference picture, the first field of a pair perhaps.
LEMMA NonReferenceStream ==
  ASSUME Inv, StreamInv, FinalizeNonReference
  PROVE  StreamInv'
<1>1. /\ UNCHANGED <<dpb, store, prevRef, gap>> /\ phase = "open" /\ ~ pic.ref
      /\ nextKey' = nextKey + 1 /\ first' = AwaitsSecond(pic, pic.frameNum, nextKey)
      /\ phase' = "idle" /\ pic' = NoHeader /\ cur' = NoEntry
  BY DEF FinalizeNonReference, Close
<1>2. (PictureWellFormed /\ PictureNumber /\ GapNumbers /\ CurrentOfPicture /\ FramesOfEntries)'
  BY <1>1 DEF PictureWellFormed, PictureNumber, NewFrame, GapNumbers, CurrentOfPicture,
     StreamInv, FramesOfEntries
<1>3. FramesWithGaps'
  <2>1. pic'.structure = "frame" /\ cur'.structure = "frame"
    <3>1. 0 \in FrameNums /\ "frame" \in Structure
      BY MaxFrameNumAssumption DEF FrameNums, Structure
    <3>. QED
      BY <1>1, <3>1, NewEntryEntry DEF NoHeader, NoEntry
  <2>2. GapsAllowed => first' = NoField
    BY <1>1 DEF StreamInv, FramesWithGaps, AwaitsSecond, Parity
  <2>. QED
    BY <1>1, <2>1, <2>2 DEF StreamInv, FramesWithGaps
<1>4. FirstInDpb'
  <2>1. SUFFICES ASSUME first' # NoField PROVE FirstInDpb'
    BY DEF FirstInDpb
  <2>2. /\ pic.structure \in Parity /\ first'.structure = pic.structure
        /\ ~ first'.ref /\ first'.key = nextKey
    BY <1>1, <2>1 DEF AwaitsSecond
  <2>3. nextKey \in Nat /\ \A k \in DOMAIN dpb : dpb[k].frame # nextKey
    <3>1. nextKey \in Nat
      BY InvFinite
    <3>2. ASSUME NEW k \in DOMAIN dpb PROVE dpb[k].frame # nextKey
      <4>1. dpb[k].frame \in Nat /\ k \in Nat /\ k < nextKey /\ dpb[k].frame <= k
        BY InvFinite DEF StreamInv, FramesOfEntries, Inv, TypeOK, Entry
      <4>. QED
        BY <3>1, <4>1
    <3>. QED
      BY <3>1, <3>2
  <2>. QED
    BY <1>1, <2>2, <2>3 DEF FirstInDpb
<1>. QED
  BY <1>2, <1>3, <1>4 DEF StreamInv

\* The beginning of an operation list.
LEMMA BeginAdaptiveStream ==
  ASSUME Inv, StreamInv, BeginAdaptiveMarking
  PROVE  StreamInv'
<1>1. /\ UNCHANGED <<dpb, store, prevRef, pic, gap, first>> /\ phase = "open" /\ phase' = "mmco"
      /\ pic.adaptive /\ nextKey' = nextKey + 1 /\ mmco5' = FALSE
      /\ cur' = NewEntry(pic.frameNum, pic.structure, FrameKey(pic, nextKey))
  BY DEF BeginAdaptiveMarking
<1>2. IsSecondField(pic)' <=> IsSecondField(pic)
  BY <1>1 DEF IsSecondField
<1>3. nextKey \in Nat
  BY InvFinite
<1>4. /\ cur'.structure = pic.structure /\ cur'.frameNum = pic.frameNum
      /\ cur'.frame = FrameKey(pic, nextKey)
  <2>1. pic.frameNum \in FrameNums /\ pic.structure \in Structure /\ FrameKey(pic, nextKey) \in Nat
    BY <1>3 DEF Inv, TypeOK, Header, FrameKey
  <2>. QED
    BY <1>1, <2>1, NewEntryEntry
<1>5. CurrentOfPicture'
  <2>1. FrameKey(pic, nextKey - 1)' = FrameKey(pic, nextKey)
    BY <1>1, <1>2, <1>3 DEF FrameKey
  <2>. QED
    BY <1>1, <1>4, <2>1 DEF CurrentOfPicture
<1>6. (PictureWellFormed /\ FramesOfEntries /\ GapNumbers)'
  BY <1>1 DEF StreamInv, PictureWellFormed, FramesOfEntries, GapNumbers
<1>7. FramesWithGaps'
  BY <1>1, <1>4 DEF StreamInv, FramesWithGaps
<1>8. FirstInDpb'
  <2>1. first # NoField => first.key < nextKey'
    BY <1>1, <1>3 DEF StreamInv, FirstInDpb, Inv, TypeOK
  <2>. QED
    BY <1>1, <2>1 DEF StreamInv, FirstInDpb
<1>9. PictureNumber'
  <2>1. NewFrame' => NewFrame
    BY <1>1, <1>2 DEF NewFrame
  <2>2. NoShortTermUpTo(pic.frameNum)' <=> NoShortTermUpTo(pic.frameNum)
    BY <1>1 DEF NoShortTermUpTo, FramesAhead
  <2>3. Successor(prevRef)' = Successor(prevRef)
    BY <1>1 DEF Successor
  <2>. QED
    BY <1>1, <2>1, <2>2, <2>3 DEF StreamInv, PictureNumber
<1>. QED
  BY <1>5, <1>6, <1>7, <1>8, <1>9 DEF StreamInv

\* One operation of a list.
LEMMA MarkingStream ==
  ASSUME Inv, StreamInv, NEW d, Fades(dpb, d), MarkingStep(d),
         cur'.structure = cur.structure, cur'.frameNum = cur.frameNum, cur'.frame = cur.frame,
         mmco5' => RefKeys(d) = {}
  PROVE  StreamInv'
<1>1. /\ phase = "mmco" /\ dpb' = d
      /\ UNCHANGED <<store, nextKey, prevRef, phase, pic, gap, first>>
  BY DEF MarkingStep
<1>2. IsSecondField(pic)' <=> IsSecondField(pic)
  BY <1>1 DEF IsSecondField
<1>3. /\ DOMAIN dpb' = DOMAIN dpb
      /\ \A k \in DOMAIN dpb : /\ dpb'[k].structure = dpb[k].structure
                               /\ dpb'[k].frameNum = dpb[k].frameNum
                               /\ dpb'[k].frame = dpb[k].frame
                               /\ AnyFieldIs(dpb'[k], "short") => AnyFieldIs(dpb[k], "short")
  BY <1>1, InvFinite, FadesRefs DEF Fades
<1>4. CurrentOfPicture'
  <2>1. FrameKey(pic, nextKey - 1)' = FrameKey(pic, nextKey - 1)
    BY <1>1, <1>2 DEF FrameKey
  <2>. QED
    BY <1>1, <2>1 DEF StreamInv, CurrentOfPicture
<1>5. PictureWellFormed' /\ GapNumbers'
  BY <1>1 DEF StreamInv, PictureWellFormed, GapNumbers
<1>6. FramesWithGaps'
  BY <1>1, <1>3 DEF StreamInv, FramesWithGaps
<1>7. FramesOfEntries'
  BY <1>1, <1>3 DEF StreamInv, FramesOfEntries, IsField
<1>8. FirstInDpb'
  <2>1. SUFFICES ASSUME first # NoField PROVE FirstInDpb'
    BY <1>1 DEF FirstInDpb
  <2>2. first.structure \in Parity /\ first.key < nextKey
    BY <2>1 DEF StreamInv, FirstInDpb
  <2>3. ASSUME NEW k \in DOMAIN dpb, dpb'[k].frame = first.key
        PROVE  /\ first.ref /\ k = first.key
               /\ dpb'[k].structure = first.structure /\ dpb'[k].frameNum = first.frameNum
    BY <1>3, <2>1, <2>3 DEF StreamInv, FirstInDpb
  <2>4. ASSUME first.ref, NEW k \in DOMAIN dpb, k # first.key, AnyFieldIs(dpb'[k], "short")
        PROVE  dpb'[k].frameNum # first.frameNum
    BY <1>3, <2>1, <2>4 DEF StreamInv, FirstInDpb
  <2>. QED
    BY <1>1, <1>3, <2>2, <2>3, <2>4 DEF FirstInDpb
<1>9. PictureNumber'
  <2>1. NewFrame' => NewFrame
    BY <1>1, <1>2 DEF NewFrame
  <2>2. NoShortTermUpTo(pic.frameNum) => NoShortTermUpTo(pic.frameNum)'
    BY <1>1, <1>3 DEF NoShortTermUpTo, FramesAhead
  <2>3. Successor(prevRef)' = Successor(prevRef)
    BY <1>1 DEF Successor
  <2>. QED
    BY <1>1, <2>1, <2>2, <2>3 DEF StreamInv, PictureNumber
<1>. QED
  BY <1>4, <1>5, <1>6, <1>7, <1>8, <1>9 DEF StreamInv

-----------------------------------------------------------------------------
(* The sliding window. *)

\* A unit is a non-empty set of references.
LEMMA UnitRefs ==
  ASSUME NEW d, FiniteDpb(d), NEW u \in RefUnits(d)
  PROVE  /\ u \in SUBSET Nat /\ u \subseteq RefKeys(d) /\ u # {}
         /\ Min(u) \in u /\ Min(u) \in RefKeys(d) /\ \A k \in u : Min(u) <= k
         /\ \A k \in u : u = Unit(d, k)
<1>1. PICK k \in RefKeys(d) : u = Unit(d, k)
  BY DEF RefUnits
<1>2. u \in SUBSET Nat /\ u \subseteq RefKeys(d) /\ k \in u
  BY <1>1, FieldsOfFinite DEF Unit
<1>3. Min(u) \in u /\ \A j \in u : Min(u) <= j
  BY <1>2, MinInSet
<1>4. ASSUME NEW j \in u PROVE u = Unit(d, j)
  <2>1. j \in RefKeys(d) /\ j \in Unit(d, k)
    BY <1>1, <1>2
  <2>2. Label(d, j) = Label(d, k)
    BY <2>1, UnitOfLabel
  <2>3. \A i \in RefKeys(d) : i \in Unit(d, j) <=> i \in Unit(d, k)
    BY <2>1, <2>2, UnitOfLabel
  <2>4. Unit(d, j) \subseteq RefKeys(d) /\ Unit(d, k) \subseteq RefKeys(d)
    BY DEF Unit
  <2>. QED
    BY <1>1, <2>3, <2>4
<1>. QED
  BY <1>2, <1>3, <1>4

\* min_by_key finds the oldest short-term unit, and of those the first.
LEMMA OldestFound ==
  ASSUME NEW d, FiniteDpb(d), UnitsWith(d, "short") # {}, NEW n \in FrameNums
  PROVE  /\ OldestShortTermUnit(d, n) \in UnitsWith(d, "short")
         /\ \A v \in UnitsWith(d, "short") : OlderUnit(d, n, OldestShortTermUnit(d, n), v)
<1>. DEFINE S == UnitsWith(d, "short")
            wrap(u) == FrameNumWrap(d[Min(u)].frameNum, n)
            age(u) == wrap(u) + MaxFrameNum
            A == {age(u) : u \in S}
            a == Min(A)
            B == {Min(u) : u \in {v \in S : age(v) = a}}
            b == Min(B)
<1>1. ASSUME NEW u \in S PROVE Min(u) \in Nat /\ wrap(u) \in Int /\ age(u) \in Nat
  <2>1. u \in RefUnits(d)
    BY DEF UnitsWith
  <2>2. Min(u) \in RefKeys(d) /\ Min(u) \in Nat
    BY <2>1, UnitRefs, FieldsOfFinite
  <2>3. d[Min(u)].frameNum \in FrameNums
    BY <2>2 DEF RefKeys, FiniteDpb, IsDpb, Entry
  <2>4. /\ MaxFrameNum \in Nat /\ n \in Int /\ d[Min(u)].frameNum \in Int
        /\ 0 <= n /\ n < MaxFrameNum
        /\ 0 <= d[Min(u)].frameNum /\ d[Min(u)].frameNum < MaxFrameNum
    BY <2>3, MaxFrameNumAssumption DEF FrameNums
  <2>. QED
    BY <2>2, <2>4 DEF FrameNumWrap
<1>. HIDE DEF wrap
<1>2. A \in SUBSET Nat /\ A # {}
  BY <1>1
<1>3. a \in A /\ \A y \in A : a <= y
  <2>. HIDE DEF A
  <2>. QED
    BY <1>2, MinInSet
<1>. HIDE DEF a
<1>4. B \in SUBSET Nat /\ B # {}
  BY <1>1, <1>3
<1>5. b \in B /\ \A y \in B : b <= y
  <2>. HIDE DEF B
  <2>. QED
    BY <1>4, MinInSet
<1>. HIDE DEF b
<1>6. PICK u \in S : age(u) = a /\ Min(u) = b
  BY <1>5
<1>7. ASSUME NEW v \in S PROVE OlderUnit(d, n, u, v)
  <2>1. a <= age(v) /\ (age(v) = a => b <= Min(v))
    BY <1>3, <1>5
  <2>2. wrap(u) < wrap(v) \/ (wrap(u) = wrap(v) /\ Min(u) <= Min(v))
    <3>1. wrap(u) \in Int /\ wrap(v) \in Int /\ MaxFrameNum \in Int
      BY <1>1, MaxFrameNumAssumption
    <3>. QED
      BY <1>6, <2>1, <3>1
  <2>. QED
    BY <2>2 DEF OlderUnit, wrap
<1>. QED
  BY <1>6, <1>7 DEF OldestShortTermUnit

\* Units are short-term, long-term or both.
LEMMA ShortOrLong ==
  ASSUME NEW d, FiniteDpb(d)
  PROVE  /\ IsFiniteSet(UnitsWith(d, "short")) /\ IsFiniteSet(UnitsWith(d, "long"))
         /\ Cardinality(UnitsWith(d, "short")) \in Nat /\ Cardinality(UnitsWith(d, "long")) \in Nat
         /\ Cardinality(RefUnits(d))
              <= Cardinality(UnitsWith(d, "short")) + Cardinality(UnitsWith(d, "long"))
<1>. DEFINE S == UnitsWith(d, "short")
            L == UnitsWith(d, "long")
<1>1. S \in SUBSET RefUnits(d) /\ L \in SUBSET RefUnits(d)
  BY DEF UnitsWith
<1>2. IsFiniteSet(S) /\ IsFiniteSet(L)
  BY <1>1, CountUnits, FS_Subset
<1>3. RefUnits(d) = S \cup L
  <2>1. ASSUME NEW u \in RefUnits(d) PROVE u \in S \/ u \in L
    <3>1. PICK k \in RefKeys(d) : k \in u
      BY UnitRefs
    <3>2. AnyFieldIs(d[k], "short") \/ AnyFieldIs(d[k], "long")
      BY DEF RefKeys, IsAnyFieldRef
    <3>. QED
      BY <3>1, <3>2 DEF UnitsWith, UnitHas
  <2>. QED
    BY <1>1, <2>1
<1>4. Cardinality(S \cap L) \in Nat
  <2>1. S \cap L \in SUBSET S
    OBVIOUS
  <2>. QED
    BY <1>2, <2>1, FS_Subset, FS_CardinalityType
<1>. HIDE DEF S, L
<1>5. /\ Cardinality(S) \in Nat /\ Cardinality(L) \in Nat
      /\ Cardinality(S \cup L) = Cardinality(S) + Cardinality(L) - Cardinality(S \cap L)
  BY <1>2, FS_Union, FS_CardinalityType
<1>6. Cardinality(RefUnits(d)) <= Cardinality(S) + Cardinality(L)
  BY <1>3, <1>4, <1>5
<1>. QED
  BY <1>2, <1>5, <1>6 DEF S, L

\* The window leaves the DPB alone or evicts one unit whole.
LEMMA SlidingWindowEvicts ==
  ASSUME NEW d, FiniteDpb(d), NEW max, NEW n \in FrameNums, NEW s
  PROVE  \/ /\ SlidingWindow(d, max, n, s) = d
            /\ SecondOfShortTermPair(d, n, s) \/ ~ WindowFull(d, max) \/ UnitsWith(d, "short") = {}
         \/ /\ OldestShortTermUnit(d, n) \in UnitsWith(d, "short")
            /\ ~ SecondOfShortTermPair(d, n, s)
            /\ SlidingWindow(d, max, n, s) = MarkUnused(d, OldestShortTermUnit(d, n))
            /\ RefKeys(SlidingWindow(d, max, n, s)) = RefKeys(d) \ OldestShortTermUnit(d, n)
            /\ \A k \in RefKeys(d) \ OldestShortTermUnit(d, n) :
                 SlidingWindow(d, max, n, s)[k] = d[k]
            /\ Cardinality(RefUnits(SlidingWindow(d, max, n, s))) + 1 <= Cardinality(RefUnits(d))
<1>. DEFINE u == OldestShortTermUnit(d, n)
            e == MarkUnused(d, u)
<1>1. CASE SecondOfShortTermPair(d, n, s) \/ ~ WindowFull(d, max) \/ UnitsWith(d, "short") = {}
  BY <1>1 DEF SlidingWindow
<1>2. CASE ~ (SecondOfShortTermPair(d, n, s) \/ ~ WindowFull(d, max)
                \/ UnitsWith(d, "short") = {})
  <2>1. SlidingWindow(d, max, n, s) = e /\ u \in UnitsWith(d, "short") /\ u \in RefUnits(d)
    BY <1>2, OldestFound DEF SlidingWindow, UnitsWith
  <2>2. u \subseteq RefKeys(d) /\ \A k \in u : u = Unit(d, k)
    BY <2>1, UnitRefs
  <2>3. PICK k \in RefKeys(d) : k \in u
    BY <2>1, UnitRefs
  <2>. HIDE DEF u
  <2>4. /\ DOMAIN e = DOMAIN d
        /\ \A j \in DOMAIN d : e[j] = IF j \in u THEN MarkAll(d[j], "unused") ELSE d[j]
    BY DEF MarkUnused
  <2>5. ASSUME NEW j \in u PROVE ~ IsAnyFieldRef(e[j])
    <3>1. j \in DOMAIN d /\ d[j] \in Entry /\ "unused" \in Marking
      BY <2>2 DEF RefKeys, FiniteDpb, IsDpb, Marking
    <3>2. \A p \in Parity : e[j].field[p] = "unused"
      BY <2>4, <3>1, MarkAllEntry
    <3>. QED
      BY <3>2 DEF IsAnyFieldRef, AnyFieldIs, HasFieldMarked
  <2>6. RefKeys(e) = RefKeys(d) \ u /\ \A j \in RefKeys(d) \ u : e[j] = d[j]
    BY <2>2, <2>4, <2>5 DEF RefKeys
  <2>7. Fades(d, e)
    BY MarkUnusedFades DEF FiniteDpb
  <2>. HIDE DEF e
  <2>8. FiniteDpb(e) /\ SomeRefsOf(e, d)
    BY <2>7, FadesRefs
  <2>9. RefKeys(e) \cap Unit(d, k) = {}
    BY <2>2, <2>3, <2>6
  <2>10. Cardinality(RefUnits(e)) + 1 <= Cardinality(RefUnits(d))
    BY <2>8, <2>9, OneUnitFewer
  <2>. QED
    BY <1>2, <2>1, <2>6, <2>10 DEF e, u
<1>. QED
  BY <1>1, <1>2

\* Unless the second field of a pair is stored, the window has room for one more
\* unit after it has slid.
LEMMA RoomLeft ==
  ASSUME NEW d, FiniteDpb(d), NEW max \in Nat, NEW n \in FrameNums, NEW s,
         ~ SecondOfShortTermPair(d, n, s),
         Cardinality(UnitsWith(d, "long")) < AtLeastOne(max),
         Cardinality(RefUnits(d)) <= AtLeastOne(max)
  PROVE  Cardinality(RefUnits(SlidingWindow(d, max, n, s))) + 1 <= AtLeastOne(max)
<1>. DEFINE e == SlidingWindow(d, max, n, s)
<1>1. FiniteDpb(e)
  <2>1. Fades(d, e)
    BY SlidingWindowFades DEF FiniteDpb
  <2>. QED
    BY <2>1, FadesRefs
<1>2. /\ Cardinality(RefUnits(d)) \in Nat /\ Cardinality(RefUnits(e)) \in Nat
      /\ AtLeastOne(max) \in Nat
  <2>. HIDE DEF e
  <2>. QED
    BY <1>1, CountUnits DEF AtLeastOne
<1>3. CASE e = d /\ (~ WindowFull(d, max) \/ UnitsWith(d, "short") = {})
  <2>. DEFINE S == Cardinality(UnitsWith(d, "short"))
              L == Cardinality(UnitsWith(d, "long"))
              U == Cardinality(RefUnits(d))
  <2>1. S \in Nat /\ L \in Nat /\ U <= S + L /\ U \in Nat
    BY <1>2, ShortOrLong
  <2>2. UnitsWith(d, "short") = {} => S = 0
    BY FS_EmptySet
  <2>3. ~ (S + L >= AtLeastOne(max)) \/ S = 0
    BY <1>3, <2>2 DEF WindowFull
  <2>4. L < AtLeastOne(max)
    OBVIOUS
  <2>5. RefUnits(e) = RefUnits(d)
    BY <1>3
  <2>. HIDE DEF S, L
  <2>6. U + 1 <= AtLeastOne(max)
    BY <1>2, <2>1, <2>3, <2>4
  <2>. QED
    BY <2>5, <2>6
<1>4. CASE Cardinality(RefUnits(e)) + 1 <= Cardinality(RefUnits(d))
  BY <1>2, <1>4
<1>. QED
  BY <1>3, <1>4, SlidingWindowEvicts

\* A gap frame is stored after the window has slid, like a frame.
LEMMA GapStepGains ==
  ASSUME Inv, GapStep
  PROVE  LET slid == SlidingWindow(dpb, MaxNumRefFrames, gap.expected, "frame")
             new  == NewEntry(gap.expected, "frame", nextKey)
         IN  /\ Fades(dpb, slid) /\ Gains(slid, dpb', nextKey, new)
             /\ new.structure = "frame" /\ new.frameNum = gap.expected /\ new.frame = nextKey
             /\ new.marking = "short" /\ ~ AnyFieldIs(new, "long")
             /\ gap.expected \in FrameNums /\ nextKey \in Nat
<1>. DEFINE slid == SlidingWindow(dpb, MaxNumRefFrames, gap.expected, "frame")
            new  == NewEntry(gap.expected, "frame", nextKey)
<1>1. nextKey \in Nat /\ gap.expected \in FrameNums /\ "frame" \in Structure
      /\ nextKey \notin DOMAIN dpb
  BY DEF Inv, TypeOK, Structure
<1>2. /\ new \in Entry /\ InSync(new) /\ new.marking = "short" /\ IsAnyFieldRef(new)
      /\ new.structure = "frame" /\ new.frameNum = gap.expected /\ new.frame = nextKey
  BY <1>1, NewEntryEntry, RefOfMarking
<1>3. ~ AnyFieldIs(new, "long")
  <2>1. \A p \in Parity : new.field[p] = "short"
    BY <1>1 DEF NewEntry, MarkAll, HasField
  <2>. QED
    BY <2>1 DEF AnyFieldIs, HasFieldMarked
<1>4. Fades(dpb, slid) /\ DOMAIN slid = DOMAIN dpb
  BY InvIsDpb, SlidingWindowFades DEF Fades
<1>5. dpb' = [k \in (DOMAIN Retained(slid)) \cup {nextKey} |->
                IF k = nextKey THEN new ELSE Retained(slid)[k]]
  BY DEF GapStep
<1>. HIDE DEF slid, new
<1>6. dpb' = [k \in RefKeys(slid) \cup {nextKey} |-> IF k = nextKey THEN new ELSE slid[k]]
  BY <1>5 DEF Retained
<1>7. Gains(slid, dpb', nextKey, new)
  BY <1>1, <1>2, <1>4, <1>6 DEF Gains
<1>. QED
  BY <1>1, <1>2, <1>3, <1>4, <1>7 DEF slid, new

\* What the DPB holds after a gap frame.
LEMMA GapStepEntries ==
  ASSUME Inv, GapStep
  PROVE  LET slid == SlidingWindow(dpb, MaxNumRefFrames, gap.expected, "frame")
         IN  /\ FiniteDpb(slid) /\ FiniteDpb(dpb') /\ OneRefMore(dpb', slid, nextKey)
             /\ DOMAIN dpb' = RefKeys(slid) \cup {nextKey}
             /\ RefKeys(dpb') = RefKeys(slid) \cup {nextKey}
             /\ dpb'[nextKey] = NewEntry(gap.expected, "frame", nextKey)
             /\ \A k \in RefKeys(slid) :
                  /\ k \in RefKeys(dpb) /\ k \in Nat /\ k < nextKey /\ dpb'[k] = slid[k]
                  /\ dpb'[k].structure = dpb[k].structure
                  /\ dpb'[k].frameNum = dpb[k].frameNum /\ dpb'[k].frame = dpb[k].frame
                  /\ AnyFieldIs(dpb'[k], "short") => AnyFieldIs(dpb[k], "short")
<1>. DEFINE slid == SlidingWindow(dpb, MaxNumRefFrames, gap.expected, "frame")
            new  == NewEntry(gap.expected, "frame", nextKey)
            e    == dpb'
<1>1. Fades(dpb, slid) /\ Gains(slid, e, nextKey, new)
  BY GapStepGains
<1>2. FiniteDpb(dpb) /\ \A k \in DOMAIN dpb : k \in Nat /\ k < nextKey
  BY InvFinite
<1>. HIDE DEF slid, new, e
<1>3. /\ FiniteDpb(slid) /\ SomeRefsOf(slid, dpb)
      /\ \A k \in DOMAIN dpb :
           /\ slid[k].structure = dpb[k].structure
           /\ slid[k].frameNum = dpb[k].frameNum /\ slid[k].frame = dpb[k].frame
           /\ AnyFieldIs(slid[k], "short") => AnyFieldIs(dpb[k], "short")
  BY <1>1, <1>2, FadesRefs
<1>4. /\ FiniteDpb(e) /\ OneRefMore(e, slid, nextKey)
      /\ DOMAIN e = RefKeys(slid) \cup {nextKey} /\ RefKeys(e) = RefKeys(slid) \cup {nextKey}
      /\ e[nextKey] = new /\ nextKey \notin RefKeys(slid)
      /\ \A k \in RefKeys(slid) : k \in DOMAIN slid /\ k # nextKey /\ e[k] = slid[k]
  BY <1>1, <1>3, GainsRefs
<1>5. \A k \in RefKeys(slid) : k \in RefKeys(dpb) /\ k \in DOMAIN dpb
  BY <1>3 DEF SomeRefsOf, RefKeys
<1>. QED
  BY <1>2, <1>3, <1>4, <1>5 DEF slid, new, e

\* Among frames every reference is a unit of its own.
LEMMA FrameUnits ==
  ASSUME NEW d, FiniteDpb(d), \A k \in DOMAIN d : d[k].structure = "frame", NEW m
  PROVE  /\ \A k \in RefKeys(d) : Unit(d, k) = {k}
         /\ \A k \in RefKeys(d) : AnyFieldIs(d[k], m) => {k} \in UnitsWith(d, m)
         /\ \A u \in UnitsWith(d, m) :
              \E k \in RefKeys(d) : u = {k} /\ AnyFieldIs(d[k], m)
<1>1. ASSUME NEW k \in RefKeys(d) PROVE Unit(d, k) = {k}
  BY DEF Unit, Paired, IsField, Parity, RefKeys
<1>2. ASSUME NEW k \in RefKeys(d), AnyFieldIs(d[k], m) PROVE {k} \in UnitsWith(d, m)
  BY <1>1, <1>2 DEF UnitsWith, UnitHas, RefUnits
<1>3. ASSUME NEW u \in UnitsWith(d, m)
      PROVE  \E k \in RefKeys(d) : u = {k} /\ AnyFieldIs(d[k], m)
  BY <1>1 DEF UnitsWith, UnitHas, RefUnits
<1>. QED
  BY <1>1, <1>2, <1>3

\* A gap frame adds no long-term unit.
LEMMA GapStepLong ==
  ASSUME Inv, StreamInv, GapStep
  PROVE  Cardinality(UnitsWith(dpb, "long"))' <= Cardinality(UnitsWith(dpb, "long"))
<1>. DEFINE slid == SlidingWindow(dpb, MaxNumRefFrames, gap.expected, "frame")
            new  == NewEntry(gap.expected, "frame", nextKey)
            e    == dpb'
<1>1. /\ FiniteDpb(slid) /\ FiniteDpb(e)
      /\ DOMAIN e = RefKeys(slid) \cup {nextKey} /\ e[nextKey] = new
      /\ \A k \in RefKeys(slid) : /\ k \in RefKeys(dpb) /\ e[k] = slid[k]
                                  /\ e[k].structure = dpb[k].structure
  BY GapStepEntries
<1>2. new.structure = "frame" /\ ~ AnyFieldIs(new, "long") /\ gap.expected \in FrameNums
  BY GapStepGains
<1>3. FiniteDpb(dpb) /\ \A k \in DOMAIN dpb : dpb[k].structure = "frame"
  BY InvFinite DEF StreamInv, GapNumbers, FramesWithGaps, GapStep
<1>4. \A k \in RefKeys(slid) : slid[k] = dpb[k]
  BY <1>2, <1>3, SlidingWindowEvicts
<1>. HIDE DEF new, slid
<1>5. \A k \in DOMAIN e : e[k].structure = "frame"
  BY <1>1, <1>2, <1>3 DEF RefKeys
<1>. HIDE DEF e
<1>6. UnitsWith(e, "long") \in SUBSET UnitsWith(dpb, "long")
  <2>1. SUFFICES ASSUME NEW u \in UnitsWith(e, "long") PROVE u \in UnitsWith(dpb, "long")
    OBVIOUS
  <2>2. PICK k \in RefKeys(e) : u = {k} /\ AnyFieldIs(e[k], "long")
    BY <1>1, <1>5, FrameUnits
  <2>3. k \in RefKeys(slid)
    BY <1>1, <1>2, <2>2 DEF RefKeys
  <2>4. k \in RefKeys(dpb) /\ AnyFieldIs(dpb[k], "long")
    BY <1>1, <1>4, <2>2, <2>3
  <2>. QED
    BY <1>3, <2>2, <2>4, FrameUnits
<1>7. Cardinality(UnitsWith(e, "long")) <= Cardinality(UnitsWith(dpb, "long"))
  BY <1>3, <1>6, ShortOrLong, FS_Subset
<1>. QED
  BY <1>7 DEF e

\* One gap frame.
LEMMA GapStepStream ==
  ASSUME Inv, StreamInv, GapStep
  PROVE  StreamInv'
<1>. DEFINE slid == SlidingWindow(dpb, MaxNumRefFrames, gap.expected, "frame")
            new  == NewEntry(gap.expected, "frame", nextKey)
<1>1. /\ UNCHANGED <<store, phase, pic, cur, mmco5, first>> /\ phase = "gap"
      /\ nextKey' = nextKey + 1 /\ prevRef' = gap.expected /\ gap.expected # pic.frameNum
      /\ gap' = [gap EXCEPT !.expected = Successor(@)]
  BY DEF GapStep
<1>2. /\ GapsAllowed /\ ~ pic.idr /\ gap.expected = Successor(prevRef)
      /\ Cardinality(UnitsWith(dpb, "long")) < AtLeastOne(MaxNumRefFrames)
      /\ first = NoField /\ pic.structure = "frame" /\ cur.structure = "frame"
      /\ \A k \in DOMAIN dpb : dpb[k].structure = "frame"
  BY <1>1 DEF StreamInv, GapNumbers, FramesWithGaps
<1>3. /\ DOMAIN dpb' = RefKeys(slid) \cup {nextKey} /\ dpb'[nextKey] = new
      /\ \A k \in RefKeys(slid) :
           /\ k \in DOMAIN dpb /\ k \in Nat /\ k < nextKey
           /\ dpb'[k].structure = dpb[k].structure
           /\ dpb'[k].frameNum = dpb[k].frameNum /\ dpb'[k].frame = dpb[k].frame
           /\ AnyFieldIs(dpb'[k], "short") => AnyFieldIs(dpb[k], "short")
  BY GapStepEntries DEF RefKeys
<1>4. /\ new.structure = "frame" /\ new.frameNum = gap.expected /\ new.frame = nextKey
      /\ gap.expected \in FrameNums /\ nextKey \in Nat
  BY GapStepGains
<1>. HIDE DEF slid, new
<1>5. FramesWithGaps'
  <2>1. \A k \in DOMAIN dpb' : dpb'[k].structure = "frame"
    BY <1>2, <1>3, <1>4
  <2>. QED
    BY <1>1, <1>2, <2>1 DEF FramesWithGaps
<1>6. (PictureWellFormed /\ FirstInDpb /\ CurrentOfPicture)'
  BY <1>1, <1>2 DEF StreamInv, PictureWellFormed, FirstInDpb, CurrentOfPicture
<1>7. GapNumbers'
  <2>1. gap'.expected = Successor(prevRef)'
    BY <1>1 DEF Successor, Inv, TypeOK
  <2>2. Cardinality(UnitsWith(dpb, "long"))' < AtLeastOne(MaxNumRefFrames)
    <3>. DEFINE m == Cardinality(UnitsWith(dpb, "long"))
                l == Cardinality(UnitsWith(dpb', "long"))
    <3>1. l <= m /\ m < AtLeastOne(MaxNumRefFrames)
      BY <1>2, GapStepLong
    <3>2. m \in Int /\ AtLeastOne(MaxNumRefFrames) \in Int
      BY InvFinite, ShortOrLong, DpbAssumption DEF AtLeastOne
    <3>3. l \in Int
      <4>. DEFINE e == dpb'
      <4>1. FiniteDpb(e)
        BY GapStepEntries
      <4>. HIDE DEF e
      <4>2. Cardinality(UnitsWith(e, "long")) \in Nat
        BY <4>1, ShortOrLong
      <4>. QED
        BY <4>2 DEF e
    <3>. HIDE DEF l, m
    <3>4. l < AtLeastOne(MaxNumRefFrames)
      BY <3>1, <3>2, <3>3
    <3>. QED
      BY <3>4 DEF l
  <2>. QED
    BY <1>1, <1>2, <2>1, <2>2 DEF GapNumbers
<1>8. FramesOfEntries'
  <2>1. \A k \in DOMAIN dpb : dpb[k].frame \in Nat /\ dpb[k].frame <= k
    BY DEF StreamInv, FramesOfEntries, Inv, TypeOK, Entry
  <2>2. \A j, k \in DOMAIN dpb : j # k => dpb[j].frame # dpb[k].frame
    BY <1>2 DEF StreamInv, FramesOfEntries, IsField, Parity
  <2>3. \A k \in DOMAIN dpb' : dpb'[k].frame <= k
    BY <1>3, <1>4, <2>1
  <2>4. ASSUME NEW k \in RefKeys(slid) PROVE dpb'[k].frame # dpb'[nextKey].frame
    <3>1. dpb[k].frame \in Nat /\ dpb[k].frame <= k /\ k \in Nat /\ k < nextKey
      BY <1>3, <2>1
    <3>2. dpb[k].frame # nextKey
      BY <1>4, <3>1
    <3>. QED
      BY <1>3, <1>4, <3>2
  <2>5. \A j, k \in DOMAIN dpb' : j # k => dpb'[j].frame # dpb'[k].frame
    BY <1>3, <2>2, <2>4
  <2>. QED
    BY <2>3, <2>5 DEF FramesOfEntries
<1>9. PictureNumber'
  <2>1. NewFrame
    BY <1>1, <1>2 DEF NewFrame, IsSecondField
  <2>2. /\ prevRef # -1 /\ pic.frameNum # prevRef /\ NoShortTermUpTo(pic.frameNum)
    BY <2>1 DEF StreamInv, PictureNumber
  <2>3. prevRef \in FrameNums /\ pic.frameNum \in FrameNums
    BY <2>2 DEF Inv, TypeOK, Header
  <2>. DEFINE p == prevRef
              s == gap.expected
              ahead(n) == IF n >= p THEN n - p ELSE (n - p) + MaxFrameNum
              behind(n) == IF n >= s THEN n - s ELSE (n - s) + MaxFrameNum
  <2>4. /\ MaxFrameNum \in Int /\ MaxFrameNum > 0
        /\ p \in Int /\ 0 <= p /\ p < MaxFrameNum
        /\ pic.frameNum \in Int /\ 0 <= pic.frameNum /\ pic.frameNum < MaxFrameNum
        /\ s = IF p = MaxFrameNum - 1 THEN 0 ELSE p + 1
    BY <1>2, <2>3, Ahead, MaxFrameNumAssumption DEF FrameNums
  <2>5. ASSUME NEW n \in FrameNums
        PROVE  FramesAhead(n) = ahead(n) /\ (n - s) % MaxFrameNum = behind(n)
    BY <1>4, <2>3, <2>5, Ahead DEF FramesAhead
  <2>6. ASSUME NEW k \in DOMAIN dpb', AnyFieldIs(dpb'[k], "short")
        PROVE  ~ behind(dpb'[k].frameNum) \in 1 .. behind(pic.frameNum)
    <3>1. CASE k = nextKey
      <4>1. dpb'[k].frameNum = s
        BY <1>3, <1>4, <3>1
      <4>. QED
        BY <2>4, <4>1
    <3>2. CASE k \in RefKeys(slid)
      <4>1. k \in DOMAIN dpb /\ AnyFieldIs(dpb[k], "short") /\ dpb'[k].frameNum = dpb[k].frameNum
        BY <1>3, <2>6, <3>2
      <4>. DEFINE n == dpb[k].frameNum
      <4>2. n \in FrameNums
        BY <4>1 DEF Inv, TypeOK, Entry
      <4>3. ~ FramesAhead(n) \in 1 .. FramesAhead(pic.frameNum)
        BY <2>2, <4>1 DEF NoShortTermUpTo
      <4>4. ~ ahead(n) \in 1 .. ahead(pic.frameNum)
        BY <2>3, <2>5, <4>2, <4>3
      <4>5. n \in Int /\ 0 <= n /\ n < MaxFrameNum
        BY <2>4, <4>2 DEF FrameNums
      <4>6. pic.frameNum # p /\ pic.frameNum # s
        BY <1>1, <2>2
      <4>. HIDE DEF n, p, s
      <4>7. ~ behind(n) \in 1 .. behind(pic.frameNum)
        BY <2>4, <4>4, <4>5, <4>6
      <4>. QED
        BY <4>1, <4>7 DEF n
    <3>. QED
      BY <1>3, <3>1, <3>2
  <2>7. \A k \in DOMAIN dpb' : dpb'[k].frameNum \in FrameNums
    <3>1. \A k \in DOMAIN dpb : dpb[k].frameNum \in FrameNums
      BY DEF Inv, TypeOK, Entry
    <3>. QED
      BY <1>3, <1>4, <3>1
  <2>8. NoShortTermUpTo(pic.frameNum)'
    <3>1. SUFFICES ASSUME NEW k \in DOMAIN dpb', AnyFieldIs(dpb'[k], "short")
                   PROVE  ~ (dpb'[k].frameNum - s) % MaxFrameNum
                            \in 1 .. (pic.frameNum - s) % MaxFrameNum
      BY <1>1 DEF NoShortTermUpTo, FramesAhead
    <3>2. dpb'[k].frameNum \in FrameNums
      BY <2>7, <3>1
    <3>3. /\ (dpb'[k].frameNum - s) % MaxFrameNum = behind(dpb'[k].frameNum)
          /\ (pic.frameNum - s) % MaxFrameNum = behind(pic.frameNum)
      BY <2>3, <2>5, <3>2
    <3>4. ~ behind(dpb'[k].frameNum) \in 1 .. behind(pic.frameNum)
      BY <2>6, <3>1
    <3>. HIDE DEF behind
    <3>. QED
      BY <3>3, <3>4
  <2>9. prevRef' # -1 /\ pic.frameNum # prevRef'
    BY <1>1, <1>4, <2>4
  <2>. QED
    BY <1>1, <2>8, <2>9 DEF PictureNumber
<1>. QED
  BY <1>5, <1>6, <1>7, <1>8, <1>9 DEF StreamInv

\* One operation of a list.
Operation ==
  \/ \E diff \in Diffs : Mmco1(diff)
  \/ \E num \in LongTermNums : Mmco2(num)
  \/ \E diff \in Diffs, idx \in LtIdx : Mmco3(diff, idx)
  \/ \E i \in LtIdx \cup {0} : Mmco4(i)
  \/ Mmco5
  \/ \E idx \in LtIdx : Mmco6(idx)

\* An operation weakens the DPB and leaves the current picture what it is.
LEMMA OperationFades ==
  ASSUME Inv, StreamInv, Operation
  PROVE  \E d : /\ Fades(dpb, d) /\ MarkingStep(d)
                /\ cur'.structure = cur.structure /\ cur'.frameNum = cur.frameNum
                /\ cur'.frame = cur.frame
                /\ mmco5' => RefKeys(d) = {}
<1>1. IsDpb(dpb) /\ FiniteDpb(dpb) /\ cur \in Entry
  BY InvIsDpb, InvFinite
<1>. DEFINE Goal(d) == /\ Fades(dpb, d) /\ MarkingStep(d)
                       /\ cur'.structure = cur.structure /\ cur'.frameNum = cur.frameNum
                       /\ cur'.frame = cur.frame
                       /\ mmco5' => RefKeys(d) = {}
<1>2. ASSUME NEW d, Fades(dpb, d), MarkingStep(d), UNCHANGED <<cur, mmco5>>
      PROVE  Goal(d)
  <2>1. phase = "mmco"
    BY <1>2 DEF MarkingStep
  <2>2. mmco5 => RefKeys(dpb) = {}
    BY <2>1 DEF StreamInv, CurrentOfPicture
  <2>3. RefKeys(d) \subseteq RefKeys(dpb)
    BY <1>1, <1>2, FadesRefs DEF SomeRefsOf
  <2>. QED
    BY <1>2, <2>2, <2>3
<1>. HIDE DEF Goal
<1>3. ASSUME NEW diff \in Diffs, Mmco1(diff) PROVE \E d : Goal(d)
  BY <1>1, <1>2, <1>3, MarkShortTermUnusedFades DEF Mmco1
<1>4. ASSUME NEW num \in LongTermNums, Mmco2(num) PROVE \E d : Goal(d)
  BY <1>1, <1>2, <1>4, MarkLongTermUnusedFades DEF Mmco2
<1>5. ASSUME NEW diff \in Diffs, NEW idx \in LtIdx, Mmco3(diff, idx) PROVE \E d : Goal(d)
  <2>1. idx \in Nat
    BY DpbAssumption
  <2>. QED
    BY <1>1, <1>2, <1>5, <2>1, AssignLongTermFades DEF Mmco3
<1>6. ASSUME NEW i, Mmco4(i) PROVE \E d : Goal(d)
  BY <1>1, <1>2, <1>6, SetMaxLongTermIdxFades DEF Mmco4
<1>7. ASSUME Mmco5 PROVE \E d : Goal(d)
  <2>1. Fades(dpb, MarkAllUnused(dpb)) /\ RefKeys(MarkAllUnused(dpb)) = {}
    BY <1>1, MarkUnusedFades, NoRefsLeft DEF MarkAllUnused
  <2>2. Goal(MarkAllUnused(dpb))
    BY <1>7, <2>1 DEF Mmco5, Goal
  <2>. QED
    BY <2>2
<1>8. ASSUME NEW idx \in LtIdx, Mmco6(idx) PROVE \E d : Goal(d)
  <2>1. idx \in Nat /\ "long" \in Marking
    BY DpbAssumption DEF Marking
  <2>. DEFINE e == MarkAll(cur, "long")
              d == AssignCurrentLongTerm(dpb, cur, idx)
  <2>2. /\ e \in Entry /\ InSync(e) /\ e.structure = cur.structure
        /\ e.frameNum = cur.frameNum /\ e.frame = cur.frame
    BY <1>1, <2>1, MarkAllEntry
  <2>3. cur' = [e EXCEPT !.ltIdx = idx] /\ MarkingStep(d) /\ UNCHANGED mmco5
    BY <1>8 DEF Mmco6, CurrentLongTerm
  <2>4. Fades(dpb, d)
    BY <1>1, <2>1, AssignCurrentLongTermFades
  <2>. HIDE DEF e, d
  <2>5. /\ cur'.structure = cur.structure /\ cur'.frameNum = cur.frameNum
        /\ cur'.frame = cur.frame
    BY <2>1, <2>2, <2>3, SetIdxEntry
  <2>6. mmco5' => RefKeys(d) = {}
    <3>1. (mmco5 => RefKeys(dpb) = {}) /\ RefKeys(d) \subseteq RefKeys(dpb)
      BY <1>1, <2>3, <2>4, FadesRefs DEF StreamInv, CurrentOfPicture, MarkingStep, SomeRefsOf
    <3>. QED
      BY <2>3, <3>1
  <2>7. Goal(d)
    BY <2>3, <2>4, <2>5, <2>6 DEF Goal
  <2>. QED
    BY <2>7
<1>9. \E d : Goal(d)
  BY <1>3, <1>4, <1>5, <1>6, <1>7, <1>8 DEF Operation
<1>. QED
  BY <1>9 DEF Goal

\* The decoder starts in the stream's facts.
LEMMA InitStream == Init => StreamInv
<1>. SUFFICES ASSUME Init PROVE StreamInv
  OBVIOUS
<1>1. /\ DOMAIN dpb = {} /\ phase = "idle" /\ pic = NoHeader /\ cur = NoEntry
      /\ first = NoField
  BY DEF Init
<1>2. NoHeader.structure = "frame" /\ NoEntry.structure = "frame"
  <2>1. 0 \in FrameNums /\ "frame" \in Structure
    BY MaxFrameNumAssumption DEF FrameNums, Structure
  <2>. QED
    BY <2>1, NewEntryEntry DEF NoHeader, NoEntry
<1>. QED
  BY <1>1, <1>2
     DEF StreamInv, PictureWellFormed, FramesWithGaps, PictureNumber, NewFrame, GapNumbers,
         FramesOfEntries, FirstInDpb, CurrentOfPicture

\* Every step of a conforming stream keeps them.
LEMMA NextStream ==
  ASSUME Conforming, NoFieldGaps, Inv, StreamInv, Next
  PROVE  StreamInv'
<1>1. ASSUME NEW h \in Header, WellFormed(h), StreamMayCode(h), OpenPicture(h) PROVE StreamInv'
  BY <1>1, OpenPictureStream
<1>2. CASE GapStep
  BY <1>2, GapStepStream
<1>3. CASE GapDone
  BY <1>3, GapDoneStream
<1>4. CASE DropPicture
  BY <1>4 DEF DropPicture
<1>5. CASE FinalizeNonReference
  BY <1>5, NonReferenceStream
<1>6. CASE FinalizeIdr
  BY <1>6, IdrStores, StoresStream
<1>7. CASE FinalizeSlidingWindow
  BY <1>7, SlidingWindowStores, StoresStream
<1>8. CASE BeginAdaptiveMarking
  BY <1>8, BeginAdaptiveStream
<1>9. CASE Operation
  BY <1>9, OperationFades, MarkingStream
<1>10. CASE EndAdaptiveMarking
  BY <1>10, EndAdaptiveStores, StoresStream
<1>. QED
  BY <1>1, <1>2, <1>3, <1>4, <1>5, <1>6, <1>7, <1>8, <1>9, <1>10
     DEF Next, AdaptiveMarkingStep, Operation

\* So does a step that changes nothing.
LEMMA StutterStream ==
  ASSUME StreamInv, UNCHANGED vars
  PROVE  StreamInv'
<1>1. UNCHANGED <<dpb, store, nextKey, prevRef, phase, pic, cur, gap, mmco5, first>>
  BY DEF vars
<1>2. (IsSecondField(pic)' <=> IsSecondField(pic)) /\ Successor(prevRef)' = Successor(prevRef)
      /\ FrameKey(pic, nextKey - 1)' = FrameKey(pic, nextKey - 1)
  BY <1>1 DEF IsSecondField, Successor, FrameKey
<1>3. NoShortTermUpTo(pic.frameNum)' <=> NoShortTermUpTo(pic.frameNum)
  BY <1>1 DEF NoShortTermUpTo, FramesAhead
<1>4. (PictureWellFormed /\ FramesWithGaps /\ GapNumbers /\ FramesOfEntries /\ FirstInDpb)'
  BY <1>1, <1>2
     DEF StreamInv, PictureWellFormed, FramesWithGaps, GapNumbers, FramesOfEntries, FirstInDpb
<1>5. (PictureNumber /\ CurrentOfPicture)'
  BY <1>1, <1>2, <1>3 DEF StreamInv, PictureNumber, NewFrame, CurrentOfPicture
<1>. QED
  BY <1>4, <1>5 DEF StreamInv

-----------------------------------------------------------------------------
(***************************************************************************)
(* The window.  While a first reference field awaits its second, either    *)
(* the second will find a unit to complete or the window has room for a    *)
(* unit more: that is what the missing eviction of the second field needs. *)
(***************************************************************************)
RoomForSecond ==
  first # NoField /\ first.ref /\ phase \in {"idle", "open"} =>
    \/ Cardinality(FieldsOf(dpb, Opposite(first.structure), first.frameNum))
         < Cardinality(FieldsOf(dpb, first.structure, first.frameNum))
    \/ Cardinality(RefUnits(dpb)) + 1 <= AtLeastOne(MaxNumRefFrames)

WindowInv == WithinWindow /\ RoomForSecond

\* The size of the window.
LEMMA WindowSize == AtLeastOne(MaxNumRefFrames) \in Nat \ {0}
BY DpbAssumption DEF AtLeastOne

\* A stored DPB is apart by frames, and its first field is a lone reference.
LEMMA StoredFrames ==
  ASSUME Inv, StreamInv, NEW d, NEW c, NEW key, NEW n, Stores(d, c, key, n)
  PROVE  /\ FramesApart(dpb')
         /\ first' # NoField =>
              /\ key \in RefKeys(dpb') /\ IsField(dpb'[key]) /\ ~ IsSecondField(pic)
              /\ first'.structure = dpb'[key].structure
              /\ first'.frameNum = dpb'[key].frameNum
              /\ \A k \in RefKeys(dpb') : dpb'[k].frame = dpb'[key].frame => k = key
<1>1. FramesOfEntries' /\ FirstInDpb'
  BY StoresFrames, StoresFirst
<1>2. /\ DOMAIN dpb' = RefKeys(d) \cup {key} /\ RefKeys(dpb') = RefKeys(d) \cup {key}
      /\ dpb'[key] = c
  BY StoredEntries
<1>3. FramesApart(dpb')
  BY <1>1, <1>2 DEF FramesOfEntries, FramesApart
<1>4. ASSUME first' # NoField
      PROVE  /\ IsField(dpb'[key]) /\ ~ IsSecondField(pic)
             /\ first'.structure = dpb'[key].structure
             /\ first'.frameNum = dpb'[key].frameNum
             /\ \A k \in RefKeys(dpb') : dpb'[k].frame = dpb'[key].frame => k = key
  <2>1. first' = AwaitsSecond(pic, n, FrameKey(pic, key))
        /\ c.structure = pic.structure /\ c.frameNum = n /\ c.frame = FrameKey(pic, key)
    BY DEF Stores
  <2>2. /\ pic.structure \in Parity /\ ~ IsSecondField(pic) /\ FrameKey(pic, key) = key
        /\ first'.structure = pic.structure /\ first'.frameNum = n /\ first'.key = key
    BY <1>4, <2>1 DEF AwaitsSecond, FrameKey
  <2>3. \A k \in DOMAIN dpb' : dpb'[k].frame = key => k = key
    BY <1>1, <1>4, <2>2 DEF FirstInDpb
  <2>. QED
    BY <1>2, <2>1, <2>2, <2>3 DEF IsField
<1>. QED
  BY <1>2, <1>3, <1>4

\* Once operations are applied, the stream leaves no more frames than the window
\* holds, and the units are no more than the frames.
LEMMA EndAdaptiveWindow ==
  ASSUME Conforming, Inv, StreamInv, EndAdaptiveMarking
  PROVE  WindowInv'
<1>1. PICK n : Stores(dpb, [MarkedCurrent(cur) EXCEPT !.frameNum = n], nextKey - 1, n)
  BY EndAdaptiveStores
<1>. DEFINE e == dpb'
            c == [MarkedCurrent(cur) EXCEPT !.frameNum = n]
            key == nextKey - 1
            g == first'
<1>2. Cardinality(Frames(e)) <= AtLeastOne(MaxNumRefFrames)
  BY DEF EndAdaptiveMarking, MarkingMayLeave
<1>3. FiniteDpb(e)
  BY <1>1, StoredEntries
<1>4. /\ FramesApart(e)
      /\ g # NoField =>
           /\ key \in RefKeys(e) /\ IsField(e[key])
           /\ g.structure = e[key].structure /\ g.frameNum = e[key].frameNum
           /\ \A k \in RefKeys(e) : e[k].frame = e[key].frame => k = key
  BY <1>1, StoredFrames
<1>. HIDE DEF e, c, key, g
<1>5. Cardinality(RefUnits(e)) <= Cardinality(Frames(e))
  BY <1>3, <1>4, UnitsPerFrame
<1>6. Cardinality(RefUnits(e)) \in Nat /\ Cardinality(Frames(e)) \in Nat
  BY <1>3, CountUnits, FramesFinite
<1>7. Cardinality(RefUnits(e)) <= AtLeastOne(MaxNumRefFrames)
  BY <1>2, <1>5, <1>6, WindowSize
<1>8. ASSUME g # NoField
      PROVE  \/ Cardinality(FieldsOf(e, Opposite(g.structure), g.frameNum))
                  < Cardinality(FieldsOf(e, g.structure, g.frameNum))
             \/ Cardinality(RefUnits(e)) + 1 <= AtLeastOne(MaxNumRefFrames)
  <2>1. \/ Cardinality(FieldsOf(e, Opposite(e[key].structure), e[key].frameNum))
             < Cardinality(FieldsOf(e, e[key].structure, e[key].frameNum))
        \/ Cardinality(RefUnits(e)) + 1 <= Cardinality(Frames(e))
    BY <1>3, <1>4, <1>8, RoomWithLoneField
  <2>. QED
    BY <1>2, <1>4, <1>6, <1>8, <2>1, WindowSize
<1>. QED
  BY <1>7, <1>8 DEF WindowInv, WithinWindow, RoomForSecond, e, g

\* An IDR picture is the only unit it leaves.
LEMMA IdrWindow ==
  ASSUME Inv, StreamInv, FinalizeIdr
  PROVE  WindowInv'
<1>1. PICK c : Stores(MarkAllUnused(dpb), c, nextKey, pic.frameNum)
  BY IdrStores
<1>. DEFINE e == dpb'
            d == MarkAllUnused(dpb)
            g == first'
<1>2. RefKeys(d) = {}
  BY InvIsDpb, NoRefsLeft
<1>3. FiniteDpb(d) /\ FiniteDpb(e) /\ OneRefMore(e, d, nextKey)
  BY <1>1, StoredEntries
<1>4. g # NoField =>
        /\ IsField(e[nextKey]) /\ g.structure = e[nextKey].structure
        /\ g.frameNum = e[nextKey].frameNum
  BY <1>1, StoredFrames
<1>. HIDE DEF d, e, g
<1>5. Cardinality(RefUnits(d)) = 0 /\ \A p, n : Cardinality(FieldsOf(d, p, n)) = 0
  <2>1. RefUnits(d) = {} /\ \A p, n : FieldsOf(d, p, n) = {}
    BY <1>2 DEF RefUnits, FieldsOf
  <2>. QED
    BY <2>1, FS_EmptySet
<1>6. Cardinality(RefUnits(e)) <= AtLeastOne(MaxNumRefFrames)
  <2>1. Cardinality(RefUnits(e)) <= Cardinality(RefUnits(d)) + 1 /\ Cardinality(RefUnits(e)) \in Nat
    BY <1>3, OneUnitMore, CountUnits
  <2>. QED
    BY <1>5, <2>1, WindowSize
<1>7. ASSUME g # NoField
      PROVE  Cardinality(FieldsOf(e, Opposite(g.structure), g.frameNum))
               < Cardinality(FieldsOf(e, g.structure, g.frameNum))
  <2>1. g.structure \in Parity /\ Opposite(g.structure) # g.structure
    BY <1>4, <1>7, OppositeParity DEF IsField
  <2>2. /\ Cardinality(FieldsOf(e, g.structure, g.frameNum))
             = Cardinality(FieldsOf(d, g.structure, g.frameNum)) + 1
        /\ Cardinality(FieldsOf(e, Opposite(g.structure), g.frameNum))
             = Cardinality(FieldsOf(d, Opposite(g.structure), g.frameNum))
    BY <1>3, <1>4, <1>7, <2>1, OneFieldMore
  <2>. QED
    BY <1>5, <2>2
<1>. QED
  BY <1>6, <1>7 DEF WindowInv, WithinWindow, RoomForSecond, e, g

\* No short-term reference field exempts a new frame from sliding the window.
LEMMA NewFrameSlides ==
  ASSUME Inv, StreamInv, NewFrame
  PROVE  ~ SecondOfShortTermPair(dpb, pic.frameNum, pic.structure)
<1>1. ASSUME NEW k \in DOMAIN dpb, IsField(dpb[k]), dpb[k].marking = "short"
      PROVE  AnyFieldIs(dpb[k], "short")
  <2>1. dpb[k] \in Entry /\ InSync(dpb[k])
    BY InvIsDpb DEF IsDpb
  <2>2. dpb[k].structure \in Parity /\ HasField(dpb[k], dpb[k].structure)
    BY <1>1 DEF IsField, HasField
  <2>3. dpb[k].field[dpb[k].structure] = "short"
    BY <1>1, <2>1, <2>2, ShortUnitFields
  <2>. QED
    BY <2>2, <2>3 DEF AnyFieldIs, HasFieldMarked
<1>. QED
  BY <1>1, NumberIsNew DEF SecondOfShortTermPair

\* A sliding-window picture fits into the window.
LEMMA SlidingWindowWindow ==
  ASSUME Conforming, Inv, StreamInv, WindowInv, FinalizeSlidingWindow
  PROVE  WindowInv'
<1>1. PICK c : Stores(Slid, c, nextKey, pic.frameNum)
  BY SlidingWindowStores
<1>. DEFINE e == dpb'
            d == Slid
            g == first'
            s == pic.structure
            n == pic.frameNum
            max == AtLeastOne(MaxNumRefFrames)
            U(x) == Cardinality(RefUnits(x))
            F(x, p) == Cardinality(FieldsOf(x, p, n))
<1>2. /\ FiniteDpb(dpb) /\ FiniteDpb(d) /\ FiniteDpb(e) /\ OneRefMore(e, d, nextKey)
      /\ e[nextKey] = c
  BY <1>1, InvFinite, StoredEntries
<1>3. /\ c.structure = s /\ c.frameNum = n /\ n \in FrameNums
      /\ g = AwaitsSecond(pic, n, FrameKey(pic, nextKey))
  BY <1>1 DEF Stores
<1>4. /\ phase = "open" /\ pic.ref /\ ~ pic.idr /\ WindowMaySlide(dpb, pic)
  BY DEF FinalizeSlidingWindow
<1>5. U(dpb) <= max /\ RoomForSecond
  BY DEF WindowInv, WithinWindow
<1>6. d = dpb \/ U(d) + 1 <= U(dpb)
  BY <1>2, <1>3, SlidingWindowEvicts DEF Slid
<1>7. ~ IsSecondField(pic) => U(d) + 1 <= max
  <2>1. SUFFICES ASSUME ~ IsSecondField(pic) PROVE U(d) + 1 <= max
    OBVIOUS
  <2>2. NewFrame
    BY <1>4, <2>1 DEF NewFrame
  <2>3. Cardinality(UnitsWith(dpb, "long")) < max
    BY <1>4, <2>1 DEF WindowMaySlide
  <2>4. ~ SecondOfShortTermPair(dpb, n, s) /\ MaxNumRefFrames \in Nat
    BY <2>2, NewFrameSlides, DpbAssumption
  <2>. QED
    BY <1>2, <1>3, <1>5, <2>3, <2>4, RoomLeft DEF Slid
<1>8. /\ U(e) <= U(d) + 1
      /\ s \in Parity /\ F(d, s) < F(d, Opposite(s)) => U(e) <= U(d)
  BY <1>2, <1>3, OneUnitMore DEF IsField
<1>9. /\ U(d) \in Nat /\ U(e) \in Nat /\ U(dpb) \in Nat /\ max \in Nat
      /\ \A p : F(d, p) \in Nat /\ F(e, p) \in Nat
  BY <1>2, CountUnits, FieldsOfFinite, WindowSize
<1>10. CASE ~ IsSecondField(pic)
  <2>1. U(e) <= max
    <3>. HIDE DEF U, max
    <3>. QED
      BY <1>7, <1>8, <1>9, <1>10
  <2>2. ASSUME g # NoField
        PROVE  \/ Cardinality(FieldsOf(e, Opposite(g.structure), g.frameNum))
                    < Cardinality(FieldsOf(e, g.structure, g.frameNum))
               \/ U(e) + 1 <= max
    <3>1. s \in Parity /\ g.structure = s /\ g.frameNum = n
      BY <1>3, <2>2 DEF AwaitsSecond
    <3>2. Opposite(s) # s
      BY <3>1, OppositeParity
    <3>3. F(e, s) = F(d, s) + 1 /\ F(e, Opposite(s)) = F(d, Opposite(s))
      BY <1>2, <1>3, <3>2, OneFieldMore
    <3>4. F(e, Opposite(s)) < F(e, s) \/ U(e) + 1 <= max
      <4>. HIDE DEF U, F, max
      <4>. QED
        BY <1>7, <1>8, <1>9, <1>10, <3>1, <3>3
    <3>. QED
      BY <3>1, <3>4
  <2>. QED
    BY <2>1, <2>2 DEF WindowInv, WithinWindow, RoomForSecond
<1>11. CASE IsSecondField(pic)
  <2>1. /\ first # NoField /\ first.ref /\ s = Opposite(first.structure) /\ n = first.frameNum
    BY <1>4, <1>11 DEF IsSecondField
  <2>2. first.structure \in Parity
    BY <2>1 DEF StreamInv, FirstInDpb
  <2>3. s \in Parity /\ Opposite(s) = first.structure
    BY <2>1, <2>2, OppositeParity
  <2>4. F(dpb, s) < F(dpb, Opposite(s)) \/ U(dpb) + 1 <= max
    BY <1>4, <1>5, <2>1, <2>3 DEF RoomForSecond
  <2>5. d = dpb => F(d, s) = F(dpb, s) /\ F(d, Opposite(s)) = F(dpb, Opposite(s))
                   /\ U(d) = U(dpb)
    OBVIOUS
  <2>6. U(e) <= max
    <3>. HIDE DEF U, F, max, d
    <3>. QED
      BY <1>5, <1>6, <1>8, <1>9, <2>3, <2>4, <2>5
  <2>7. g = NoField
    BY <1>3, <1>11 DEF AwaitsSecond
  <2>. QED
    BY <2>6, <2>7 DEF WindowInv, WithinWindow, RoomForSecond
<1>. QED
  BY <1>10, <1>11

\* A gap frame fits into the window.
LEMMA GapStepWindow ==
  ASSUME Inv, StreamInv, WindowInv, GapStep
  PROVE  WindowInv'
<1>. DEFINE slid == SlidingWindow(dpb, MaxNumRefFrames, gap.expected, "frame")
            e == dpb'
<1>1. first' = NoField /\ Cardinality(UnitsWith(dpb, "long")) < AtLeastOne(MaxNumRefFrames)
  BY DEF GapStep, StreamInv, GapNumbers, FramesWithGaps
<1>2. FiniteDpb(dpb) /\ FiniteDpb(slid) /\ FiniteDpb(e) /\ OneRefMore(e, slid, nextKey)
  BY InvFinite, GapStepEntries
<1>3. ~ SecondOfShortTermPair(dpb, gap.expected, "frame")
      /\ gap.expected \in FrameNums /\ MaxNumRefFrames \in Nat
      /\ Cardinality(RefUnits(dpb)) <= AtLeastOne(MaxNumRefFrames)
  BY DpbAssumption, GapStepGains
     DEF SecondOfShortTermPair, Parity, WindowInv, WithinWindow
<1>4. Cardinality(RefUnits(slid)) + 1 <= AtLeastOne(MaxNumRefFrames)
  BY <1>1, <1>2, <1>3, RoomLeft
<1>. HIDE DEF slid, e
<1>5. Cardinality(RefUnits(e)) <= Cardinality(RefUnits(slid)) + 1
      /\ Cardinality(RefUnits(e)) \in Nat /\ Cardinality(RefUnits(slid)) \in Nat
  BY <1>2, OneUnitMore, CountUnits
<1>6. Cardinality(RefUnits(e)) <= AtLeastOne(MaxNumRefFrames)
  BY <1>4, <1>5, WindowSize
<1>. QED
  BY <1>1, <1>6 DEF WindowInv, WithinWindow, RoomForSecond, e

\* One operation of a list makes no unit more.
LEMMA OperationWindow ==
  ASSUME Inv, StreamInv, WindowInv, Operation
  PROVE  WindowInv'
<1>1. PICK d : Fades(dpb, d) /\ MarkingStep(d)
  BY OperationFades
<1>2. FiniteDpb(dpb) /\ FiniteDpb(d) /\ SomeRefsOf(d, dpb)
  BY <1>1, InvFinite, FadesRefs
<1>3. Cardinality(RefUnits(d)) <= Cardinality(RefUnits(dpb))
      /\ Cardinality(RefUnits(d)) \in Nat /\ Cardinality(RefUnits(dpb)) \in Nat
  BY <1>2, FewerUnits, CountUnits
<1>4. Cardinality(RefUnits(d)) <= AtLeastOne(MaxNumRefFrames)
  BY <1>3, WindowSize DEF WindowInv, WithinWindow
<1>5. dpb' = d /\ phase' = "mmco"
  BY <1>1 DEF MarkingStep
<1>. QED
  BY <1>4, <1>5 DEF WindowInv, WithinWindow, RoomForSecond

\* A step that leaves the DPB alone.
LEMMA SameDpbWindow ==
  ASSUME Inv, StreamInv, WindowInv, dpb' = dpb,
         \/ first' = first /\ (phase \in {"idle", "open"} \/ phase' = "mmco")
         \/ first' = NoField \/ ~ first'.ref
  PROVE  WindowInv'
BY DEF WindowInv, WithinWindow, RoomForSecond

\* Every step of a conforming stream stays within the window.
LEMMA NextWindow ==
  ASSUME Conforming, NoFieldGaps, Inv, StreamInv, WindowInv, Next
  PROVE  WindowInv'
<1>1. ASSUME NEW h \in Header, OpenPicture(h) PROVE WindowInv'
  BY <1>1, SameDpbWindow DEF OpenPicture
<1>2. CASE GapStep
  BY <1>2, GapStepWindow
<1>3. CASE GapDone
  <2>1. first = NoField
    BY <1>3 DEF GapDone, StreamInv, GapNumbers, FramesWithGaps
  <2>. QED
    BY <1>3, <2>1, SameDpbWindow DEF GapDone
<1>4. CASE DropPicture
  BY <1>4 DEF DropPicture
<1>5. CASE FinalizeNonReference
  <2>1. first' = NoField \/ ~ first'.ref
    BY <1>5 DEF FinalizeNonReference, AwaitsSecond
  <2>. QED
    BY <1>5, <2>1, SameDpbWindow DEF FinalizeNonReference
<1>6. CASE FinalizeIdr
  BY <1>6, IdrWindow
<1>7. CASE FinalizeSlidingWindow
  BY <1>7, SlidingWindowWindow
<1>8. CASE BeginAdaptiveMarking
  BY <1>8, SameDpbWindow DEF BeginAdaptiveMarking
<1>9. CASE Operation
  BY <1>9, OperationWindow
<1>10. CASE EndAdaptiveMarking
  BY <1>10, EndAdaptiveWindow
<1>. QED
  BY <1>1, <1>2, <1>3, <1>4, <1>5, <1>6, <1>7, <1>8, <1>9, <1>10
     DEF Next, AdaptiveMarkingStep, Operation

\* The decoder starts with an empty window.
LEMMA InitWindow == Init => WindowInv
<1>. SUFFICES ASSUME Init PROVE WindowInv
  OBVIOUS
<1>1. RefUnits(dpb) = {} /\ first = NoField
  BY DEF Init, RefUnits, RefKeys
<1>2. Cardinality(RefUnits(dpb)) = 0
  BY <1>1, FS_EmptySet
<1>. QED
  BY <1>1, <1>2, WindowSize DEF WindowInv, WithinWindow, RoomForSecond

\* The stream's facts and the window hold of every conforming stream in which
\* fields and gaps do not meet.
THEOREM StreamInvariance ==
  ASSUME Conforming, NoFieldGaps
  PROVE  Spec => [](Inv /\ StreamInv /\ WindowInv)
<1>1. Init => Inv /\ StreamInv /\ WindowInv
  BY InitInv, InitStream, InitWindow
<1>2. Inv /\ StreamInv /\ WindowInv /\ [Next]_vars => (Inv /\ StreamInv /\ WindowInv)'
  <2>1. ASSUME Inv, StreamInv, WindowInv, UNCHANGED vars PROVE WindowInv'
    BY <2>1 DEF vars, WindowInv, WithinWindow, RoomForSecond
  <2>. QED
    BY <2>1, NextInv, StutterInv, NextStream, StutterStream, NextWindow
<1>. QED
  BY <1>1, <1>2, PTL DEF Spec

\* 8.2.5.3: at most Max(max_num_ref_frames, 1) frames, pairs and lone fields are
\* used for reference, for every conforming stream of frames and fields, or of
\* frames and gaps in frame_num.
THEOREM WithinWindowCorrect ==
  ASSUME Conforming, NoFieldGaps
  PROVE  Spec => []WithinWindow
<1>1. WindowInv => WithinWindow
  BY DEF WindowInv
<1>. QED
  BY <1>1, StreamInvariance, PTL

\* The first field of a reference pair is in the DPB while its second is decoded,
\* for the same streams: what fails is only that a gap is filled between the two.
THEOREM FirstFieldHeldCorrect ==
  ASSUME Conforming, NoFieldGaps
  PROVE  Spec => []FirstFieldHeld
<1>1. StreamInv => FirstFieldHeld
  <2>1. SUFFICES ASSUME StreamInv, phase = "open", IsSecondField(pic), pic.ref
                 PROVE  \E k \in DOMAIN dpb : dpb[k].frame = first.key
    BY DEF FirstFieldHeld
  <2>2. first # NoField /\ first.ref
    BY <2>1 DEF IsSecondField
  <2>. QED
    BY <2>1, <2>2 DEF StreamInv, FirstInDpb
<1>. QED
  BY <1>1, StreamInvariance, PTL

\* The step in which a second field is stored under sliding-window marking.
PairKept ==
  phase = "open" /\ phase' = "idle" /\ pic.ref /\ ~ pic.adaptive /\ IsSecondField(pic)
    => \A k \in DOMAIN dpb : dpb[k].frame = first.key => k \in DOMAIN dpb'

\* Storing the second field does not evict the first: a short-term one exempts it
\* from sliding the window, and a long-term one is in no short-term unit.
LEMMA SecondKeepsFirst ==
  ASSUME Conforming, Inv, StreamInv, Next
  PROVE  PairKept
<1>1. SUFFICES ASSUME phase = "open", phase' = "idle", pic.ref, ~ pic.adaptive,
                      IsSecondField(pic), NEW k \in DOMAIN dpb, dpb[k].frame = first.key
               PROVE  k \in DOMAIN dpb'
  BY DEF PairKept
<1>2. FinalizeSlidingWindow
  BY <1>1 DEF Next, OpenPicture, GapStep, GapDone, DropPicture, FinalizeNonReference,
     FinalizeIdr, IsSecondField, BeginAdaptiveMarking, AdaptiveMarkingStep, EndAdaptiveMarking,
     Mmco1, Mmco2, Mmco3, Mmco4, Mmco5, Mmco6, MarkingStep
<1>3. PICK c : Stores(Slid, c, nextKey, pic.frameNum)
  BY <1>2, SlidingWindowStores
<1>4. DOMAIN dpb' = RefKeys(Slid) \cup {nextKey}
  BY <1>3, StoredEntries
<1>5. /\ first # NoField /\ pic.structure = Opposite(first.structure)
      /\ pic.frameNum = first.frameNum /\ first.ref
  BY <1>1 DEF IsSecondField
<1>6. /\ k = first.key /\ first.structure \in Parity
      /\ dpb[k].structure = first.structure /\ dpb[k].frameNum = first.frameNum
      /\ \A j \in DOMAIN dpb :
           j # first.key /\ AnyFieldIs(dpb[j], "short") => dpb[j].frameNum # first.frameNum
  BY <1>1, <1>5 DEF StreamInv, FirstInDpb
<1>7. k \in RefKeys(dpb) /\ FiniteDpb(dpb) /\ pic.frameNum \in FrameNums
  BY <1>1, InvFinite DEF Inv, OnlyReferencesHeld, TypeOK, Header
<1>8. CASE Slid = dpb
  BY <1>4, <1>7, <1>8
<1>9. CASE /\ OldestShortTermUnit(dpb, pic.frameNum) \in UnitsWith(dpb, "short")
           /\ ~ SecondOfShortTermPair(dpb, pic.frameNum, pic.structure)
           /\ RefKeys(Slid) = RefKeys(dpb) \ OldestShortTermUnit(dpb, pic.frameNum)
  <2>. DEFINE u == OldestShortTermUnit(dpb, pic.frameNum)
  <2>1. SUFFICES ASSUME k \in u PROVE FALSE
    BY <1>4, <1>7, <1>9
  <2>2. u \in RefUnits(dpb) /\ \E j \in u : AnyFieldIs(dpb[j], "short")
    BY <1>9 DEF UnitsWith, UnitHas
  <2>3. u = Unit(dpb, k) /\ u \subseteq RefKeys(dpb)
    BY <1>7, <2>1, <2>2, UnitRefs
  <2>4. PICK j \in u : AnyFieldIs(dpb[j], "short")
    BY <2>2
  <2>5. dpb[k].marking # "short"
    BY <1>1, <1>5, <1>6, <1>9, OppositeParity DEF SecondOfShortTermPair, IsField
  <2>6. ~ AnyFieldIs(dpb[k], "short")
    <3>1. dpb[k] \in Entry /\ InSync(dpb[k])
      BY <1>1, InvIsDpb DEF IsDpb
    <3>. QED
      BY <1>6, <2>5, <3>1
         DEF AnyFieldIs, HasFieldMarked, HasField, InSync, UnitMarking, Entry, Parity
  <2>7. j # k /\ dpb[j].frameNum = dpb[k].frameNum /\ j \in DOMAIN dpb
    BY <2>3, <2>4, <2>6 DEF Unit, Paired, RefKeys
  <2>. QED
    BY <1>6, <2>4, <2>7
<1>. QED
  BY <1>7, <1>8, <1>9, SlidingWindowEvicts DEF Slid

\* 8.2.5.3: storing the second field of a complementary reference field pair
\* evicts neither field of the pair, for the same streams.
THEOREM PairSurvivesCorrect ==
  ASSUME Conforming, NoFieldGaps
  PROVE  Spec => PairSurvivesSlidingWindow
<1>1. Inv /\ StreamInv /\ WindowInv /\ [Next]_vars => [PairKept]_vars
  BY SecondKeepsFirst
<1>2. Spec => [][PairKept]_vars
  BY <1>1, StreamInvariance, PTL DEF Spec
<1>. QED
  BY <1>2 DEF PairSurvivesSlidingWindow, PairKept

-----------------------------------------------------------------------------
(***************************************************************************)
(* The sliding window alone, among frames: the short-term references are   *)
(* the newest frames, one for every frame_num back to the oldest of them.  *)
(***************************************************************************)
SlidingFramesOnly == Modes \subseteq {FALSE} /\ Structures \subseteq {"frame"}

OnlyFrames ==
  /\ phase # "mmco" /\ first = NoField
  /\ phase # "idle" => pic.structure = "frame" /\ ~ pic.adaptive
  /\ \A k \in DOMAIN dpb : dpb[k].structure = "frame" /\ dpb[k].marking # "unused"

ShortTerm(d) == {k \in DOMAIN d : d[k].marking = "short"}

\* How many frame_nums entry k lies behind p.
BackFrom(p, d, k) == (p - d[k].frameNum) % MaxFrameNum

NewestFrom(p, d) ==
  /\ \A k \in ShortTerm(d) : \A i \in 0 .. BackFrom(p, d, k) :
       \E j \in ShortTerm(d) : BackFrom(p, d, j) = i
  /\ \A j, k \in ShortTerm(d) : BackFrom(p, d, j) = BackFrom(p, d, k) => j = k

NewestInv == OnlyFrames /\ NewestFrom(prevRef, dpb)

\* The frame_num that follows p sees every other one a frame further back, and
\* the further back the smaller its FrameNumWrap.
LEMMA FrameAges ==
  ASSUME NEW p \in FrameNums, NEW n \in FrameNums, n = Successor(p), NEW f \in FrameNums, f # n
  PROVE  /\ (p - f) % MaxFrameNum \in Nat /\ (n - f) % MaxFrameNum \in Nat
         /\ (n - f) % MaxFrameNum < MaxFrameNum
         /\ (n - f) % MaxFrameNum = ((p - f) % MaxFrameNum) + 1
         /\ FrameNumWrap(f, n) \in Int
         /\ (n - f) % MaxFrameNum = n - FrameNumWrap(f, n)
<1>1. /\ MaxFrameNum \in Nat \ {0} /\ n \in Int /\ p \in Int /\ f \in Int
      /\ 0 <= n /\ n < MaxFrameNum /\ 0 <= p /\ p < MaxFrameNum /\ 0 <= f /\ f < MaxFrameNum
  BY MaxFrameNumAssumption DEF FrameNums
<1>2. /\ (p - f) % MaxFrameNum = IF p >= f THEN p - f ELSE (p - f) + MaxFrameNum
      /\ (n - f) % MaxFrameNum = IF n >= f THEN n - f ELSE (n - f) + MaxFrameNum
      /\ n = IF p = MaxFrameNum - 1 THEN 0 ELSE p + 1
  BY Ahead
<1>3. FrameNumWrap(f, n) = IF f > n THEN f - MaxFrameNum ELSE f
  BY DEF FrameNumWrap
<1>. QED
  BY <1>1, <1>2, <1>3

\* The sliding window evicts the short-term frame that is furthest back.
LEMMA FurthestEvicted ==
  ASSUME NEW d, FiniteDpb(d), \A k \in DOMAIN d : d[k].structure = "frame",
         \A k \in DOMAIN d : d[k].marking # "unused",
         NEW p \in FrameNums, NEW n \in FrameNums, n = Successor(p),
         \A k \in ShortTerm(d) : d[k].frameNum # n
  PROVE  LET slid == SlidingWindow(d, MaxNumRefFrames, n, "frame")
         IN  /\ \A k \in RefKeys(slid) : k \in DOMAIN d /\ slid[k] = d[k]
             /\ \A j \in ShortTerm(d), k \in ShortTerm(d) :
                  j \notin RefKeys(slid) => BackFrom(p, d, k) <= BackFrom(p, d, j)
<1>. DEFINE slid == SlidingWindow(d, MaxNumRefFrames, n, "frame")
            u == OldestShortTermUnit(d, n)
<1>1. ASSUME NEW k \in ShortTerm(d)
      PROVE  k \in DOMAIN d /\ k \in RefKeys(d) /\ AnyFieldIs(d[k], "short")
  <2>1. k \in DOMAIN d /\ d[k].marking = "short" /\ d[k].structure = "frame"
        /\ d[k] \in Entry /\ InSync(d[k])
    BY DEF ShortTerm, FiniteDpb, IsDpb
  <2>2. AnyFieldIs(d[k], "short")
    BY <2>1 DEF InSync, UnitMarking, AnyFieldIs, HasFieldMarked, HasField, Parity, Entry
  <2>. QED
    BY <2>1, <2>2 DEF RefKeys, IsAnyFieldRef
<1>2. CASE slid = d
  BY <1>1, <1>2 DEF RefKeys
<1>3. CASE /\ u \in UnitsWith(d, "short")
           /\ RefKeys(slid) = RefKeys(d) \ u /\ \A k \in RefKeys(d) \ u : slid[k] = d[k]
  <2>1. PICK v \in RefKeys(d) : u = {v} /\ AnyFieldIs(d[v], "short")
    BY <1>3, FrameUnits
  <2>2. v \in ShortTerm(d) /\ v \in Nat
    <3>1. v \in DOMAIN d /\ d[v].structure = "frame" /\ d[v].marking # "unused"
          /\ d[v] \in Entry /\ InSync(d[v]) /\ v \in Nat
      BY DEF RefKeys, FiniteDpb, IsDpb
    <3>2. d[v].marking = "short"
      BY <2>1, <3>1 DEF InSync, UnitMarking, AnyFieldIs, HasFieldMarked, HasField, Parity, Entry
    <3>. QED
      BY <3>1, <3>2 DEF ShortTerm
  <2>3. ASSUME NEW k \in ShortTerm(d) PROVE BackFrom(p, d, k) <= BackFrom(p, d, v)
    <3>1. {k} \in UnitsWith(d, "short") /\ k \in Nat
      BY <1>1, FrameUnits DEF FiniteDpb, IsDpb
    <3>2. UnitsWith(d, "short") # {}
      BY <3>1
    <3>3. OlderUnit(d, n, u, {k})
      BY <3>1, <3>2, OldestFound
    <3>4. Min(u) = v /\ Min({k}) = k
      <4>1. {v} \in SUBSET Nat /\ {k} \in SUBSET Nat /\ {v} # {} /\ {k} # {}
        BY <2>2, <3>1
      <4>2. Min({v}) \in {v} /\ Min({k}) \in {k}
        BY <4>1, MinInSet
      <4>. QED
        BY <2>1, <4>2
    <3>5. \/ FrameNumWrap(d[v].frameNum, n) < FrameNumWrap(d[k].frameNum, n)
          \/ FrameNumWrap(d[v].frameNum, n) = FrameNumWrap(d[k].frameNum, n)
      BY <3>3, <3>4 DEF OlderUnit
    <3>6. /\ d[k].frameNum \in FrameNums /\ d[k].frameNum # n
          /\ d[v].frameNum \in FrameNums /\ d[v].frameNum # n
      BY <2>2 DEF ShortTerm, FiniteDpb, IsDpb, Entry
    <3>. DEFINE wk == FrameNumWrap(d[k].frameNum, n)
                wv == FrameNumWrap(d[v].frameNum, n)
                bk == BackFrom(p, d, k)
                bv == BackFrom(p, d, v)
    <3>7. /\ bk \in Nat /\ wk \in Int /\ bk + 1 = n - wk
          /\ bv \in Nat /\ wv \in Int /\ bv + 1 = n - wv
      BY <3>6, FrameAges DEF BackFrom
    <3>8. n \in Int /\ (wv < wk \/ wv = wk)
      BY <3>5 DEF FrameNums
    <3>. HIDE DEF wk, wv, bk, bv
    <3>9. bk <= bv
      BY <3>7, <3>8
    <3>. QED
      BY <3>9 DEF bk, bv
  <2>. QED
    BY <1>1, <1>3, <2>1, <2>3 DEF RefKeys
<1>. QED
  BY <1>2, <1>3, SlidingWindowEvicts

\* The frames stay the newest when the next one enters after the window has slid.
LEMMA NewestEnters ==
  ASSUME NEW d, FiniteDpb(d), \A k \in DOMAIN d : d[k].structure = "frame",
         \A k \in DOMAIN d : d[k].marking # "unused",
         NEW p \in FrameNums, NEW n \in FrameNums, n = Successor(p),
         \A k \in ShortTerm(d) : d[k].frameNum # n,
         NewestFrom(p, d),
         NEW e, NEW key, key \notin DOMAIN d,
         DOMAIN e = RefKeys(SlidingWindow(d, MaxNumRefFrames, n, "frame")) \cup {key},
         \A k \in RefKeys(SlidingWindow(d, MaxNumRefFrames, n, "frame")) :
           e[k] = SlidingWindow(d, MaxNumRefFrames, n, "frame")[k],
         e[key].frameNum = n, e[key].marking = "short"
  PROVE  NewestFrom(n, e)
<1>. DEFINE R == RefKeys(SlidingWindow(d, MaxNumRefFrames, n, "frame"))
            back(k) == BackFrom(p, d, k)
            S == ShortTerm(d)
<1>1. /\ \A k \in R : k \in DOMAIN d /\ e[k] = d[k]
      /\ \A j \in S, k \in S : j \notin R => back(k) <= back(j)
  BY FurthestEvicted
<1>2. ShortTerm(e) = (S \cap R) \cup {key} /\ key \notin S
  BY <1>1 DEF ShortTerm
<1>3. ASSUME NEW k \in S \cap R
      PROVE  back(k) \in Nat /\ BackFrom(n, e, k) = back(k) + 1
  <2>1. d[k].frameNum \in FrameNums /\ d[k].frameNum # n /\ e[k] = d[k]
    BY <1>1 DEF ShortTerm, FiniteDpb, IsDpb, Entry
  <2>. QED
    BY <2>1, FrameAges DEF BackFrom
<1>4. ASSUME NEW k \in S PROVE back(k) \in Nat
  <2>1. d[k].frameNum \in FrameNums /\ d[k].frameNum # n
    BY DEF ShortTerm, FiniteDpb, IsDpb, Entry
  <2>. QED
    BY <2>1, FrameAges DEF BackFrom
<1>5. BackFrom(n, e, key) = 0
  <2>1. n \in Int /\ n - n = 0 /\ n >= n
    BY DEF FrameNums
  <2>2. (n - n) % MaxFrameNum = 0
    BY <2>1, Ahead
  <2>. QED
    BY <2>2 DEF BackFrom
<1>6. /\ \A k \in S : \A i \in 0 .. back(k) : \E j \in S : back(j) = i
      /\ \A j, k \in S : back(j) = back(k) => j = k
  BY DEF NewestFrom
<1>. HIDE DEF R, back, S
<1>7. ASSUME NEW k \in ShortTerm(e), NEW i \in 0 .. BackFrom(n, e, k)
      PROVE  \E j \in ShortTerm(e) : BackFrom(n, e, j) = i
  <2>1. CASE i = 0
    BY <1>2, <1>5, <2>1
  <2>2. CASE i # 0
    <3>1. k \in S \cap R
      BY <1>2, <1>5, <2>2
    <3>2. back(k) \in Nat /\ i - 1 \in 0 .. back(k)
      BY <1>3, <2>2, <3>1
    <3>3. PICK j \in S : back(j) = i - 1
      BY <1>6, <3>1, <3>2
    <3>4. j \in R
      <4>1. SUFFICES ASSUME j \notin R PROVE FALSE
        OBVIOUS
      <4>2. back(k) <= back(j) /\ back(j) <= back(k)
        BY <1>1, <3>1, <3>2, <3>3, <4>1
      <4>3. back(j) = back(k)
        BY <1>4, <3>2, <4>2
      <4>. QED
        BY <1>6, <3>1, <4>1, <4>3
    <3>5. BackFrom(n, e, j) = i
      BY <1>3, <3>2, <3>3, <3>4
    <3>. QED
      BY <1>2, <3>4, <3>5
  <2>. QED
    BY <2>1, <2>2
<1>8. ASSUME NEW j \in ShortTerm(e), NEW k \in ShortTerm(e), BackFrom(n, e, j) = BackFrom(n, e, k)
      PROVE  j = k
  <2>1. CASE j \in S \cap R /\ k \in S \cap R
    <3>1. back(j) = back(k)
      BY <1>3, <1>8, <2>1
    <3>. QED
      BY <1>6, <2>1, <3>1
  <2>2. CASE j = key \/ k = key
    <3>1. \A i \in S \cap R : BackFrom(n, e, i) # 0
      BY <1>3
    <3>. QED
      BY <1>2, <1>5, <1>8, <2>2, <3>1
  <2>. QED
    BY <1>2, <2>1, <2>2
<1>. QED
  BY <1>7, <1>8 DEF NewestFrom

\* A short-term frame has a short-term field.
LEMMA ShortFrames ==
  ASSUME Inv, OnlyFrames, NEW k \in ShortTerm(dpb)
  PROVE  k \in DOMAIN dpb /\ AnyFieldIs(dpb[k], "short") /\ dpb[k].frameNum \in FrameNums
<1>1. k \in DOMAIN dpb /\ dpb[k].marking = "short" /\ dpb[k].structure = "frame"
  BY DEF ShortTerm, OnlyFrames
<1>2. dpb[k] \in Entry /\ InSync(dpb[k])
  BY <1>1, InvIsDpb DEF IsDpb
<1>. QED
  BY <1>1, <1>2 DEF InSync, UnitMarking, AnyFieldIs, HasFieldMarked, HasField, Parity, Entry

\* The next frame filled into a gap has a frame_num that no short-term reference has.
LEMMA GapNumberIsNew ==
  ASSUME Inv, StreamInv, phase = "gap"
  PROVE  /\ prevRef \in FrameNums /\ gap.expected \in FrameNums
         /\ gap.expected = Successor(prevRef)
         /\ \A k \in DOMAIN dpb :
              AnyFieldIs(dpb[k], "short") => dpb[k].frameNum # gap.expected
<1>1. NewFrame
  BY DEF NewFrame, StreamInv, GapNumbers, FramesWithGaps, IsSecondField
<1>2. /\ prevRef # -1 /\ pic.frameNum # prevRef /\ NoShortTermUpTo(pic.frameNum)
      /\ gap.expected = Successor(prevRef)
  BY <1>1 DEF StreamInv, PictureNumber, GapNumbers
<1>3. prevRef \in FrameNums /\ gap.expected \in FrameNums /\ pic.frameNum \in FrameNums
  BY <1>2 DEF Inv, TypeOK, Header
<1>4. ASSUME NEW k \in DOMAIN dpb, AnyFieldIs(dpb[k], "short")
      PROVE  dpb[k].frameNum # gap.expected
  <2>1. SUFFICES ASSUME dpb[k].frameNum = gap.expected PROVE FALSE
    OBVIOUS
  <2>2. ~ FramesAhead(gap.expected) \in 1 .. FramesAhead(pic.frameNum)
    BY <1>2, <1>4, <2>1 DEF NoShortTermUpTo
  <2>3. /\ MaxFrameNum \in Nat \ {0} /\ prevRef \in Int /\ pic.frameNum \in Int
        /\ gap.expected \in Int /\ 0 <= prevRef /\ prevRef < MaxFrameNum
        /\ 0 <= pic.frameNum /\ pic.frameNum < MaxFrameNum
    BY <1>3, MaxFrameNumAssumption DEF FrameNums
  <2>4. /\ FramesAhead(gap.expected) = IF gap.expected >= prevRef THEN gap.expected - prevRef
                                       ELSE (gap.expected - prevRef) + MaxFrameNum
        /\ FramesAhead(pic.frameNum) = IF pic.frameNum >= prevRef THEN pic.frameNum - prevRef
                                       ELSE (pic.frameNum - prevRef) + MaxFrameNum
        /\ gap.expected = IF prevRef = MaxFrameNum - 1 THEN 0 ELSE prevRef + 1
    BY <1>2, <1>3, Ahead DEF FramesAhead
  <2>5. FramesAhead(gap.expected) = 1 /\ FramesAhead(pic.frameNum) \in Int
        /\ FramesAhead(pic.frameNum) >= 1
    BY <1>2, <2>3, <2>4
  <2>. QED
    BY <2>2, <2>5
<1>. QED
  BY <1>2, <1>3, <1>4

\* A gap frame is the newest.
LEMMA GapStepNewest ==
  ASSUME Inv, StreamInv, NewestInv, GapStep
  PROVE  NewestInv'
<1>. DEFINE slid == SlidingWindow(dpb, MaxNumRefFrames, gap.expected, "frame")
            new == NewEntry(gap.expected, "frame", nextKey)
            e == dpb'
<1>1. /\ OnlyFrames /\ NewestFrom(prevRef, dpb) /\ FiniteDpb(dpb) /\ nextKey \notin DOMAIN dpb
      /\ \A k \in DOMAIN dpb : dpb[k].structure = "frame" /\ dpb[k].marking # "unused"
  BY InvFinite DEF NewestInv, OnlyFrames
<1>2. /\ phase = "gap" /\ prevRef' = gap.expected /\ UNCHANGED <<phase, first, pic>>
  BY DEF GapStep
<1>3. /\ prevRef \in FrameNums /\ gap.expected \in FrameNums
      /\ gap.expected = Successor(prevRef)
      /\ \A k \in ShortTerm(dpb) : dpb[k].frameNum # gap.expected
  BY <1>1, <1>2, GapNumberIsNew, ShortFrames
<1>4. new.structure = "frame" /\ new.frameNum = gap.expected /\ new.marking = "short"
  BY GapStepGains
<1>5. /\ DOMAIN e = RefKeys(slid) \cup {nextKey} /\ e[nextKey] = new
      /\ \A k \in RefKeys(slid) : e[k] = slid[k]
  BY GapStepEntries
<1>6. \A k \in RefKeys(slid) : k \in DOMAIN dpb /\ slid[k] = dpb[k]
  BY <1>1, <1>3, FurthestEvicted
<1>. HIDE DEF e, new
<1>7. NewestFrom(gap.expected, e)
  BY <1>1, <1>3, <1>4, <1>5, NewestEnters
<1>. HIDE DEF slid
<1>8. \A k \in DOMAIN e : e[k].structure = "frame" /\ e[k].marking # "unused"
  BY <1>1, <1>4, <1>5, <1>6
<1>. QED
  BY <1>1, <1>2, <1>7, <1>8 DEF NewestInv, OnlyFrames, e

\* A frame whose marking slides the window is the newest.
LEMMA SlidingWindowNewest ==
  ASSUME Inv, StreamInv, NewestInv, FinalizeSlidingWindow
  PROVE  NewestInv'
<1>1. PICK c : Stores(Slid, c, nextKey, pic.frameNum) /\ c.marking = "short"
  BY SlidingWindowStores
<1>. DEFINE n == pic.frameNum
            d == SlidingWindow(dpb, MaxNumRefFrames, n, "frame")
            e == dpb'
<1>2. /\ OnlyFrames /\ NewestFrom(prevRef, dpb) /\ FiniteDpb(dpb) /\ nextKey \notin DOMAIN dpb
      /\ \A k \in DOMAIN dpb : dpb[k].structure = "frame" /\ dpb[k].marking # "unused"
  BY InvFinite DEF NewestInv, OnlyFrames
<1>3. /\ phase = "open" /\ ~ pic.idr /\ pic.structure = "frame" /\ first = NoField
  BY <1>2 DEF FinalizeSlidingWindow, OnlyFrames
<1>4. NewFrame
  BY <1>3 DEF NewFrame, IsSecondField
<1>5. prevRef \in FrameNums /\ n \in FrameNums /\ n = Successor(prevRef)
  BY <1>3, <1>4 DEF StreamInv, PictureNumber, Inv, TypeOK, Header
<1>6. \A k \in ShortTerm(dpb) : dpb[k].frameNum # n
  BY <1>2, <1>4, ShortFrames, NumberIsNew
<1>7. d = Slid
  BY <1>3 DEF Slid
<1>8. /\ Gains(d, e, nextKey, c) /\ Fades(dpb, d) /\ c.structure = "frame" /\ c.frameNum = n
      /\ prevRef' = n /\ phase' = "idle"
      /\ first' = AwaitsSecond(pic, n, FrameKey(pic, nextKey))
  BY <1>1, <1>3, <1>7 DEF Stores, Close
<1>9. first' = NoField
  BY <1>3, <1>8 DEF AwaitsSecond, Parity
<1>10. FiniteDpb(d)
  BY <1>2, <1>8, FadesRefs
<1>. HIDE DEF e, d
<1>11. /\ FiniteDpb(e) /\ OneRefMore(e, d, nextKey)
       /\ DOMAIN e = RefKeys(d) \cup {nextKey} /\ RefKeys(e) = RefKeys(d) \cup {nextKey}
       /\ e[nextKey] = c /\ nextKey \notin RefKeys(d)
       /\ \A k \in RefKeys(d) : k \in DOMAIN d /\ k # nextKey /\ e[k] = d[k]
  BY <1>8, <1>10, GainsRefs
<1>12. \A k \in RefKeys(d) : k \in DOMAIN dpb /\ d[k] = dpb[k]
  BY <1>2, <1>5, <1>6, FurthestEvicted DEF d
<1>. HIDE DEF n
<1>13. NewestFrom(n, e)
  BY <1>1, <1>2, <1>5, <1>6, <1>8, <1>11, NewestEnters DEF d
<1>14. \A k \in DOMAIN e : e[k].structure = "frame" /\ e[k].marking # "unused"
  BY <1>1, <1>2, <1>8, <1>11, <1>12
<1>. QED
  BY <1>8, <1>9, <1>13, <1>14 DEF NewestInv, OnlyFrames, e

\* An IDR picture is the only frame, and the newest if it is short-term.
LEMMA IdrNewest ==
  ASSUME Inv, StreamInv, NewestInv, FinalizeIdr
  PROVE  NewestInv'
<1>1. PICK c : Stores(MarkAllUnused(dpb), c, nextKey, pic.frameNum)
  BY IdrStores
<1>. DEFINE n == pic.frameNum
            e == dpb'
<1>2. pic.structure = "frame" /\ phase = "open"
  BY DEF FinalizeIdr, NewestInv, OnlyFrames
<1>3. /\ c.structure = "frame" /\ c.frameNum = n /\ c.marking # "unused" /\ n \in FrameNums
      /\ prevRef' = n /\ phase' = "idle"
      /\ first' = AwaitsSecond(pic, n, FrameKey(pic, nextKey))
  BY <1>1, <1>2 DEF Stores, Close
<1>4. first' = NoField
  BY <1>2, <1>3 DEF AwaitsSecond, Parity
<1>5. DOMAIN e = {nextKey} /\ e[nextKey] = c
  BY <1>1, StoredEntries, InvIsDpb, NoRefsLeft
<1>. HIDE DEF e
<1>6. BackFrom(n, e, nextKey) = 0
  <2>1. n \in Int /\ n - n = 0 /\ n >= n
    BY <1>3 DEF FrameNums
  <2>2. (n - n) % MaxFrameNum = 0
    BY <1>3, <2>1, Ahead
  <2>. QED
    BY <1>3, <1>5, <2>2 DEF BackFrom
<1>. HIDE DEF n
<1>7. NewestFrom(n, e)
  BY <1>5, <1>6 DEF NewestFrom, ShortTerm
<1>. QED
  BY <1>3, <1>4, <1>5, <1>7 DEF NewestInv, OnlyFrames, e

\* Every step keeps the newest frames.
LEMMA NextNewest ==
  ASSUME Conforming, SlidingFramesOnly, Inv, StreamInv, NewestInv, Next
  PROVE  NewestInv'
<1>1. ASSUME NEW h \in Header, WellFormed(h), OpenPicture(h) PROVE NewestInv'
  <2>1. h.structure = "frame" /\ ~ h.adaptive
    BY <1>1 DEF WellFormed, SlidingFramesOnly
  <2>. QED
    BY <1>1, <2>1 DEF OpenPicture, NewestInv, OnlyFrames
<1>2. CASE GapStep
  BY <1>2, GapStepNewest
<1>3. CASE GapDone
  BY <1>3 DEF GapDone, NewestInv, OnlyFrames
<1>4. CASE DropPicture
  BY <1>4 DEF DropPicture
<1>5. CASE FinalizeNonReference
  BY <1>5 DEF FinalizeNonReference, Close, AwaitsSecond, Parity, NewestInv, OnlyFrames
<1>6. CASE FinalizeIdr
  BY <1>6, IdrNewest
<1>7. CASE FinalizeSlidingWindow
  BY <1>7, SlidingWindowNewest
<1>8. CASE BeginAdaptiveMarking
  BY <1>8 DEF BeginAdaptiveMarking, NewestInv, OnlyFrames
<1>9. CASE AdaptiveMarkingStep
  BY <1>9 DEF AdaptiveMarkingStep, Mmco1, Mmco2, Mmco3, Mmco4, Mmco5, Mmco6, MarkingStep,
     EndAdaptiveMarking, NewestInv, OnlyFrames
<1>. QED
  BY <1>1, <1>2, <1>3, <1>4, <1>5, <1>6, <1>7, <1>8, <1>9 DEF Next

\* The references are the newest frames: with the frame i frame_nums back, every
\* frame in between is held, coded or filled into a gap, for every conforming
\* stream of frames under sliding-window marking.
THEOREM WindowIsNewestCorrect ==
  ASSUME Conforming, SlidingFramesOnly
  PROVE  Spec => []WindowIsNewest
<1>1. NoFieldGaps
  BY DEF NoFieldGaps, SlidingFramesOnly
<1>2. Spec => [](Inv /\ StreamInv /\ WindowInv)
  BY <1>1, StreamInvariance
<1>3. Init => NewestInv
  BY DEF Init, NewestInv, OnlyFrames, NewestFrom, ShortTerm
<1>4. Inv /\ StreamInv /\ NewestInv /\ [Next]_vars => NewestInv'
  <2>1. ASSUME NewestInv, UNCHANGED vars PROVE NewestInv'
    BY <2>1 DEF vars, NewestInv, OnlyFrames
  <2>. QED
    BY <2>1, NextNewest
<1>5. Inv /\ StreamInv /\ NewestInv => WindowIsNewest
  <2>1. SUFFICES ASSUME Inv, StreamInv, NewestInv, phase = "open", ~ pic.idr,
                        NEW k \in DOMAIN dpb, dpb[k].marking = "short",
                        NEW i \in 1 .. FramesBack(k)
                 PROVE  \E j \in DOMAIN dpb : dpb[j].marking = "short" /\ FramesBack(j) = i
    BY DEF WindowIsNewest
  <2>2. NewFrame /\ OnlyFrames
    BY <2>1 DEF NewestInv, OnlyFrames, NewFrame, IsSecondField
  <2>3. /\ prevRef \in FrameNums /\ pic.frameNum \in FrameNums
        /\ pic.frameNum = Successor(prevRef)
    BY <2>1, <2>2 DEF StreamInv, PictureNumber, Inv, TypeOK, Header
  <2>4. ASSUME NEW j \in ShortTerm(dpb)
        PROVE  /\ BackFrom(prevRef, dpb, j) \in Nat
               /\ FramesBack(j) = BackFrom(prevRef, dpb, j) + 1
    <3>1. /\ dpb[j].frameNum \in FrameNums /\ dpb[j].frameNum # pic.frameNum
      BY <2>1, <2>2, ShortFrames, NumberIsNew
    <3>. QED
      BY <2>3, <3>1, FrameAges DEF BackFrom, FramesBack
  <2>5. k \in ShortTerm(dpb) /\ i \in Int
    BY <2>1 DEF ShortTerm
  <2>6. i - 1 \in 0 .. BackFrom(prevRef, dpb, k)
    BY <2>4, <2>5
  <2>7. PICK j \in ShortTerm(dpb) : BackFrom(prevRef, dpb, j) = i - 1
    BY <2>1, <2>5, <2>6 DEF NewestInv, NewestFrom
  <2>8. FramesBack(j) = i
    BY <2>4, <2>5, <2>7
  <2>. QED
    BY <2>7, <2>8 DEF ShortTerm
<1>. QED
  BY <1>2, <1>3, <1>4, <1>5, PTL DEF Spec

-----------------------------------------------------------------------------
(***************************************************************************)
(* Which entries are of one frame.  The code only has frame_num to tell,   *)
(* so that a long-term field must be gone, or its frame_num avoided, when  *)
(* frame_num comes round: what FrameNumNotReused says of a stream.         *)
(***************************************************************************)
SameNumberSameFrame(e, structure, frameNum, frame, short) ==
  e.frameNum = frameNum /\ (structure \in Parity \/ IsField(e) \/ (short /\ AnyFieldIs(e, "short")))
    => e.frame = frame

FrameNumNotReused ==
  phase = "open" /\ ~ pic.idr =>
    \A k \in DOMAIN dpb :
      /\ IsField(pic) \/ IsField(dpb[k])
      /\ AnyFieldIs(dpb[k], "long")
      /\ dpb[k].frameNum = pic.frameNum
      => dpb[k].frame = FrameKey(pic, nextKey)

\* Entries with one frame_num are of one frame, unless both are frames one of
\* which is long-term only.
FrameNumTells ==
  \A j, k \in DOMAIN dpb :
    SameNumberSameFrame(dpb[k], dpb[j].structure, dpb[j].frameNum, dpb[j].frame,
                        AnyFieldIs(dpb[j], "short"))

\* So they are of the picture about to be stored under key.
NumberTellsOf(key) ==
  \A k \in DOMAIN dpb :
    SameNumberSameFrame(dpb[k], pic.structure, pic.frameNum, FrameKey(pic, key), TRUE)

CurrentTells == phase = "mmco" => NumberTellsOf(nextKey - 1)

TellsInv == FrameNumTells /\ CurrentTells

\* What the frame_num of the picture in progress tells when it is finalized.
LEMMA OpenTells ==
  ASSUME Inv, StreamInv, FrameNumNotReused, phase = "open", pic.ref, ~ pic.idr
  PROVE  NumberTellsOf(nextKey)
<1>1. SUFFICES ASSUME NEW k \in DOMAIN dpb, dpb[k].frameNum = pic.frameNum,
                      IsField(pic) \/ IsField(dpb[k]) \/ AnyFieldIs(dpb[k], "short")
               PROVE  dpb[k].frame = FrameKey(pic, nextKey)
  BY DEF NumberTellsOf, SameNumberSameFrame, IsField
<1>2. CASE AnyFieldIs(dpb[k], "short")
  <2>1. IsSecondField(pic)
    <3>1. SUFFICES ASSUME ~ IsSecondField(pic) PROVE FALSE
      OBVIOUS
    <3>2. NewFrame
      BY <3>1 DEF NewFrame
    <3>. QED
      BY <1>1, <1>2, <3>2, NumberIsNew
  <2>2. first # NoField /\ first.ref /\ first.frameNum = pic.frameNum
    BY <2>1 DEF IsSecondField
  <2>3. /\ \A j \in DOMAIN dpb :
             j # first.key /\ AnyFieldIs(dpb[j], "short") => dpb[j].frameNum # first.frameNum
        /\ dpb[first.key].frame = first.key
    BY <2>2 DEF StreamInv, FirstInDpb
  <2>4. k = first.key
    BY <1>1, <1>2, <2>2, <2>3
  <2>. QED
    BY <2>1, <2>3, <2>4 DEF FrameKey
<1>3. CASE ~ AnyFieldIs(dpb[k], "short")
  <2>1. AnyFieldIs(dpb[k], "long")
    BY <1>1, <1>3 DEF Inv, OnlyReferencesHeld, RefKeys, IsAnyFieldRef
  <2>. QED
    BY <1>1, <1>3, <2>1 DEF FrameNumNotReused
<1>. QED
  BY <1>2, <1>3

\* A picture stored under a frame_num that tells leaves one that tells.
LEMMA StoresTells ==
  ASSUME Inv, TellsInv, NEW d, NEW c, NEW key, NEW n, Stores(d, c, key, n),
         NumberTellsOf(key) \/ RefKeys(d) = {}
  PROVE  TellsInv'
<1>1. /\ DOMAIN dpb' = RefKeys(d) \cup {key} /\ dpb'[key] = c
      /\ \A k \in RefKeys(d) :
           /\ k \in DOMAIN dpb
           /\ dpb'[k].structure = dpb[k].structure
           /\ dpb'[k].frameNum = dpb[k].frameNum /\ dpb'[k].frame = dpb[k].frame
           /\ AnyFieldIs(dpb'[k], "short") => AnyFieldIs(dpb[k], "short")
  BY StoredEntries
<1>2. /\ c.structure = pic.structure /\ c.frameNum = n /\ c.frame = FrameKey(pic, key)
      /\ (n = pic.frameNum \/ RefKeys(d) = {}) /\ phase' = "idle"
  BY DEF Stores, Close
<1>. DEFINE e == dpb'
<1>. HIDE DEF e
<1>3. ASSUME NEW j \in RefKeys(d), NEW k \in RefKeys(d)
      PROVE  SameNumberSameFrame(e[k], e[j].structure, e[j].frameNum, e[j].frame,
                                 AnyFieldIs(e[j], "short"))
  <2>1. SameNumberSameFrame(dpb[k], dpb[j].structure, dpb[j].frameNum, dpb[j].frame,
                            AnyFieldIs(dpb[j], "short"))
    BY <1>1 DEF TellsInv, FrameNumTells
  <2>. QED
    BY <1>1, <2>1 DEF SameNumberSameFrame, IsField, e
<1>4. ASSUME NEW k \in RefKeys(d)
      PROVE  SameNumberSameFrame(e[k], c.structure, c.frameNum, c.frame, TRUE)
  <2>1. SameNumberSameFrame(dpb[k], pic.structure, pic.frameNum, FrameKey(pic, key), TRUE)
    BY <1>1 DEF NumberTellsOf
  <2>. QED
    BY <1>1, <1>2, <2>1 DEF SameNumberSameFrame, IsField, e
<1>5. ASSUME NEW j \in DOMAIN e, NEW k \in DOMAIN e
      PROVE  SameNumberSameFrame(e[k], e[j].structure, e[j].frameNum, e[j].frame,
                                 AnyFieldIs(e[j], "short"))
  <2>1. CASE j \in RefKeys(d) /\ k \in RefKeys(d)
    BY <1>3, <2>1
  <2>2. CASE j = key /\ k \in RefKeys(d)
    BY <1>1, <1>4, <2>2 DEF SameNumberSameFrame, e
  <2>3. CASE j \in RefKeys(d) /\ k = key
    <3>1. SameNumberSameFrame(e[j], c.structure, c.frameNum, c.frame, TRUE)
      BY <1>4, <2>3
    <3>2. e[key] = c
      BY <1>1 DEF e
    <3>. QED
      BY <2>3, <3>1, <3>2 DEF SameNumberSameFrame, IsField
  <2>4. CASE j = key /\ k = key
    BY <2>4 DEF SameNumberSameFrame
  <2>. QED
    BY <1>1, <2>1, <2>2, <2>3, <2>4 DEF e
<1>. QED
  BY <1>2, <1>5 DEF TellsInv, FrameNumTells, CurrentTells, e

\* So does a frame filled into a gap.
LEMMA GapStepTells ==
  ASSUME Inv, StreamInv, TellsInv, GapStep
  PROVE  TellsInv'
<1>. DEFINE slid == SlidingWindow(dpb, MaxNumRefFrames, gap.expected, "frame")
            new == NewEntry(gap.expected, "frame", nextKey)
            e == dpb'
<1>1. phase = "gap" /\ phase' = "gap"
  BY DEF GapStep
<1>2. /\ \A k \in DOMAIN dpb : dpb[k].structure = "frame"
      /\ \A k \in DOMAIN dpb : AnyFieldIs(dpb[k], "short") => dpb[k].frameNum # gap.expected
  BY <1>1, GapNumberIsNew DEF StreamInv, GapNumbers, FramesWithGaps
<1>3. new.structure = "frame" /\ new.frameNum = gap.expected
  BY GapStepGains
<1>4. /\ DOMAIN e = RefKeys(slid) \cup {nextKey} /\ e[nextKey] = new
      /\ \A k \in RefKeys(slid) :
           /\ k \in RefKeys(dpb)
           /\ e[k].structure = dpb[k].structure
           /\ e[k].frameNum = dpb[k].frameNum /\ e[k].frame = dpb[k].frame
           /\ AnyFieldIs(e[k], "short") => AnyFieldIs(dpb[k], "short")
  BY GapStepEntries
<1>. HIDE DEF e, slid, new
<1>5. \A k \in DOMAIN e : e[k].structure = "frame" /\ ~ IsField(e[k])
  BY <1>2, <1>3, <1>4 DEF RefKeys, IsField, Parity
<1>6. ASSUME NEW j \in DOMAIN e, NEW k \in DOMAIN e
      PROVE  SameNumberSameFrame(e[k], e[j].structure, e[j].frameNum, e[j].frame,
                                 AnyFieldIs(e[j], "short"))
  <2>1. SUFFICES ASSUME e[k].frameNum = e[j].frameNum,
                        AnyFieldIs(e[j], "short"), AnyFieldIs(e[k], "short")
                 PROVE  e[k].frame = e[j].frame
    BY <1>5 DEF SameNumberSameFrame, Parity
  <2>2. CASE j \in RefKeys(slid) /\ k \in RefKeys(slid)
    <3>1. SameNumberSameFrame(dpb[k], dpb[j].structure, dpb[j].frameNum, dpb[j].frame,
                              AnyFieldIs(dpb[j], "short"))
      BY <1>4, <2>2 DEF TellsInv, FrameNumTells, RefKeys
    <3>. QED
      BY <1>4, <2>1, <2>2, <3>1 DEF SameNumberSameFrame
  <2>3. CASE j = nextKey \/ k = nextKey
    <3>1. \A i \in RefKeys(slid) : AnyFieldIs(e[i], "short") => e[i].frameNum # gap.expected
      BY <1>2, <1>4 DEF RefKeys
    <3>2. e[nextKey].frameNum = gap.expected
      BY <1>3, <1>4
    <3>. QED
      BY <1>4, <2>1, <2>3, <3>1, <3>2
  <2>. QED
    BY <1>4, <2>2, <2>3
<1>. QED
  BY <1>1, <1>6 DEF TellsInv, FrameNumTells, CurrentTells, e

\* Every step keeps telling frames apart.
LEMMA NextTells ==
  ASSUME Conforming, Inv, StreamInv, FrameNumNotReused, TellsInv, Next
  PROVE  TellsInv'
<1>1. ASSUME NEW h \in Header, OpenPicture(h) PROVE TellsInv'
  BY <1>1 DEF OpenPicture, TellsInv, FrameNumTells, CurrentTells
<1>2. CASE GapStep
  BY <1>2, GapStepTells
<1>3. CASE GapDone
  BY <1>3 DEF GapDone, TellsInv, FrameNumTells, CurrentTells
<1>4. CASE DropPicture
  BY <1>4 DEF DropPicture
<1>5. CASE FinalizeNonReference
  BY <1>5 DEF FinalizeNonReference, Close, TellsInv, FrameNumTells, CurrentTells
<1>6. CASE FinalizeIdr
  <2>1. RefKeys(MarkAllUnused(dpb)) = {}
    BY InvIsDpb, NoRefsLeft
  <2>. QED
    BY <1>6, <2>1, IdrStores, StoresTells
<1>7. CASE FinalizeSlidingWindow
  <2>1. NumberTellsOf(nextKey)
    BY <1>7, OpenTells DEF FinalizeSlidingWindow
  <2>. QED
    BY <1>7, <2>1, SlidingWindowStores, StoresTells
<1>8. CASE BeginAdaptiveMarking
  <2>1. /\ phase = "open" /\ pic.adaptive /\ nextKey' = nextKey + 1 /\ nextKey \in Nat
        /\ UNCHANGED <<dpb, pic, first>>
    BY <1>8, InvFinite DEF BeginAdaptiveMarking
  <2>2. pic.ref /\ ~ pic.idr
    BY <2>1 DEF StreamInv, PictureWellFormed, WellFormed
  <2>3. NumberTellsOf(nextKey)
    BY <2>1, <2>2, OpenTells
  <2>4. NumberTellsOf(nextKey - 1)'
    <3>1. nextKey' - 1 = nextKey
      BY <2>1
    <3>. QED
      BY <2>1, <2>3, <3>1 DEF NumberTellsOf, FrameKey, IsSecondField
  <2>. QED
    BY <2>1, <2>4 DEF TellsInv, FrameNumTells, CurrentTells
<1>9. CASE Operation
  <2>1. PICK d : Fades(dpb, d) /\ MarkingStep(d)
    BY <1>9, OperationFades
  <2>2. /\ DOMAIN d = DOMAIN dpb /\ dpb' = d /\ UNCHANGED <<phase, pic, nextKey, first>>
        /\ \A k \in DOMAIN dpb :
             /\ d[k].structure = dpb[k].structure
             /\ d[k].frameNum = dpb[k].frameNum /\ d[k].frame = dpb[k].frame
             /\ AnyFieldIs(d[k], "short") => AnyFieldIs(dpb[k], "short")
    BY <2>1, InvFinite, FadesRefs DEF Fades, MarkingStep
  <2>3. FrameNumTells'
    BY <2>2 DEF TellsInv, FrameNumTells, SameNumberSameFrame, IsField
  <2>4. FrameKey(pic, nextKey - 1)' = FrameKey(pic, nextKey - 1)
    BY <2>2 DEF FrameKey, IsSecondField
  <2>5. CurrentTells'
    BY <2>2, <2>4 DEF TellsInv, CurrentTells, NumberTellsOf, SameNumberSameFrame, IsField
  <2>. QED
    BY <2>3, <2>5 DEF TellsInv
<1>10. CASE EndAdaptiveMarking
  <2>1. NumberTellsOf(nextKey - 1)
    BY <1>10 DEF TellsInv, CurrentTells, EndAdaptiveMarking
  <2>. QED
    BY <1>10, <2>1, EndAdaptiveStores, StoresTells
<1>. QED
  BY <1>1, <1>2, <1>3, <1>4, <1>5, <1>6, <1>7, <1>8, <1>9, <1>10
     DEF Next, AdaptiveMarkingStep, Operation

\* A field is paired by its place among the fields of its frame_num and parity;
\* when frame_num tells frames apart, it is the only one there.
LEMMA UnitsOfFrames ==
  ASSUME Inv, StreamInv, FrameNumTells
  PROVE  UnitsAreFrames
<1>1. ASSUME NEW j \in RefKeys(dpb), IsField(dpb[j])
      PROVE  SameParityUpTo(dpb, j) = {j}
  <2>1. ASSUME NEW i \in SameParityUpTo(dpb, j) PROVE i = j
    <3>1. /\ i \in DOMAIN dpb /\ j \in DOMAIN dpb
          /\ dpb[i].structure = dpb[j].structure /\ dpb[i].frameNum = dpb[j].frameNum
      BY DEF SameParityUpTo, RefKeys
    <3>2. dpb[i].frame = dpb[j].frame
      BY <1>1, <3>1 DEF FrameNumTells, SameNumberSameFrame
    <3>. QED
      BY <3>1, <3>2 DEF StreamInv, FramesOfEntries
  <2>2. j \in SameParityUpTo(dpb, j)
    <3>1. j \in Nat
      BY InvFinite DEF RefKeys
    <3>. QED
      BY <3>1 DEF SameParityUpTo
  <2>. QED
    BY <2>1, <2>2
<1>2. SUFFICES ASSUME NEW j \in RefKeys(dpb), NEW k \in RefKeys(dpb), j # k
               PROVE  Paired(dpb, j, k) <=> dpb[j].frame = dpb[k].frame
  BY DEF UnitsAreFrames, Unit
<1>3. j \in DOMAIN dpb /\ k \in DOMAIN dpb
  BY DEF RefKeys
<1>4. Paired(dpb, j, k) => dpb[j].frame = dpb[k].frame
  BY <1>3 DEF Paired, FrameNumTells, SameNumberSameFrame
<1>5. ASSUME dpb[j].frame = dpb[k].frame PROVE Paired(dpb, j, k)
  <2>1. /\ IsField(dpb[j]) /\ IsField(dpb[k]) /\ dpb[j].structure # dpb[k].structure
        /\ dpb[j].frameNum = dpb[k].frameNum
    BY <1>2, <1>3, <1>5 DEF StreamInv, FramesOfEntries
  <2>2. Cardinality(SameParityUpTo(dpb, j)) = Cardinality(SameParityUpTo(dpb, k))
    BY <1>1, <2>1, FS_Singleton
  <2>. QED
    BY <2>1, <2>2 DEF Paired
<1>. QED
  BY <1>4, <1>5

\* ref_units finds exactly the fields of a frame, for every conforming stream of
\* frames and fields, or of frames and gaps, that does not give a picture the
\* frame_num of a long-term field of another frame.
THEOREM UnitsAreFramesCorrect ==
  ASSUME Conforming, NoFieldGaps
  PROVE  Spec /\ []FrameNumNotReused => []UnitsAreFrames
<1>1. Spec => [](Inv /\ StreamInv /\ WindowInv)
  BY StreamInvariance
<1>2. Init => TellsInv
  BY DEF Init, TellsInv, FrameNumTells, CurrentTells
<1>3. Inv /\ StreamInv /\ FrameNumNotReused /\ TellsInv /\ [Next]_vars => TellsInv'
  <2>1. ASSUME TellsInv, UNCHANGED vars PROVE TellsInv'
    BY <2>1 DEF vars, TellsInv, FrameNumTells, CurrentTells, NumberTellsOf, FrameKey,
       IsSecondField
  <2>. QED
    BY <2>1, NextTells
<1>4. Inv /\ StreamInv /\ TellsInv => UnitsAreFrames
  BY UnitsOfFrames DEF TellsInv
<1>. QED
  BY <1>1, <1>2, <1>3, <1>4, PTL DEF Spec

-----------------------------------------------------------------------------
(***************************************************************************)
(* Long-term frame indices: how each operation changes who holds which.    *)
(***************************************************************************)
IsLong(e) == AnyFieldIs(e, "long")

\* Nothing in e is long-term that is not so in d, under the same index.
KeepsHolders(d, e) ==
  \A k \in DOMAIN d : IsLong(e[k]) => IsLong(d[k]) /\ e[k].ltIdx = d[k].ltIdx

\* What is long-term in e under idx is of one frame, and under another index it
\* was so in d.
AssignsIdx(d, e, idx, frame) ==
  \A k \in DOMAIN d :
    IsLong(e[k]) => \/ IsLong(d[k]) /\ e[k].ltIdx = d[k].ltIdx /\ d[k].ltIdx # idx
                    \/ e[k].ltIdx = idx /\ d[k].frame = frame

\* An entry short-term as a unit has no long-term field, one marked unused neither.
LEMMA NotLong ==
  ASSUME NEW e \in Entry, InSync(e)
  PROVE  /\ e.marking = "short" => ~ IsLong(e)
         /\ ~ IsLong(MarkAll(e, "unused"))
         /\ ~ IsLong(UnmarkLong(e))
<1>1. e.marking = "short" => ~ IsLong(e)
  BY DEF IsLong, AnyFieldIs, HasFieldMarked, HasField, InSync, UnitMarking, Entry, Parity
<1>2. ~ IsLong(MarkAll(e, "unused"))
  <2>1. \A p \in Parity : MarkAll(e, "unused").field[p] = "unused"
    BY MarkAllEntry DEF Marking
  <2>. QED
    BY <2>1 DEF IsLong, AnyFieldIs, HasFieldMarked
<1>3. ~ IsLong(UnmarkLong(e))
  <2>. DEFINE f == [p \in Parity |-> IF HasFieldMarked(e, p, "long") THEN "unused"
                                     ELSE e.field[p]]
  <2>1. UnmarkLong(e).field = f /\ UnmarkLong(e).structure = e.structure
    BY DEF UnmarkLong, Entry
  <2>2. \A p \in Parity : HasField(e, p) => f[p] # "long"
    BY DEF HasFieldMarked
  <2>. HIDE DEF f
  <2>. QED
    BY <2>1, <2>2 DEF IsLong, AnyFieldIs, HasFieldMarked, HasField
<1>. QED
  BY <1>1, <1>2, <1>3

\* Marking entries unused makes none long-term.
LEMMA MarkUnusedHolders ==
  ASSUME NEW d, IsDpb(d), NEW keys
  PROVE  KeepsHolders(d, MarkUnused(d, keys))
BY NotLong DEF KeepsHolders, MarkUnused, IsDpb

\* Nor does marking one field of one entry unused.
LEMMA OneFieldHolders ==
  ASSUME NEW d, IsDpb(d), NEW k \in DOMAIN d, NEW q \in Parity, HasField(d[k], q)
  PROVE  KeepsHolders(d, [d EXCEPT ![k] = SetFieldMarking(@, q, "unused")])
<1>. DEFINE g == SetFieldMarking(d[k], q, "unused")
<1>1. d[k] \in Entry /\ InSync(d[k])
  BY DEF IsDpb
<1>2. /\ \A p \in Parity : g.field[p] = IF p = q THEN "unused" ELSE d[k].field[p]
      /\ g.structure = d[k].structure
  BY <1>1, SetFieldMarkingEntry DEF Marking
<1>3. g.ltIdx = d[k].ltIdx
  BY <1>1 DEF SetFieldMarking, Entry
<1>. HIDE DEF g
<1>4. IsLong(g) => IsLong(d[k])
  BY <1>2 DEF IsLong, AnyFieldIs, HasFieldMarked, HasField
<1>5. KeepsHolders(d, [d EXCEPT ![k] = g])
  BY <1>3, <1>4 DEF KeepsHolders
<1>. QED
  BY <1>5 DEF g

\* Operations 1, 2 and 4 and the sliding window make nothing long-term.
LEMMA UnmarkingHolders ==
  ASSUME NEW d, IsDpb(d), NEW c
  PROVE  /\ \A diff : KeepsHolders(d, MarkShortTermUnused(d, c, diff))
         /\ \A num : KeepsHolders(d, MarkLongTermUnused(d, c, num))
         /\ \A maxPlus1 : KeepsHolders(d, SetMaxLongTermIdx(d, maxPlus1))
         /\ \A max, n, s : KeepsHolders(d, SlidingWindow(d, max, n, s))
<1>1. KeepsHolders(d, d)
  BY DEF KeepsHolders
<1>2. ASSUME NEW fields, fields \subseteq (DOMAIN d) \X Parity, fields # {},
             \A t \in fields : HasField(d[t[1]], t[2])
      PROVE  KeepsHolders(d, [d EXCEPT ![FirstField(fields)[1]] =
                                SetFieldMarking(@, FirstField(fields)[2], "unused")])
  <2>. DEFINE t == FirstField(fields)
  <2>1. t \in fields /\ t[1] \in DOMAIN d /\ t[2] \in Parity /\ HasField(d[t[1]], t[2])
    BY <1>2, FirstFieldIn DEF IsDpb
  <2>. HIDE DEF t
  <2>2. KeepsHolders(d, [d EXCEPT ![t[1]] = SetFieldMarking(@, t[2], "unused")])
    BY <2>1, OneFieldHolders
  <2>. QED
    BY <2>2 DEF t
<1>3. ASSUME NEW diff PROVE KeepsHolders(d, MarkShortTermUnused(d, c, diff))
  <2>1. /\ ShortTermFieldsAt(d, c, diff) \subseteq (DOMAIN d) \X Parity
        /\ \A t \in ShortTermFieldsAt(d, c, diff) : HasField(d[t[1]], t[2])
    BY DEF ShortTermFieldsAt, HasFieldMarked
  <2>. QED
    BY <1>1, <1>2, <2>1, MarkUnusedHolders DEF MarkShortTermUnused
<1>4. ASSUME NEW num PROVE KeepsHolders(d, MarkLongTermUnused(d, c, num))
  <2>1. /\ LongTermFieldsAt(d, c, num) \subseteq (DOMAIN d) \X Parity
        /\ \A t \in LongTermFieldsAt(d, c, num) : HasField(d[t[1]], t[2])
    BY DEF LongTermFieldsAt, HasFieldMarked
  <2>. QED
    BY <1>1, <1>2, <2>1, MarkUnusedHolders DEF MarkLongTermUnused
<1>5. ASSUME NEW maxPlus1 PROVE KeepsHolders(d, SetMaxLongTermIdx(d, maxPlus1))
  BY NotLong DEF KeepsHolders, SetMaxLongTermIdx, IsDpb
<1>6. ASSUME NEW max, NEW n, NEW s PROVE KeepsHolders(d, SlidingWindow(d, max, n, s))
  BY <1>1, MarkUnusedHolders DEF SlidingWindow
<1>. QED
  BY <1>3, <1>4, <1>5, <1>6

\* evict_ltfi leaves an index only to the holder it spares.
LEMMA EvictedHolders ==
  ASSUME NEW d, IsDpb(d), NEW idx, NEW spareEntry, NEW spareFrameNum
  PROVE  LET e == EvictLongTermIdx(d, idx, spareEntry, spareFrameNum)
         IN  \A k \in DOMAIN d : IsLong(e[k]) =>
               /\ IsLong(d[k]) /\ e[k].ltIdx = d[k].ltIdx
               /\ d[k].ltIdx = idx =>
                    \/ \E s \in spareEntry : s[1] = k
                    \/ IsField(d[k]) /\ d[k].frameNum \in spareFrameNum
<1>. DEFINE e == EvictLongTermIdx(d, idx, spareEntry, spareFrameNum)
<1>1. SUFFICES ASSUME NEW k \in DOMAIN d, IsLong(e[k])
               PROVE  /\ IsLong(d[k]) /\ e[k].ltIdx = d[k].ltIdx
                      /\ d[k].ltIdx = idx =>
                           \/ \E s \in spareEntry : s[1] = k
                           \/ IsField(d[k]) /\ d[k].frameNum \in spareFrameNum
  OBVIOUS
<1>2. d[k] \in Entry /\ InSync(d[k])
  BY DEF IsDpb
<1>3. CASE ~ (d[k].ltIdx = idx /\ IsLong(d[k]))
  <2>1. e[k] = d[k]
    BY <1>3 DEF EvictLongTermIdx, IsLong
  <2>. QED
    BY <1>1, <1>3, <2>1
<1>4. CASE d[k].ltIdx = idx /\ IsLong(d[k])
  <2>. DEFINE q == CHOOSE q \in Parity : HasFieldMarked(d[k], q, "long")
              g == SetFieldMarking(d[k], q, "unused")
  <2>1. q \in Parity /\ HasFieldMarked(d[k], q, "long")
    BY <1>4 DEF IsLong, AnyFieldIs
  <2>2. e[k] = EvictHolder(d[k], k, spareEntry, spareFrameNum)
    BY <1>4 DEF EvictLongTermIdx, IsLong
  <2>3. \E p \in Parity : ~ HasFieldMarked(d[k], p, "long")
    BY <1>1, <1>2, <2>2, NotLong DEF EvictHolder
  <2>4. e[k] = IF SparedHolder(d[k], k, q, spareEntry, spareFrameNum) THEN d[k] ELSE g
    BY <2>2, <2>3 DEF EvictHolder
  <2>. HIDE DEF q
  <2>5. ~ IsLong(g)
    <3>1. /\ \A p \in Parity : g.field[p] = IF p = q THEN "unused" ELSE d[k].field[p]
          /\ g.structure = d[k].structure
      BY <1>2, <2>1, SetFieldMarkingEntry DEF HasFieldMarked, Marking
    <3>. HIDE DEF g
    <3>2. \A p \in Parity : p # q => ~ HasFieldMarked(d[k], p, "long")
      BY <2>1, <2>3 DEF Parity
    <3>. QED
      BY <3>1, <3>2 DEF IsLong, AnyFieldIs, HasFieldMarked, HasField
  <2>6. SparedHolder(d[k], k, q, spareEntry, spareFrameNum) /\ e[k] = d[k]
    BY <1>1, <2>4, <2>5
  <2>. QED
    BY <1>4, <2>6 DEF SparedHolder
<1>. QED
  BY <1>3, <1>4

\* Operation 3 gives its index to one frame.
LEMMA AssignLongTermHolders ==
  ASSUME Inv, FrameNumTells, NEW diff, NEW idx \in Nat
  PROVE  \E f : AssignsIdx(dpb, AssignLongTerm(dpb, cur, diff, idx), idx, f)
<1>1. IsDpb(dpb) /\ cur \in Entry
  BY InvIsDpb
<1>. DEFINE e == AssignLongTerm(dpb, cur, diff, idx)
            bare == EvictLongTermIdx(dpb, idx, {}, {})
<1>2. \A k \in DOMAIN dpb : IsLong(bare[k]) =>
        IsLong(dpb[k]) /\ bare[k].ltIdx = dpb[k].ltIdx /\ dpb[k].ltIdx # idx
  BY <1>1, EvictedHolders
<1>3. CASE ~ IsField(cur)
  <2>. DEFINE hits == ShortTermFramesAt(bare, cur, diff)
  <2>1. e = [k \in DOMAIN dpb |->
               IF k \in hits THEN [MarkAll(bare[k], "long") EXCEPT !.ltIdx = idx] ELSE bare[k]]
    BY <1>3 DEF AssignLongTerm, AssignLongTermFrame
  <2>2. Fades(dpb, bare) /\ IsDpb(bare) /\ DOMAIN bare = DOMAIN dpb
    BY <1>1, EvictLongTermIdxFades, FadesIsDpb DEF Fades
  <2>. HIDE DEF bare
  <2>3. ASSUME NEW k \in hits
        PROVE  /\ k \in DOMAIN dpb /\ AnyFieldIs(dpb[k], "short")
               /\ dpb[k].frameNum \in FrameNums
               /\ FrameNumWrap(dpb[k].frameNum, cur.frameNum)
                    = PicNumX(cur.frameNum, "frame", diff)
    <3>1. /\ k \in DOMAIN dpb /\ bare[k].marking = "short"
          /\ FrameNumWrap(bare[k].frameNum, cur.frameNum)
               = PicNumX(cur.frameNum, "frame", diff)
      BY <2>2 DEF ShortTermFramesAt
    <3>2. /\ Weakens(dpb[k], bare[k]) /\ bare[k] \in Entry /\ InSync(bare[k])
          /\ dpb[k] \in Entry
      BY <1>1, <2>2, <3>1 DEF Fades, IsDpb
    <3>3. PICK p \in Parity : HasFieldMarked(bare[k], p, "short")
      BY <3>1, <3>2
         DEF InSync, UnitMarking, HasFieldMarked, HasField, Parity, Structure, Entry
    <3>4. dpb[k].field[p] = "short"
      <4>1. Rank("short") <= Rank(dpb[k].field[p]) /\ dpb[k].field[p] \in Marking
        BY <3>2, <3>3 DEF Weakens, HasFieldMarked, Entry
      <4>. QED
        BY <4>1 DEF Rank, Marking
    <3>5. HasFieldMarked(dpb[k], p, "short") /\ dpb[k].frameNum = bare[k].frameNum
      BY <3>2, <3>3, <3>4 DEF Weakens, HasFieldMarked, HasField
    <3>. QED
      BY <3>1, <3>2, <3>5 DEF AnyFieldIs, Entry
  <2>4. ASSUME NEW j \in hits, NEW k \in hits PROVE dpb[k].frame = dpb[j].frame
    <3>1. FrameNumWrap(dpb[j].frameNum, cur.frameNum)
            = FrameNumWrap(dpb[k].frameNum, cur.frameNum)
      BY <2>3
    <3>2. dpb[j].frameNum = dpb[k].frameNum
      <4>1. /\ dpb[j].frameNum \in Int /\ 0 <= dpb[j].frameNum /\ dpb[j].frameNum < MaxFrameNum
            /\ dpb[k].frameNum \in Int /\ 0 <= dpb[k].frameNum /\ dpb[k].frameNum < MaxFrameNum
            /\ MaxFrameNum \in Int /\ cur.frameNum \in Int
        BY <1>1, <2>3, MaxFrameNumAssumption DEF FrameNums, Entry
      <4>. QED
        BY <3>1, <4>1 DEF FrameNumWrap
    <3>. QED
      BY <2>3, <3>2 DEF FrameNumTells, SameNumberSameFrame
  <2>5. PICK f : \A k \in hits : dpb[k].frame = f
    <3>1. CASE hits = {}
      BY <3>1
    <3>2. CASE hits # {}
      BY <2>4, <3>2
    <3>. QED
      BY <3>1, <3>2
  <2>6. ASSUME NEW k \in hits PROVE e[k].ltIdx = idx
    <3>1. bare[k] \in Entry /\ k \in DOMAIN dpb
      BY <2>2, <2>3 DEF IsDpb
    <3>2. MarkAll(bare[k], "long") \in Entry
      BY <3>1, MarkAllEntry DEF Marking
    <3>3. e[k] = [MarkAll(bare[k], "long") EXCEPT !.ltIdx = idx]
      BY <2>1, <3>1
    <3>. QED
      BY <3>2, <3>3 DEF Entry
  <2>. HIDE DEF hits
  <2>7. AssignsIdx(dpb, e, idx, f)
    BY <1>2, <2>1, <2>5, <2>6 DEF AssignsIdx
  <2>. QED
    BY <2>7
<1>4. CASE IsField(cur) /\ ShortTermFieldsAt(dpb, cur, diff) = {}
  <2>1. e = bare
    BY <1>4 DEF AssignLongTerm, AssignLongTermField
  <2>. HIDE DEF e, bare
  <2>2. AssignsIdx(dpb, e, idx, 0)
    BY <1>2, <2>1 DEF AssignsIdx
  <2>. QED
    BY <2>2 DEF e
<1>5. CASE IsField(cur) /\ ShortTermFieldsAt(dpb, cur, diff) # {}
  <2>. DEFINE fields == ShortTermFieldsAt(dpb, cur, diff)
              t == FirstField(fields)
              evicted == EvictLongTermIdx(dpb, idx, {t}, {dpb[t[1]].frameNum})
              g == SetFieldMarking(evicted[t[1]], t[2], "long")
  <2>1. e = [evicted EXCEPT ![t[1]] = [g EXCEPT !.ltIdx = idx]]
    BY <1>5 DEF AssignLongTerm, AssignLongTermField
  <2>2. /\ fields \subseteq (DOMAIN dpb) \X Parity /\ fields # {} /\ DOMAIN dpb \subseteq Nat
        /\ \A u \in fields : HasFieldMarked(dpb[u[1]], u[2], "short")
    BY <1>1, <1>5 DEF ShortTermFieldsAt, IsDpb
  <2>3. t \in fields
    BY <2>2, FirstFieldIn
  <2>4. t[1] \in DOMAIN dpb /\ t[2] \in Parity /\ HasFieldMarked(dpb[t[1]], t[2], "short")
    BY <2>2, <2>3
  <2>5. Fades(dpb, evicted)
    BY <1>1, EvictLongTermIdxFades
  <2>6. \A k \in DOMAIN dpb : IsLong(evicted[k]) =>
          /\ IsLong(dpb[k]) /\ evicted[k].ltIdx = dpb[k].ltIdx
          /\ dpb[k].ltIdx = idx =>
               \/ \E s \in {t} : s[1] = k
               \/ IsField(dpb[k]) /\ dpb[k].frameNum \in {dpb[t[1]].frameNum}
    BY <1>1, EvictedHolders
  <2>. HIDE DEF t, evicted
  <2>7. g \in Entry
    <3>1. /\ evicted[t[1]] \in Entry /\ InSync(evicted[t[1]])
          /\ evicted[t[1]].structure = dpb[t[1]].structure
      BY <2>4, <2>5 DEF Fades, Weakens
    <3>2. HasField(evicted[t[1]], t[2])
      BY <2>4, <3>1 DEF HasFieldMarked, HasField
    <3>. QED
      BY <2>4, <3>1, <3>2, SetFieldMarkingEntry DEF Marking
  <2>. HIDE DEF g
  <2>8. e[t[1]].ltIdx = idx
    <3>1. DOMAIN evicted = DOMAIN dpb
      BY <2>5 DEF Fades
    <3>2. e[t[1]] = [g EXCEPT !.ltIdx = idx]
      BY <2>1, <2>4, <3>1
    <3>. QED
      BY <2>7, <3>2 DEF Entry
  <2>9. \A k \in DOMAIN dpb : k # t[1] => e[k] = evicted[k]
    BY <2>1, <2>5 DEF Fades
  <2>10. \A k \in DOMAIN dpb :
           IsField(dpb[k]) /\ dpb[k].frameNum = dpb[t[1]].frameNum
             => dpb[k].frame = dpb[t[1]].frame
    BY <2>4 DEF FrameNumTells, SameNumberSameFrame
  <2>. HIDE DEF e
  <2>11. AssignsIdx(dpb, e, idx, dpb[t[1]].frame)
    BY <2>4, <2>6, <2>8, <2>9, <2>10 DEF AssignsIdx
  <2>. QED
    BY <2>11 DEF e
<1>. QED
  BY <1>3, <1>4, <1>5

\* Operation 6 gives its index to the frame of the current picture.
LEMMA AssignCurrentHolders ==
  ASSUME Inv, StreamInv, TellsInv, phase = "mmco", NEW idx \in Nat
  PROVE  AssignsIdx(dpb, AssignCurrentLongTerm(dpb, cur, idx), idx, cur.frame)
<1>. DEFINE spare == IF IsField(cur) THEN {cur.frameNum} ELSE {}
            evicted == EvictLongTermIdx(dpb, idx, {}, spare)
            e == AssignCurrentLongTerm(dpb, cur, idx)
<1>1. IsDpb(dpb) /\ Fades(dpb, evicted)
  BY InvIsDpb, EvictLongTermIdxFades
<1>2. e = [k \in DOMAIN dpb |->
             IF IsLongTermMate(evicted[k], cur) THEN [evicted[k] EXCEPT !.ltIdx = idx]
             ELSE evicted[k]]
  BY DEF AssignCurrentLongTerm
<1>3. ASSUME NEW k \in DOMAIN dpb, IsField(cur), IsField(dpb[k]),
             dpb[k].frameNum = cur.frameNum
      PROVE  dpb[k].frame = cur.frame
  <2>1. /\ cur.frameNum = pic.frameNum /\ cur.frame = FrameKey(pic, nextKey - 1)
        /\ NumberTellsOf(nextKey - 1)
    BY DEF StreamInv, CurrentOfPicture, TellsInv, CurrentTells
  <2>. QED
    BY <1>3, <2>1 DEF NumberTellsOf, SameNumberSameFrame
<1>4. \A k \in DOMAIN dpb : IsLong(evicted[k]) =>
        /\ IsLong(dpb[k]) /\ evicted[k].ltIdx = dpb[k].ltIdx
        /\ dpb[k].ltIdx = idx =>
             \/ \E s \in {} : s[1] = k
             \/ IsField(dpb[k]) /\ dpb[k].frameNum \in spare
  <2>. HIDE DEF spare
  <2>. QED
    BY <1>1, EvictedHolders
<1>. HIDE DEF evicted, e
<1>5. ASSUME NEW k \in DOMAIN dpb, IsLong(e[k])
      PROVE  \/ IsLong(dpb[k]) /\ e[k].ltIdx = dpb[k].ltIdx /\ dpb[k].ltIdx # idx
             \/ e[k].ltIdx = idx /\ dpb[k].frame = cur.frame
  <2>1. /\ evicted[k] \in Entry /\ evicted[k].structure = dpb[k].structure
        /\ evicted[k].frameNum = dpb[k].frameNum
    BY <1>1 DEF Fades, Weakens
  <2>2. CASE IsLongTermMate(evicted[k], cur)
    <3>1. e[k].ltIdx = idx
      BY <1>2, <2>1, <2>2 DEF Entry
    <3>2. dpb[k].frame = cur.frame
      BY <1>3, <2>1, <2>2 DEF IsLongTermMate, IsField
    <3>. QED
      BY <3>1, <3>2
  <2>3. CASE ~ IsLongTermMate(evicted[k], cur)
    <3>1. e[k] = evicted[k]
      BY <1>2, <2>3
    <3>. QED
      BY <1>3, <1>4, <1>5, <3>1
  <2>. QED
    BY <2>2, <2>3
<1>. QED
  BY <1>5 DEF AssignsIdx, e

\* Operation 6 has given its index to the frame of the current picture, which it
\* will be stored under.
CurrentHolds ==
  phase = "mmco" /\ cur.marking = "long" =>
    \A k \in DOMAIN dpb : IsLong(dpb[k]) /\ dpb[k].ltIdx = cur.ltIdx => dpb[k].frame = cur.frame

LongInv == LongTermIdxUnique /\ CurrentHolds

\* An operation that makes nothing long-term leaves every index to one frame.
LEMMA KeepsUnique ==
  ASSUME Inv, LongTermIdxUnique, NEW d, Fades(dpb, d), KeepsHolders(dpb, d),
         NEW j \in DOMAIN d, NEW k \in DOMAIN d,
         IsLong(d[j]), IsLong(d[k]), d[j].ltIdx = d[k].ltIdx
  PROVE  d[j].frame = d[k].frame
BY DEF LongTermIdxUnique, Fades, Weakens, KeepsHolders, IsLong

\* So does one that gives an index to a single frame.
LEMMA AssignsUnique ==
  ASSUME Inv, LongTermIdxUnique, NEW d, Fades(dpb, d),
         NEW idx, NEW f, AssignsIdx(dpb, d, idx, f),
         NEW j \in DOMAIN d, NEW k \in DOMAIN d,
         IsLong(d[j]), IsLong(d[k]), d[j].ltIdx = d[k].ltIdx
  PROVE  d[j].frame = d[k].frame
<1>1. /\ j \in DOMAIN dpb /\ k \in DOMAIN dpb
      /\ d[j].frame = dpb[j].frame /\ d[k].frame = dpb[k].frame
  BY DEF Fades, Weakens
<1>2. /\ \/ IsLong(dpb[j]) /\ d[j].ltIdx = dpb[j].ltIdx /\ dpb[j].ltIdx # idx
         \/ d[j].ltIdx = idx /\ dpb[j].frame = f
      /\ \/ IsLong(dpb[k]) /\ d[k].ltIdx = dpb[k].ltIdx /\ dpb[k].ltIdx # idx
         \/ d[k].ltIdx = idx /\ dpb[k].frame = f
  BY <1>1 DEF AssignsIdx
<1>. QED
  BY <1>1, <1>2 DEF LongTermIdxUnique, IsLong

\* A picture stored under an index that only its own frame has.
LEMMA StoresLong ==
  ASSUME Inv, LongInv, NEW d, NEW c, NEW key, NEW n, Stores(d, c, key, n),
         KeepsHolders(dpb, d) \/ RefKeys(d) = {},
         \A k \in RefKeys(d) :
           IsLong(c) /\ IsLong(d[k]) /\ d[k].ltIdx = c.ltIdx => d[k].frame = c.frame
  PROVE  LongInv'
<1>1. /\ DOMAIN dpb' = RefKeys(d) \cup {key} /\ RefKeys(dpb') = RefKeys(d) \cup {key}
      /\ dpb'[key] = c /\ key \in Nat /\ key \notin DOMAIN dpb
      /\ \A k \in RefKeys(d) :
           /\ k \in DOMAIN dpb /\ k \in Nat /\ k < key /\ dpb'[k] = d[k]
           /\ dpb'[k].structure = dpb[k].structure
           /\ dpb'[k].frameNum = dpb[k].frameNum /\ dpb'[k].frame = dpb[k].frame
           /\ AnyFieldIs(dpb'[k], "short") => AnyFieldIs(dpb[k], "short")
  BY StoredEntries
<1>2. Fades(dpb, d) /\ phase' = "idle" /\ DOMAIN d = DOMAIN dpb
  BY DEF Stores, Close, Fades
<1>3. ASSUME NEW j \in RefKeys(d), NEW k \in RefKeys(d),
             IsLong(d[j]), IsLong(d[k]), d[j].ltIdx = d[k].ltIdx
      PROVE  d[j].frame = d[k].frame
  BY <1>1, <1>2, <1>3, KeepsUnique DEF LongInv
<1>4. LongTermIdxUnique'
  <2>1. SUFFICES ASSUME NEW j \in DOMAIN dpb', NEW k \in DOMAIN dpb',
                        IsLong(dpb'[j]), IsLong(dpb'[k]), dpb'[j].ltIdx = dpb'[k].ltIdx
                 PROVE  dpb'[j].frame = dpb'[k].frame
    BY DEF LongTermIdxUnique, IsLong
  <2>2. CASE j \in RefKeys(d) /\ k \in RefKeys(d)
    BY <1>1, <1>3, <2>1, <2>2
  <2>3. CASE j = key \/ k = key
    BY <1>1, <2>1, <2>3
  <2>. QED
    BY <1>1, <2>2, <2>3
<1>. QED
  BY <1>2, <1>4 DEF LongInv, CurrentHolds

\* A frame filled into a gap is short-term.
LEMMA GapStepHolders ==
  ASSUME Inv, LongInv, GapStep
  PROVE  LongInv'
<1>. DEFINE slid == SlidingWindow(dpb, MaxNumRefFrames, gap.expected, "frame")
            new == NewEntry(gap.expected, "frame", nextKey)
            e == dpb'
<1>1. phase' = "gap"
  BY DEF GapStep
<1>2. Fades(dpb, slid) /\ KeepsHolders(dpb, slid) /\ DOMAIN slid = DOMAIN dpb
  BY InvIsDpb, SlidingWindowFades, UnmarkingHolders DEF Fades
<1>3. ~ IsLong(new)
  BY GapStepGains DEF IsLong
<1>4. /\ DOMAIN e = RefKeys(slid) \cup {nextKey} /\ e[nextKey] = new
      /\ \A k \in RefKeys(slid) : k \in DOMAIN dpb /\ e[k] = slid[k]
  BY GapStepEntries DEF RefKeys
<1>. HIDE DEF e, slid, new
<1>5. ASSUME NEW j \in DOMAIN e, NEW k \in DOMAIN e, IsLong(e[j]), IsLong(e[k]),
             e[j].ltIdx = e[k].ltIdx
      PROVE  e[j].frame = e[k].frame
  <2>1. /\ j \in DOMAIN slid /\ k \in DOMAIN slid /\ e[j] = slid[j] /\ e[k] = slid[k]
    BY <1>2, <1>3, <1>4, <1>5
  <2>. QED
    BY <1>2, <1>5, <2>1, KeepsUnique DEF LongInv
<1>. QED
  BY <1>1, <1>5 DEF LongInv, LongTermIdxUnique, CurrentHolds, IsLong, e

\* An operation leaves every index to one frame, the current picture's included.
LEMMA OperationHolders ==
  ASSUME Conforming, Inv, StreamInv, TellsInv, LongInv, Operation
  PROVE  LongInv'
<1>1. /\ IsDpb(dpb) /\ cur \in Entry /\ InSync(cur)
      /\ LongTermIdxUnique /\ CurrentHolds /\ FrameNumTells
  BY InvIsDpb DEF LongInv, TellsInv
<1>2. ASSUME NEW d, Fades(dpb, d), KeepsHolders(dpb, d), MarkingStep(d), UNCHANGED cur
      PROVE  LongInv'
  <2>1. /\ dpb' = d /\ UNCHANGED phase /\ DOMAIN d = DOMAIN dpb
        /\ \A k \in DOMAIN dpb : d[k].frame = dpb[k].frame
    BY <1>2 DEF MarkingStep, Fades, Weakens
  <2>2. LongTermIdxUnique'
    <3>1. ASSUME NEW j \in DOMAIN d, NEW k \in DOMAIN d, IsLong(d[j]), IsLong(d[k]),
                 d[j].ltIdx = d[k].ltIdx
          PROVE  d[j].frame = d[k].frame
      BY <1>1, <1>2, <3>1, KeepsUnique
    <3>. QED
      BY <2>1, <3>1 DEF LongTermIdxUnique, IsLong
  <2>3. CurrentHolds'
    BY <1>1, <1>2, <2>1 DEF CurrentHolds, KeepsHolders
  <2>. QED
    BY <2>2, <2>3 DEF LongInv
<1>3. ASSUME NEW d, Fades(dpb, d), NEW idx, NEW f, AssignsIdx(dpb, d, idx, f), MarkingStep(d),
             \/ cur' = cur /\ (cur.marking = "long" => cur.ltIdx # idx)
             \/ cur'.ltIdx = idx /\ cur'.frame = f
      PROVE  LongInv'
  <2>1. /\ dpb' = d /\ UNCHANGED phase /\ DOMAIN d = DOMAIN dpb
        /\ \A k \in DOMAIN dpb : d[k].frame = dpb[k].frame
    BY <1>3 DEF MarkingStep, Fades, Weakens
  <2>2. LongTermIdxUnique'
    <3>1. ASSUME NEW j \in DOMAIN d, NEW k \in DOMAIN d, IsLong(d[j]), IsLong(d[k]),
                 d[j].ltIdx = d[k].ltIdx
          PROVE  d[j].frame = d[k].frame
      BY <1>1, <1>3, <3>1, AssignsUnique
    <3>. QED
      BY <2>1, <3>1 DEF LongTermIdxUnique, IsLong
  <2>3. ASSUME phase' = "mmco", cur'.marking = "long",
               NEW k \in DOMAIN dpb, IsLong(d[k]), d[k].ltIdx = cur'.ltIdx
        PROVE  dpb[k].frame = cur'.frame
    <3>1. \/ IsLong(dpb[k]) /\ d[k].ltIdx = dpb[k].ltIdx /\ dpb[k].ltIdx # idx
          \/ d[k].ltIdx = idx /\ dpb[k].frame = f
      BY <1>3, <2>3 DEF AssignsIdx
    <3>2. CASE cur' = cur /\ (cur.marking = "long" => cur.ltIdx # idx)
      BY <1>1, <2>1, <2>3, <3>1, <3>2 DEF CurrentHolds
    <3>3. CASE cur'.ltIdx = idx /\ cur'.frame = f
      BY <2>3, <3>1, <3>3
    <3>. QED
      BY <1>3, <3>2, <3>3
  <2>4. CurrentHolds'
    BY <2>1, <2>3 DEF CurrentHolds
  <2>. QED
    BY <2>2, <2>4 DEF LongInv
<1>4. ASSUME NEW diff \in Diffs, Mmco1(diff) PROVE LongInv'
  BY <1>1, <1>2, <1>4, MarkShortTermUnusedFades, UnmarkingHolders DEF Mmco1
<1>5. ASSUME NEW num \in LongTermNums, Mmco2(num) PROVE LongInv'
  BY <1>1, <1>2, <1>5, MarkLongTermUnusedFades, UnmarkingHolders DEF Mmco2
<1>6. ASSUME NEW diff \in Diffs, NEW idx \in LtIdx, Mmco3(diff, idx) PROVE LongInv'
  <2>. DEFINE d == AssignLongTerm(dpb, cur, diff, idx)
  <2>1. idx \in Nat
    BY DpbAssumption
  <2>2. Fades(dpb, d) /\ \E f : AssignsIdx(dpb, d, idx, f)
    BY <1>1, <2>1, AssignLongTermFades, AssignLongTermHolders
  <2>3. MarkingStep(d) /\ cur' = cur /\ (cur.marking = "long" => cur.ltIdx # idx)
    BY <1>6 DEF Mmco3, StreamMayAssign
  <2>. HIDE DEF d
  <2>. QED
    BY <1>3, <2>2, <2>3
<1>7. ASSUME NEW i, Mmco4(i) PROVE LongInv'
  BY <1>1, <1>2, <1>7, SetMaxLongTermIdxFades, UnmarkingHolders DEF Mmco4
<1>8. ASSUME Mmco5 PROVE LongInv'
  BY <1>1, <1>2, <1>8, MarkUnusedFades, MarkUnusedHolders DEF Mmco5, MarkAllUnused
<1>9. ASSUME NEW idx \in LtIdx, Mmco6(idx) PROVE LongInv'
  <2>. DEFINE d == AssignCurrentLongTerm(dpb, cur, idx)
              c == MarkAll(cur, "long")
  <2>1. idx \in Nat /\ phase = "mmco"
    BY <1>9, DpbAssumption DEF Mmco6, MarkingStep
  <2>2. Fades(dpb, d) /\ AssignsIdx(dpb, d, idx, cur.frame)
    BY <1>1, <2>1, AssignCurrentLongTermFades, AssignCurrentHolders
  <2>3. MarkingStep(d) /\ cur' = [c EXCEPT !.ltIdx = idx]
    BY <1>9 DEF Mmco6, CurrentLongTerm
  <2>4. c \in Entry /\ c.frame = cur.frame
    BY <1>1, MarkAllEntry DEF Marking
  <2>. HIDE DEF c, d
  <2>5. cur'.ltIdx = idx /\ cur'.frame = cur.frame
    BY <2>3, <2>4 DEF Entry
  <2>. QED
    BY <1>3, <2>2, <2>3, <2>5
<1>. QED
  BY <1>4, <1>5, <1>6, <1>7, <1>8, <1>9 DEF Operation

\* The current picture is stored under the index it was given.
LEMMA EndAdaptiveHolders ==
  ASSUME Inv, StreamInv, LongInv, EndAdaptiveMarking
  PROVE  LongInv'
<1>1. PICK n : Stores(dpb, [MarkedCurrent(cur) EXCEPT !.frameNum = n], nextKey - 1, n)
  BY EndAdaptiveStores
<1>. DEFINE c == MarkedCurrent(cur)
            s == [c EXCEPT !.frameNum = n]
<1>2. phase = "mmco"
  BY DEF EndAdaptiveMarking
<1>3. /\ c \in Entry /\ InSync(c) /\ c.marking = IF cur.marking = "long" THEN "long" ELSE "short"
      /\ c.frame = cur.frame /\ c.ltIdx = cur.ltIdx
  <2>1. /\ "short" \in Marking /\ "long" \in Marking /\ cur \in Entry
    BY InvIsDpb DEF Marking
  <2>2. \A m : MarkAll(cur, m).ltIdx = cur.ltIdx
    BY <2>1 DEF MarkAll, Entry
  <2>. QED
    BY <2>1, <2>2, MarkAllEntry DEF MarkedCurrent
<1>. HIDE DEF c
<1>4. /\ s.field = c.field /\ s.structure = c.structure /\ s.frame = c.frame /\ s.ltIdx = c.ltIdx
  BY <1>3 DEF Entry
<1>. HIDE DEF s
<1>5. IsLong(s) => cur.marking = "long"
  <2>1. IsLong(s) => IsLong(c)
    BY <1>4 DEF IsLong, AnyFieldIs, HasFieldMarked, HasField
  <2>. QED
    BY <1>3, <2>1, NotLong
<1>6. \A k \in RefKeys(dpb) :
        IsLong(s) /\ IsLong(dpb[k]) /\ dpb[k].ltIdx = s.ltIdx => dpb[k].frame = s.frame
  BY <1>2, <1>3, <1>4, <1>5 DEF LongInv, CurrentHolds, RefKeys
<1>7. KeepsHolders(dpb, dpb) /\ Stores(dpb, s, nextKey - 1, n)
  BY <1>1 DEF KeepsHolders, s, c
<1>. QED
  BY <1>6, <1>7, StoresLong

\* Every step leaves every index to one frame.
LEMMA NextHolders ==
  ASSUME Conforming, Inv, StreamInv, TellsInv, LongInv, Next
  PROVE  LongInv'
<1>1. ASSUME NEW h \in Header, OpenPicture(h) PROVE LongInv'
  BY <1>1 DEF OpenPicture, LongInv, LongTermIdxUnique, CurrentHolds
<1>2. CASE GapStep
  BY <1>2, GapStepHolders
<1>3. CASE GapDone
  BY <1>3 DEF GapDone, LongInv, LongTermIdxUnique, CurrentHolds
<1>4. CASE DropPicture
  BY <1>4 DEF DropPicture
<1>5. CASE FinalizeNonReference
  BY <1>5 DEF FinalizeNonReference, Close, LongInv, LongTermIdxUnique, CurrentHolds
<1>6. CASE FinalizeIdr
  <2>1. PICK c : Stores(MarkAllUnused(dpb), c, nextKey, pic.frameNum)
    BY <1>6, IdrStores
  <2>2. RefKeys(MarkAllUnused(dpb)) = {}
    BY InvIsDpb, NoRefsLeft
  <2>. QED
    BY <2>1, <2>2, StoresLong
<1>7. CASE FinalizeSlidingWindow
  <2>1. PICK c : Stores(Slid, c, nextKey, pic.frameNum) /\ c.marking = "short"
    BY <1>7, SlidingWindowStores
  <2>2. c \in Entry /\ InSync(c)
    BY <2>1 DEF Stores, Gains
  <2>3. ~ IsLong(c)
    BY <2>1, <2>2, NotLong
  <2>4. KeepsHolders(dpb, Slid)
    BY InvIsDpb, UnmarkingHolders DEF Slid
  <2>. QED
    BY <2>1, <2>3, <2>4, StoresLong
<1>8. CASE BeginAdaptiveMarking
  <2>1. /\ UNCHANGED dpb /\ cur' = NewEntry(pic.frameNum, pic.structure, FrameKey(pic, nextKey))
        /\ phase = "open"
    BY <1>8 DEF BeginAdaptiveMarking
  <2>2. cur'.marking = "short"
    BY <2>1, PictureEntry
  <2>. QED
    BY <2>1, <2>2 DEF LongInv, LongTermIdxUnique, CurrentHolds
<1>9. CASE Operation
  BY <1>9, OperationHolders
<1>10. CASE EndAdaptiveMarking
  BY <1>10, EndAdaptiveHolders
<1>. QED
  BY <1>1, <1>2, <1>3, <1>4, <1>5, <1>6, <1>7, <1>8, <1>9, <1>10
     DEF Next, AdaptiveMarkingStep, Operation

\* 8.2.5.4.3 and 8.2.5.4.6: a LongTermFrameIdx belongs to one frame, for the same
\* streams as in UnitsAreFramesCorrect.
THEOREM LongTermIdxUniqueCorrect ==
  ASSUME Conforming, NoFieldGaps
  PROVE  Spec /\ []FrameNumNotReused => []LongTermIdxUnique
<1>1. Spec => [](Inv /\ StreamInv /\ WindowInv)
  BY StreamInvariance
<1>2. Init => TellsInv /\ LongInv
  BY DEF Init, TellsInv, FrameNumTells, CurrentTells, LongInv, LongTermIdxUnique, CurrentHolds
<1>3. Inv /\ StreamInv /\ FrameNumNotReused /\ TellsInv /\ LongInv /\ [Next]_vars
        => TellsInv' /\ LongInv'
  <2>1. ASSUME TellsInv, LongInv, UNCHANGED vars PROVE TellsInv' /\ LongInv'
    BY <2>1 DEF vars, TellsInv, FrameNumTells, CurrentTells, NumberTellsOf, FrameKey,
       IsSecondField, LongInv, LongTermIdxUnique, CurrentHolds
  <2>. QED
    BY <2>1, NextTells, NextHolders
<1>4. LongInv => LongTermIdxUnique
  BY DEF LongInv
<1>. QED
  BY <1>1, <1>2, <1>3, <1>4, PTL DEF Spec
=============================================================================
