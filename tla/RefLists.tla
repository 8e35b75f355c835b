------------------------------- MODULE RefLists -------------------------------
(***************************************************************************)
(* Reference picture lists, clause 8.2.4, as src/src/ref_list.rs builds    *)
(* and modifies them for the slices that                                   *)
(* reconstruct_slice_into_in_progress (src/src/h264_decoder.rs) decodes.   *)
(*                                                                         *)
(* A slice of a frame refers to frames and complementary field pairs, a    *)
(* slice of a field to single fields.  An element of a list is a pair of   *)
(* a dpb_key and "frame" or a parity.  One command of the slice header's   *)
(* modification loop is one step, so that every sequence of commands up to *)
(* MaxCommands is covered.                                                 *)
(*                                                                         *)
(* The DPB does not change while a slice is decoded; Init chooses one that *)
(* marking (module Dpb) leaves: frames, pairs and lone fields in decoding  *)
(* order, consecutive frame_nums, LongTermFrameIdx of their own.           *)
(***************************************************************************)
EXTENDS RefMarking, Sequences

CONSTANT Slices    \* the slices decoded, see SliceType

\* How the fields of a slot are marked: <<coded as, top field, bottom field>>.
Content ==
  {<<"none", "unused", "unused">>,
   <<"frame", "short", "short">>, <<"frame", "long", "long">>,
   <<"frame", "short", "unused">>, <<"frame", "unused", "short">>,
   <<"frame", "short", "long">>,
   <<"pair", "short", "short">>, <<"pair", "long", "long">>,
   <<"pair", "short", "unused">>, <<"pair", "long", "short">>,
   <<"top", "short", "unused">>, <<"bottom", "unused", "short">>}

(***************************************************************************)
(* A slice: its type, the structure and frame_num of its picture,          *)
(* num_ref_idx_lX_active_minus1 + 1, a bound on the modification commands  *)
(* for each list, and the DPB it meets: how many reference frames it has   *)
(* room for, and what a room may hold.                                     *)
(***************************************************************************)
SliceType ==
  [type : {"P", "B"}, structure : Structure, frameNum : 0 .. MaxFrameNum - 1,
   active : Nat \ {0}, commands : Nat, slots : 1 .. MaxFrameNum - 1,
   contents : SUBSET Content]

RefListsAssumption == Slices \subseteq SliceType

VARIABLES
  slice,    \* the slice being decoded
  dpb,      \* dpb_entries, with the order counts of each entry's fields
  cur,      \* structure, frame_num and order count of the current picture
  phase,    \* "build", "modify", "refused" or "done"
  built,    \* history: the initial lists
  list,     \* RefPicList0 and RefPicList1
  x,        \* the list being modified
  pred,     \* picNumLXPred
  named     \* history: what the commands for list x named, refIdxLX of them

vars == <<slice, dpb, cur, phase, built, list, x, pred, named>>

NoRef == <<-1, "none">>                  \* "no reference picture"

\* The elements of S in the order that Before puts them in.
Sorted(S, Before(_, _)) ==
  [i \in 1 .. Cardinality(S) |->
     CHOOSE a \in S : Cardinality({b \in S : Before(b, a)}) = i - 1]

-----------------------------------------------------------------------------
(***************************************************************************)
(* The DPB when the slice is decoded.                                      *)
(***************************************************************************)

\* Entries of slot i; a pair is two entries.  Keys follow decoding order.
SlotKeys(i, content) ==
  IF content[1] = "pair" THEN {2 * i, 2 * i + 1}
  ELSE IF content[1] = "none" THEN {} ELSE {2 * i}

\* The first entry of a pair is its top field unless bottomFirst.
EntryStructure(key, content, bottomFirst) ==
  IF content[1] # "pair" THEN content[1]
  ELSE IF (key % 2 = 0) = bottomFirst THEN "bottom" ELSE "top"

SlotEntry(structure, content, frameNum, ltIdx, rank) ==
  LET f == [p \in Parity |->
              IF structure \in {"frame", p}
              THEN content[IF p = "top" THEN 2 ELSE 3] ELSE "unused"]
  IN  [frameNum |-> frameNum, ltIdx |-> ltIdx, structure |-> structure,
       field |-> f, marking |-> UnitMarking(structure, f),
       foc |-> [p \in Parity |-> 2 * rank + (IF p = "bottom" THEN 1 ELSE 0)]]

\* The newest reference was decoded just before the current picture, or is
\* its first field.
SlotFrameNum(i, h, isSecond) ==
  (h.frameNum + i - h.slots - (IF isSecond THEN 0 ELSE 1)) % MaxFrameNum

MakeDpb(h, contents, bottomFirst, isSecond, ltUp, rank) ==
  [k \in UNION {SlotKeys(i, contents[i]) : i \in 1 .. h.slots} |->
     LET i == k \div 2
     IN  SlotEntry(EntryStructure(k, contents[i], bottomFirst), contents[i],
                   SlotFrameNum(i, h, isSecond),
                   IF ltUp THEN i ELSE h.slots - i, rank[i])]

\* Display ranks of the slots and, last, of the current picture.
Ranks(n) == {r \in [1 .. n + 1 -> 1 .. n + 1] :
               \A i, j \in 1 .. n + 1 : i # j => r[i] # r[j]}

\* PicOrderCnt of an entry (eq. 8-1).
EntryPoc(e) == IF IsField(e) THEN e.foc[e.structure] ELSE Min({e.foc[p] : p \in Parity})

Init ==
  \E h \in Slices :
    \E contents \in [1 .. h.slots -> h.contents], r \in Ranks(h.slots),
       bottomFirst, ltUp, isSecond \in BOOLEAN :
      /\ isSecond => /\ h.structure \in Parity
                     /\ contents[h.slots][1] = Opposite(h.structure)
                     /\ r[h.slots + 1] = r[h.slots] + 1
      /\ (\A i \in 1 .. h.slots : contents[i][1] # "pair") => ~ bottomFirst
      /\ (\A i \in 1 .. h.slots : "long" \notin {contents[i][2], contents[i][3]}) => ltUp
      /\ h.type = "P" => \A i \in 1 .. h.slots : r[i] = i
      /\ slice = h
      /\ dpb = MakeDpb(h, contents, bottomFirst, isSecond, ltUp, r)
      /\ cur = [structure |-> h.structure, frameNum |-> h.frameNum, poc |-> 2 * r[h.slots + 1]]
      /\ phase = "build"
      /\ built = <<<<>>, <<>>>>
      /\ list = <<<<>>, <<>>>>
      /\ x = 1
      /\ pred = 0
      /\ named = <<>>

-----------------------------------------------------------------------------
(***************************************************************************)
(* Initial lists of frames.                                                *)
(***************************************************************************)
\* collapse_field_pairs: two fields with equal markings are one unit, named by
\* the top field.
MergedPair(d, u) ==
  LET top == CHOOSE k \in u : d[k].structure = "top"
      bot == CHOOSE k \in u : d[k].structure = "bottom"
  IN  [key |-> top, frameNum |-> d[top].frameNum, ltIdx |-> d[top].ltIdx,
       marking |-> IF d[top].field["top"] = d[bot].field["bottom"]
                   THEN d[top].field["top"] ELSE "unused",
       poc |-> Min({d[top].foc["top"], d[bot].foc["bottom"]})]

FrameUnit(d, k) ==
  [key |-> k, frameNum |-> d[k].frameNum, ltIdx |-> d[k].ltIdx,
   marking |-> d[k].marking, poc |-> EntryPoc(d[k])]

\* Non-paired fields are no references of a frame.
FrameUnits(d) ==
  {FrameUnit(d, k) : k \in {j \in RefKeys(d) : ~ IsField(d[j])}}
    \cup {MergedPair(d, u) : u \in {v \in RefUnits(d) : Cardinality(v) = 2}}

FramesMarked(d, m) == {u \in FrameUnits(d) : u.marking = m}

Keys(units) == [i \in DOMAIN units |-> <<units[i].key, "frame">>]

\* Sorted by frame_num as coded, without regard to its wrapping.
NewerFirstUnwrapped(c, u, v) == u.frameNum > v.frameNum

NewerFirst(c, u, v) == FrameNumWrap(u.frameNum, c.frameNum) > FrameNumWrap(v.frameNum, c.frameNum)

LongFrames(d) ==
  Keys(Sorted(FramesMarked(d, "long"), LAMBDA u, v : u.ltIdx < v.ltIdx))

\* init_ref_pic_list_p
FrameListP(d, c) ==
  Keys(Sorted(FramesMarked(d, "short"), LAMBDA u, v : NewerFirst(c, u, v)))
    \o LongFrames(d)

ByPocDown(S) == Sorted(S, LAMBDA u, v : u.poc > v.poc)
ByPocUp(S)   == Sorted(S, LAMBDA u, v : u.poc < v.poc)

\* init_ref_pic_lists_b without its last rule.
FrameListsBUnswapped(d, c) ==
  LET before == {u \in FramesMarked(d, "short") : u.poc < c.poc}
      after  == {u \in FramesMarked(d, "short") : u.poc > c.poc}
      other(S) == FramesMarked(d, "short") \ S
  IN  <<Keys(ByPocDown(before) \o ByPocUp(other(before))) \o LongFrames(d),
        Keys(ByPocUp(after) \o ByPocDown(other(after))) \o LongFrames(d)>>

SwapFirstTwo(s) == [s EXCEPT ![1] = s[2], ![2] = s[1]]

\* The last rule of 8.2.4.2.3 and 8.2.4.2.4.
Distinct(lists) ==
  IF Len(lists[2]) > 1 /\ lists[1] = lists[2]
  THEN <<lists[1], SwapFirstTwo(lists[2])>> ELSE lists

-----------------------------------------------------------------------------
(***************************************************************************)
(* Initial lists of fields.  An entry of the DPB is placed once for every  *)
(* field of it that is marked; order is a sequence of keys.                *)
(***************************************************************************)

\* The position from i on of the next entry with a field of parity p.
NextField(d, order, i, p, m) ==
  LET hits == {j \in i .. Len(order) : HasFieldMarked(d[order[j]], p, m)}
  IN  IF hits = {} THEN Len(order) + 1 ELSE Min(hits)

\* A walk that stops at the first missing field instead of going on with the
\* other parity.
InterleaveStops(d, order, m, parity) ==
  LET walk[at \in [Parity -> 1 .. Len(order) + 1], p \in Parity] ==
        LET i == NextField(d, order, at[p], p, m)
        IN  IF i <= Len(order)
            THEN <<<<order[i], p>>>> \o walk[[at EXCEPT ![p] = i + 1], Opposite(p)]
            ELSE <<>>
  IN  walk[[q \in Parity |-> 1], parity]

\* interleave_fields: two cursors, one for each parity, used in turn; when one
\* parity runs out the other one continues alone.
Interleave(d, order, m, parity) ==
  LET end == Len(order) + 1
      walk[at \in [Parity -> 1 .. end], p \in Parity] ==
        LET i == NextField(d, order, at[p], p, m)
            o == Opposite(p)
        IN  IF i < end
            THEN <<<<order[i], p>>>> \o walk[[at EXCEPT ![p] = i + 1], o]
            ELSE IF NextField(d, order, at[o], o, m) < end
            THEN walk[[at EXCEPT ![p] = end], o]
            ELSE <<>>
  IN  walk[[q \in Parity |-> 1], parity]

KeysMarked(d, m) == {k \in DOMAIN d : AnyFieldIs(d[k], m)}

\* A stable sort: entries that tie stay in DPB order.
SortedKeys(S, Value(_)) ==
  Sorted(S, LAMBDA a, b : Value(a) < Value(b) \/ (Value(a) = Value(b) /\ a < b))

LongFields(d, c) ==
  Interleave(d, SortedKeys(KeysMarked(d, "long"), LAMBDA k : d[k].ltIdx), "long", c.structure)

\* The fields of the other parity first.
FieldListPOtherFirst(d, c) ==
  LET order == SortedKeys(KeysMarked(d, "short"),
                          LAMBDA k : - FrameNumWrap(d[k].frameNum, c.frameNum))
  IN  Interleave(d, order, "short", Opposite(c.structure)) \o LongFields(d, c)

\* init_ref_pic_list_p_field
FieldListP(d, c) ==
  LET order == SortedKeys(KeysMarked(d, "short"),
                          LAMBDA k : - FrameNumWrap(d[k].frameNum, c.frameNum))
  IN  Interleave(d, order, "short", c.structure) \o LongFields(d, c)

\* init_ref_pic_lists_b_field without its last rule: entries up to the current
\* order count are the earlier ones here.
FieldListsBUnswapped(d, c) ==
  LET upTo  == {k \in KeysMarked(d, "short") : EntryPoc(d[k]) <= c.poc}
      after == KeysMarked(d, "short") \ upTo
      down  == SortedKeys(upTo, LAMBDA k : - EntryPoc(d[k]))
      up    == SortedKeys(after, LAMBDA k : EntryPoc(d[k]))
  IN  <<Interleave(d, down \o up, "short", c.structure) \o LongFields(d, c),
        Interleave(d, up \o down, "short", c.structure) \o LongFields(d, c)>>

InitialLists(d, c, type) ==
  IF c.structure = "frame"
  THEN IF type = "P" THEN <<FrameListP(d, c), <<>>>>
       ELSE Distinct(FrameListsBUnswapped(d, c))
  ELSE IF type = "P" THEN <<FieldListP(d, c), <<>>>>
       ELSE Distinct(FieldListsBUnswapped(d, c))

\* Cut or filled up to num_active entries.
Normalised(s, n) == [i \in 1 .. n |-> IF i <= Len(s) THEN s[i] ELSE NoRef]

Lists == IF slice.type = "B" THEN {1, 2} ELSE {1}

Build ==
  /\ phase = "build"
  /\ built' = InitialLists(dpb, cur, slice.type)
  /\ IF built'[1] = <<>>
     THEN phase' = "refused" /\ UNCHANGED <<list, pred>>
     ELSE /\ phase' = "modify"
          /\ list' = [l \in 1 .. 2 |->
                        IF l \in Lists THEN Normalised(built'[l], slice.active) ELSE <<>>]
          /\ pred' = CurrPicNum(cur.frameNum, cur.structure)
  /\ UNCHANGED <<slice, dpb, cur, x, named>>

-----------------------------------------------------------------------------
(***************************************************************************)
(* Modification, 8.2.4.3.                                                  *)
(***************************************************************************)
MaxPicNum(c) == IF c.structure = "frame" THEN MaxFrameNum ELSE 2 * MaxFrameNum

\* picNumLXNoWrap (eq. 8-34, 8-35)
NoWrap(c, p, op, absDiff) ==
  IF op = "subtract"
  THEN IF p - absDiff < 0 THEN p - absDiff + MaxPicNum(c) ELSE p - absDiff
  ELSE IF p + absDiff >= MaxPicNum(c) THEN p + absDiff - MaxPicNum(c) ELSE p + absDiff

\* picNumLX taken without eq. 8-36.
PicNumLXUnwrapped(c, noWrap) == noWrap

\* picNumLX (eq. 8-36)
PicNumLX(c, noWrap) ==
  IF noWrap > CurrPicNum(c.frameNum, c.structure) THEN noWrap - MaxPicNum(c) ELSE noWrap

ShortTermNamed(d, c, picNum) ==
  IF c.structure = "frame"
  THEN LET hits == {u \in FramesMarked(d, "short") :
                      FrameNumWrap(u.frameNum, c.frameNum) = picNum}
       IN  IF hits = {} THEN NoRef ELSE <<Min({u.key : u \in hits}), "frame">>
  ELSE LET hits == {t \in (DOMAIN d) \X Parity :
                      /\ HasFieldMarked(d[t[1]], t[2], "short")
                      /\ FieldPicNum(d[t[1]], t[2], c.frameNum, c.structure) = picNum}
       IN  IF hits = {} THEN NoRef ELSE FirstField(hits)

LongTermNamed(d, c, num) ==
  IF c.structure = "frame"
  THEN LET hits == {u \in FramesMarked(d, "long") : u.ltIdx = num}
       IN  IF hits = {} THEN NoRef ELSE <<Min({u.key : u \in hits}), "frame">>
  ELSE IF LongTermFieldsAt(d, c, num) = {} THEN NoRef
       ELSE FirstField(LongTermFieldsAt(d, c, num))

\* A copy of what is inserted stays behind.
SplicedKeepingCopy(s, i, target) ==
  Normalised(SubSeq(s, 1, i) \o <<target>> \o SubSeq(s, i + 1, Len(s)), Len(s))

\* splice_into_list and splice_field_into_list: target goes to position i, its
\* later occurrences go, the length stays.
Spliced(s, i, target) ==
  IF i >= Len(s) THEN s
  ELSE Normalised(SubSeq(s, 1, i) \o <<target>>
                    \o SelectSeq(SubSeq(s, i + 1, Len(s)), LAMBDA e : e # target), Len(s))

\* One iteration of the loop of modify_ref_pic_list or _field.
Command(target, newPred) ==
  /\ phase = "modify"
  /\ Len(named) < slice.commands
  /\ list' = [list EXCEPT ![x] = Spliced(@, Len(named), target)]
  /\ named' = Append(named, target)
  /\ pred' = newPred
  /\ UNCHANGED <<slice, dpb, cur, phase, built, x>>

ShortTermCommand ==
  \E op \in {"subtract", "add"}, absDiff \in 1 .. MaxPicNum(cur) :
    LET p == NoWrap(cur, pred, op, absDiff)
    IN  Command(ShortTermNamed(dpb, cur, PicNumLX(cur, p)), p)

LongTermCommand ==
  \E num \in 0 .. 2 * slice.slots + 1 : Command(LongTermNamed(dpb, cur, num), pred)

\* The second call, for list 1 of a B slice.
SecondList ==
  /\ phase = "modify" /\ x = 1 /\ slice.type = "B"
  /\ x' = 2
  /\ named' = <<>>
  /\ pred' = CurrPicNum(cur.frameNum, cur.structure)
  /\ UNCHANGED <<slice, dpb, cur, phase, built, list>>

ListsDone ==
  /\ phase = "modify" /\ x = Max(Lists)
  /\ phase' = "done"
  /\ UNCHANGED <<slice, dpb, cur, built, list, x, pred, named>>

Next == Build \/ ShortTermCommand \/ LongTermCommand \/ SecondList \/ ListsDone

Spec == Init /\ [][Next]_vars

-----------------------------------------------------------------------------
(***************************************************************************)
(* Correctness.                                                            *)
(***************************************************************************)
Elements(s) == {s[i] : i \in DOMAIN s}

Injective(s) == Cardinality(Elements(s)) = Len(s)

\* What a slice may refer to: frames with both fields marked alike, coded as a
\* frame or as two fields; or every field that is marked.
References ==
  IF cur.structure = "frame"
  THEN {<<u.key, "frame">> : u \in FramesMarked(dpb, "short") \cup FramesMarked(dpb, "long")}
  ELSE {t \in (DOMAIN dpb) \X Parity :
          HasFieldMarked(dpb[t[1]], t[2], "short") \/ HasFieldMarked(dpb[t[1]], t[2], "long")}

IsShortTerm(r) ==
  IF r[2] = "frame" THEN \E u \in FramesMarked(dpb, "short") : u.key = r[1]
  ELSE HasFieldMarked(dpb[r[1]], r[2], "short")

\* Type invariant: both lists hold num_ref_idx_active entries once built, each
\* of them a reference of the slice or "no reference picture".
TypeOK ==
  /\ phase \in {"build", "modify", "refused", "done"}
  /\ x \in 1 .. 2
  /\ Elements(named) \subseteq References \cup {NoRef}
  /\ phase \in {"modify", "done"} =>
       \A l \in Lists : Len(list[l]) = slice.active /\ Elements(list[l]) \subseteq References \cup {NoRef}

\* 8.2.4.2: before truncation every initial list names every reference of the
\* slice exactly once, whatever parities and markings are missing
\* (interleave_fields' two cursors lose none and repeat none).
EveryReferenceOnce ==
  phase # "build" =>
    \A l \in Lists : Injective(built[l]) /\ Elements(built[l]) = References

\* The two cursors of interleave_fields compute what 8.2.4.2.5 describes: the
\* fields of the current parity and those of the other one, each in frame
\* order, taken in turn and the rest appended.
InTurn(a, b) ==
  LET n == Min({Len(a), Len(b)})
  IN  [i \in 1 .. 2 * n |-> IF i % 2 = 1 THEN a[(i + 1) \div 2] ELSE b[i \div 2]]
        \o SubSeq(a, n + 1, Len(a)) \o SubSeq(b, n + 1, Len(b))

FieldsAlternate ==
  cur.structure # "frame" /\ phase # "build" =>
    LET marked(m) == SelectSeq(built[1], LAMBDA t : HasFieldMarked(dpb[t[1]], t[2], m))
        parity(s, p) == SelectSeq(s, LAMBDA t : t[2] = p)
        inTurn(m) == InTurn(parity(marked(m), cur.structure),
                            parity(marked(m), Opposite(cur.structure)))
    IN  built[1] = inTurn("short") \o inTurn("long")

\* The short-term frames of a P slice come newest first in decoding order,
\* through every wrap of frame_num (keys are minted in decoding order).
NewestFirst ==
  slice.type = "P" /\ phase # "build" =>
    \A i, j \in DOMAIN built[1] :
      LET a == built[1][i]
          b == built[1][j]
      IN  /\ i < j
          /\ a[2] = b[2]
          /\ IsShortTerm(a) /\ IsShortTerm(b)
          => a[1] \div 2 > b[1] \div 2

\* 8.2.4.3: after commands that named different references, the list starts
\* with them in the order of the commands, and the other entries follow in the
\* order they had.
CommandedFirst ==
  phase = "modify" /\ Injective(named) /\ NoRef \notin Elements(named) =>
    list[x] = Normalised(named \o SelectSeq(Normalised(built[x], slice.active),
                                            LAMBDA e : e \notin Elements(named)), slice.active)

\* From every picNumLXPred every short-term reference can be named by one
\* command: the wraps of eq. 8-34 to 8-36 reach all of them.
AllNameable ==
  phase = "modify" =>
    \A r \in References :
      IsShortTerm(r) => \E op \in {"subtract", "add"}, absDiff \in 1 .. MaxPicNum(cur) :
           ShortTermNamed(dpb, cur, PicNumLX(cur, NoWrap(cur, pred, op, absDiff))) = r
=============================================================================
