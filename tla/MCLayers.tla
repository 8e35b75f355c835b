---------------------------------- MODULE MCLayers ----------------------------------
(* Parts of the slice layer, each on its own: "cavlc" is CavlcSlices,       *)
(* "pairs" MbaffPairs, "engine" CabacEngine, "syntax" CabacSyntax, "groups"       *)
(* SliceGroups, "framing" NalFraming and "motion" Motion.  The parts that are    *)
(* not running keep a fixed state.                                               *)
EXTENDS Integers

VARIABLES
  part,                                          \* the part running
  coded, enc, want, row, addr, meant, dec, ok,   \* CavlcSlices
  frame, fields, coder, pair, reader, agreed,    \* MbaffPairs
  start, count, unread, ctx, reg, bins, same,    \* CabacEngine
  element, written, read,                        \* CabacSyntax
  grouped, arriving, walk, owner, alike,         \* SliceGroups
  sized, bits, unit, units, stream, open, readBack,  \* NalFraming
  film, now, mb, mine, theirs, moved                 \* Motion

Picture(slice, cat, w, h) ==
  [slice |-> slice, cat |-> cat, w |-> w, h |-> h, t8 |-> FALSE, num |-> [l \in {0, 1} |-> 0],
   direct8 |-> TRUE, intraInInter |-> FALSE, budget |-> FALSE, qp |-> 26, few |-> FALSE]

\* Every plan in two macroblocks, beside each other with transform_8x8_mode_flag
\* and above each other without, in every chroma format; with two references;
\* four macroblocks with few plans; and 4:2:0 pictures with a row budget, whose
\* QP may reach either end of its range, in slices that try intra macroblocks.
Twos ==
  {[Picture(s, c, IF t THEN 2 ELSE 1, IF t THEN 1 ELSE 2) EXCEPT !.t8 = t] :
     s \in {"I", "P", "B"}, c \in 0..3, t \in BOOLEAN}
TwoRefs == {[Picture("P", c, 2, 1) EXCEPT !.num[0] = 1] : c \in 0..3}
Fours == {[Picture(s, c, 2, 2) EXCEPT !.few = TRUE] : s \in {"I", "P", "B"}, c \in {0, 1}}
Budgets ==
  {[Picture(s, 1, 1, 3) EXCEPT !.few = TRUE, !.budget = TRUE, !.qp = q, !.intraInInter = (s # "I")] :
     s \in {"I", "P", "B"}, q \in {0, 51}}

SomePictures == Twos \cup TwoRefs \cup Fours \cup Budgets

Cavlc == INSTANCE CavlcSlices WITH Pictures <- SomePictures, pic <- coded

\* MBAFF frames of two by two pairs, in both entropy codings.
SomeFrames == [cabac : BOOLEAN, slice : {"I", "P"}, w : {2}, h : {2}]

Mbaff == INSTANCE MbaffPairs WITH MbaffPictures <- SomeFrames, st <- fields

\* Five bins from a context that is even, leaning and certain: carries run
\* through more than three bits, and the registers reach both ends.
Engine == INSTANCE CabacEngine WITH
  MaxBins <- 5, StartStates <- {<<0, 0>>, <<10, 1>>, <<35, 0>>, <<62, 1>>}, sent <- unread

\* Every value of the elements of fixed range, the values around each change of
\* code of the others, and all increments.
Simple(kind, values, incs) == [e : {kind}, v : values, inc : incs]
SomeMvds ==
  LET sizes == 0..12 \cup {16, 17, 24, 25, 40, 41, 8191} IN sizes \cup {-s : s \in sizes}
CbpTerms ==
  [left : [{0, 2} -> {0, 1}], above : [{0, 1} -> {0, 1}], chroma : {f \in [{0, 1} -> 0..3] : f[0] + f[1] = 3}]

\* Blocks with coefficients at some places only: at either end and in the middle.
SparseBlock(cat, chroma, inc, mode, len, places, levels) ==
  {[e |-> "residual_block", cat |-> cat, chroma |-> chroma, inc |-> inc, mode |-> mode,
    v |-> [i \in 1 .. len |-> IF i \in places THEN c[i] ELSE 0]] : c \in [places -> levels]}
SomeBlocks ==
  LET Ends(len) == {1, 2, len \div 2, len - 1, len}
      Of(cats, chroma, len) ==
        UNION {SparseBlock(cat, chroma, cat % 4, mode, len, Ends(len), {0, 1, -16}) :
                 cat \in cats, mode \in {"frame", "field"}}
  IN SparseBlock(3, 1, 2, "frame", 4, 1..4, {0, 1, -1, 2, 14, -15, 40})
     \cup SparseBlock(3, 2, 1, "field", 8, 1..8, {0, -1, 3})
     \cup Of({0, 2}, 1, 16) \cup Of({1, 4}, 1, 15) \cup Of({6, 8, 10, 12}, 3, 16)
     \cup Of({7, 11}, 3, 15) \cup Of({5, 9, 13}, 3, 64)
     \cup {b \in Of({5}, 1, 64) : \E i \in 1..64 : b.v[i] # 0}

SomeElements ==
  Simple("mb_type_i", 0..25, 0..2) \cup Simple("mb_type_p", 0..3 \cup 5..30, {0})
  \cup Simple("mb_type_b", 0..48, 0..2) \cup Simple("sub_mb_type_p", 0..3, {0})
  \cup Simple("sub_mb_type_b", 0..12, {0}) \cup Simple("mb_qp_delta", -44..43, 0..1)
  \cup Simple("ref_idx", 0..31, 0..3) \cup Simple("intra_chroma_pred_mode", 0..3, 0..2)
  \cup Simple("rem_intra_pred_mode", 0..7, {0})
  \cup [e : {"mvd"}, v : SomeMvds, comp : {"x", "y"}, inc : 0..2]
  \cup [e : {"coded_block_pattern"}, v : 0..47, inc : CbpTerms, chroma : {TRUE}]
  \cup [e : {"coded_block_pattern"}, v : 0..15, inc : CbpTerms, chroma : {FALSE}]
  \cup SomeBlocks

Syntax == INSTANCE CabacSyntax WITH Elements <- SomeElements

\* Each type of map, with several slices to a group, reversed and repeated; the
\* other codings of pictures; for types 3 to 5 every cycle, at rates for which
\* encoder and decoder agree on the width of slice_group_change_cycle.
Grouped(w, rows, groups, map) ==
  [w |-> w, rows |-> rows, groups |-> groups, map |-> map, cycle |-> 0, coding |-> "progressive",
   each |-> 2, aso |-> TRUE, redundant |-> TRUE, inter |-> FALSE, constrained |-> FALSE]
Map(type) ==
  [type |-> type, runs |-> <<2, 1, 3>>, topLeft |-> <<0, 1>>, bottomRight |-> <<1, 5>>,
   direction |-> 0, rate |-> 1, ids |-> <<1, 0, 2, 0, 1, 0>>]
Codings == {"progressive", "field", "mbaff", "interlaced"}
SomeGrouped ==
  {[Grouped(w, 6 \div w, IF t = 1 THEN g ELSE 3, Map(t)) EXCEPT !.coding = c, !.each = n, !.aso = b] :
     w \in {2, 3}, t \in {0, 1, 2, 6}, g \in {2, 3}, c \in Codings, n \in {0, 1, 2}, b \in BOOLEAN}
  \cup {[Grouped(3, 2, g, Map(1)) EXCEPT !.inter = TRUE, !.constrained = b] : g \in {1, 2}, b \in BOOLEAN}
  \cup {[Grouped(3, 4, 2, [Map(t) EXCEPT !.direction = d, !.rate = r]) EXCEPT !.cycle = k] :
          t \in {3, 4, 5}, d \in {0, 1}, r \in {1, 2, 5}, k \in 0 .. 4}

Groups == INSTANCE SliceGroups WITH GroupPictures <- SomeGrouped

\* Elements of every coding, most of them of zeros and ones only: whole zero bytes
\* in and out of line, before every byte that must be escaped.
U(n, v) == [e |-> "u", n |-> n, v |-> v]
Code(e, v) == [e |-> e, v |-> v]
SomeFields ==
  {U(8, 0), U(8, 1), U(8, 3), U(16, 0), U(3, 5), Code("ue", 0), Code("ue", 255), Code("se", -1),
   Code("se", 2), [e |-> "te", max |-> 1, v |-> 0], [e |-> "i", n |-> 5, v |-> -16]}

Framing == INSTANCE NalFraming WITH
  Fields <- SomeFields, Framings <- {0, 4}, Headers <- <<<<3, 5>>, <<0, 1>>>>, MaxFields <- 3

\* Macroblocks of motion: vectors that differ by more and by less than the test of
\* a still colocated block tells apart, and one of each kind beside every other.
Mvs(mv0, mv1) == [l \in {0, 1} |-> IF l = 0 THEN mv0 ELSE mv1]
PartOf(lists, mv0, mv1) == [lists |-> lists, mv |-> Mvs(mv0, mv1)]
Moving(form, ref, parts) == [form |-> form, ref |-> ref, parts |-> parts, coded |-> {}, t8 |-> FALSE]
Coded(plan, blocks) == [plan EXCEPT !.coded = blocks]
Coded8(plan, slots) == [plan EXCEPT !.coded = slots, !.t8 = TRUE]
SkipMb   == Moving("skip", 0, <<>>)
IntraMb  == Moving("intra", 0, <<>>)
DirectMb == Moving("direct", 0, <<>>)
FromOne(l, ref, mv) == Moving("16x16", ref, <<PartOf({l}, mv, mv)>>)
FromBoth(mv0, mv1) == Moving("16x16", 0, <<PartOf({0, 1}, mv0, mv1)>>)
Halves(form, l1, l2) == Moving(form, 0, <<PartOf(l1, 4, -3), PartOf(l2, 4, 7)>>)
FourMvs(a, b, c, d) ==
  Moving("8x8", 0, <<PartOf({0}, a, 0), PartOf({0}, b, 0), PartOf({0}, c, 0), PartOf({0}, d, 0)>>)
Quarters(a, b, c, d) ==
  Moving("8x8", 0, <<PartOf(a, 1, -2), PartOf(b, 6, 6), PartOf(c, -1, 0), PartOf(d, 3, 9)>>)

\* An anchor of count 8 and a B picture of count 2 between it and its predecessor.
OfMotion(type, plans) ==
  [slice |-> type, poc |-> IF type = "B" THEN 2 ELSE 8, pocs |-> Mvs(0, 8), plans |-> plans,
   units |-> [l \in {0, 1} |-> IF type = "B" THEN (IF l = 0 THEN <<"older">> ELSE <<"anchor">>)
                               ELSE IF l = 0 THEN <<"older", "oldest">> ELSE <<>>]]

PlansP ==
  [a \in 0..5 |->
     CASE a \in {0, 1, 4} -> {SkipMb, IntraMb, Coded(FromOne(0, 0, 5), {6, 13}), Coded8(FromOne(0, 1, 0), {}),
                               FourMvs(0, 5, -6, 1)}
       [] a = 2 -> {SkipMb, IntraMb, Coded8(FromOne(0, 1, 0), {9})}
       [] a = 3 -> {SkipMb, Coded(FourMvs(0, 5, -6, 1), {0, 10})}
       [] a = 5 -> {SkipMb, FourMvs(3, 3, 0, 7)}]
PlansAnchor ==
  [a \in 0..5 |->
     CASE a = 4 -> {IntraMb, FourMvs(0, 1, 5, -6), FromOne(0, 1, 0)}
       [] a \in {0, 3} -> {FromOne(0, 0, 6)}
       [] OTHER -> {FourMvs(1, 0, 5, -6)}]
PlansB ==
  LET AllDirect == Quarters({}, {}, {}, {})
  IN [a \in 0..5 |->
        CASE a = 0 -> {DirectMb, FromBoth(9, 1), IntraMb}
          [] a = 1 -> {Coded8(AllDirect, {5, 15}), FromOne(0, 0, 2), FromOne(1, 0, -5), IntraMb}
          [] a = 2 -> {FromOne(0, 0, 6), FromOne(1, 0, 0), IntraMb}
          [] a = 3 -> {AllDirect, Coded(Halves("8x16", {1}, {0}), {8}), IntraMb}
          [] a = 4 -> {DirectMb, AllDirect, FromOne(0, 0, 1), FromBoth(1, 1), Quarters({0}, {}, {1}, {}),
                       Quarters({}, {0, 1}, {}, {0}), Quarters({1}, {}, {0, 1}, {0})}
                      \cup {Halves(f, a1, a2) : f \in {"16x8", "8x16"}, a1 \in {{0}, {0, 1}}, a2 \in {{1}, {0, 1}}}
          [] a = 5 -> {}]
Filmed(temporal, pictures) == [w |-> 3, h |-> 2, temporal |-> temporal, pictures |-> pictures]
SomeFilms ==
  {Filmed(FALSE, <<OfMotion("P", PlansP)>>)}
  \cup {Filmed(t, <<OfMotion("P", PlansAnchor), OfMotion("B", PlansB)>>) : t \in BOOLEAN}

Movement == INSTANCE Motion WITH Films <- SomeFilms, agreed <- moved

cavlcVars  == <<coded, enc, want, row, addr, meant, dec, ok>>
pairsVars  == <<frame, fields, coder, pair, reader, agreed>>
engineVars == <<start, count, unread, ctx, reg, bins, same>>
syntaxVars == <<element, written, read>>
groupVars  == <<grouped, arriving, walk, owner, alike>>
frameVars  == <<sized, bits, unit, units, stream, open, readBack>>
motionVars == <<film, now, mb, mine, theirs, moved>>

CavlcIdle ==
  coded = 0 /\ enc = 0 /\ want = 0 /\ row = 0 /\ addr = 0 /\ meant = 0 /\ dec = 0 /\ ok = TRUE
PairsIdle  == frame = 0 /\ fields = 0 /\ coder = 0 /\ pair = 0 /\ reader = 0 /\ agreed = TRUE
EngineIdle ==
  start = 0 /\ count = 0 /\ unread = 0 /\ ctx = 0 /\ reg = 0 /\ bins = <<>> /\ same = TRUE
SyntaxIdle == element = 0 /\ written = 0 /\ read = <<>>
GroupsIdle == grouped = 0 /\ arriving = <<>> /\ walk = 0 /\ owner = 0 /\ alike = TRUE
FramingIdle ==
  /\ sized = 0 /\ bits = <<>> /\ unit = 0 /\ units = <<>> /\ stream = <<>> /\ open = <<>>
  /\ readBack = TRUE
MotionIdle == film = 0 /\ now = 0 /\ mb = 0 /\ mine = 0 /\ theirs = 0 /\ moved = TRUE

InitLayers ==
  \/ /\ part = "cavlc" /\ Cavlc!Init
     /\ PairsIdle /\ EngineIdle /\ SyntaxIdle /\ GroupsIdle /\ FramingIdle /\ MotionIdle
  \/ /\ part = "pairs" /\ Mbaff!MbaffInit
     /\ CavlcIdle /\ EngineIdle /\ SyntaxIdle /\ GroupsIdle /\ FramingIdle /\ MotionIdle
  \/ /\ part = "engine" /\ Engine!EngineInit
     /\ CavlcIdle /\ PairsIdle /\ SyntaxIdle /\ GroupsIdle /\ FramingIdle /\ MotionIdle
  \/ /\ part = "syntax" /\ Syntax!SyntaxInit
     /\ CavlcIdle /\ PairsIdle /\ EngineIdle /\ GroupsIdle /\ FramingIdle /\ MotionIdle
  \/ /\ part = "groups" /\ Groups!GroupInit
     /\ CavlcIdle /\ PairsIdle /\ EngineIdle /\ SyntaxIdle /\ FramingIdle /\ MotionIdle
  \/ /\ part = "framing" /\ Framing!FramingInit
     /\ CavlcIdle /\ PairsIdle /\ EngineIdle /\ SyntaxIdle /\ GroupsIdle /\ MotionIdle
  \/ /\ part = "motion" /\ Movement!MotionInit
     /\ CavlcIdle /\ PairsIdle /\ EngineIdle /\ SyntaxIdle /\ GroupsIdle /\ FramingIdle

CavlcStep ==
  part = "cavlc" /\ Cavlc!Next
  /\ UNCHANGED <<part, pairsVars, engineVars, syntaxVars, groupVars, frameVars, motionVars>>
PairsStep ==
  part = "pairs" /\ Mbaff!MbaffNext
  /\ UNCHANGED <<part, cavlcVars, engineVars, syntaxVars, groupVars, frameVars, motionVars>>
EngineStep ==
  part = "engine" /\ Engine!EngineNext
  /\ UNCHANGED <<part, cavlcVars, pairsVars, syntaxVars, groupVars, frameVars, motionVars>>
SyntaxStep ==
  part = "syntax" /\ Syntax!SyntaxNext
  /\ UNCHANGED <<part, cavlcVars, pairsVars, engineVars, groupVars, frameVars, motionVars>>
GroupsStep ==
  part = "groups" /\ Groups!GroupNext
  /\ UNCHANGED <<part, cavlcVars, pairsVars, engineVars, syntaxVars, frameVars, motionVars>>
FramingStep ==
  part = "framing" /\ Framing!FramingNext
  /\ UNCHANGED <<part, cavlcVars, pairsVars, engineVars, syntaxVars, groupVars, motionVars>>
MotionStep ==
  part = "motion" /\ Movement!MotionNext
  /\ UNCHANGED <<part, cavlcVars, pairsVars, engineVars, syntaxVars, groupVars, frameVars>>
NextLayers ==
  CavlcStep \/ PairsStep \/ EngineStep \/ SyntaxStep \/ GroupsStep \/ FramingStep \/ MotionStep

SpecLayers ==
  InitLayers /\ [][NextLayers]_<<part, cavlcVars, pairsVars, engineVars, syntaxVars, groupVars, frameVars, motionVars>>

\* The properties of each part, where it runs: CAVLC slices and the pairs of an
\* MBAFF frame, with their flags, are read as meant;
LayerReadBack ==
  /\ part = "cavlc" => Cavlc!SliceReadBack
  /\ part = "pairs" => Mbaff!PairsReadBack

\* the neighbouring locations of a pair are the samples beside it.
NeighboursAreSpatial == part = "pairs" => Mbaff!NeighboursAreSpatial

\* CABAC bins come out of the bits as they went in, and syntax elements out of
\* the bins: what the encoder writes is what the decoder reads.
CabacReadBack ==
  /\ part = "engine" => Engine!BinsReadBack
  /\ part = "syntax" => Syntax!ElementsReadBack

\* Slices of any group and in any order are decoded at the addresses and with the
\* neighbours they were coded with, and together make up the picture;
SlicesReadBack == part = "groups" => Groups!SlicesReadBack

\* slice group maps are those their parameters describe.
GroupsAsDefined == part = "groups" => Groups!GroupsAsDefined

\* NAL units come out of the byte stream with their headers and elements, whatever
\* zeros they hold, and more_rbsp_data tells where they end.
UnitsReadBack == part = "framing" => Framing!UnitsReadBack

\* The decoder derives the motion the encoder coded, and both filter alike.
MotionReadBack == part = "motion" => Movement!MotionReadBack /\ Movement!StrengthsReadBack
=====================================================================================
