------------------------------ MODULE MCDpbStreams ------------------------------
(* Dpb under three kinds of stream.  "any": the constants of the configuration, *)
(* streams conforming or not.  "pairs": frames and fields, both marking modes,  *)
(* two reference frames, no gaps.  "gaps": frames only, sliding window only,    *)
(* three reference frames, gaps in frame_num allowed, and enough pictures to    *)
(* wrap frame_num twice.                                                        *)
EXTENDS MCDpb

VARIABLE stream    \* the kind of stream being decoded

Pairs == INSTANCE Dpb WITH
  MaxFrameNum <- 5, MaxNumRefFrames <- 2, GapsAllowed <- FALSE, Diffs <- 0 .. 7,
  LtIdx <- {0}, Structures <- {"frame", "top", "bottom"}, Modes <- {TRUE, FALSE},
  Conforming <- TRUE, MaxPictures <- 5

Gaps == INSTANCE Dpb WITH
  MaxFrameNum <- 5, MaxNumRefFrames <- 3, GapsAllowed <- TRUE, Diffs <- 0 .. 7,
  LtIdx <- {0}, Structures <- {"frame"}, Modes <- {FALSE},
  Conforming <- TRUE, MaxPictures <- 12

InitStreams == Init /\ stream \in {"any", "pairs", "gaps"}

AnyStep   == stream = "any" /\ Next /\ UNCHANGED stream
PairsStep == stream = "pairs" /\ Pairs!Next /\ UNCHANGED stream
GapsStep  == stream = "gaps" /\ Gaps!Next /\ UNCHANGED stream

NextStreams == AnyStep \/ PairsStep \/ GapsStep

SpecStreams == InitStreams /\ [][NextStreams]_<<vars, stream>>

\* The properties of module Dpb that need a conforming stream.  In the order of
\* that module: the window never overflows,
ConformingWithinWindow ==
  /\ stream = "pairs" => Pairs!WithinWindow
  /\ stream = "gaps" => Gaps!WithinWindow

\* ref_units groups the fields by the frame they were coded in,
UnitsAreFramesOfPairs == stream = "pairs" => Pairs!UnitsAreFrames

\* evict_ltfi leaves a LongTermFrameIdx to one frame,
LongTermIdxUniqueOfPairs == stream = "pairs" => Pairs!LongTermIdxUnique

\* sliding_window_marking spares the first field of a pair, and
PairSurvives ==
  [][stream = "pairs" /\ phase = "open" /\ phase' = "idle" /\ pic.ref /\ ~ pic.adaptive
       /\ Pairs!IsSecondField(pic)
       => \A k \in DOMAIN dpb : dpb[k].frame = first.key => k \in DOMAIN dpb']_vars

\* the sliding window holds the newest frames, coded or filled in.
WindowIsNewestInGaps == stream = "gaps" => Gaps!WindowIsNewest
=============================================================================
