---------------------------------- MODULE MCPoc ----------------------------------
(* Small instances of Poc for TLC: one stream for each thing that can happen *)
(* to a count.                                                               *)
EXTENDS Poc

Mixed == {"frame", "top", "bottom"}

Frames(type) ==
  [type |-> type, nonRefOffset |-> 0, topToBottom |-> 0, refOffsets |-> <<>>,
   gaps |-> FALSE, structures |-> {"frame"}, mmco5 |-> {}, deltas |-> {0},
   drops |-> FALSE, maxOrder |-> 0, maxAbs |-> 14]

\* Fields and frames, operation 5, deltas: LSB wraps in both directions.
Lsbs == [Frames(0) EXCEPT !.structures = Mixed, !.mmco5 = {"frame", "top"},
                          !.deltas = {-1, 0, 2}, !.maxOrder = 10, !.maxAbs = 5]

\* Counts up to the largest integers and beyond.
Large == [Frames(0) EXCEPT !.deltas = {0, 1}, !.maxOrder = IntMax + 2, !.maxAbs = 2]

\* Dropped pictures and what the frame_num gate then refuses.
Lossy == [Frames(0) EXCEPT !.mmco5 = {"frame"}, !.drops = TRUE, !.maxOrder = 2, !.maxAbs = 4]

\* Cycles of three offsets, frame_num wraps, operation 5.
Cycles == [Frames(1) EXCEPT !.structures = Mixed, !.mmco5 = Mixed, !.deltas = {0, 1}, !.maxAbs = 10,
                            !.nonRefOffset = -2, !.topToBottom = 1, !.refOffsets = <<2, 5, 1>>]

Counting == [Frames(2) EXCEPT !.structures = Mixed, !.mmco5 = Mixed]

\* Gaps of up to a frame_num cycle, dropped pictures.
Gaps == [Frames(2) EXCEPT !.gaps = TRUE, !.drops = TRUE]

\* A bottom field with operation 5.
BottomReset == [Frames(0) EXCEPT !.structures = Mixed, !.mmco5 = {"bottom"},
                                 !.maxOrder = 8, !.maxAbs = 4]

\* Counts that operation 5 takes out of the integers: the fields of a frame up
\* to the width of the integers apart.
Spread == [Frames(1) EXCEPT !.structures = {"frame", "top"}, !.mmco5 = {"frame", "top"},
                            !.deltas = {-1, 1, -IntMax - 1}, !.topToBottom = IntMax, !.maxAbs = 1]

AllStreams   == {Lsbs, Large, Lossy, Cycles, Counting, Gaps, Spread}
BottomResets == {BottomReset}
=============================================================================
