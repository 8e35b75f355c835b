--------------------------- MODULE MCAssemblyStreams ---------------------------
(* Assembly under two kinds of stream.  "faultless": the constants of the       *)
(* configuration, every header element, any slice order and data partitioning.  *)
(* "faulty": two fields and an IDR picture, in order and unpartitioned, with    *)
(* failing and missing slices, unparsable NAL units and resets.                 *)
EXTENDS MCAssembly

VARIABLE stream    \* the kind of stream being decoded

Faults == INSTANCE Assembly WITH
  Headers <- FieldsAndIdr, Mbs <- 2, Aso <- FALSE, Partitions <- FALSE,
  Faulty <- TRUE, Resets <- TRUE, MaxPictures <- 3, MaxPackets <- 3

InitStreams == Init /\ stream \in {"faultless", "faulty"}

FaultlessStep == stream = "faultless" /\ Next /\ UNCHANGED stream
FaultyStep    == stream = "faulty" /\ Faults!Next /\ UNCHANGED stream

NextStreams == FaultlessStep \/ FaultyStep

SpecStreams == InitStreams /\ [][NextStreams]_<<vars, stream>>

\* OnePictureEach of module Assembly, for the stream that loses nothing: the
\* slices of one closed picture are of one coded picture.  (After a loss two
\* pictures whose headers agree may be taken for one, h264_decoder.rs:910.)
OnePictureEachWithoutLoss == stream = "faultless" => OnePictureEach
=============================================================================
