----------------------------- MODULE MCOutputStreams -----------------------------
(* Output under two kinds of stream.  "any": the constants of the               *)
(* configuration, conforming or not.  "ordered": frames and pairs reordered by  *)
(* less than the queue's capacity.                                              *)
EXTENDS MCOutput

VARIABLE stream    \* the kind of stream being decoded

Ordered == INSTANCE Output WITH
  Caps <- {1, 2}, FrameNums <- {0}, Pocs <- {0, 4, 8, 12},
  Structures <- {"frame", "top", "bottom"}, Conforming <- TRUE, Reorder <- 0,
  LoneFields <- FALSE, MaxPictures <- 5

InitStreams == Init /\ stream \in {"any", "ordered"}

AnyStep     == stream = "any" /\ Next /\ UNCHANGED stream
OrderedStep == stream = "ordered" /\ Ordered!Next /\ UNCHANGED stream

NextStreams == AnyStep \/ OrderedStep

SpecStreams == InitStreams /\ [][NextStreams]_<<vars, stream>> /\ Fairness

\* The output side implements DisplayOrder for the ordered stream; of the other
\* one the abstract specification is shown nothing.
Displayed == INSTANCE DisplayOrder WITH
  decoded <- IF stream = "ordered" THEN Pushed ELSE {},
  shown   <- IF stream = "ordered" THEN shown ELSE <<>>

OrderedDisplays == Displayed!Spec

\* AllDelivered of module Output, for the caller that decodes nothing after
\* flush: every frame is handed out, a trailing unpaired field included.
OrderedAllDelivered ==
  stream = "ordered" /\ eof ~> phase = "idle" /\ queue = {} /\ ready = <<>> /\ pending = None
=============================================================================
