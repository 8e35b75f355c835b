------------------------------ MODULE DisplayOrder ------------------------------
(***************************************************************************)
(* What the output side of the decoder promises its caller                 *)
(* (src/src/h264_decoder.rs, module documentation: "frames are emitted in  *)
(* display (POC) order"): the frames of a stream are handed out one by     *)
(* one, each once, in the order of their coded video sequences and, within *)
(* a sequence, of their picture order counts.  When a frame is handed out  *)
(* is left open: a decoder may hold frames back for as long as it likes.   *)
(***************************************************************************)
EXTENDS Integers, Sequences

VARIABLES
  decoded,   \* the frames decoded so far
  shown      \* the frames handed out, in order

\* A frame names its coded video sequence and its picture order count.
Earlier(e, g) == e.cvs < g.cvs \/ (e.cvs = g.cvs /\ e.poc < g.poc)

Waiting == {e \in decoded : \A i \in DOMAIN shown : shown[i] # e}

Init == decoded = {} /\ shown = <<>>

\* No frame arrives whose turn has passed.
Decode ==
  /\ UNCHANGED shown
  /\ \E e \in decoded' :
       /\ e \notin decoded
       /\ decoded' = decoded \cup {e}
       /\ \A i \in DOMAIN shown : Earlier(shown[i], e)

Show ==
  /\ UNCHANGED decoded
  /\ \E e \in Waiting :
       /\ \A g \in Waiting : g = e \/ Earlier(e, g)
       /\ shown' = Append(shown, e)

\* The caller gives the stream up.
Restart == decoded' = {} /\ shown' = <<>>

Next == Decode \/ Show \/ Restart

Spec == Init /\ [][Next]_<<decoded, shown>>
=============================================================================
