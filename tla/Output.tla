--------------------------------- MODULE Output ---------------------------------
(***************************************************************************)
(* The output side of the decoder: the bumping queue of                    *)
(* src/src/dpb_output.rs, and what src/src/h264_decoder.rs does around it: *)
(* field pairing, draining at an IDR picture or operation 5, resizing,     *)
(* receive_frame, flush and reset.                                         *)
(*                                                                         *)
(* The queue is a Vec searched for the least (pic_order_cnt, frame_num),   *)
(* the earliest inserted of two that tie; it is modelled as the set of its *)
(* entries, each with the number of its insertion.  DpbOutput::flush sorts *)
(* by the same key, stably, so that draining is repeated bumping: one step *)
(* for each entry.                                                         *)
(*                                                                         *)
(* The decoder is sequential: finalizing a picture runs to its end (phase  *)
(* "idle") before the caller can call again.                               *)
(***************************************************************************)
EXTENDS Integers, Sequences, FiniteSets

CONSTANTS
  Caps,          \* capacities output_dpb_sizing derives from the stream's SPSs
  FrameNums,     \* frame_num values
  Pocs,          \* picture order counts of frames and of first fields
  Structures,    \* picture structures a stream codes
  Conforming,    \* TRUE: only streams of 7.4.1.2.4 and callers that stop at EOF
  Reorder,       \* how far frames may be reordered, relative to the capacity
  LoneFields,    \* TRUE: a frame may follow an unpaired field
  MaxPictures    \* bound: pictures finalized before the stream ends

ASSUME OutputAssumption ==
  /\ Caps \subseteq Nat \ {0}
  /\ FrameNums \subseteq Nat
  /\ Pocs \subseteq Int
  /\ Structures \subseteq {"frame", "top", "bottom"}
  /\ Conforming \in BOOLEAN
  /\ Reorder \in Int
  /\ LoneFields \in BOOLEAN
  /\ MaxPictures \in Nat

VARIABLES
  queue,     \* output_dpb.entries
  cap,       \* output_dpb.max_num_reorder_frames
  ready,     \* the frames bumped but not fetched yet
  pending,   \* pending_field
  eof,       \* eof
  phase,     \* "idle", "drain", "place" (finalizing) or "fetch" (receiving)
  pic,       \* the picture being finalized
  pics,      \* history: pictures finalized since the last reset
  pushed,    \* history: frames pushed since the last reset
  cvs,       \* history: coded video sequences begun
  coded,     \* history: the frames' POCs in the current one
  first,     \* the stream's view: the field that may still be paired
  shown      \* history: what receive_frame returned

vars == <<queue, cap, ready, pending, eof, phase, pic,
          pics, pushed, cvs, coded, first, shown>>

Opposite(p) == IF p = "top" THEN "bottom" ELSE "top"

None == [structure |-> "frame", frameNum |-> 0, poc |-> 0, idr |-> FALSE,
         mmco5 |-> FALSE, cap |-> 1, n |-> 0, frame |-> -1, cvs |-> 0]

(***************************************************************************)
(* The stream.  A picture carries its number n, the number of the first    *)
(* picture of its frame, and its coded video sequence; the code sees none  *)
(* of the three.                                                           *)
(***************************************************************************)
StartsSequence(p) == p.idr \/ p.mmco5

\* 3.30: the second field of a frame follows the first one immediately.
IsSecondField(p) ==
  /\ first # None
  /\ ~ StartsSequence(p)
  /\ p.structure = Opposite(first.structure)
  /\ p.frameNum = first.frameNum

OutputPoc(p) == IF p.mmco5 THEN 0 ELSE p.poc

StreamPocs(second) == IF second THEN {first.poc - 1, first.poc + 1} ELSE Pocs

Later(poc) == {q \in coded : q > poc}

\* Fields of a frame are neighbours in output order.
Neighbours(p) == \A q \in coded \ {first.poc} : q # p.poc /\ (q < p.poc <=> q < first.poc)

\* A frame has the lesser of its fields' POCs (eq. 8-1).
Lesser(x, y) == IF x < y THEN x ELSE y

CodedWith(p) ==
  IF StartsSequence(p) THEN {OutputPoc(p)}
  ELSE IF IsSecondField(p) THEN (coded \ {first.poc}) \cup {Lesser(first.poc, p.poc)}
  ELSE coded \cup {p.poc}

StreamMayCode(p) ==
  Conforming =>
    /\ ~ eof
    /\ pics = 0 => p.idr
    /\ p.cap # cap => p.idr
    /\ StartsSequence(p) => p.poc = 0
    /\ ~ (StartsSequence(p) \/ IsSecondField(p)) =>
         p.poc \notin coded /\ Cardinality(Later(p.poc)) < p.cap + Reorder
    /\ IsSecondField(p) => Neighbours(p)
    /\ first # None /\ p.structure = "frame" => LoneFields \/ StartsSequence(p)

Headers ==
  {p \in [structure : Structures, frameNum : FrameNums, poc : StreamPocs(TRUE) \cup Pocs,
          idr : BOOLEAN, mmco5 : BOOLEAN, cap : Caps, n : {pics}, frame : {pics, first.frame},
          cvs : {cvs, cvs + 1}] :
     /\ ~ (p.idr /\ p.mmco5)
     /\ p.poc \in StreamPocs(IsSecondField(p))
     /\ p.frame = IF IsSecondField(p) THEN first.frame ELSE pics
     /\ p.cvs = IF StartsSequence(p) THEN cvs + 1 ELSE cvs}

-----------------------------------------------------------------------------
(***************************************************************************)
(* The queue (DpbOutput).                                                  *)
(***************************************************************************)

\* Ties broken by insertion order: Vec::remove and a stable sort keep it.
Precedes(e, g) ==
  \/ e.poc < g.poc
  \/ e.poc = g.poc /\ e.frameNum < g.frameNum
  \/ e.poc = g.poc /\ e.frameNum = g.frameNum /\ e.n <= g.n

\* Entries bumped in decoding order.
EarliestPushed(q) == CHOOSE e \in q : \A g \in q : e.n <= g.n

Lowest(q) == CHOOSE e \in q : \A g \in q : Precedes(e, g)

Overfull(q, c) == Cardinality(q) > c

\* The queue allowed one entry more than its capacity.
FullLate(q, c) == Cardinality(q) > c

Full(q, c) == Cardinality(q) >= c

\* bump_lowest, its result appended to ready.
Bump ==
  /\ queue' = queue \ {Lowest(queue)}
  /\ ready' = Append(ready, Lowest(queue))

\* DpbOutput::push into a queue of capacity c.
Push(e, c) ==
  /\ pushed' = pushed + 1
  /\ IF Full(queue, c)
     THEN /\ queue' = (queue \ {Lowest(queue)}) \cup {e}
          /\ ready' = Append(ready, Lowest(queue))
     ELSE queue' = queue \cup {e} /\ UNCHANGED ready

NoPush == UNCHANGED <<queue, ready, pushed>>

\* The entries made of one picture, and of a pair of fields.
Alone(p) ==
  [poc |-> OutputPoc(p), frameNum |-> p.frameNum, n |-> pushed,
   sources |-> {[n |-> p.n, frame |-> p.frame]}, cvs |-> p.cvs]

Pair(p, q) ==
  [Alone(q) EXCEPT !.poc = Lesser(OutputPoc(p), OutputPoc(q)),
                   !.sources = @ \cup Alone(p).sources]

-----------------------------------------------------------------------------
Init ==
  /\ queue = {}
  /\ cap = 16
  /\ ready = <<>>
  /\ pending = None
  /\ eof = FALSE
  /\ phase = "idle"
  /\ pic = None
  /\ pics = 0
  /\ pushed = 0
  /\ cvs = 0
  /\ coded = {}
  /\ first = None
  /\ shown = <<>>

\* A pending field lost at a sequence boundary.
PendingFieldLost == NoPush /\ pending' = None

\* flush_pending_field
FlushPendingField ==
  IF pending = None THEN NoPush /\ UNCHANGED pending
  ELSE Push(Alone(pending), cap) /\ pending' = None

\* The boundaries at which prior frames are drained: IDR pictures only.
DrainsAtIdrOnly(p) == p.idr

DrainsPrior(p) == p.idr \/ p.mmco5

\* finalize_in_progress_picture reaches its output half.
BeginOutput(p) ==
  /\ phase = "idle"
  /\ pics < MaxPictures
  /\ pic' = p
  /\ pics' = pics + 1
  /\ cvs' = p.cvs
  /\ coded' = CodedWith(p)
  /\ first' = IF p.structure # "frame" /\ ~ IsSecondField(p) THEN p ELSE None
  /\ IF DrainsPrior(p)
     THEN FlushPendingField /\ phase' = "drain"
     ELSE NoPush /\ phase' = "place" /\ UNCHANGED pending
  /\ UNCHANGED <<cap, eof, shown>>

\* for drained in output_dpb.flush()
Drain ==
  /\ phase = "drain"
  /\ queue # {}
  /\ Bump
  /\ UNCHANGED <<cap, pending, eof, phase, pic, pics, pushed, cvs, coded, first, shown>>

Drained ==
  /\ phase = "drain"
  /\ queue = {}
  /\ phase' = "place"
  /\ UNCHANGED <<queue, cap, ready, pending, eof, pic, pics, pushed, cvs, coded, first, shown>>

\* ensure_output_dpb_sized: refilling a smaller queue in POC order bumps what
\* exceeds its capacity.
Shrink ==
  /\ phase = "place"
  /\ Overfull(queue, pic.cap)
  /\ Bump
  /\ UNCHANGED <<cap, pending, eof, phase, pic, pics, pushed, cvs, coded, first, shown>>

Complementary(f, p) == f.structure # p.structure /\ f.frameNum = p.frameNum

\* An orphaned field overwritten by the next one.
OrphanLost(p) ==
  IF pending # None /\ Complementary(pending, p)
  THEN Push(Pair(pending, p), p.cap) /\ pending' = None
  ELSE NoPush /\ pending' = p

\* handle_field_output
PlaceField(p) ==
  IF pending # None /\ Complementary(pending, p)
  THEN Push(Pair(pending, p), p.cap) /\ pending' = None
  ELSE /\ pending' = p
       /\ IF pending = None THEN NoPush ELSE Push(Alone(pending), p.cap)

\* The end of finalize_in_progress_picture.
Place ==
  /\ phase = "place"
  /\ ~ Overfull(queue, pic.cap)
  /\ cap' = pic.cap
  /\ IF pic.structure = "frame"
     THEN Push(Alone(pic), pic.cap) /\ UNCHANGED pending
     ELSE PlaceField(pic)
  /\ phase' = "idle"
  /\ pic' = None
  /\ UNCHANGED <<eof, pics, cvs, coded, first, shown>>

-----------------------------------------------------------------------------
\* receive_frame: a bumped frame first.  Its second source, pop_ready, yields
\* only when the queue is over capacity.
ReceiveFrame ==
  /\ phase = "idle"
  /\ ready # <<>> \/ Overfull(queue, cap)
  /\ IF ready # <<>>
     THEN /\ ready' = Tail(ready)
          /\ shown' = Append(shown, Head(ready))
          /\ UNCHANGED queue
     ELSE /\ queue' = queue \ {Lowest(queue)}
          /\ shown' = Append(shown, Lowest(queue))
          /\ UNCHANGED ready
  /\ UNCHANGED <<cap, pending, eof, phase, pic, pics, pushed, cvs, coded, first>>

\* At EOF the queue is drained into ready, whose front is returned.
ReceiveAtEof ==
  /\ phase = "idle"
  /\ ready = <<>> /\ ~ Overfull(queue, cap)
  /\ eof /\ queue # {}
  /\ phase' = "fetch"
  /\ UNCHANGED <<queue, cap, ready, pending, eof, pic, pics, pushed, cvs, coded, first, shown>>

FetchStep ==
  /\ phase = "fetch"
  /\ IF queue # {}
     THEN Bump /\ UNCHANGED <<phase, shown>>
     ELSE /\ phase' = "idle"
          /\ ready' = Tail(ready)
          /\ shown' = Append(shown, Head(ready))
          /\ UNCHANGED queue
  /\ UNCHANGED <<cap, pending, eof, pic, pics, pushed, cvs, coded, first>>

\* flush without the trailing unpaired field.
FlushKeepsField ==
  /\ phase = "idle"
  /\ eof' = TRUE
  /\ first' = None
  /\ UNCHANGED <<queue, cap, ready, pending, phase, pic, pics, pushed, cvs, coded, shown>>

\* flush: the last picture has been finalized by then.
Flush ==
  /\ phase = "idle"
  /\ FlushPendingField
  /\ eof' = TRUE
  /\ first' = None
  /\ UNCHANGED <<cap, phase, pic, pics, cvs, coded, shown>>

\* reset discards everything but the capacity of the queue.
Reset ==
  /\ phase = "idle"
  /\ queue' = {} /\ ready' = <<>> /\ pending' = None /\ eof' = FALSE
  /\ pics' = 0 /\ pushed' = 0 /\ cvs' = 0 /\ coded' = {} /\ first' = None
  /\ shown' = <<>>
  /\ UNCHANGED <<cap, phase, pic>>

Next ==
  \/ \E p \in Headers : StreamMayCode(p) /\ BeginOutput(p)
  \/ Drain
  \/ Drained
  \/ Shrink
  \/ Place
  \/ ReceiveFrame
  \/ ReceiveAtEof
  \/ FetchStep
  \/ Flush
  \/ Reset

Spec == Init /\ [][Next]_vars

\* The decoder finishes each call it has begun, and the caller keeps polling
\* receive_frame, as the Decoder contract asks of it.
Fairness == WF_vars(Drain \/ Drained \/ Shrink \/ Place \/ FetchStep)
            /\ WF_vars(ReceiveFrame \/ ReceiveAtEof)

FairSpec == Spec /\ Fairness

-----------------------------------------------------------------------------
(***************************************************************************)
(* Correctness.                                                            *)
(***************************************************************************)
Emitted == {ready[i] : i \in DOMAIN ready} \cup {shown[i] : i \in DOMAIN shown}
Pushed  == queue \cup Emitted

Picture == [structure : Structures, frameNum : FrameNums, poc : Int, idr : BOOLEAN,
            mmco5 : BOOLEAN, cap : Caps, n : Nat, frame : Nat, cvs : Nat]

\* Type invariant.
TypeOK ==
  /\ \A e \in Pushed :
       /\ e.poc \in Int /\ e.frameNum \in FrameNums /\ e.n \in 0 .. pushed - 1
       /\ e.sources # {} /\ e.sources \subseteq [n : 0 .. pics - 1, frame : 0 .. pics - 1]
       /\ e.cvs \in 0 .. cvs
  /\ cap \in Caps \cup {16}
  /\ pending = None \/ pending \in Picture
  /\ pic = None \/ pic \in Picture
  /\ first = None \/ first \in Picture
  /\ eof \in BOOLEAN
  /\ phase \in {"idle", "drain", "place", "fetch"}
  /\ {pics, pushed, cvs} \subseteq Nat
  /\ coded \subseteq Int

\* Between calls the queue is never over capacity, whatever resizing went
\* before (DpbOutput: "This module never holds more than max_num_reorder_frames
\* pictures anyway"), so that pop_ready has nothing to yield.
QueueBounded == phase = "idle" => ~ Overfull(queue, cap)

\* Every picture finalized since the last reset is in exactly one place: being
\* placed, waiting for its other field, queued, bumped or handed out; and no
\* frame is handed out twice.
Waiting == {p \in {pending, pic} : p # None}

EachFrameOnce ==
  /\ \A i \in 0 .. pics - 1 :
       Cardinality({e \in Pushed : \E s \in e.sources : s.n = i})
         + Cardinality({p \in Waiting : p.n = i}) = 1
  /\ Cardinality(Pushed) = Cardinality(queue) + Len(ready) + Len(shown)

\* A frame is made of the fields the stream coded for it, and no two frames
\* handed out share fields of one (8.2.1, the pairing of handle_field_output).
PairsAreFrames ==
  \A e, g \in Pushed : \A s \in e.sources, t \in g.sources :
    s.frame = t.frame <=> e = g

\* A coded video sequence is handed out completely before the next one, even
\* if it ends with an unpaired field (C.4: the drain at IDR and operation 5).
SequencesInOrder ==
  LET out == shown \o ready
  IN  /\ \A i, j \in DOMAIN out : i < j => out[i].cvs <= out[j].cvs
      /\ \A i \in DOMAIN out, e \in queue : out[i].cvs <= e.cvs

\* "Frames are emitted in display (POC) order": the frames handed out follow
\* each other in output order.
Order == INSTANCE DisplayOrder WITH decoded <- Pushed

ShownInOrder == \A i, j \in DOMAIN shown : i < j => Order!Earlier(shown[i], shown[j])

\* The output side implements DisplayOrder for streams whose frames are
\* reordered by less than the capacity of the queue.
DisplaysInOrder == Order!Spec

\* After flush every frame is handed out, a trailing unpaired field included.
AllDelivered ==
  eof ~> phase = "idle" /\ queue = {} /\ ready = <<>> /\ pending = None
=============================================================================
