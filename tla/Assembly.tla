-------------------------------- MODULE Assembly --------------------------------
(***************************************************************************)
(* How H264CodecDecoder (src/src/h264_decoder.rs) assembles coded pictures *)
(* from the events of its packets: detecting the first slice of a picture, *)
(* holding a data-partitioned slice until its partitions have arrived,     *)
(* reconstructing slices into the picture in progress, closing or dropping *)
(* it, stamping it with a packet's pts, flush and reset.                   *)
(*                                                                         *)
(* The stream is conforming: it codes each picture completely, in slices,  *)
(* and two pictures in a row differ in an element that 7.4.1.2.4 compares. *)
(* What the decoder makes of a slice is open, since a slice may be damaged *)
(* or use a feature the decoder does not support.  A slice is one of the   *)
(* packet's events; the caller's calls run one after the other.            *)
(*                                                                         *)
(* What a closed picture does to the DPB and the output queue is modelled  *)
(* in Dpb and Output; refusing a picture (its frame_num or its order       *)
(* count, see Dpb and Poc) is a choice here.                               *)
(***************************************************************************)
EXTENDS Integers, Sequences, FiniteSets

CONSTANTS
  Headers,       \* the elements of a slice header that tell pictures apart
  Mbs,           \* macroblocks of a picture
  Aso,           \* TRUE: a profile with arbitrary slice order
  Partitions,    \* TRUE: slices may be data-partitioned
  Faulty,        \* TRUE: slices may fail and NAL units may not parse
  Resets,        \* TRUE: the caller may reset the decoder
  MaxPictures,   \* bound: pictures coded
  MaxPackets     \* bound: packets sent

ASSUME AssemblyAssumption ==
  /\ Mbs \in Nat \ {0}
  /\ {Aso, Partitions, Faulty, Resets} \subseteq BOOLEAN
  /\ MaxPictures \in Nat /\ MaxPackets \in Nat
  /\ \A h \in Headers : h.idr \in BOOLEAN

VARIABLES
  pendingPts,   \* pending_pts
  pendingDp,    \* pending_dp
  inProgress,   \* in_progress
  phase,        \* "call", "nal", "pending", "event", "lost" or "end"
  ev,           \* the event handle_event is working on
  done,         \* history: the pictures closed and not dropped
  packet,       \* history: number of the last packet
  coding,       \* stream: the picture being coded
  failed,       \* history: pictures of which a slice failed or never arrived
  lastReset     \* history: the first picture coded after the last reset

vars == <<pendingPts, pendingDp, inProgress, phase, ev, done, packet, coding,
          failed, lastReset>>

All == 0 .. Mbs - 1

NoPts     == 0           \* packets, and so their pts, are numbered from 1
NoEvent   == [kind |-> "none"]
NoSlice   == [pic |-> 0]
NoHeader  == [frameNum |-> -1, pps |-> 0, structure |-> "frame", ref |-> FALSE,
              order |-> 0, idr |-> FALSE, idrId |-> 0]
NoPicture == [h |-> NoHeader, pts |-> -1]

MinOf(S) == CHOOSE x \in S : \A y \in S : x <= y

-----------------------------------------------------------------------------
(***************************************************************************)
(* The stream.  open is the partitioned slice whose partitions B and C may *)
(* follow; a slice is identified within its picture (slice_id) by its      *)
(* first macroblock.                                                       *)
(***************************************************************************)
Runs(left) == {r \in {a .. b : a, b \in All} : r # {} /\ r \subseteq left}

NextRuns(left) == IF Aso THEN Runs(left) ELSE {r \in Runs(left) : MinOf(r) = MinOf(left)}

Slice(kind, pic, h, mbs) ==
  [kind |-> kind, pic |-> pic, h |-> h, mbs |-> mbs, id |-> MinOf(mbs),
   packet |-> packet, b |-> NoSlice, c |-> NoSlice]

Kinds(h) == {"slice"} \cup IF Partitions /\ ~ h.idr THEN {"A"} ELSE {}

NoOpen == [coding EXCEPT !.open = NoSlice]

\* One slice of picture pic, of which left is still to be coded.
SliceNals(pic, h, left) ==
  {[e      |-> Slice(t[1], pic, h, t[2]),
    coding |-> [h |-> h, pic |-> pic, left |-> left \ t[2],
                open |-> IF t[1] = "A" THEN [pic |-> pic, id |-> MinOf(t[2])] ELSE NoSlice]] :
     t \in Kinds(h) \X NextRuns(left)}

Part(kind) == [kind |-> kind, pic |-> coding.open.pic, id |-> coding.open.id]

\* What the stream may code next: the event it would become, and the state of
\* the stream after it.
Nals ==
  (IF coding.left # {} THEN SliceNals(coding.pic, coding.h, coding.left)
   ELSE IF coding.pic < MaxPictures
   THEN UNION {SliceNals(coding.pic + 1, h, All) : h \in Headers \ {coding.h}}
   ELSE {})
  \cup (IF coding.open = NoSlice THEN {}
        ELSE {[e |-> Part("B"), coding |-> coding], [e |-> Part("C"), coding |-> NoOpen]})
  \cup (IF coding.left # {} \/ coding.pic = 0 THEN {}
        ELSE {[e |-> [kind |-> "boundary"], coding |-> NoOpen],
              [e |-> Slice("redundant", coding.pic, coding.h, All), coding |-> NoOpen]})
  \cup {[e |-> [kind |-> "other"], coding |-> NoOpen]}

-----------------------------------------------------------------------------
(***************************************************************************)
(* Pictures.                                                               *)
(***************************************************************************)

\* A comparison that leaves out which field of a frame a slice belongs to.
StartsNewPictureAnyParity(s) ==
  \/ inProgress = NoPicture
  \/ \E f \in {"frameNum", "pps", "ref", "order", "idr"} : inProgress.h[f] # s.h[f]
  \/ s.h.idr /\ inProgress.h.idrId # s.h.idrId

\* is_first_vcl_of_new_picture; order stands for the order count elements.
StartsNewPicture(s) ==
  \/ inProgress = NoPicture
  \/ \E f \in {"frameNum", "pps", "structure", "ref", "order", "idr"} :
       inProgress.h[f] # s.h[f]
  \/ s.h.idr /\ inProgress.h.idrId # s.h.idrId

\* A picture taken as complete once a slice of it succeeded.
CompleteIfSucceeded(p) == p.succeeded

Complete(p) == p.succeeded /\ p.available = All

\* finalize_in_progress_picture: take it, drop it or pass it on.
Finalized ==
  IF inProgress # NoPicture /\ Complete(inProgress) THEN Append(done, inProgress) ELSE done

\* parse_slice_data and reconstruct_slice: everything, or the macroblocks
\* before one that fails.  An I_NxN macroblock is marked available before its
\* blocks are reconstructed, and stays so when one of them fails.
Outcomes(s) ==
  {[ok |-> TRUE, painted |-> s.mbs, marked |-> s.mbs]}
    \cup IF ~ Faulty THEN {}
         ELSE UNION {LET before == {m \in s.mbs : m < k}
                     IN  {[ok |-> FALSE, painted |-> before, marked |-> before],
                          [ok |-> FALSE, painted |-> before, marked |-> before \cup {k}]} :
                     k \in s.mbs}

With(p, s, o) ==
  [p EXCEPT !.available = @ \cup o.marked,
            !.painted   = @ \cup o.painted,
            !.succeeded = @ \/ o.ok,
            !.slices    = @ \cup {s}]

\* The pts left for the next picture too.
PtsKept == pendingPts

\* pending_pts.take()
PtsTaken == NoPts

NewPicture(s) ==
  [h |-> s.h, pts |-> pendingPts, available |-> {}, painted |-> {},
   succeeded |-> FALSE, slices |-> {}]

Note(s, ok) == failed' = IF ok THEN failed ELSE failed \cup {s.pic}

\* An opening slice must start the picture unless slices may be reordered;
\* frame_num and order count may be refused as well.
MayRefuse(s) == Faulty \/ (MinOf(s.mbs) # 0 /\ ~ Aso)
MayOpen(s)   == MinOf(s.mbs) = 0 \/ Aso

\* handle_slice_with_dp, returning Ok when ok.
DecodeSlice(s, ok) ==
  \/ /\ s.kind = "redundant"
     /\ ok
     /\ UNCHANGED <<inProgress, done, pendingPts, failed>>
  \/ /\ s.kind # "redundant" /\ StartsNewPicture(s) /\ MayRefuse(s)
     /\ ~ ok
     /\ inProgress' = NoPicture
     /\ done' = Finalized
     /\ UNCHANGED pendingPts
     /\ Note(s, ok)
  \/ /\ s.kind # "redundant" /\ StartsNewPicture(s) /\ MayOpen(s)
     /\ \E o \in Outcomes(s) : ok = o.ok /\ inProgress' = With(NewPicture(s), s, o)
     /\ done' = Finalized
     /\ pendingPts' = PtsTaken
     /\ Note(s, ok)
  \/ /\ s.kind # "redundant" /\ ~ StartsNewPicture(s)
     /\ \E o \in Outcomes(s) : ok = o.ok /\ inProgress' = With(inProgress, s, o)
     /\ UNCHANGED <<done, pendingPts>>
     /\ Note(s, ok)

-----------------------------------------------------------------------------
Init ==
  /\ pendingPts = NoPts /\ pendingDp = NoSlice /\ inProgress = NoPicture
  /\ phase = "call" /\ ev = NoEvent
  /\ done = <<>> /\ packet = 0 /\ failed = {} /\ lastReset = 1
  /\ coding = [h |-> NoHeader, pic |-> 0, left |-> {}, open |-> NoSlice]

\* send_packet begins.
SendPacket ==
  /\ phase = "call"
  /\ packet < MaxPackets
  /\ packet' = packet + 1
  /\ pendingPts' = packet'
  /\ phase' = "nal"
  /\ UNCHANGED <<pendingDp, inProgress, ev, done, coding, failed, lastReset>>

\* A pending slice left waiting for the next partition A.
WaitsForAny(e) == FALSE

\* Any event but a partition B or C completes a partitioned slice.
Completes(e) == e.kind \notin {"B", "C"}

TakeNal ==
  /\ phase = "nal"
  /\ \E n \in Nals :
       /\ coding' = n.coding
       /\ ev' = n.e
       /\ phase' = IF pendingDp # NoSlice /\ Completes(n.e) THEN "pending" ELSE "event"
  /\ UNCHANGED <<pendingPts, pendingDp, inProgress, done, packet, failed, lastReset>>

\* A NAL unit that does not parse ends send_packet: the rest is never seen.
LoseNal ==
  /\ phase = "lost" \/ (phase = "nal" /\ Faulty)
  /\ \E n \in Nals :
       /\ coding' = n.coding
       /\ failed' = IF n.e.kind \in {"slice", "A", "B", "C"} THEN failed \cup {n.e.pic} ELSE failed
  /\ phase' = "lost"
  /\ UNCHANGED <<pendingPts, pendingDp, inProgress, ev, done, packet, lastReset>>

PacketDone ==
  /\ phase \in {"nal", "lost"}
  /\ phase' = "call"
  /\ UNCHANGED <<pendingPts, pendingDp, inProgress, ev, done, packet, coding, failed, lastReset>>

\* flush_pending_dp_slice in handle_event; its error ends handle_event.
FlushPendingDp ==
  /\ phase = "pending"
  /\ pendingDp' = NoSlice
  /\ \E ok \in BOOLEAN :
       /\ DecodeSlice(pendingDp, ok)
       /\ IF ok THEN phase' = "event" /\ UNCHANGED ev
          ELSE phase' = "nal" /\ ev' = NoEvent
  /\ UNCHANGED <<packet, coding, lastReset>>

Handled ==
  /\ phase = "event" /\ phase' = "nal"
  /\ ev' = NoEvent
  /\ UNCHANGED <<packet, coding, lastReset>>

HandleSlice ==
  /\ ev.kind \in {"slice", "redundant"}
  /\ Handled
  /\ \E ok \in BOOLEAN : DecodeSlice(ev, ok)
  /\ UNCHANGED pendingDp

HandlePartitionA ==
  /\ ev.kind = "A"
  /\ Handled
  /\ pendingDp' = ev
  /\ UNCHANGED <<pendingPts, inProgress, done, failed>>

\* A partition attaches to the pending slice of the same slice_id, once.
Attaches(e) ==
  /\ pendingDp # NoSlice
  /\ pendingDp.id = e.id
  /\ (IF e.kind = "B" THEN pendingDp.b ELSE pendingDp.c) = NoSlice

HandlePartition ==
  /\ ev.kind \in {"B", "C"}
  /\ Handled
  /\ pendingDp' = IF ~ Attaches(ev) THEN pendingDp
                  ELSE IF ev.kind = "B" THEN [pendingDp EXCEPT !.b = ev]
                  ELSE [pendingDp EXCEPT !.c = ev]
  /\ UNCHANGED <<pendingPts, inProgress, done, failed>>

\* A boundary at which the picture in progress is lost.
BoundaryDrops ==
  /\ ev.kind = "boundary"
  /\ Handled
  /\ inProgress' = NoPicture
  /\ UNCHANGED <<pendingPts, pendingDp, done, failed>>

\* An access unit delimiter or the end of the sequence or stream.
HandleBoundary ==
  /\ ev.kind = "boundary"
  /\ Handled
  /\ done' = Finalized
  /\ inProgress' = NoPicture
  /\ UNCHANGED <<pendingPts, pendingDp, failed>>

\* Parameter sets, SEI and the like.
HandleOther ==
  /\ ev.kind = "other"
  /\ Handled
  /\ UNCHANGED <<pendingPts, pendingDp, inProgress, done, failed>>

\* flush, at the end of the stream: the pending slice first, whose error
\* ends the call; then the picture in progress.
FlushPendingAtEnd ==
  /\ phase = "call" /\ coding.left = {}
  /\ pendingDp # NoSlice
  /\ pendingDp' = NoSlice
  /\ \E ok \in BOOLEAN :
       /\ DecodeSlice(pendingDp, ok)
       /\ phase' = IF ok THEN "flush" ELSE "end"
  /\ UNCHANGED <<ev, packet, coding, lastReset>>

FlushPicture ==
  /\ \/ phase = "call" /\ coding.left = {} /\ pendingDp = NoSlice
     \/ phase = "flush"
  /\ done' = Finalized
  /\ inProgress' = NoPicture
  /\ phase' = "end"
  /\ UNCHANGED <<pendingPts, pendingDp, ev, packet, coding, failed, lastReset>>

\* reset: the caller turns to another stream.
Reset ==
  /\ Resets /\ phase \in {"call", "end"}
  /\ pendingPts' = NoPts
  /\ inProgress' = NoPicture
  /\ phase' = "call"
  /\ coding' = [coding EXCEPT !.left = {}, !.open = NoSlice]
  /\ lastReset' = coding.pic + 1
  /\ UNCHANGED <<pendingDp, ev, done, packet, failed>>

Next ==
  \/ SendPacket
  \/ TakeNal
  \/ LoseNal
  \/ PacketDone
  \/ FlushPendingDp
  \/ HandleSlice
  \/ HandlePartitionA
  \/ HandlePartition
  \/ HandleBoundary
  \/ HandleOther
  \/ FlushPendingAtEnd
  \/ FlushPicture
  \/ Reset

Spec == Init /\ [][Next]_vars

-----------------------------------------------------------------------------
(***************************************************************************)
(* Correctness.                                                            *)
(***************************************************************************)
PicturesOf(p) == IF p = NoPicture THEN {} ELSE {s.pic : s \in p.slices}

Closed == {done[i] : i \in DOMAIN done}
Held   == Closed \cup IF inProgress = NoPicture THEN {} ELSE {inProgress}

\* Type invariant.
TypeOK ==
  /\ pendingPts \in 0 .. packet
  /\ pendingDp = NoSlice \/ (pendingDp.kind = "A" /\ pendingDp.pic \in 1 .. coding.pic)
  /\ \A p \in Held :
       /\ p.h \in Headers /\ p.pts \in 0 .. packet /\ p.succeeded \in BOOLEAN
       /\ p.painted \subseteq p.available /\ p.available \subseteq All
       /\ p.slices # {} /\ PicturesOf(p) \subseteq 1 .. coding.pic
  /\ phase \in {"call", "nal", "pending", "event", "lost", "flush", "end"}
  /\ phase \in {"pending", "event"} <=> ev # NoEvent
  /\ coding.left \subseteq All
  /\ failed \subseteq 1 .. coding.pic

\* 7.4.1.2.4: a picture is made of slices of one coded picture, and pictures
\* are closed in decoding order, none of them twice.
OnePictureEach ==
  /\ \A p \in Held : Cardinality(PicturesOf(p)) = 1
  /\ \A i, j \in DOMAIN done :
       i < j => \A m \in PicturesOf(done[i]), n \in PicturesOf(done[j]) : m < n

InFlight(n) ==
  \/ coding.pic = n /\ coding.left # {}
  \/ n \in PicturesOf(inProgress)
  \/ pendingDp.pic = n
  \/ ev.kind \in {"slice", "A"} /\ ev.pic = n

\* "Ignore per-slice errors so the stream can keep feeding": a picture is
\* lost only when one of its own slices fails or never arrives.
OnlyFaultyLost ==
  \A n \in lastReset .. coding.pic :
    n \in failed \/ InFlight(n) \/ \E p \in Closed : n \in PicturesOf(p)

\* pending_pts: "We stamp the first frame produced from that packet with it":
\* a picture's pts is that of the packet its first slice came in, and no pts
\* is given to two pictures.
PtsOfOwnPacket ==
  /\ \A p \in Held : p.pts \in {NoPts, MinOf({s.packet : s \in p.slices})}
  /\ \A p, q \in Held : p.pts = q.pts => p = q \/ p.pts = NoPts

\* finalize_in_progress_picture: a picture whose slices did not all arrive is
\* never passed on, and one none of whose slices failed is passed on with every
\* macroblock reconstructed.
ClosedIsWhole ==
  \A p \in Closed :
    /\ UNION {s.mbs : s \in p.slices} = All
    /\ PicturesOf(p) \cap failed = {} => p.painted = All

\* reset: "we discard in-flight state, not deliver it": nothing decoded after
\* a reset comes from before it.
ResetDiscards ==
  inProgress # NoPicture => \A s \in inProgress.slices : s.pic >= lastReset
=============================================================================
