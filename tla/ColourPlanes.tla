------------------------------ MODULE ColourPlanes ------------------------------
(***************************************************************************)
(* Streams with separate_colour_plane_flag (src/src/h264_decoder.rs,       *)
(* ScpState): the decoder keeps three monochrome decoders, routes every    *)
(* slice to the one of its colour_plane_id and makes a frame of the first  *)
(* plane pictures that the three have put out.  Nothing names the picture  *)
(* a plane belongs to: the planes are matched by their place in three      *)
(* queues.                                                                 *)
(*                                                                         *)
(* A monochrome decoder is its picture in progress and its output queue;   *)
(* Output models the latter in full.                                       *)
(***************************************************************************)
EXTENDS Integers, Sequences, FiniteSets

CONSTANTS
  Cap,          \* capacity of the monochrome decoders' output queues
  OrderCounts,  \* picture order counts
  SlicesEach,   \* slices of one plane of a picture
  QueueCap,     \* SCP_QUEUE_CAP
  Faulty,       \* TRUE: slices fail
  MaxPictures   \* bound: pictures of the stream

VARIABLES
  subs,      \* subs: picture in progress, output queue, ready and pending_pts of each
  queues,    \* queues: plane pictures that await their siblings
  ready,     \* the merged frames
  pts,       \* pending_pts of the packet
  sent,      \* stream: the number of pictures begun
  left,      \* stream: slices of the current picture not sent yet, by plane
  order,     \* stream: the order count of every picture begun
  flushed    \* flush has been called

vars == <<subs, queues, ready, pts, sent, left, order, flushed>>

Planes == 0 .. 2

NoPicture == [n |-> 0, pts |-> 0, bad |-> FALSE]      \* 0: an Option that is None

Idle == [cur |-> NoPicture, held |-> {}, out |-> <<>>, pts |-> 0]

Lowest(held) == CHOOSE p \in held : \A q \in held : order[p.n] <= order[q.n]

\* finalize_in_progress_picture of one plane, down to DpbOutput::push; a picture
\* that lacks macroblocks is dropped.
Finalized(s) ==
  IF s.cur = NoPicture \/ s.cur.bad THEN [s EXCEPT !.cur = NoPicture]
  ELSE IF Cardinality(s.held) < Cap
       THEN [s EXCEPT !.held = @ \cup {s.cur}, !.cur = NoPicture]
       ELSE [s EXCEPT !.held = (@ \ {Lowest(@)}) \cup {s.cur}, !.cur = NoPicture,
                      !.out = Append(@, Lowest(s.held))]

RECURSIVE Drained(_)
Drained(s) ==
  IF s.held = {} THEN s
  ELSE Drained([s EXCEPT !.held = @ \ {Lowest(@)}, !.out = Append(@, Lowest(s.held))])

\* handle_slice of one plane: the first slice of picture n opens it.
WithSlice(s, n, ok) ==
  IF s.cur.n = n THEN [s EXCEPT !.cur.bad = @ \/ ~ ok]
  ELSE [Finalized(s) EXCEPT !.cur = [n |-> n, pts |-> s.pts, bad |-> ~ ok], !.pts = 0]

\* The three front pictures merged without waiting for the last plane.
CompleteWithoutCr(q) == q[0] # <<>> /\ q[1] # <<>>

Complete(q) == \A p \in Planes : q[p] # <<>>

RECURSIVE Merged(_, _)
Merged(q, done) ==
  IF Complete(q)
  THEN Merged([p \in Planes |-> SubSeq(q[p], 2, Len(q[p]))],
              Append(done, [planes |-> [p \in Planes |-> IF q[p] = <<>> THEN 0 ELSE Head(q[p]).n],
                            pts |-> Head(q[0]).pts]))
  ELSE [queues |-> q, ready |-> done]

\* The oldest pictures beyond the cap are dropped.
Capped(s) == IF Len(s) > QueueCap THEN SubSeq(s, Len(s) - QueueCap + 1, Len(s)) ELSE s

\* drain_and_merge_scp
DrainAndMerge(s) ==
  LET m == Merged([p \in Planes |-> queues[p] \o s[p].out], ready)
  IN  /\ subs' = [p \in Planes |-> [s[p] EXCEPT !.out = <<>>]]
      /\ queues' = [p \in Planes |-> Capped(m.queues[p])]
      /\ ready' = m.ready

Init ==
  /\ subs = [p \in Planes |-> Idle]
  /\ queues = [p \in Planes |-> <<>>]
  /\ ready = <<>>
  /\ pts = 0
  /\ sent = 0 /\ left = [p \in Planes |-> 0] /\ order = <<>>
  /\ flushed = FALSE

\* The stream: a picture has SlicesEach slices of every plane, in any order, and
\* comes in a packet whose pts is the number of the picture.
NextPicture ==
  /\ ~ flushed /\ sent < MaxPictures
  /\ \A p \in Planes : left[p] = 0
  /\ \E o \in OrderCounts : o \notin {order[i] : i \in DOMAIN order} /\ order' = Append(order, o)
  /\ sent' = sent + 1
  /\ left' = [p \in Planes |-> SlicesEach]
  /\ pts' = sent + 1
  /\ UNCHANGED <<subs, queues, ready, flushed>>

\* The luma decoder stamps the pts.
Stamped(p) ==
  IF p = 0 /\ pts # 0 THEN [subs EXCEPT ![p].pts = pts] ELSE subs

\* route_scp_slice; the error of a slice skips the merging.
RouteSlice(p) ==
  /\ left[p] > 0
  /\ pts' = IF Stamped(p) # subs THEN 0 ELSE pts
  /\ \/ DrainAndMerge([Stamped(p) EXCEPT ![p] = WithSlice(@, sent, TRUE)])
     \/ /\ Faulty
        /\ subs' = [Stamped(p) EXCEPT ![p] = WithSlice(@, sent, FALSE)]
        /\ UNCHANGED <<queues, ready>>
  /\ left' = [left EXCEPT ![p] = @ - 1]
  /\ UNCHANGED <<sent, order, flushed>>

\* forward_event_to_scp_subs: an access unit delimiter or end of sequence.
Boundary ==
  /\ ~ flushed
  /\ \A p \in Planes : left[p] = 0
  /\ \E p \in Planes : subs[p].cur # NoPicture
  /\ DrainAndMerge([p \in Planes |-> Finalized(subs[p])])
  /\ UNCHANGED <<pts, sent, left, order, flushed>>

\* The planes merged before they are flushed.
FlushMergesFirst ==
  /\ ~ flushed /\ sent = MaxPictures
  /\ \A p \in Planes : left[p] = 0
  /\ DrainAndMerge([p \in Planes |-> Finalized(subs[p])])
  /\ flushed' = TRUE
  /\ UNCHANGED <<pts, sent, left, order>>

\* flush, once everything has been sent.
Flush ==
  /\ ~ flushed /\ sent = MaxPictures
  /\ \A p \in Planes : left[p] = 0
  /\ DrainAndMerge([p \in Planes |-> Drained(Finalized(subs[p]))])
  /\ flushed' = TRUE
  /\ UNCHANGED <<pts, sent, left, order>>

\* reset drops the three decoders; the caller turns to another stream.
Reset ==
  /\ subs' = [p \in Planes |-> Idle]
  /\ queues' = [p \in Planes |-> <<>>]
  /\ ready' = <<>> /\ pts' = 0 /\ flushed' = FALSE
  /\ sent' = 0 /\ left' = [p \in Planes |-> 0] /\ order' = <<>>

Next ==
  \/ NextPicture
  \/ \E p \in Planes : RouteSlice(p)
  \/ Boundary
  \/ Flush
  \/ Reset

Spec == Init /\ [][Next]_vars

-----------------------------------------------------------------------------
\* In a stream without faults: however the slices of the three planes are
\* interleaved and whenever a plane's picture is finalized, a frame is made of
\* three planes of one picture and has its pts (drain_and_merge_scp), and after
\* flush no plane is left over.
PlanesMatched ==
  /\ \A i \in DOMAIN ready :
       \A p \in Planes : ready[i].planes[p] = ready[i].pts
  /\ flushed => Len(ready) = sent
=============================================================================
