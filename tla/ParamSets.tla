------------------------------- MODULE ParamSets -------------------------------
(***************************************************************************)
(* Parameter sets: the tables of src/src/decoder.rs, how a slice activates *)
(* entries of them, and the copies that travel with the events to          *)
(* H264CodecDecoder (src/src/h264_decoder.rs).                             *)
(*                                                                         *)
(* A picture parameter set can only be read with the chroma format of its  *)
(* sequence parameter set, which is looked up when it arrives.  An Annex B *)
(* packet is parsed to its end before its first event is handled, and a    *)
(* picture is finalized when the next one has begun: in both cases the     *)
(* tables may hold newer contents by then.                                 *)
(***************************************************************************)
EXTENDS Integers, Sequences

CONSTANTS
  Ids,       \* parameter set ids
  Formats,   \* values of chroma_format_idc
  MaxNals    \* bound: NAL units of the stream

VARIABLES
  spsById, subsetById, ppsById,   \* the tables
  active,     \* active_sps_id and active_pps_id
  framing,    \* "annexb", or "avcc" once there is a length_size
  phase,      \* "idle", "extradata", "parse" or "handle"
  events,     \* events of the packet, not handled yet
  pendingDp,  \* pending_dp: its parameter sets
  inProgress, \* the parameter sets of the picture's first slice
  sent,       \* stream: the contents last sent under each id
  open,       \* stream: what a partition B or C would belong to
  opened,     \* stream: the last picture begun
  nals,       \* number of NAL units sent
  decoded     \* history: the last slice decoded or picture finalized

vars == <<spsById, subsetById, ppsById, active, framing, phase, events, pendingDp, inProgress,
          sent, open, opened, nals, decoded>>

None == [v |-> -1]

\* Contents, by the elements that matter here.
Sps == [v : {0}, chroma : Formats]
Pps == [sps : Ids, redundant : BOOLEAN]

\* A table whose entries are all None.
Empty == [i \in Ids |-> None]

NoActive == [sps |-> -1, pps |-> -1]

-----------------------------------------------------------------------------
(***************************************************************************)
(* The stream.  A sequence parameter set comes before the picture          *)
(* parameter sets that refer to it; one that changes the chroma format is  *)
(* followed by them again before they are used.  Partitions B and C follow *)
(* their partition A.                                                      *)
(***************************************************************************)
Known(p) == sent.sps[sent.pps[p].pps.sps]

Usable(p) ==
  sent.pps[p] # None /\ Known(p) # None /\ sent.pps[p].format = Known(p).chroma

\* The contents slice p is meant to be read with.
Meant(p) == [sps |-> Known(p), pps |-> sent.pps[p]]

-----------------------------------------------------------------------------
(***************************************************************************)
(* process_nal.  Its event is handled at once in AVCC framing, after the   *)
(* whole packet in Annex B framing, and not at all for extradata.          *)
(***************************************************************************)
Process(ev) ==
  /\ phase \in {"extradata", "parse"}
  /\ nals < MaxNals /\ nals' = nals + 1
  /\ IF phase = "extradata" THEN UNCHANGED <<events, phase>>
     ELSE /\ events' = Append(events, ev)
          /\ phase' = IF framing = "avcc" THEN "handle" ELSE phase
  /\ UNCHANGED <<framing, pendingDp, inProgress, decoded>>

Other == [kind |-> "other"]

\* Between pictures only: a parameter set starts a new access unit.
NalSps(id, s) ==
  /\ Process(Other)
  /\ spsById' = [spsById EXCEPT ![id] = s]
  /\ sent' = [sent EXCEPT !.sps[id] = s]
  /\ open' = None /\ opened' = None
  /\ UNCHANGED <<subsetById, ppsById, active>>

\* The views of a stream have one chroma format.
NalSubsetSps(id, s) ==
  /\ sent.sps[id] # None => sent.sps[id].chroma = s.chroma
  /\ Process(Other)
  /\ subsetById' = [subsetById EXCEPT ![id] = s]
  /\ open' = None /\ opened' = None
  /\ UNCHANGED <<spsById, ppsById, active, sent>>

\* The subset table first.
FormatSubsetFirst(id) ==
  IF subsetById[id] # None THEN subsetById[id].chroma
  ELSE IF spsById[id] # None THEN spsById[id].chroma ELSE -1

\* The chroma format of id: the ordinary table first, then the subset one.
Format(id) ==
  IF spsById[id] # None THEN spsById[id].chroma
  ELSE IF subsetById[id] # None THEN subsetById[id].chroma ELSE -1

NalPps(id, q) ==
  /\ sent.sps[q.sps] # None
  /\ Process(IF Format(q.sps) = -1 THEN [kind |-> "error"] ELSE Other)
  /\ ppsById' = IF Format(q.sps) = -1 THEN ppsById
                ELSE [ppsById EXCEPT ![id] = [v |-> 0, pps |-> q, format |-> Format(q.sps)]]
  /\ sent' = [sent EXCEPT !.pps[id] = [v |-> 0, pps |-> q, format |-> sent.sps[q.sps].chroma]]
  /\ open' = None /\ opened' = None
  /\ UNCHANGED <<spsById, subsetById, active>>

\* The sets a slice of PPS id activates, as they are now.
Stored(id) ==
  [sps |-> IF ppsById[id] = None THEN None ELSE spsById[ppsById[id].pps.sps], pps |-> ppsById[id]]

\* process_slice_nal and process_dp_a_nal: a slice of a new picture, or of the
\* picture begun last.
NalSlice(kind, id) ==
  /\ Usable(id)
  /\ opened # None => id = opened.id
  /\ Process(IF Stored(id).sps = None THEN [kind |-> "error"]
             ELSE [kind |-> kind, v |-> 0, used |-> Stored(id), meant |-> Meant(id),
              first |-> opened = None])
  /\ phase = "parse"
  /\ active' = IF Stored(id).sps = None THEN active
               ELSE [sps |-> ppsById[id].pps.sps, pps |-> id]
  /\ open' = IF kind = "A" THEN [v |-> 0, meant |-> Meant(id)] ELSE None
  /\ opened' = [v |-> 0, id |-> id]
  /\ UNCHANGED <<spsById, subsetById, ppsById, sent>>

\* The next slice begins another picture.
EndPicture ==
  /\ opened # None /\ opened' = None
  /\ UNCHANGED <<spsById, subsetById, ppsById, active, framing, phase, events, pendingDp,
                 inProgress, sent, open, nals, decoded>>

\* process_dp_bc_nal: by the sets stored now under the active ids.
NalPartition ==
  /\ open # None
  /\ phase = "parse"
  /\ Process([kind |-> "BC", redundant |-> ppsById[active.pps].pps.redundant,
              meant |-> open.meant])
  /\ UNCHANGED <<spsById, subsetById, ppsById, active, sent, open, opened>>

-----------------------------------------------------------------------------
(***************************************************************************)
(* H264CodecDecoder: extradata, packets, events, reset.                    *)
(***************************************************************************)
\* consume_extradata, before the first packet.
BeginExtradata ==
  /\ phase = "idle" /\ nals = 0
  /\ framing' = "avcc" /\ phase' = "extradata"
  /\ UNCHANGED <<spsById, subsetById, ppsById, active, events, pendingDp, inProgress, sent, open,
                 opened, nals, decoded>>

BeginPacket ==
  /\ phase \in {"idle", "extradata"}
  /\ phase' = "parse"
  /\ UNCHANGED <<spsById, subsetById, ppsById, active, framing, events, pendingDp, inProgress,
                 sent, open, opened, nals, decoded>>

\* The end of the packet's data.
EndOfData ==
  /\ phase = "parse"
  /\ phase' = IF events = <<>> THEN "idle" ELSE "handle"
  /\ UNCHANGED <<spsById, subsetById, ppsById, active, framing, events, pendingDp, inProgress,
                 sent, open, opened, nals, decoded>>

\* A picture finalized with the sets stored by then.
FinalizedWithStored(p) == IF p = None THEN {} ELSE {<<Stored(active.pps), p.meant>>}

\* finalize_in_progress_picture: with the sets of the picture's first slice.
FinalizedWith(p) == IF p = None THEN {} ELSE {<<p.used, p.meant>>}

\* handle_slice_with_dp: the first slice of a picture finalizes the one before.
DecodeSlice(s) ==
  /\ inProgress' = IF s.first THEN s ELSE inProgress
  /\ decoded' = {<<s.used, s.meant>>} \cup (IF s.first THEN FinalizedWith(inProgress) ELSE {})

\* handle_event: a pending partition A is decoded before anything but a B or C.
CompletePending ==
  /\ phase = "handle" /\ pendingDp # None /\ Head(events).kind # "BC"
  /\ DecodeSlice(pendingDp)
  /\ pendingDp' = None
  /\ UNCHANGED <<spsById, subsetById, ppsById, active, framing, phase, events, sent, open, opened, nals>>

\* An event that did not parse ends the packet.
HandleEvent ==
  /\ phase = "handle"
  /\ LET ev == Head(events)
     IN  /\ ev.kind = "BC" \/ pendingDp = None
         /\ CASE ev.kind = "slice" -> DecodeSlice(ev) /\ UNCHANGED pendingDp
              [] ev.kind = "A"     -> pendingDp' = ev /\ UNCHANGED <<inProgress, decoded>>
              [] ev.kind = "BC"    -> decoded' = {<<ev.redundant, ev.meant.pps.pps.redundant>>}
                                      /\ UNCHANGED <<inProgress, pendingDp>>
              [] ev.kind \in {"other", "error"} -> UNCHANGED <<inProgress, pendingDp, decoded>>
         /\ events' = IF ev.kind = "error" THEN <<>> ELSE Tail(events)
         /\ phase' = IF ev.kind = "error" \/ (Len(events) = 1 /\ framing = "annexb") THEN "idle"
                     ELSE IF framing = "avcc" THEN "parse" ELSE phase
  /\ UNCHANGED <<spsById, subsetById, ppsById, active, framing, sent, open, opened, nals>>

\* reset replaces the driver and its tables, those of extradata included; the
\* caller sends its parameter sets again.
Reset ==
  /\ phase = "idle"
  /\ spsById' = Empty /\ subsetById' = Empty /\ ppsById' = Empty
  /\ active' = NoActive
  /\ inProgress' = None
  /\ sent' = [sps |-> Empty, pps |-> Empty] /\ open' = None /\ opened' = None
  /\ decoded' = {}
  /\ UNCHANGED <<framing, phase, events, pendingDp, nals>>

Init ==
  /\ spsById = Empty /\ subsetById = Empty /\ ppsById = Empty
  /\ active = NoActive
  /\ framing = "annexb" /\ phase = "idle" /\ events = <<>>
  /\ pendingDp = None /\ inProgress = None
  /\ sent = [sps |-> Empty, pps |-> Empty] /\ open = None /\ opened = None
  /\ nals = 0 /\ decoded = {}

Next ==
  \/ \E id \in Ids, s \in Sps : NalSps(id, s) \/ NalSubsetSps(id, s)
  \/ \E id \in Ids, q \in Pps : NalPps(id, q)
  \/ \E id \in Ids, kind \in {"slice", "A"} : NalSlice(kind, id)
  \/ NalPartition
  \/ EndPicture
  \/ BeginExtradata \/ BeginPacket \/ EndOfData
  \/ CompletePending \/ HandleEvent
  \/ Reset

Spec == Init /\ [][Next]_vars

-----------------------------------------------------------------------------
\* Every slice is decoded, and every picture finalized, with the contents that
\* were in force when it was sent, its PPS read with the chroma format of its
\* own SPS, and a partition B or C is read by the PPS of its partition A:
\* whatever the tables hold by the time of decoding; and no NAL unit is refused.
OwnSets ==
  /\ \A d \in decoded : d[1] = d[2]
  /\ \A i \in DOMAIN events : events[i].kind # "error"
=============================================================================
