---------------------------- MODULE ParamSetsProofs ----------------------------
(***************************************************************************)
(* Proof about ParamSets, for any ids, chroma formats and length of the    *)
(* stream: slices, partitions and pictures are decoded with the parameter  *)
(* sets they were sent under, in both framings.                            *)
(*                                                                         *)
(* The argument: no NAL unit is refused, so the tables follow the stream;  *)
(* what an event takes from them it keeps, and a partition B or C follows  *)
(* its partition A with no parameter set in between.                       *)
(***************************************************************************)
EXTENDS ParamSets, SequenceTheorems, TLAPS

\* What the tables hold, typed.
StoredSps == [v : {0}, chroma : Formats] \cup {None}
StoredPps == [v : {0}, pps : Pps, format : Formats]
Snapshot  == [sps : StoredSps, pps : StoredPps]

\* A slice, or a partition A, that carries the sets it was sent under.
OwnSlice ==
  {e \in [kind : {"slice", "A"}, v : {0}, used : Snapshot, meant : Snapshot, first : BOOLEAN] :
     e.used = e.meant}

\* A partition B or C read by the PPS of its partition A.
OwnPartition ==
  {e \in [kind : {"BC"}, redundant : BOOLEAN, meant : Snapshot] :
     e.redundant = e.meant.pps.pps.redundant}

OwnEvent == OwnSlice \cup OwnPartition \cup [kind : {"other"}]

\* The tables hold what the stream sent last;
TablesFollow ==
  /\ spsById \in [Ids -> StoredSps] /\ ppsById \in [Ids -> StoredPps \cup {None}]
  /\ sent = [sps |-> spsById, pps |-> ppsById]
  /\ \A p \in Ids : ppsById[p] # None => spsById[ppsById[p].pps.sps] # None

\* what a partition B or C would belong to is what the active ids name.
OpenIsActive ==
  open # None =>
    /\ active.pps \in Ids
    /\ open \in [v : {0}, meant : Snapshot]
    /\ open.meant.pps = ppsById[active.pps]

\* The inductive invariant: besides, what has been parsed is decoded, held or
\* queued with its own sets.
Inv ==
  /\ TablesFollow
  /\ OpenIsActive
  /\ framing \in {"annexb", "avcc"}
  /\ events \in Seq(OwnEvent)
  /\ phase = "handle" => events # <<>>
  /\ pendingDp \in OwnSlice \cup {None}
  /\ inProgress \in OwnSlice \cup {None}
  /\ \A d \in decoded : d[1] = d[2]

-----------------------------------------------------------------------------
\* The decoder starts with empty tables and nothing held.
LEMMA InitInv == Init => Inv
BY DEF Init, Inv, TablesFollow, OpenIsActive, Empty, NoActive, StoredSps

\* Appending an own event to the queue leaves a queue of own events.
LEMMA ProcessKeeps ==
  ASSUME Inv, NEW ev \in OwnEvent, Process(ev)
  PROVE  /\ events' \in Seq(OwnEvent)
         /\ phase' = "handle" => events' # <<>>
         /\ framing' = framing /\ pendingDp' = pendingDp /\ inProgress' = inProgress /\ decoded' = decoded
BY DEF Inv, Process

\* Decoding a slice that carries its own sets, and finalizing a picture whose
\* first slice did, is decoding with the right sets.
LEMMA DecodeKeeps ==
  ASSUME Inv, NEW s \in OwnSlice, DecodeSlice(s)
  PROVE  /\ inProgress' \in OwnSlice \cup {None}
         /\ \A d \in decoded' : d[1] = d[2]
BY DEF Inv, DecodeSlice, FinalizedWith, OwnSlice

\* A sequence parameter set is stored by driver and stream alike.
LEMMA NalSpsKeeps ==
  ASSUME Inv, NEW id \in Ids, NEW s \in Sps, NalSps(id, s)
  PROVE  Inv'
<1>1. Process(Other) /\ Other \in OwnEvent
  BY DEF NalSps, Other, OwnEvent
<1>2. TablesFollow'
  BY DEF Inv, NalSps, TablesFollow, StoredSps, Sps, None
<1>3. OpenIsActive'
  BY DEF NalSps, OpenIsActive
<1>. QED
  BY <1>1, <1>2, <1>3, ProcessKeeps DEF Inv, NalSps

\* A subset SPS is in a table that slices of this decoder do not use.
LEMMA NalSubsetSpsKeeps ==
  ASSUME Inv, NEW id \in Ids, NEW s \in Sps, NalSubsetSps(id, s)
  PROVE  Inv'
<1>1. Process(Other) /\ Other \in OwnEvent
  BY DEF NalSubsetSps, Other, OwnEvent
<1>2. TablesFollow'
  BY DEF Inv, NalSubsetSps, TablesFollow
<1>3. OpenIsActive'
  BY DEF NalSubsetSps, OpenIsActive
<1>. QED
  BY <1>1, <1>2, <1>3, ProcessKeeps DEF Inv, NalSubsetSps

\* The SPS of a PPS is there when the PPS arrives, so that it is read with the
\* chroma format the stream meant, and never refused.
LEMMA NalPpsKeeps ==
  ASSUME Formats \subseteq Nat, Inv, NEW id \in Ids, NEW q \in Pps, NalPps(id, q)
  PROVE  Inv'
<1>1. q.sps \in Ids /\ spsById[q.sps] # None /\ sent.sps[q.sps] = spsById[q.sps]
  BY DEF Inv, TablesFollow, NalPps, Pps
<1>2. spsById[q.sps] \in [v : {0}, chroma : Formats]
  BY <1>1 DEF Inv, TablesFollow, StoredSps
<1>3. Format(q.sps) = spsById[q.sps].chroma /\ Format(q.sps) \in Formats /\ Format(q.sps) # -1
  BY <1>1, <1>2 DEF Format
<1>4. Process(Other) /\ Other \in OwnEvent
  BY <1>3 DEF NalPps, Other, OwnEvent
<1>. DEFINE e == [v |-> 0, pps |-> q, format |-> Format(q.sps)]
<1>5. ppsById' = [ppsById EXCEPT ![id] = e] /\ sent' = [sent EXCEPT !.pps[id] = e] /\ spsById' = spsById
  BY <1>1, <1>3 DEF NalPps
<1>6. e \in StoredPps /\ spsById[e.pps.sps] # None
  BY <1>1, <1>3 DEF StoredPps
<1>7. TablesFollow'
  <2>. HIDE DEF e
  <2>. QED
    BY <1>5, <1>6 DEF Inv, TablesFollow
<1>8. OpenIsActive'
  BY DEF NalPps, OpenIsActive
<1>. QED
  BY <1>4, <1>7, <1>8, ProcessKeeps DEF Inv, NalPps

\* A usable slice finds its sets in the tables: those the stream means.
LEMMA StoredIsMeant ==
  ASSUME Inv, NEW id \in Ids, Usable(id)
  PROVE  Stored(id) = Meant(id) /\ Stored(id) \in Snapshot /\ Stored(id).sps # None
<1>1. ppsById[id] # None /\ ppsById[id] \in StoredPps /\ sent.pps[id] = ppsById[id]
  BY DEF Inv, TablesFollow, Usable
<1>2. ppsById[id].pps.sps \in Ids
  BY <1>1 DEF StoredPps, Pps
<1>3. Known(id) = spsById[ppsById[id].pps.sps] /\ Known(id) # None /\ Known(id) \in StoredSps
  BY <1>1, <1>2 DEF Inv, TablesFollow, Usable, Known
<1>. QED
  BY <1>1, <1>2, <1>3 DEF Stored, Meant, Snapshot

\* So it is queued as a slice with its own sets, and a partition A opens with
\* the PPS it makes active.
LEMMA NalSliceKeeps ==
  ASSUME Inv, NEW kind \in {"slice", "A"}, NEW id \in Ids, NalSlice(kind, id)
  PROVE  Inv'
<1>1. Stored(id) = Meant(id) /\ Stored(id) \in Snapshot /\ Stored(id).sps # None
  BY StoredIsMeant DEF NalSlice
<1>. DEFINE e == [kind |-> kind, v |-> 0, used |-> Stored(id), meant |-> Meant(id),
                  first |-> opened = None]
<1>2. e \in OwnSlice
  BY <1>1 DEF OwnSlice
<1>3. Process(e) /\ e \in OwnEvent
  BY <1>1, <1>2 DEF NalSlice, OwnEvent
<1>4. active'.pps = id
  BY <1>1 DEF NalSlice
<1>5. TablesFollow'
  BY DEF Inv, NalSlice, TablesFollow
<1>6. Meant(id).pps = ppsById[id] /\ ppsById' = ppsById
  BY <1>1 DEF Stored, NalSlice
<1>7. OpenIsActive'
  BY <1>1, <1>4, <1>6 DEF NalSlice, OpenIsActive
<1>. HIDE DEF e
<1>. QED
  BY <1>3, <1>4, <1>5, <1>7, ProcessKeeps DEF Inv, NalSlice

\* Since partition A the active PPS has not been replaced.
LEMMA NalPartitionKeeps ==
  ASSUME Inv, NalPartition
  PROVE  Inv'
<1>. DEFINE e == [kind |-> "BC", redundant |-> ppsById[active.pps].pps.redundant, meant |-> open.meant]
<1>1. open \in [v : {0}, meant : Snapshot] /\ open.meant.pps = ppsById[active.pps]
  BY DEF Inv, OpenIsActive, NalPartition
<1>2. open.meant \in Snapshot /\ open.meant.pps.pps.redundant \in BOOLEAN
  BY <1>1 DEF Snapshot, StoredPps, Pps
<1>3. Process(e) /\ e \in OwnEvent
  BY <1>1, <1>2 DEF NalPartition, OwnEvent, OwnPartition
<1>4. TablesFollow' /\ OpenIsActive'
  BY DEF Inv, NalPartition, TablesFollow, OpenIsActive
<1>. HIDE DEF e
<1>. QED
  BY <1>3, <1>4, ProcessKeeps DEF Inv, NalPartition

\* The pending partition A has its own sets.
LEMMA CompletePendingKeeps ==
  ASSUME Inv, CompletePending
  PROVE  Inv'
<1>1. pendingDp \in OwnSlice /\ DecodeSlice(pendingDp)
  BY DEF Inv, CompletePending
<1>2. TablesFollow' /\ OpenIsActive'
  BY DEF Inv, CompletePending, TablesFollow, OpenIsActive
<1>. QED
  BY <1>1, <1>2, DecodeKeeps DEF Inv, CompletePending

\* Every event in the queue has its own sets.
LEMMA HandleEventKeeps ==
  ASSUME Inv, HandleEvent
  PROVE  Inv'
<1>. DEFINE ev == Head(events)
<1>1. events # <<>> /\ events \in Seq(OwnEvent)
  BY DEF Inv, HandleEvent
<1>2. ev \in OwnEvent /\ Tail(events) \in Seq(OwnEvent) /\ (Len(events) # 1 => Tail(events) # <<>>)
  <2>1. Head(events) \in OwnEvent /\ Tail(events) \in Seq(OwnEvent) /\ Len(Tail(events)) = Len(events) - 1
    BY <1>1, HeadTailProperties
  <2>2. Len(events) \in Nat /\ Len(<<>>) = 0
    BY <1>1
  <2>. QED
    BY <2>1, <2>2
<1>3. TablesFollow' /\ OpenIsActive' /\ active' = active /\ framing' = framing
  BY DEF Inv, HandleEvent, TablesFollow, OpenIsActive
<1>4. events' = Tail(events) /\ (phase' = "handle" => events' # <<>>)
  <2>1. ev.kind # "error"
    BY <1>2 DEF OwnEvent, OwnSlice, OwnPartition
  <2>2. events' = Tail(events)
    BY <2>1 DEF HandleEvent
  <2>3. framing \in {"annexb", "avcc"}
    BY DEF Inv
  <2>. QED
    BY <1>1, <1>2, <2>1, <2>2, <2>3 DEF HandleEvent
<1>5. /\ pendingDp' \in OwnSlice \cup {None}
      /\ inProgress' \in OwnSlice \cup {None}
      /\ \A d \in decoded' : d[1] = d[2]
  <2>1. CASE ev \in OwnSlice /\ ev.kind = "slice"
    <3>1. DecodeSlice(ev) /\ pendingDp' = pendingDp
      BY <2>1 DEF HandleEvent
    <3>. QED
      BY <2>1, <3>1, DecodeKeeps DEF Inv
  <2>2. CASE ev \in OwnSlice /\ ev.kind = "A"
    BY <2>2 DEF Inv, HandleEvent
  <2>3. CASE ev \in OwnPartition
    <3>1. ev.kind = "BC" /\ ev.redundant = ev.meant.pps.pps.redundant
      BY <2>3 DEF OwnPartition
    <3>2. decoded' = {<<ev.redundant, ev.meant.pps.pps.redundant>>}
          /\ inProgress' = inProgress /\ pendingDp' = pendingDp
      BY <3>1 DEF HandleEvent
    <3>. QED
      BY <3>1, <3>2 DEF Inv
  <2>4. CASE ev \in [kind : {"other"}]
    BY <2>4 DEF Inv, HandleEvent
  <2>. QED
    BY <1>2, <2>1, <2>2, <2>3, <2>4 DEF OwnEvent, OwnSlice
<1>. HIDE DEF ev
<1>. QED
  BY <1>2, <1>3, <1>4, <1>5 DEF Inv

\* reset empties the tables; the stream starts over.
LEMMA ResetKeeps ==
  ASSUME Inv, Reset
  PROVE  Inv'
<1>1. TablesFollow' /\ OpenIsActive'
  BY DEF Reset, TablesFollow, OpenIsActive, Empty, StoredSps
<1>. QED
  BY <1>1 DEF Inv, Reset, NoActive

\* The calls and the ends of pictures and packets store nothing.
LEMMA RestKeeps ==
  ASSUME Inv, EndPicture \/ BeginExtradata \/ BeginPacket \/ EndOfData \/ UNCHANGED vars
  PROVE  Inv'
<1>1. TablesFollow' /\ OpenIsActive'
  BY DEF Inv, EndPicture, BeginExtradata, BeginPacket, EndOfData, vars, TablesFollow, OpenIsActive
<1>. QED
  BY <1>1 DEF Inv, EndPicture, BeginExtradata, BeginPacket, EndOfData, vars

\* Every step of the stream, the driver and the decoder keeps the invariant.
LEMMA NextKeeps ==
  ASSUME Formats \subseteq Nat, Inv, [Next]_vars
  PROVE  Inv'
BY NalSpsKeeps, NalSubsetSpsKeeps, NalPpsKeeps, NalSliceKeeps, NalPartitionKeeps,
   CompletePendingKeeps, HandleEventKeeps, ResetKeeps, RestKeeps DEF Next

\* No event of the queue is a refusal, and all that was decoded was with its sets.
LEMMA InvImpliesOwnSets == Inv => OwnSets
BY DEF Inv, OwnSets, OwnEvent, OwnSlice, OwnPartition

\* Every slice, partition and picture is decoded with the contents that were in
\* force when it was sent, however late that is, and no NAL unit of a conforming
\* stream is refused (process_nal, handle_event, finalize_in_progress_picture):
\* for any ids, chroma formats and length of the stream.
THEOREM OwnSetsCorrect ==
  ASSUME Formats \subseteq Nat
  PROVE  Spec => []OwnSets
<1>1. Init => Inv
  BY InitInv
<1>2. Inv /\ [Next]_vars => Inv'
  BY NextKeeps
<1>3. Inv => OwnSets
  BY InvImpliesOwnSets
<1>. QED
  BY <1>1, <1>2, <1>3, PTL DEF Spec
=============================================================================
