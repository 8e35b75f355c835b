----------------------------- MODULE AssemblyProofs -----------------------------
(***************************************************************************)
(* Proofs about Assembly, for every size of picture, alphabet of headers   *)
(* and bound.                                                              *)
(*                                                                         *)
(*  - What is passed on is whole, whatever fails: availability grows only  *)
(*    by macroblocks of slices that were decoded, and what is available    *)
(*    but not painted belongs to a slice that failed.                      *)
(*  - A picture has the pts of the packet its first slice came in, unless  *)
(*    a slice waits in pendingDp for a later packet: the pts waiting is no *)
(*    older than what has been given out, and is used once.                *)
(*  - Pictures are kept apart when nothing is lost: between the stream,    *)
(*    the event, the pending slice and the picture in progress there is at *)
(*    each station at most one step to the next picture.                   *)
(*  - Nothing healthy is lost, whatever else fails: once a slice of a      *)
(*    picture has arrived the others join it, so that it is complete when  *)
(*    the next picture, a boundary or the end of the stream closes it.     *)
(***************************************************************************)
EXTENDS Assembly, FiniteSetTheorems, SequenceTheorems, TLAPS

\* What the variables hold.
Parts == [kind : {"B", "C"}, pic : Nat, id : All]

Slices ==
  [kind : {"slice", "redundant", "A"}, pic : Nat \ {0}, h : Headers, mbs : SUBSET All, id : All,
   packet : Nat, b : Parts \cup {NoSlice}, c : Parts \cup {NoSlice}]

PicturesInProgress ==
  [h : Headers, pts : Nat, available : SUBSET All, painted : SUBSET All, succeeded : BOOLEAN,
   slices : SUBSET Slices]

Events == Slices \cup Parts \cup [kind : {"none", "boundary", "other"}]

Codings ==
  [h : Headers \cup {NoHeader}, pic : Nat, left : SUBSET All, open : [pic : Nat, id : All] \cup {NoSlice}]

Types ==
  /\ pendingPts \in Nat
  /\ pendingDp \in Slices \cup {NoSlice}
  /\ inProgress \in PicturesInProgress \cup {NoPicture}
  /\ ev \in Events
  /\ done \in Seq(PicturesInProgress)
  /\ packet \in Nat
  /\ coding \in Codings /\ (coding.left # {} => coding.pic # 0)
  /\ (coding.pic # 0 => coding.h \in Headers)
  /\ phase = "pending" => pendingDp # NoSlice

-----------------------------------------------------------------------------
(* The slices of the stream. *)

\* The first macroblock of a run is one of the picture's.
LEMMA MinOfRun ==
  ASSUME NEW r \in Runs(All)
  PROVE  MinOf(r) \in r /\ MinOf(r) \in All /\ r \subseteq All
<1>1. PICK a \in All, b \in All : r = a .. b
  BY DEF Runs
<1>2. a \in r /\ \A y \in r : a <= y
  BY <1>1 DEF Runs, All
<1>3. MinOf(r) \in r
  BY <1>2 DEF MinOf
<1>. QED
  BY <1>3 DEF Runs

\* A slice of the stream, and what the stream is coding after it.
LEMMA SliceTyped ==
  ASSUME Types, NEW kind \in {"slice", "redundant", "A"}, NEW pic \in Nat \ {0}, NEW h \in Headers,
         NEW r \in Runs(All)
  PROVE  Slice(kind, pic, h, r) \in Slices
BY MinOfRun DEF Types, Slice, Slices

\* One of the slices with which the stream goes on with a picture.
LEMMA SliceNalsTyped ==
  ASSUME Types, NEW pic \in Nat \ {0}, NEW h \in Headers, NEW left \in SUBSET All,
         NEW n \in SliceNals(pic, h, left)
  PROVE  /\ n.e \in Slices /\ n.coding \in Codings
         /\ n.e.kind \in {"slice", "A"} /\ n.e.pic = pic /\ n.e.h = h /\ n.e.packet = packet
         /\ n.coding.pic = pic /\ n.coding.h = h
<1>1. PICK t \in Kinds(h) \X NextRuns(left) :
        n = [e |-> Slice(t[1], pic, h, t[2]),
             coding |-> [h |-> h, pic |-> pic, left |-> left \ t[2],
                         open |-> IF t[1] = "A" THEN [pic |-> pic, id |-> MinOf(t[2])] ELSE NoSlice]]
  BY DEF SliceNals
<1>2. t[1] \in {"slice", "A"} /\ t[2] \in Runs(All)
  BY DEF Kinds, NextRuns, Runs
<1>3. MinOf(t[2]) \in All /\ Slice(t[1], pic, h, t[2]) \in Slices
  BY <1>2, MinOfRun, SliceTyped
<1>. QED
  BY <1>1, <1>2, <1>3 DEF Codings, Slice

\* What the stream codes next: a slice of the picture being coded or, when that
\* one is complete, of another one; the rest changes no more than open.
LEMMA NalsTyped ==
  ASSUME Types, NEW n \in Nals
  PROVE  /\ n.e \in Events /\ n.e.kind # "none"
         /\ n.coding \in Codings
         /\ n.coding.left # {} => n.coding.pic # 0
         /\ n.coding.pic # 0 => n.coding.h \in Headers
<1>1. coding \in Codings
  BY DEF Types
<1>2. NoOpen \in Codings /\ NoOpen.left = coding.left /\ NoOpen.pic = coding.pic /\ NoOpen.h = coding.h
  BY <1>1 DEF NoOpen, Codings
<1>3. CASE coding.left # {} /\ n \in SliceNals(coding.pic, coding.h, coding.left)
  <2>1. coding.pic \in Nat \ {0} /\ coding.h \in Headers /\ coding.left \in SUBSET All
    BY <1>3 DEF Types, Codings
  <2>. QED
    BY <1>3, <2>1, SliceNalsTyped DEF Events
<1>4. CASE n \in UNION {SliceNals(coding.pic + 1, h, All) : h \in Headers \ {coding.h}}
  <2>1. PICK h \in Headers : n \in SliceNals(coding.pic + 1, h, All)
    BY <1>4
  <2>2. coding.pic + 1 \in Nat \ {0}
    BY <1>1 DEF Codings
  <2>. QED
    BY <2>1, <2>2, SliceNalsTyped DEF Events
<1>5. CASE coding.open # NoSlice /\ n \in {[e |-> Part("B"), coding |-> coding], [e |-> Part("C"), coding |-> NoOpen]}
  <2>1. coding.open \in [pic : Nat, id : All]
    BY <1>1, <1>5 DEF Codings
  <2>2. Part("B") \in Parts /\ Part("C") \in Parts
    BY <2>1 DEF Part, Parts
  <2>. QED
    BY <1>2, <1>5, <2>2 DEF Types, Events, Parts
<1>6. CASE /\ coding.left = {} /\ coding.pic # 0
           /\ n \in {[e |-> [kind |-> "boundary"], coding |-> NoOpen],
                     [e |-> Slice("redundant", coding.pic, coding.h, All), coding |-> NoOpen]}
  <2>1. All \in Runs(All)
    <3>1. 0 \in All /\ Mbs - 1 \in All /\ All = 0 .. Mbs - 1
      BY AssemblyAssumption DEF All
    <3>2. All \in {a .. b : a, b \in All}
      BY <3>1
    <3>. QED
      BY <3>1, <3>2 DEF Runs
  <2>2. Slice("redundant", coding.pic, coding.h, All) \in Slices
    BY <1>1, <1>6, <2>1, SliceTyped DEF Types, Codings
  <2>. QED
    BY <1>2, <1>6, <2>2 DEF Types, Events, Slices
<1>7. CASE n = [e |-> [kind |-> "other"], coding |-> NoOpen]
  BY <1>2, <1>7 DEF Types, Events
<1>. QED
  BY <1>3, <1>4, <1>5, <1>6, <1>7 DEF Nals
-----------------------------------------------------------------------------
(* Pictures. *)

\* A slice that succeeds paints all of its macroblocks.
LEMMA OutcomesTyped ==
  ASSUME NEW s \in Slices, NEW o \in Outcomes(s)
  PROVE  /\ o.ok \in BOOLEAN /\ o.painted \subseteq o.marked /\ o.marked \subseteq s.mbs
         /\ o.marked \subseteq All
         /\ o.ok => o.painted = s.mbs /\ o.marked = s.mbs
<1>1. s.mbs \subseteq All
  BY DEF Slices
<1>2. CASE o = [ok |-> TRUE, painted |-> s.mbs, marked |-> s.mbs]
  BY <1>1, <1>2
<1>3. CASE \E k \in s.mbs :
             o \in {[ok |-> FALSE, painted |-> {m \in s.mbs : m < k}, marked |-> {m \in s.mbs : m < k}],
                    [ok |-> FALSE, painted |-> {m \in s.mbs : m < k},
                     marked |-> {m \in s.mbs : m < k} \cup {k}]}
  <2>1. PICK k \in s.mbs :
          /\ o.ok = FALSE /\ o.painted = {m \in s.mbs : m < k}
          /\ o.marked \in {{m \in s.mbs : m < k}, {m \in s.mbs : m < k} \cup {k}}
    BY <1>3
  <2>. QED
    BY <1>1, <2>1
<1>. QED
  BY <1>2, <1>3 DEF Outcomes

\* Slices reconstructed into a picture make it a picture.
LEMMA WithTyped ==
  ASSUME NEW p \in PicturesInProgress, NEW s \in Slices, NEW o \in Outcomes(s)
  PROVE  /\ With(p, s, o) \in PicturesInProgress
         /\ With(p, s, o).h = p.h /\ With(p, s, o).pts = p.pts
         /\ With(p, s, o).available = p.available \cup o.marked
         /\ With(p, s, o).painted = p.painted \cup o.painted
         /\ With(p, s, o).slices = p.slices \cup {s}
         /\ With(p, s, o) # NoPicture
<1>1. o.ok \in BOOLEAN /\ o.painted \subseteq All /\ o.marked \subseteq All
  BY OutcomesTyped
<1>2. /\ With(p, s, o) \in PicturesInProgress
      /\ With(p, s, o).h = p.h /\ With(p, s, o).pts = p.pts
      /\ With(p, s, o).available = p.available \cup o.marked
      /\ With(p, s, o).painted = p.painted \cup o.painted
      /\ With(p, s, o).slices = p.slices \cup {s}
  BY <1>1 DEF With, PicturesInProgress
<1>. QED
  BY <1>2 DEF PicturesInProgress, NoPicture

\* The picture a slice opens.
LEMMA NewPictureTyped ==
  ASSUME Types, NEW s \in Slices
  PROVE  /\ NewPicture(s) \in PicturesInProgress
         /\ NewPicture(s).h = s.h /\ NewPicture(s).pts = pendingPts
         /\ NewPicture(s).available = {} /\ NewPicture(s).painted = {} /\ NewPicture(s).slices = {}
BY DEF Types, NewPicture, PicturesInProgress, Slices

\* The pictures passed on and the one in progress are pictures.
LEMMA HeldTyped == Types => Held \subseteq PicturesInProgress
<1>. SUFFICES ASSUME Types PROVE Held \subseteq PicturesInProgress
  OBVIOUS
<1>1. done \in Seq(PicturesInProgress)
  BY DEF Types
<1>2. \A i \in DOMAIN done : done[i] \in PicturesInProgress
  BY <1>1, ElementOfSeq, LenProperties
<1>. QED
  BY <1>2 DEF Types, Held, Closed

\* Closing appends the picture in progress or nothing.
LEMMA FinalizedTyped ==
  ASSUME Types
  PROVE  /\ Finalized \in Seq(PicturesInProgress)
         /\ {Finalized[i] : i \in DOMAIN Finalized}
              = Closed \cup (IF inProgress # NoPicture /\ Complete(inProgress) THEN {inProgress} ELSE {})
<1>1. CASE inProgress # NoPicture /\ Complete(inProgress)
  <2>1. inProgress \in PicturesInProgress /\ Finalized = Append(done, inProgress)
    BY <1>1 DEF Types, Finalized
  <2>2. done \in Seq(PicturesInProgress)
    BY DEF Types
  <2>3. /\ Finalized \in Seq(PicturesInProgress)
        /\ Len(Finalized) = Len(done) + 1
        /\ \A i \in 1 .. Len(done) : Finalized[i] = done[i]
        /\ Finalized[Len(done) + 1] = inProgress
    BY <2>1, <2>2, AppendProperties
  <2>4. DOMAIN Finalized = 1 .. Len(done) + 1 /\ DOMAIN done = 1 .. Len(done) /\ Len(done) \in Nat
    BY <2>2, <2>3, LenProperties
  <2>. QED
    BY <1>1, <2>3, <2>4 DEF Closed
<1>2. CASE ~ (inProgress # NoPicture /\ Complete(inProgress))
  BY <1>2 DEF Types, Finalized, Closed
<1>. QED
  BY <1>1, <1>2
-----------------------------------------------------------------------------
(* Types. *)

\* Decoding a slice.
LEMMA DecodeTyped ==
  ASSUME Types, NEW s \in Slices, NEW ok \in BOOLEAN, DecodeSlice(s, ok)
  PROVE  /\ inProgress' \in PicturesInProgress \cup {NoPicture}
         /\ done' \in Seq(PicturesInProgress)
         /\ pendingPts' \in Nat
<1>1. inProgress \in PicturesInProgress \cup {NoPicture} /\ done \in Seq(PicturesInProgress)
      /\ Finalized \in Seq(PicturesInProgress) /\ pendingPts \in Nat
  BY FinalizedTyped DEF Types
<1>2. CASE s.kind = "redundant" /\ UNCHANGED <<inProgress, done, pendingPts>>
  BY <1>1, <1>2
<1>3. CASE inProgress' = NoPicture /\ done' = Finalized /\ UNCHANGED pendingPts
  BY <1>1, <1>3
<1>4. CASE /\ \E o \in Outcomes(s) : inProgress' = With(NewPicture(s), s, o)
           /\ done' = Finalized /\ pendingPts' = PtsTaken
  BY <1>1, <1>4, NewPictureTyped, WithTyped DEF PtsTaken, NoPts
<1>5. CASE /\ ~ StartsNewPicture(s)
           /\ \E o \in Outcomes(s) : inProgress' = With(inProgress, s, o)
           /\ UNCHANGED <<done, pendingPts>>
  <2>1. inProgress \in PicturesInProgress
    BY <1>1, <1>5 DEF StartsNewPicture
  <2>. QED
    BY <1>1, <1>5, <2>1, WithTyped
<1>. QED
  BY <1>2, <1>3, <1>4, <1>5 DEF DecodeSlice

\* The decoder starts with nothing.
LEMMA InitTypes == Init => Types
BY DEF Init, Types, NoPts, NoEvent, Events, Codings

\* The types are an invariant.
LEMMA NextTypes ==
  ASSUME Types, [Next]_vars
  PROVE  Types'
<1>1. CASE SendPacket
  BY <1>1 DEF SendPacket, Types
<1>2. CASE TakeNal
  <2>1. PICK n \in Nals : coding' = n.coding /\ ev' = n.e
                          /\ phase' = IF pendingDp # NoSlice /\ Completes(n.e) THEN "pending" ELSE "event"
    BY <1>2 DEF TakeNal
  <2>. QED
    BY <1>2, <2>1, NalsTyped DEF TakeNal, Types
<1>3. CASE LoseNal
  <2>1. PICK n \in Nals : coding' = n.coding
    BY <1>3 DEF LoseNal
  <2>. QED
    BY <1>3, <2>1, NalsTyped DEF LoseNal, Types
<1>4. CASE PacketDone
  BY <1>4 DEF PacketDone, Types
<1>5. CASE FlushPendingDp
  <2>1. PICK ok \in BOOLEAN : DecodeSlice(pendingDp, ok) /\ phase' \in {"event", "nal"} /\ ev' \in {ev, NoEvent}
    BY <1>5 DEF FlushPendingDp
  <2>2. pendingDp \in Slices
    BY <1>5 DEF FlushPendingDp, Types
  <2>. QED
    BY <1>5, <2>1, <2>2, DecodeTyped DEF FlushPendingDp, Types, NoEvent, Events
<1>6. CASE HandleSlice
  <2>1. PICK ok \in BOOLEAN : DecodeSlice(ev, ok)
    BY <1>6 DEF HandleSlice
  <2>2. ev \in Slices
    BY <1>6 DEF HandleSlice, Types, Events, Parts
  <2>. QED
    BY <1>6, <2>1, <2>2, DecodeTyped DEF HandleSlice, Handled, Types, NoEvent, Events
<1>7. CASE HandlePartitionA
  <2>1. ev \in Slices
    BY <1>7 DEF HandlePartitionA, Types, Events, Parts
  <2>. QED
    BY <1>7, <2>1 DEF HandlePartitionA, Handled, Types, NoEvent, Events
<1>8. CASE HandlePartition
  <2>1. ev \in Parts
    BY <1>8 DEF HandlePartition, Types, Events, Slices
  <2>2. pendingDp' \in Slices \cup {NoSlice}
    <3>1. CASE Attaches(ev)
      <4>1. pendingDp \in Slices
        BY <3>1 DEF Attaches, Types
      <4>. QED
        BY <1>8, <2>1, <3>1, <4>1 DEF HandlePartition, Slices
    <3>2. CASE ~ Attaches(ev)
      BY <1>8, <3>2 DEF HandlePartition, Types
    <3>. QED
      BY <3>1, <3>2
  <2>. QED
    BY <1>8, <2>2 DEF HandlePartition, Handled, Types, NoEvent, Events
<1>9. CASE HandleBoundary
  BY <1>9, FinalizedTyped DEF HandleBoundary, Handled, Types, NoEvent, Events
<1>10. CASE HandleOther
  BY <1>10 DEF HandleOther, Handled, Types, NoEvent, Events
<1>11. CASE FlushPendingAtEnd
  <2>1. PICK ok \in BOOLEAN : DecodeSlice(pendingDp, ok) /\ phase' \in {"flush", "end"}
    BY <1>11 DEF FlushPendingAtEnd
  <2>2. pendingDp \in Slices
    BY <1>11 DEF FlushPendingAtEnd, Types
  <2>. QED
    BY <1>11, <2>1, <2>2, DecodeTyped DEF FlushPendingAtEnd, Types
<1>12. CASE FlushPicture
  BY <1>12, FinalizedTyped DEF FlushPicture, Types
<1>13. CASE Reset
  BY <1>13 DEF Reset, Types, NoPts, Codings
<1>14. CASE UNCHANGED vars
  BY <1>14 DEF vars, Types
<1>. QED
  BY <1>1, <1>2, <1>3, <1>4, <1>5, <1>6, <1>7, <1>8, <1>9, <1>10, <1>11, <1>12, <1>13, <1>14 DEF Next

-----------------------------------------------------------------------------
(* What is passed on is whole. *)

Covered(p) == UNION {s.mbs : s \in p.slices}

\* A picture has only macroblocks of its slices, and unless one of its slices
\* failed or was lost they are painted;
HeldWhole ==
  \A p \in Held :
    /\ p.available \subseteq Covered(p)
    /\ PicturesOf(p) \cap failed = {} => p.painted = Covered(p)

\* a picture is passed on when all of its macroblocks are there.
ClosedComplete == \A p \in Closed : p.available = All

WholeInv == Types /\ HeldWhole /\ ClosedComplete

\* Adding a slice to a picture adds its macroblocks, painted unless it fails.
LEMMA WithWhole ==
  ASSUME NEW p \in PicturesInProgress, NEW s \in Slices, NEW o \in Outcomes(s), NEW bad,
         p.available \subseteq Covered(p),
         {t.pic : t \in p.slices} \cap bad = {} => p.painted = Covered(p),
         ~ o.ok => s.pic \in bad
  PROVE  /\ With(p, s, o).available \subseteq Covered(With(p, s, o))
         /\ PicturesOf(With(p, s, o)) \cap bad = {} => With(p, s, o).painted = Covered(With(p, s, o))
<1>. DEFINE q == With(p, s, o)
<1>1. /\ q # NoPicture /\ q.available = p.available \cup o.marked
      /\ q.painted = p.painted \cup o.painted /\ q.slices = p.slices \cup {s}
  BY WithTyped
<1>2. o.marked \subseteq s.mbs /\ (o.ok => o.painted = s.mbs)
  BY OutcomesTyped
<1>3. Covered(q) = Covered(p) \cup s.mbs
  BY <1>1 DEF Covered
<1>4. PicturesOf(q) = {t.pic : t \in p.slices} \cup {s.pic}
  BY <1>1 DEF PicturesOf
<1>. HIDE DEF q
<1>5. PicturesOf(q) \cap bad = {} => o.ok /\ p.painted = Covered(p)
  BY <1>4
<1>. QED
  BY <1>1, <1>2, <1>3, <1>5 DEF q

\* Closing passes on complete pictures only, and a failure elsewhere claims
\* nothing of them.
LEMMA FinalizeWhole ==
  ASSUME WholeInv, done' = Finalized, failed \subseteq failed'
  PROVE  \A p \in Closed' :
           /\ p.available = All /\ p.available \subseteq Covered(p)
           /\ PicturesOf(p) \cap failed' = {} => p.painted = Covered(p)
<1>1. Closed' = Closed \cup (IF inProgress # NoPicture /\ Complete(inProgress) THEN {inProgress} ELSE {})
  BY FinalizedTyped DEF WholeInv, Closed
<1>2. \A p \in Closed' : p \in Held
  BY <1>1 DEF Held
<1>3. \A p \in Closed' : p.available = All
  BY <1>1 DEF WholeInv, ClosedComplete, Complete
<1>4. \A p \in Held : PicturesOf(p) \cap failed' = {} => PicturesOf(p) \cap failed = {}
  OBVIOUS
<1>. QED
  BY <1>2, <1>3, <1>4 DEF WholeInv, HeldWhole

\* A step that leaves the pictures alone, or forgets the one in progress.
LEMMA KeepsWhole ==
  ASSUME WholeInv, done' = done, inProgress' \in {inProgress, NoPicture}, failed \subseteq failed'
  PROVE  HeldWhole' /\ ClosedComplete'
<1>1. Closed' = Closed /\ Held' \subseteq Held
  BY DEF Closed, Held
<1>2. \A p \in Held : PicturesOf(p) \cap failed' = {} => PicturesOf(p) \cap failed = {}
  OBVIOUS
<1>. QED
  BY <1>1, <1>2 DEF WholeInv, HeldWhole, ClosedComplete

\* A step that closes the picture in progress and opens none.
LEMMA CloseKeepsWhole ==
  ASSUME WholeInv, done' = Finalized, inProgress' = NoPicture, failed \subseteq failed'
  PROVE  HeldWhole' /\ ClosedComplete'
<1>1. Held' = Closed'
  BY DEF Held
<1>. QED
  BY <1>1, FinalizeWhole DEF HeldWhole, ClosedComplete

\* Decoding a slice: in an old picture, in a new one, or not at all.
LEMMA DecodeWhole ==
  ASSUME WholeInv, NEW s \in Slices, NEW ok \in BOOLEAN, DecodeSlice(s, ok)
  PROVE  HeldWhole' /\ ClosedComplete'
<1>1. CASE s.kind = "redundant" /\ ok /\ UNCHANGED <<inProgress, done, pendingPts, failed>>
  BY <1>1, KeepsWhole
<1>. SUFFICES ASSUME ~ (s.kind = "redundant" /\ ok /\ UNCHANGED <<inProgress, done, pendingPts, failed>>)
              PROVE  HeldWhole' /\ ClosedComplete'
  BY <1>1
<1>2. failed \subseteq failed' /\ (~ ok => s.pic \in failed')
  BY DEF DecodeSlice, Note
<1>3. CASE inProgress' = NoPicture /\ done' = Finalized
  BY <1>2, <1>3, CloseKeepsWhole
<1>4. CASE /\ \E o \in Outcomes(s) : ok = o.ok /\ inProgress' = With(NewPicture(s), s, o)
           /\ done' = Finalized
  <2>1. PICK o \in Outcomes(s) : ok = o.ok /\ inProgress' = With(NewPicture(s), s, o)
    BY <1>4
  <2>2. /\ NewPicture(s) \in PicturesInProgress
        /\ NewPicture(s).available = {} /\ NewPicture(s).painted = {} /\ NewPicture(s).slices = {}
    BY NewPictureTyped DEF WholeInv
  <2>3. Covered(NewPicture(s)) = {}
    BY <2>2 DEF Covered
  <2>4. /\ inProgress'.available \subseteq Covered(inProgress')
        /\ PicturesOf(inProgress') \cap failed' = {} => inProgress'.painted = Covered(inProgress')
    BY <1>2, <2>1, <2>2, <2>3, WithWhole
  <2>. QED
    BY <1>2, <1>4, <2>4, FinalizeWhole DEF HeldWhole, ClosedComplete, Held
<1>5. CASE /\ ~ StartsNewPicture(s)
           /\ \E o \in Outcomes(s) : ok = o.ok /\ inProgress' = With(inProgress, s, o)
           /\ UNCHANGED <<done, pendingPts>>
  <2>1. PICK o \in Outcomes(s) : ok = o.ok /\ inProgress' = With(inProgress, s, o)
    BY <1>5
  <2>2. inProgress \in PicturesInProgress /\ inProgress # NoPicture
    BY <1>5 DEF StartsNewPicture, WholeInv, Types
  <2>3. /\ inProgress.available \subseteq Covered(inProgress)
        /\ {t.pic : t \in inProgress.slices} \cap failed' = {} => inProgress.painted = Covered(inProgress)
    BY <1>2, <2>2 DEF WholeInv, HeldWhole, Held, PicturesOf
  <2>4. /\ inProgress'.available \subseteq Covered(inProgress')
        /\ PicturesOf(inProgress') \cap failed' = {} => inProgress'.painted = Covered(inProgress')
    BY <1>2, <2>1, <2>2, <2>3, WithWhole
  <2>5. Closed' = Closed /\ Held' \subseteq Closed \cup {inProgress'}
    BY <1>5 DEF Closed, Held
  <2>6. \A p \in Closed : PicturesOf(p) \cap failed' = {} => PicturesOf(p) \cap failed = {}
    BY <1>2
  <2>. QED
    BY <2>4, <2>5, <2>6 DEF WholeInv, HeldWhole, ClosedComplete, Held
<1>. QED
  BY <1>3, <1>4, <1>5 DEF DecodeSlice

\* Every step keeps the invariant.
LEMMA NextWhole ==
  ASSUME WholeInv, [Next]_vars
  PROVE  WholeInv'
<1>1. Types'
  BY NextTypes DEF WholeInv
<1>2. ASSUME SendPacket \/ TakeNal \/ LoseNal \/ PacketDone \/ HandlePartitionA \/ HandlePartition
             \/ HandleOther \/ Reset \/ UNCHANGED vars
      PROVE  HeldWhole' /\ ClosedComplete'
  <2>1. done' = done /\ inProgress' \in {inProgress, NoPicture} /\ failed \subseteq failed'
    BY <1>2 DEF SendPacket, TakeNal, LoseNal, PacketDone, HandlePartitionA, HandlePartition,
                HandleOther, Reset, vars
  <2>. QED
    BY <2>1, KeepsWhole
<1>3. ASSUME FlushPendingDp \/ FlushPendingAtEnd
      PROVE  HeldWhole' /\ ClosedComplete'
  <2>1. pendingDp \in Slices /\ \E ok \in BOOLEAN : DecodeSlice(pendingDp, ok)
    BY <1>3 DEF FlushPendingDp, FlushPendingAtEnd, WholeInv, Types
  <2>. QED
    BY <2>1, DecodeWhole
<1>4. ASSUME HandleSlice
      PROVE  HeldWhole' /\ ClosedComplete'
  <2>1. ev \in Slices /\ \E ok \in BOOLEAN : DecodeSlice(ev, ok)
    BY <1>4 DEF HandleSlice, WholeInv, Types, Events, Parts
  <2>. QED
    BY <2>1, DecodeWhole
<1>5. ASSUME HandleBoundary \/ FlushPicture
      PROVE  HeldWhole' /\ ClosedComplete'
  BY <1>5, CloseKeepsWhole DEF HandleBoundary, FlushPicture
<1>. QED
  BY <1>1, <1>2, <1>3, <1>4, <1>5 DEF Next, WholeInv

\* Whatever fails, is lost, refused or reset: a picture whose slices do not make
\* it up is never passed on, and one none of whose slices failed is passed on
\* with every macroblock reconstructed (finalize_in_progress_picture).
THEOREM ClosedIsWholeCorrect == Spec => []ClosedIsWhole
<1>1. Init => WholeInv
  <2>. SUFFICES ASSUME Init PROVE WholeInv
    OBVIOUS
  <2>1. Held = {} /\ Closed = {}
    BY DEF Init, Held, Closed
  <2>. QED
    BY <2>1, InitTypes DEF WholeInv, HeldWhole, ClosedComplete
<1>2. WholeInv /\ [Next]_vars => WholeInv'
  BY NextWhole
<1>3. WholeInv => ClosedIsWhole
  <2>. SUFFICES ASSUME WholeInv, NEW p \in Closed
                PROVE  /\ UNION {s.mbs : s \in p.slices} = All
                       /\ PicturesOf(p) \cap failed = {} => p.painted = All
    BY DEF ClosedIsWhole
  <2>1. p \in PicturesInProgress
    BY DEF WholeInv, Types, Closed
  <2>2. Covered(p) \subseteq All
    BY <2>1 DEF PicturesInProgress, Slices, Covered
  <2>3. All \subseteq Covered(p) /\ (PicturesOf(p) \cap failed = {} => p.painted = Covered(p))
    BY DEF WholeInv, HeldWhole, ClosedComplete, Held
  <2>. QED
    BY <2>2, <2>3 DEF Covered
<1>. QED
  BY <1>1, <1>2, <1>3, PTL DEF Spec

-----------------------------------------------------------------------------
(* Timestamps, without data partitioning: a slice is decoded in its own packet. *)

\* The pts of a picture, if it has one, is the packet of its first slice; n
\* packets have come.
OwnPts(p, n) ==
  /\ p.pts <= n
  /\ \A s \in p.slices : s.packet <= n
  /\ p.pts # NoPts => \E s \in p.slices : s.packet = p.pts /\ \A t \in p.slices : s.packet <= t.packet

PtsInv ==
  /\ Types
  /\ pendingDp = NoSlice /\ coding.open = NoSlice
  /\ ev.kind \in {"slice", "redundant"} => ev.packet = packet
  /\ ev.kind \notin {"A", "B", "C"}
  /\ phase \notin {"pending", "event"} => ev = NoEvent
  /\ pendingPts \in {NoPts, packet}
  /\ \A p \in Held : OwnPts(p, packet) /\ (pendingPts # NoPts => p.pts # pendingPts)
  /\ \A p, q \in Closed : p.pts = q.pts => p = q \/ p.pts = NoPts
  /\ inProgress # NoPicture => \A p \in Closed : p.pts = inProgress.pts => p.pts = NoPts

\* Without partitioning the stream codes no partitions.
LEMMA WholeSlicesOnly ==
  ASSUME ~ Partitions, PtsInv, NEW n \in Nals
  PROVE  /\ n.coding.open = NoSlice
         /\ n.e.kind \notin {"A", "B", "C"}
         /\ n.e.kind \in {"slice", "redundant"} => n.e.packet = packet
<1>1. coding.open = NoSlice /\ NoOpen.open = NoSlice /\ coding \in Codings
  BY DEF PtsInv, Types, NoOpen, Codings
<1>2. ASSUME NEW pic, NEW h, NEW left, n \in SliceNals(pic, h, left)
      PROVE  n.coding.open = NoSlice /\ n.e.kind = "slice" /\ n.e.packet = packet
  <2>1. PICK t \in Kinds(h) \X NextRuns(left) :
          n = [e |-> Slice(t[1], pic, h, t[2]),
               coding |-> [h |-> h, pic |-> pic, left |-> left \ t[2],
                           open |-> IF t[1] = "A" THEN [pic |-> pic, id |-> MinOf(t[2])] ELSE NoSlice]]
    BY <1>2 DEF SliceNals
  <2>2. t[1] = "slice"
    BY DEF Kinds
  <2>. QED
    BY <2>1, <2>2 DEF Slice
<1>3. CASE coding.left # {} /\ n \in SliceNals(coding.pic, coding.h, coding.left)
  BY <1>2, <1>3
<1>4. CASE \E h \in Headers : n \in SliceNals(coding.pic + 1, h, All)
  BY <1>2, <1>4
<1>5. CASE n = [e |-> [kind |-> "boundary"], coding |-> NoOpen]
  BY <1>1, <1>5
<1>6. CASE n = [e |-> Slice("redundant", coding.pic, coding.h, All), coding |-> NoOpen]
  BY <1>1, <1>6 DEF Slice
<1>7. CASE n = [e |-> [kind |-> "other"], coding |-> NoOpen]
  BY <1>1, <1>7
<1>. QED
  BY <1>1, <1>3, <1>4, <1>5, <1>6, <1>7 DEF Nals

\* The part of the invariant about pictures.
PicturesPts ==
  /\ pendingPts \in {NoPts, packet}
  /\ \A p \in Held : OwnPts(p, packet) /\ (pendingPts # NoPts => p.pts # pendingPts)
  /\ \A p, q \in Closed : p.pts = q.pts => p = q \/ p.pts = NoPts
  /\ inProgress # NoPicture => \A p \in Closed : p.pts = inProgress.pts => p.pts = NoPts

\* Pictures left alone or forgotten, a pts taken from or kept for the next one.
LEMMA KeepsPts ==
  ASSUME PtsInv, Closed' = Closed, inProgress' \in {inProgress, NoPicture}, packet' = packet,
         pendingPts' \in {pendingPts, NoPts}
  PROVE  PicturesPts'
<1>1. Held' \subseteq Held
  BY DEF Held
<1>. QED
  BY <1>1 DEF PtsInv, PicturesPts, OwnPts

\* The picture in progress is passed on or dropped.
LEMMA CloseKeepsPts ==
  ASSUME PtsInv, done' = Finalized, inProgress' = NoPicture, packet' = packet, pendingPts' = pendingPts
  PROVE  PicturesPts'
<1>1. Closed' = Closed \cup (IF inProgress # NoPicture /\ Complete(inProgress) THEN {inProgress} ELSE {})
  BY FinalizedTyped DEF PtsInv, Closed
<1>2. Held' = Closed' /\ Held' \subseteq Held
  BY <1>1 DEF Held
<1>. QED
  BY <1>1, <1>2 DEF PtsInv, PicturesPts, OwnPts

\* A slice opens a picture with the packet's pts, or joins one of its packet
\* or an earlier one.
LEMMA DecodePts ==
  ASSUME PtsInv, NEW s \in Slices, s.packet = packet, NEW ok \in BOOLEAN, DecodeSlice(s, ok),
         packet' = packet
  PROVE  PicturesPts'
<1>. USE DEF NoPts
<1>0. packet \in Nat /\ pendingPts \in Nat
  BY DEF PtsInv, Types
<1>1. CASE UNCHANGED <<inProgress, done, pendingPts>>
  BY <1>1, KeepsPts DEF Closed
<1>2. CASE inProgress' = NoPicture /\ done' = Finalized /\ UNCHANGED pendingPts
  BY <1>2, CloseKeepsPts
<1>3. CASE /\ \E o \in Outcomes(s) : inProgress' = With(NewPicture(s), s, o)
           /\ done' = Finalized /\ pendingPts' = PtsTaken
  <2>1. inProgress'.pts = pendingPts /\ inProgress'.slices = {s} /\ inProgress' # NoPicture
    BY <1>3, WithTyped, NewPictureTyped DEF PtsInv
  <2>2. Closed' = Closed \cup (IF inProgress # NoPicture /\ Complete(inProgress) THEN {inProgress} ELSE {})
    BY <1>3, FinalizedTyped DEF PtsInv, Closed
  <2>3. Closed' \subseteq Held /\ Held' = Closed' \cup {inProgress'}
    BY <2>1, <2>2 DEF Held
  <2>4. OwnPts(inProgress', packet)
    BY <1>0, <2>1 DEF PtsInv, OwnPts
  <2>5. \A p \in Closed' : OwnPts(p, packet) /\ (p.pts = inProgress'.pts => p.pts = NoPts)
    BY <2>1, <2>3 DEF PtsInv, OwnPts
  <2>6. \A p, q \in Closed' : p.pts = q.pts => p = q \/ p.pts = NoPts
    BY <2>2 DEF PtsInv
  <2>. QED
    BY <1>3, <2>3, <2>4, <2>5, <2>6 DEF PicturesPts, PtsTaken
<1>4. CASE /\ ~ StartsNewPicture(s)
           /\ \E o \in Outcomes(s) : inProgress' = With(inProgress, s, o)
           /\ UNCHANGED <<done, pendingPts>>
  <2>1. inProgress \in PicturesInProgress /\ inProgress # NoPicture /\ inProgress \in Held
    BY <1>4 DEF StartsNewPicture, PtsInv, Types, Held
  <2>2. inProgress'.pts = inProgress.pts /\ inProgress'.slices = inProgress.slices \cup {s}
    BY <1>4, <2>1, WithTyped
  <2>3. Closed' = Closed /\ Held' \subseteq Closed \cup {inProgress'} /\ Closed \subseteq Held
    BY <1>4 DEF Closed, Held
  <2>4. OwnPts(inProgress', packet)
    <3>1. OwnPts(inProgress, packet)
      BY <2>1 DEF PtsInv
    <3>2. \A t \in inProgress'.slices : t.packet <= packet
      BY <1>0, <2>2, <3>1 DEF OwnPts
    <3>3. inProgress'.pts # NoPts =>
            \E f \in inProgress'.slices : f.packet = inProgress'.pts /\ \A t \in inProgress'.slices : f.packet <= t.packet
      BY <1>0, <2>2, <3>1 DEF OwnPts
    <3>. QED
      BY <2>2, <3>1, <3>2, <3>3 DEF OwnPts
  <2>. QED
    BY <1>4, <2>1, <2>2, <2>3, <2>4 DEF PtsInv, PicturesPts, OwnPts
<1>. QED
  BY <1>1, <1>2, <1>3, <1>4 DEF DecodeSlice

\* Every step keeps the invariant.
LEMMA NextPts ==
  ASSUME ~ Partitions, PtsInv, [Next]_vars
  PROVE  PtsInv'
<1>. USE DEF NoPts
<1>1. Types'
  BY NextTypes DEF PtsInv
<1>2. CASE SendPacket
  <2>1. Held' = Held /\ Closed' = Closed /\ packet' = packet + 1 /\ pendingPts' = packet' /\ packet \in Nat
    BY <1>2 DEF SendPacket, Held, Closed, PtsInv, Types
  <2>2. \A p \in Held : p.pts \in Nat /\ \A s \in p.slices : s.packet \in Nat
    BY HeldTyped DEF PtsInv, PicturesInProgress, Slices
  <2>3. PicturesPts'
    BY <1>2, <2>1, <2>2 DEF SendPacket, PtsInv, PicturesPts, OwnPts
  <2>4. ev = NoEvent /\ ev' = ev
    BY <1>2 DEF SendPacket, PtsInv
  <2>. QED
    BY <1>1, <1>2, <2>3, <2>4 DEF SendPacket, PtsInv, PicturesPts, NoEvent
<1>3. ASSUME TakeNal \/ LoseNal \/ PacketDone \/ HandleOther \/ Reset \/ UNCHANGED vars
      PROVE  PicturesPts'
  <2>1. /\ done' = done /\ inProgress' \in {inProgress, NoPicture} /\ packet' = packet
        /\ pendingPts' \in {pendingPts, NoPts}
    BY <1>3 DEF TakeNal, LoseNal, PacketDone, HandleOther, Handled, Reset, vars
  <2>. QED
    BY <2>1, KeepsPts DEF Closed
<1>4. CASE TakeNal
  <2>1. PICK n \in Nals : coding' = n.coding /\ ev' = n.e /\ phase' \in {"pending", "event"}
    BY <1>4 DEF TakeNal
  <2>. QED
    BY <1>1, <1>3, <1>4, <2>1, WholeSlicesOnly DEF TakeNal, PtsInv, PicturesPts
<1>5. CASE LoseNal
  <2>1. PICK n \in Nals : coding' = n.coding
    BY <1>5 DEF LoseNal
  <2>2. phase \notin {"pending", "event"} /\ ev' = ev /\ packet' = packet /\ pendingDp' = pendingDp
    BY <1>5 DEF LoseNal
  <2>. QED
    BY <1>1, <1>3, <1>5, <2>1, <2>2, WholeSlicesOnly DEF PtsInv, PicturesPts
<1>6. CASE PacketDone \/ UNCHANGED vars
  BY <1>1, <1>3, <1>6 DEF PacketDone, vars, PtsInv, PicturesPts
<1>7. CASE HandleOther \/ HandleBoundary
  <2>1. PicturesPts'
    BY <1>3, <1>7, CloseKeepsPts DEF HandleBoundary, Handled
  <2>. QED
    BY <1>1, <1>7, <2>1 DEF HandleOther, HandleBoundary, Handled, PtsInv, PicturesPts, NoEvent
<1>8. CASE HandleSlice
  <2>1. ev \in Slices /\ ev.packet = packet /\ packet' = packet
    BY <1>8 DEF HandleSlice, Handled, PtsInv, Types, Events, Parts
  <2>2. PicturesPts'
    BY <1>8, <2>1, DecodePts DEF HandleSlice
  <2>. QED
    BY <1>1, <1>8, <2>2 DEF HandleSlice, Handled, PtsInv, PicturesPts, NoEvent
<1>9. CASE FlushPicture
  <2>1. PicturesPts'
    BY <1>9, CloseKeepsPts DEF FlushPicture
  <2>2. phase \notin {"pending", "event"}
    BY <1>9 DEF FlushPicture
  <2>. QED
    BY <1>1, <1>9, <2>1, <2>2 DEF FlushPicture, PtsInv, PicturesPts
<1>10. CASE Reset
  <2>1. coding'.open = NoSlice /\ phase \notin {"pending", "event"}
    BY <1>10 DEF Reset, PtsInv, Types, Codings
  <2>. QED
    BY <1>1, <1>3, <1>10, <2>1 DEF Reset, PtsInv, PicturesPts
<1>11. ~ (FlushPendingDp \/ HandlePartitionA \/ HandlePartition \/ FlushPendingAtEnd)
  BY DEF FlushPendingDp, HandlePartitionA, HandlePartition, FlushPendingAtEnd, PtsInv, Types
<1>. QED
  BY <1>2, <1>4, <1>5, <1>6, <1>7, <1>8, <1>9, <1>10, <1>11 DEF Next

\* A picture without data partitioning has the pts of the packet its first slice
\* came in, or none, and no pts is given to two pictures (pending_pts), whatever
\* fails, is lost, refused or reset.
THEOREM PtsCorrect ==
  ASSUME ~ Partitions
  PROVE  Spec => []PtsOfOwnPacket
<1>1. Init => PtsInv
  <2>. SUFFICES ASSUME Init PROVE PtsInv
    OBVIOUS
  <2>1. Held = {} /\ Closed = {}
    BY DEF Init, Held, Closed
  <2>. QED
    BY <2>1, InitTypes DEF Init, PtsInv, NoEvent
<1>2. PtsInv /\ [Next]_vars => PtsInv'
  BY NextPts
<1>3. PtsInv => PtsOfOwnPacket
  <2>. SUFFICES ASSUME PtsInv PROVE PtsOfOwnPacket
    OBVIOUS
  <2>1. ASSUME NEW p \in Held
        PROVE  p.pts \in {NoPts, MinOf({s.packet : s \in p.slices})}
    <3>1. CASE p.pts = NoPts
      BY <3>1
    <3>2. CASE p.pts # NoPts
      <4>1. p.slices \subseteq Slices
        BY HeldTyped DEF PtsInv, PicturesInProgress
      <4>2. PICK f \in p.slices : f.packet = p.pts /\ \A t \in p.slices : f.packet <= t.packet
        BY <3>2 DEF PtsInv, OwnPts
      <4>. DEFINE S == {s.packet : s \in p.slices}
      <4>3. p.pts \in S /\ (\A y \in S : p.pts <= y) /\ S \subseteq Nat
        BY <4>1, <4>2 DEF Slices
      <4>. HIDE DEF S
      <4>4. MinOf(S) = p.pts
        <5>1. ASSUME NEW x \in S, \A y \in S : x <= y
              PROVE  x = p.pts
          <6>1. x <= p.pts /\ p.pts <= x /\ x \in Nat /\ p.pts \in Nat
            BY <4>3, <5>1
          <6>. QED
            BY <6>1
        <5>. QED
          BY <4>3, <5>1 DEF MinOf
      <4>. QED
        BY <4>4 DEF S
    <3>. QED
      BY <3>1, <3>2
  <2>2. \A p, q \in Held : p.pts = q.pts => p = q \/ p.pts = NoPts
    BY DEF PtsInv, Held
  <2>. QED
    BY <2>1, <2>2 DEF PtsOfOwnPacket
<1>. QED
  BY <1>1, <1>2, <1>3, PTL DEF Spec

-----------------------------------------------------------------------------
(* Pictures kept apart, in a stream that loses nothing: whatever the slicing, *)
(* the order of slices and their partitioning.                                *)

\* 7.4.1.2.4: pictures in a row differ in an element that separates them.
HeadersDiffer ==
  \A g, h \in Headers : g # h =>
    \/ \E f \in {"frameNum", "pps", "structure", "ref", "order", "idr"} : g[f] # h[f]
    \/ h.idr /\ g.idrId # h.idrId

\* The coded picture that the slices of p belong to.
Num(p) == (CHOOSE s \in p.slices : TRUE).pic

OnePic(p) == p.slices # {} /\ \A s \in p.slices : s.pic = Num(p)

\* Everything passed on comes before picture k.
Below(k) == \A p \in Closed : Num(p) < k

\* Picture q, with header g, is picture p, with header h, or the next one.
Follows(p, h, q, g) == (p = q /\ h = g) \/ (p + 1 = q /\ h # g)

PicturesOrder ==
  /\ \A p \in Held : OnePic(p)
  /\ inProgress # NoPicture => Below(Num(inProgress))
  /\ \A i, j \in DOMAIN done : i < j => Num(done[i]) < Num(done[j])

\* What is on its way is no older than what has been decoded, by no more than
\* one picture at every station: picture in progress, pending slice, event.
OrderInv ==
  /\ Types
  /\ phase # "lost"
  /\ phase \notin {"pending", "event"} => ev = NoEvent
  /\ phase = "event" /\ Completes(ev) => pendingDp = NoSlice
  /\ phase = "flush" => pendingDp = NoSlice /\ coding.left = {}
  /\ ev.kind \in {"slice", "A"} => ev.pic = coding.pic /\ ev.h = coding.h /\ Below(ev.pic)
  /\ ev.kind = "boundary" => coding.left = {}
  /\ pendingDp # NoSlice =>
       /\ pendingDp.kind = "A" /\ Below(pendingDp.pic)
       /\ Follows(pendingDp.pic, pendingDp.h, coding.pic, coding.h)
       /\ ev.kind \notin {"slice", "A"} => pendingDp.pic = coding.pic
  /\ inProgress # NoPicture =>
       /\ pendingDp # NoSlice => Follows(Num(inProgress), inProgress.h, pendingDp.pic, pendingDp.h)
       /\ pendingDp = NoSlice => Follows(Num(inProgress), inProgress.h, coding.pic, coding.h)
       /\ pendingDp = NoSlice /\ ev.kind \notin {"slice", "A"} => Num(inProgress) = coding.pic
  /\ Below(coding.pic + 1)
  /\ coding.left # {} => Below(coding.pic)
  /\ PicturesOrder

\* A slice of the stream is of the picture being coded or begins the next one.
LEMMA NalsFollow ==
  ASSUME Types, NEW n \in Nals
  PROVE  /\ n.e.kind \in {"slice", "A"} =>
              /\ n.e.pic = n.coding.pic /\ n.e.h = n.coding.h
              /\ \/ coding.left # {} /\ n.coding.pic = coding.pic /\ n.coding.h = coding.h
                 \/ coding.left = {} /\ n.coding.pic = coding.pic + 1 /\ n.coding.h # coding.h
         /\ n.e.kind \notin {"slice", "A"} =>
              n.coding.pic = coding.pic /\ n.coding.h = coding.h /\ n.coding.left = coding.left
         /\ n.e.kind = "boundary" => n.coding.left = {}
         /\ coding.left = {} /\ n.coding.left # {} => n.coding.pic = coding.pic + 1
<1>1. coding \in Codings /\ NoOpen.left = coding.left /\ NoOpen.pic = coding.pic /\ NoOpen.h = coding.h
  BY DEF Types, NoOpen, Codings
<1>2. CASE coding.left # {} /\ n \in SliceNals(coding.pic, coding.h, coding.left)
  <2>1. coding.pic \in Nat \ {0} /\ coding.h \in Headers /\ coding.left \in SUBSET All
    BY <1>2 DEF Types, Codings
  <2>. QED
    BY <1>2, <2>1, SliceNalsTyped
<1>3. CASE coding.left = {} /\ n \in UNION {SliceNals(coding.pic + 1, h, All) : h \in Headers \ {coding.h}}
  <2>1. PICK h \in Headers \ {coding.h} : n \in SliceNals(coding.pic + 1, h, All)
    BY <1>3
  <2>2. coding.pic + 1 \in Nat \ {0}
    BY <1>1 DEF Codings
  <2>. QED
    BY <1>3, <2>1, <2>2, SliceNalsTyped
<1>4. CASE n \in {[e |-> Part("B"), coding |-> coding], [e |-> Part("C"), coding |-> NoOpen]}
  BY <1>1, <1>4 DEF Part
<1>5. CASE /\ coding.left = {}
           /\ n \in {[e |-> [kind |-> "boundary"], coding |-> NoOpen],
                     [e |-> Slice("redundant", coding.pic, coding.h, All), coding |-> NoOpen]}
  BY <1>1, <1>5 DEF Slice
<1>6. CASE n = [e |-> [kind |-> "other"], coding |-> NoOpen]
  BY <1>1, <1>6
<1>. QED
  BY <1>2, <1>3, <1>4, <1>5, <1>6 DEF Nals

\* The slices of a picture it is the only slice of, or joins.
LEMMA WithOne ==
  ASSUME NEW p \in PicturesInProgress, NEW s \in Slices, NEW o \in Outcomes(s),
         \A t \in p.slices : t.pic = s.pic
  PROVE  OnePic(With(p, s, o)) /\ Num(With(p, s, o)) = s.pic
<1>1. With(p, s, o).slices = p.slices \cup {s}
  BY WithTyped
<1>. QED
  BY <1>1 DEF OnePic, Num

\* Closing a picture that is newer than all that were closed.
LEMMA FinalizeOrder ==
  ASSUME Types, PicturesOrder, done' = Finalized, NEW k \in Nat, Below(k),
         inProgress # NoPicture => Num(inProgress) < k
  PROVE  /\ \A p \in Closed' : OnePic(p) /\ Num(p) < k
         /\ \A i, j \in DOMAIN done' : i < j => Num(done'[i]) < Num(done'[j])
<1>1. Closed' = Closed \cup (IF inProgress # NoPicture /\ Complete(inProgress) THEN {inProgress} ELSE {})
  BY FinalizedTyped DEF Closed
<1>2. \A p \in Closed' : OnePic(p) /\ Num(p) < k
  BY <1>1 DEF PicturesOrder, Below, Held
<1>3. CASE inProgress # NoPicture /\ Complete(inProgress)
  <2>1. inProgress \in PicturesInProgress /\ done \in Seq(PicturesInProgress) /\ done' = Append(done, inProgress)
    BY <1>3 DEF Types, Finalized
  <2>2. /\ DOMAIN done' = 1 .. Len(done) + 1 /\ DOMAIN done = 1 .. Len(done) /\ Len(done) \in Nat
        /\ \A i \in 1 .. Len(done) : done'[i] = done[i]
        /\ done'[Len(done) + 1] = inProgress
    BY <2>1, AppendProperties, LenProperties
  <2>3. \A i \in 1 .. Len(done) : Num(done[i]) < Num(inProgress)
    BY <1>3, <2>2 DEF PicturesOrder, Below, Closed
  <2>. QED
    BY <1>2, <2>2, <2>3 DEF PicturesOrder
<1>4. CASE ~ (inProgress # NoPicture /\ Complete(inProgress))
  BY <1>2, <1>4 DEF Finalized, PicturesOrder
<1>. QED
  BY <1>3, <1>4

\* A picture's number is that of a slice.
LEMMA NumTyped ==
  ASSUME Types, NEW p \in Held, OnePic(p)
  PROVE  Num(p) \in Nat \ {0}
<1>1. p.slices \subseteq Slices /\ p.slices # {}
  BY HeldTyped DEF PicturesInProgress, OnePic
<1>2. PICK s \in p.slices : s.pic = Num(p)
  BY <1>1 DEF OnePic
<1>. QED
  BY <1>1, <1>2 DEF Slices

\* Decoding a slice of the picture in progress or of the next one: headers tell
\* which, and it joins the one or opens the other.
LEMMA DecodeOne ==
  ASSUME ~ Faulty, HeadersDiffer, Types, PicturesOrder, NEW s \in Slices, NEW ok \in BOOLEAN,
         s.kind # "redundant", DecodeSlice(s, ok), Below(s.pic),
         inProgress # NoPicture => Follows(Num(inProgress), inProgress.h, s.pic, s.h)
  PROVE  /\ PicturesOrder' /\ Below(s.pic)'
         /\ inProgress' # NoPicture => Num(inProgress') = s.pic /\ inProgress'.h = s.h
         /\ ~ ok => inProgress' = NoPicture
<1>1. s.pic \in Nat \ {0} /\ s.h \in Headers
  BY DEF Slices
<1>2. inProgress # NoPicture =>
        inProgress \in PicturesInProgress /\ inProgress \in Held /\ Num(inProgress) \in Nat \ {0}
  BY NumTyped DEF Types, Held, PicturesOrder
<1>3. inProgress # NoPicture /\ StartsNewPicture(s) => Num(inProgress) < s.pic
  <2>. SUFFICES ASSUME inProgress # NoPicture, StartsNewPicture(s) PROVE inProgress.h # s.h
    BY <1>1, <1>2 DEF Follows
  <2>. QED
    BY DEF StartsNewPicture
<1>4. inProgress # NoPicture /\ ~ StartsNewPicture(s) => Num(inProgress) = s.pic /\ inProgress.h = s.h
  <2>. SUFFICES ASSUME inProgress # NoPicture, ~ StartsNewPicture(s) PROVE inProgress.h = s.h
    BY DEF Follows
  <2>1. inProgress.h \in Headers
    BY <1>2 DEF PicturesInProgress
  <2>. QED
    BY <1>1, <2>1 DEF StartsNewPicture, HeadersDiffer
<1>5. \A o \in Outcomes(s) : o.ok = TRUE
  BY DEF Outcomes
<1>6. CASE StartsNewPicture(s) /\ done' = Finalized
  <2>1. /\ \A p \in Closed' : OnePic(p) /\ Num(p) < s.pic
        /\ \A i, j \in DOMAIN done' : i < j => Num(done'[i]) < Num(done'[j])
    BY <1>1, <1>3, <1>6, FinalizeOrder
  <2>2. CASE inProgress' = NoPicture
    <3>1. Held' = Closed'
      BY <2>2 DEF Held
    <3>. QED
      BY <2>1, <2>2, <3>1 DEF PicturesOrder, Below
  <2>3. CASE \E o \in Outcomes(s) : ok = o.ok /\ inProgress' = With(NewPicture(s), s, o)
    <3>1. PICK o \in Outcomes(s) : ok = o.ok /\ inProgress' = With(NewPicture(s), s, o)
      BY <2>3
    <3>2. NewPicture(s) \in PicturesInProgress /\ NewPicture(s).slices = {} /\ NewPicture(s).h = s.h
      BY NewPictureTyped
    <3>3. OnePic(inProgress') /\ Num(inProgress') = s.pic /\ inProgress'.h = s.h
      BY <3>1, <3>2, WithOne, WithTyped
    <3>. QED
      BY <1>5, <2>1, <3>1, <3>3 DEF PicturesOrder, Below, Held
  <2>. QED
    BY <1>6, <2>2, <2>3 DEF DecodeSlice
<1>7. CASE ~ StartsNewPicture(s) /\ \E o \in Outcomes(s) : ok = o.ok /\ inProgress' = With(inProgress, s, o)
           /\ done' = done
  <2>1. inProgress # NoPicture
    BY <1>7 DEF StartsNewPicture
  <2>2. PICK o \in Outcomes(s) : ok = o.ok /\ inProgress' = With(inProgress, s, o)
    BY <1>7
  <2>3. \A t \in inProgress.slices : t.pic = s.pic
    BY <1>2, <1>4, <1>7, <2>1 DEF PicturesOrder, OnePic
  <2>4. OnePic(inProgress') /\ Num(inProgress') = s.pic /\ inProgress'.h = s.h
    BY <1>2, <1>4, <1>7, <2>1, <2>2, <2>3, WithOne, WithTyped
  <2>5. Closed' = Closed /\ Closed \subseteq Held
    BY <1>7 DEF Closed, Held
  <2>6. \A p \in Held' : p \in Held \/ p = inProgress'
    BY <2>5 DEF Held
  <2>7. done' = done
    BY <1>7
  <2>. QED
    BY <1>5, <2>2, <2>4, <2>5, <2>6, <2>7 DEF PicturesOrder, Below
<1>. QED
  BY <1>6, <1>7 DEF DecodeSlice

\* The same, for every later picture.
LEMMA DecodeOrder ==
  ASSUME ~ Faulty, HeadersDiffer, Types, PicturesOrder, NEW s \in Slices, NEW ok \in BOOLEAN,
         s.kind # "redundant", DecodeSlice(s, ok), Below(s.pic),
         inProgress # NoPicture => Follows(Num(inProgress), inProgress.h, s.pic, s.h)
  PROVE  /\ PicturesOrder' /\ \A k \in Nat : s.pic <= k => Below(k)'
         /\ inProgress' # NoPicture => Num(inProgress') = s.pic /\ inProgress'.h = s.h
         /\ ~ ok => inProgress' = NoPicture
<1>1. \A p \in Closed' : Num(p) \in Nat
  <2>1. Closed' \subseteq Held
    <3>1. CASE done' = Finalized
      BY <3>1, FinalizedTyped DEF Closed, Held
    <3>2. CASE done' = done
      BY <3>2 DEF Closed, Held
    <3>. QED
      BY <3>1, <3>2 DEF DecodeSlice
  <2>. QED
    BY <2>1, NumTyped DEF PicturesOrder
<1>2. /\ PicturesOrder' /\ Below(s.pic)'
      /\ inProgress' # NoPicture => Num(inProgress') = s.pic /\ inProgress'.h = s.h
      /\ ~ ok => inProgress' = NoPicture
  BY DecodeOne
<1>3. s.pic \in Nat
  BY DEF Slices
<1>. QED
  BY <1>1, <1>2, <1>3 DEF Below

\* A step that leaves the pictures alone, or forgets the one in progress.
LEMMA KeepsOrder ==
  ASSUME PicturesOrder, done' = done, inProgress' \in {inProgress, NoPicture}
  PROVE  PicturesOrder' /\ \A k : Below(k)' <=> Below(k)
<1>1. Closed' = Closed /\ Held' \subseteq Held
  BY DEF Closed, Held
<1>. QED
  BY <1>1 DEF PicturesOrder, Below

\* A step that closes the picture in progress and opens none.
LEMMA CloseKeepsOrder ==
  ASSUME Types, PicturesOrder, done' = Finalized, inProgress' = NoPicture, NEW k \in Nat, Below(k),
         inProgress # NoPicture => Num(inProgress) < k
  PROVE  PicturesOrder' /\ Below(k)'
<1>1. Held' = Closed'
  BY DEF Held
<1>. QED
  BY <1>1, FinalizeOrder DEF PicturesOrder, Below

\* What comes before a picture comes before later ones.
LEMMA BelowLater ==
  ASSUME Types, PicturesOrder, NEW j \in Nat, NEW k \in Nat, Below(j), j <= k
  PROVE  Below(k)
<1>1. \A p \in Closed : Num(p) \in Nat
  BY NumTyped DEF PicturesOrder, Held
<1>. QED
  BY <1>1 DEF Below

\* The next event.
LEMMA TakeNalOrder ==
  ASSUME OrderInv, Types', TakeNal
  PROVE  OrderInv'
<1>1. PICK n \in Nals :
        /\ coding' = n.coding /\ ev' = n.e
        /\ phase' = IF pendingDp # NoSlice /\ Completes(n.e) THEN "pending" ELSE "event"
  BY DEF TakeNal
<1>2. ev = NoEvent /\ ev.kind \notin {"slice", "A"} /\ done' = done /\ inProgress' = inProgress /\ pendingDp' = pendingDp
  BY DEF TakeNal, OrderInv, NoEvent
<1>3. PicturesOrder' /\ \A k : Below(k)' <=> Below(k)
  BY <1>2, KeepsOrder DEF OrderInv
<1>4. coding.pic \in Nat /\ coding'.pic \in Nat
  BY DEF OrderInv, Types, Codings
<1>5. pendingDp # NoSlice => pendingDp.pic = coding.pic /\ pendingDp.h = coding.h
  BY <1>2, <1>4 DEF OrderInv, Follows
<1>6. inProgress # NoPicture /\ pendingDp = NoSlice => Num(inProgress) = coding.pic /\ inProgress.h = coding.h
  BY <1>2, <1>4 DEF OrderInv, Follows
<1>7. /\ ev'.kind \in {"slice", "A"} =>
           /\ ev'.pic = coding'.pic /\ ev'.h = coding'.h
           /\ \/ coding.left # {} /\ coding'.pic = coding.pic /\ coding'.h = coding.h
              \/ coding.left = {} /\ coding'.pic = coding.pic + 1 /\ coding'.h # coding.h
      /\ ev'.kind \notin {"slice", "A"} =>
           coding'.pic = coding.pic /\ coding'.h = coding.h /\ coding'.left = coding.left
      /\ ev'.kind = "boundary" => coding'.left = {}
      /\ coding.left = {} /\ coding'.left # {} => coding'.pic = coding.pic + 1
  BY <1>1, NalsFollow DEF OrderInv
<1>8. /\ ev'.kind \in {"slice", "A"} => Below(ev'.pic)
      /\ coding'.left # {} => Below(coding'.pic)
  BY <1>7 DEF OrderInv
<1>9. Below(coding'.pic + 1)
  <2>1. coding.pic + 1 \in Nat /\ coding'.pic + 1 \in Nat /\ coding.pic + 1 <= coding'.pic + 1
    BY <1>4, <1>7
  <2>. QED
    BY <2>1, BelowLater DEF OrderInv
<1>10. /\ phase' \in {"pending", "event"}
       /\ phase' = "event" /\ Completes(ev') => pendingDp' = NoSlice
  BY <1>1, <1>2
<1>11. pendingDp' # NoSlice =>
         /\ pendingDp'.kind = "A" /\ Below(pendingDp'.pic)
         /\ Follows(pendingDp'.pic, pendingDp'.h, coding'.pic, coding'.h)
         /\ ev'.kind \notin {"slice", "A"} => pendingDp'.pic = coding'.pic
  BY <1>2, <1>5, <1>7 DEF OrderInv, Follows
<1>12. inProgress' # NoPicture =>
         /\ pendingDp' # NoSlice => Follows(Num(inProgress'), inProgress'.h, pendingDp'.pic, pendingDp'.h)
         /\ pendingDp' = NoSlice => Follows(Num(inProgress'), inProgress'.h, coding'.pic, coding'.h)
         /\ pendingDp' = NoSlice /\ ev'.kind \notin {"slice", "A"} => Num(inProgress') = coding'.pic
  BY <1>2, <1>6, <1>7 DEF OrderInv, Follows
<1>. QED
  BY <1>3, <1>7, <1>8, <1>9, <1>10, <1>11, <1>12 DEF OrderInv

\* The pending slice is decoded, before the event that completed it.
LEMMA FlushPendingOrder ==
  ASSUME ~ Faulty, HeadersDiffer, OrderInv, Types', FlushPendingDp \/ FlushPendingAtEnd
  PROVE  OrderInv'
<1>1. PICK ok \in BOOLEAN :
        /\ DecodeSlice(pendingDp, ok)
        /\ ~ ok => phase' \in {"nal", "end"} /\ ev' \in {ev, NoEvent} /\ (phase' = "nal" => ev' = NoEvent)
        /\ ok => phase' \in {"event", "flush"} /\ ev' = ev
  BY DEF FlushPendingDp, FlushPendingAtEnd
<1>2. /\ pendingDp # NoSlice /\ pendingDp \in Slices /\ pendingDp' = NoSlice /\ coding' = coding
      /\ (phase' \in {"flush", "end"} => coding.left = {} /\ ev = NoEvent /\ ev' = ev)
  BY DEF FlushPendingDp, FlushPendingAtEnd, OrderInv, Types
<1>3. coding.pic \in Nat /\ pendingDp.pic \in Nat
  BY <1>2 DEF OrderInv, Types, Codings, Slices
<1>4. /\ PicturesOrder' /\ \A k \in Nat : pendingDp.pic <= k => Below(k)'
      /\ inProgress' # NoPicture => Num(inProgress') = pendingDp.pic /\ inProgress'.h = pendingDp.h
      /\ ~ ok => inProgress' = NoPicture
  BY <1>1, <1>2, DecodeOrder DEF OrderInv
<1>5. pendingDp.pic <= coding.pic /\ (ev.kind \notin {"slice", "A"} => pendingDp.pic = coding.pic)
  BY <1>2, <1>3 DEF OrderInv, Follows
<1>7. Below(coding.pic)' /\ Below(coding.pic + 1)'
  BY <1>2, <1>3, <1>4, <1>5
<1>8. Follows(pendingDp.pic, pendingDp.h, coding.pic, coding.h)
  BY <1>2 DEF OrderInv
<1>9. inProgress' # NoPicture =>
         /\ Follows(Num(inProgress'), inProgress'.h, coding'.pic, coding'.h)
         /\ ev'.kind \notin {"slice", "A"} => Num(inProgress') = coding'.pic
  BY <1>1, <1>2, <1>4, <1>5, <1>8
<1>10. ev'.kind \in {"slice", "A"} => ev' = ev /\ ev.kind \in {"slice", "A"}
  BY <1>1, <1>2 DEF NoEvent
<1>11. ev'.kind = "boundary" => coding.left = {}
  BY <1>1, <1>2 DEF OrderInv, NoEvent
<1>12. phase' \notin {"lost", "pending"} /\ (phase' # "event" => ev' = NoEvent)
  BY <1>1, <1>2
<1>. QED
  BY <1>1, <1>2, <1>4, <1>7, <1>9, <1>10, <1>11, <1>12 DEF OrderInv

\* A slice is decoded in its own turn.
LEMMA HandleSliceOrder ==
  ASSUME ~ Faulty, HeadersDiffer, OrderInv, Types', HandleSlice
  PROVE  OrderInv'
<1>1. PICK ok \in BOOLEAN : DecodeSlice(ev, ok)
  BY DEF HandleSlice
<1>2. /\ ev \in Slices /\ ev.kind \in {"slice", "redundant"} /\ phase = "event" /\ phase' = "nal"
      /\ ev' = NoEvent /\ coding' = coding /\ pendingDp' = pendingDp /\ pendingDp = NoSlice
  BY DEF HandleSlice, Handled, OrderInv, Types, Events, Parts, Completes
<1>3. coding.pic \in Nat
  BY DEF OrderInv, Types, Codings
<1>4. CASE ev.kind = "redundant"
  <2>1. done' = done /\ inProgress' = inProgress
    BY <1>1, <1>4 DEF DecodeSlice
  <2>2. PicturesOrder' /\ \A k : Below(k)' <=> Below(k)
    BY <2>1, KeepsOrder DEF OrderInv
  <2>. QED
    BY <1>2, <1>4, <2>1, <2>2 DEF OrderInv, NoEvent
<1>5. CASE ev.kind = "slice"
  <2>1. ev.pic = coding.pic /\ ev.h = coding.h /\ Below(ev.pic)
    BY <1>5 DEF OrderInv
  <2>2. /\ PicturesOrder' /\ \A k \in Nat : ev.pic <= k => Below(k)'
        /\ inProgress' # NoPicture => Num(inProgress') = ev.pic /\ inProgress'.h = ev.h
    BY <1>1, <1>2, <1>5, <2>1, DecodeOrder DEF OrderInv
  <2>3. Below(coding.pic)' /\ Below(coding.pic + 1)'
    BY <1>2, <1>3, <2>1, <2>2
  <2>. QED
    BY <1>2, <2>1, <2>2, <2>3 DEF OrderInv, Follows, NoEvent
<1>. QED
  BY <1>2, <1>4, <1>5

\* A partition A waits; a partition B or C joins it.
LEMMA HandlePartitionsOrder ==
  ASSUME OrderInv, Types', HandlePartitionA \/ HandlePartition
  PROVE  OrderInv'
<1>1. /\ done' = done /\ inProgress' = inProgress /\ coding' = coding
      /\ phase = "event" /\ phase' = "nal" /\ ev' = NoEvent
  BY DEF HandlePartitionA, HandlePartition, Handled
<1>2. PicturesOrder' /\ \A k : Below(k)' <=> Below(k)
  BY <1>1, KeepsOrder DEF OrderInv
<1>3. CASE HandlePartitionA
  <2>1. pendingDp = NoSlice /\ pendingDp' = ev /\ ev.kind = "A"
    BY <1>1, <1>3 DEF HandlePartitionA, OrderInv, Completes
  <2>2. ev.pic = coding.pic /\ ev.h = coding.h /\ Below(ev.pic)
    BY <2>1 DEF OrderInv
  <2>3. pendingDp'.kind = "A" /\ pendingDp'.pic = coding'.pic /\ pendingDp'.h = coding'.h
    BY <1>1, <2>1, <2>2
  <2>4. Below(pendingDp.pic)' /\ Below(coding.pic + 1)' /\ (coding.left # {} => Below(coding.pic))'
    BY <1>1, <1>2, <2>1, <2>2 DEF OrderInv
  <2>5. inProgress' # NoPicture => Follows(Num(inProgress'), inProgress'.h, pendingDp'.pic, pendingDp'.h)
    BY <1>1, <2>1, <2>2 DEF OrderInv
  <2>6. pendingDp' # NoSlice
    <3>1. ev \in Slices
      BY <2>1 DEF OrderInv, Types, Events, Parts
    <3>. QED
      BY <2>1, <3>1 DEF NoSlice, Slices
  <2>. QED
    BY <1>1, <1>2, <2>1, <2>3, <2>4, <2>5, <2>6 DEF OrderInv, Follows, NoEvent
<1>4. CASE HandlePartition
  <2>1. /\ ev.kind \in {"B", "C"}
        /\ pendingDp' # NoSlice => pendingDp # NoSlice /\ pendingDp'.kind = pendingDp.kind
                                   /\ pendingDp'.pic = pendingDp.pic /\ pendingDp'.h = pendingDp.h
        /\ pendingDp' = NoSlice => pendingDp = NoSlice
    <3>1. CASE Attaches(ev)
      <4>1. pendingDp \in Slices /\ pendingDp # NoSlice
        BY <3>1 DEF Attaches, OrderInv, Types
      <4>2. /\ pendingDp'.kind = pendingDp.kind /\ pendingDp'.pic = pendingDp.pic
            /\ pendingDp'.h = pendingDp.h
        BY <1>4, <3>1, <4>1 DEF HandlePartition, Slices
      <4>3. pendingDp'.pic # 0
        BY <4>1, <4>2 DEF Slices
      <4>. QED
        BY <1>4, <4>1, <4>2, <4>3 DEF HandlePartition, NoSlice
    <3>2. CASE ~ Attaches(ev)
      BY <1>4, <3>2 DEF HandlePartition
    <3>. QED
      BY <3>1, <3>2
  <2>. QED
    BY <1>1, <1>2, <2>1 DEF OrderInv, NoEvent
<1>. QED
  BY <1>3, <1>4

\* The picture in progress, all of whose slices have come, is closed.
LEMMA CloseOrder ==
  ASSUME OrderInv, Types', HandleBoundary \/ FlushPicture
  PROVE  OrderInv'
<1>1. /\ done' = Finalized /\ inProgress' = NoPicture /\ coding' = coding /\ pendingDp' = pendingDp
      /\ ev' = NoEvent /\ phase' \in {"nal", "end"}
  BY DEF HandleBoundary, FlushPicture, Handled, OrderInv
<1>2. pendingDp = NoSlice /\ coding.left = {} /\ ev.kind \notin {"slice", "A"}
  BY DEF HandleBoundary, FlushPicture, Handled, OrderInv, Completes, NoEvent
<1>3. coding.pic \in Nat /\ coding.pic + 1 \in Nat
  BY DEF OrderInv, Types, Codings
<1>4. inProgress # NoPicture => Num(inProgress) < coding.pic + 1
  BY <1>2, <1>3 DEF OrderInv
<1>5. PicturesOrder' /\ Below(coding.pic + 1)'
  BY <1>1, <1>3, <1>4, CloseKeepsOrder DEF OrderInv
<1>. QED
  BY <1>1, <1>2, <1>5 DEF OrderInv, NoEvent

\* Every step keeps the invariant.
LEMMA NextOrder ==
  ASSUME ~ Faulty, HeadersDiffer, OrderInv, [Next]_vars
  PROVE  OrderInv'
<1>1. Types'
  BY NextTypes DEF OrderInv
<1>2. ASSUME SendPacket \/ PacketDone \/ HandleOther \/ Reset \/ UNCHANGED vars
      PROVE  OrderInv'
  <2>1. done' = done /\ inProgress' \in {inProgress, NoPicture} /\ pendingDp' = pendingDp
    BY <1>2 DEF SendPacket, PacketDone, HandleOther, Handled, Reset, vars
  <2>2. PicturesOrder' /\ \A k : Below(k)' <=> Below(k)
    BY <2>1, KeepsOrder DEF OrderInv
  <2>3. coding'.pic = coding.pic /\ coding'.h = coding.h /\ coding'.left \in {coding.left, {}}
    BY <1>2 DEF SendPacket, PacketDone, HandleOther, Handled, Reset, vars, OrderInv, Types, Codings
  <2>4. CASE UNCHANGED vars
    BY <1>1, <2>1, <2>2, <2>4 DEF vars, OrderInv
  <2>5. CASE SendPacket \/ PacketDone \/ HandleOther \/ Reset
    <3>1. /\ ev' = NoEvent /\ phase' \in {"nal", "call"} /\ ev.kind \notin {"slice", "A"}
      BY <2>5 DEF SendPacket, PacketDone, HandleOther, Handled, Reset, OrderInv, NoEvent
    <3>. QED
      BY <1>1, <2>1, <2>2, <2>3, <3>1 DEF OrderInv, NoEvent
  <2>. QED
    BY <1>2, <2>4, <2>5
<1>3. ~ LoseNal
  BY DEF LoseNal, OrderInv
<1>. QED
  BY <1>1, <1>2, <1>3, TakeNalOrder, FlushPendingOrder, HandleSliceOrder, HandlePartitionsOrder,
     CloseOrder DEF Next

\* A stream that loses nothing, whose pictures in a row differ in an element
\* that 7.4.1.2.4 compares, is cut into its pictures (is_first_vcl_of_new_picture,
\* flush_pending_dp_slice): no two are taken for one, none is passed on twice or
\* late, however it is sliced, reordered, partitioned and reset.
THEOREM OnePictureCorrect ==
  ASSUME ~ Faulty, HeadersDiffer
  PROVE  Spec => []OnePictureEach
<1>1. Init => OrderInv
  <2>. SUFFICES ASSUME Init PROVE OrderInv
    OBVIOUS
  <2>1. Held = {} /\ Closed = {} /\ done = <<>>
    BY DEF Init, Held, Closed
  <2>. QED
    BY <2>1, InitTypes DEF Init, OrderInv, PicturesOrder, Below, NoEvent
<1>2. OrderInv /\ [Next]_vars => OrderInv'
  BY NextOrder
<1>3. OrderInv => OnePictureEach
  <2>. SUFFICES ASSUME OrderInv PROVE OnePictureEach
    OBVIOUS
  <2>1. \A p \in Held : p # NoPicture /\ OnePic(p)
    BY HeldTyped DEF OrderInv, PicturesOrder, PicturesInProgress, NoPicture
  <2>2. \A p \in Held : PicturesOf(p) = {Num(p)}
    BY <2>1 DEF PicturesOf, OnePic
  <2>3. \A p \in Held : Cardinality(PicturesOf(p)) = 1
    BY <2>2, FS_Singleton
  <2>4. \A i \in DOMAIN done : done[i] \in Held
    BY DEF Held, Closed
  <2>. QED
    BY <2>2, <2>3, <2>4 DEF OnePictureEach, OrderInv, PicturesOrder
<1>. QED
  BY <1>1, <1>2, <1>3, PTL DEF Spec

-----------------------------------------------------------------------------
(* Nothing healthy is lost: whatever arrived of a picture is in the picture   *)
(* in progress, for as long as more of it comes.                              *)

\* Data-partitioned slices only where nothing fails and nothing is reset: the
\* pending slice is decoded when the next event is handled, and should it fail,
\* that event is lost with it (handle_event, h264_decoder.rs:628); reset leaves
\* it behind.
PartitionsUnharmed == Partitions => ~ Faulty /\ ~ Resets

Unheld(e) == e.kind \in {"slice", "A"}

\* Macroblock m of picture n has not been decoded yet.
Comes(m, n) ==
  \/ n = coding.pic /\ m \in coding.left
  \/ pendingDp # NoSlice /\ pendingDp.pic = n /\ m \in pendingDp.mbs
  \/ Unheld(ev) /\ ev.pic = n /\ m \in ev.mbs

\* Slices of picture n are still to be decoded.
Coming(n) ==
  \/ n = coding.pic /\ coding.left # {}
  \/ pendingDp # NoSlice /\ pendingDp.pic = n
  \/ Unheld(ev) /\ ev.pic = n

HeaderOf(n) == IF n = coding.pic THEN coding.h ELSE pendingDp.h

\* A slice with header h joins the picture in progress.
Joins(h) == ~ StartsNewPicture([h |-> h])

PassedOn(n)  == ~ Coming(n) /\ \E p \in Closed : n \in PicturesOf(p)
Unbegun(n)   == \A m \in All : Comes(m, n)
Assembles(n) ==
  /\ n \in PicturesOf(inProgress) /\ inProgress.succeeded
  /\ \A m \in All : Comes(m, n) \/ m \in inProgress.available
  /\ Coming(n) => Joins(HeaderOf(n))

Safe(n) == PassedOn(n) \/ Unbegun(n) \/ Assembles(n)

\* A slice waits in pendingDp for an event of its picture, or the first of the
\* next; unless slices may be reordered, it comes before that event's slice.
PendingFirst ==
  pendingDp # NoSlice =>
    /\ pendingDp.kind = "A" /\ pendingDp.pic \in 1 .. coding.pic
    /\ PicturesOf(inProgress) \subseteq 1 .. pendingDp.pic
    /\ pendingDp.pic = coding.pic => pendingDp.h = coding.h
    /\ pendingDp.pic # coding.pic => Unheld(ev)
    /\ ~ Aso /\ Unheld(ev) /\ ev.pic = pendingDp.pic => 0 \notin ev.mbs

\* What the parts of the decoder hold at each of its stations.
Stations ==
  /\ phase \notin {"pending", "event"} => ev = NoEvent
  /\ phase = "event" /\ Completes(ev) => pendingDp = NoSlice
  /\ phase = "flush" => pendingDp = NoSlice /\ coding.left = {}
  /\ ~ Partitions => pendingDp = NoSlice /\ coding.open = NoSlice /\ ev.kind \notin {"A", "B", "C"}
  /\ Partitions => failed = {} /\ lastReset = 1 /\ phase # "lost"
  /\ Unheld(ev) => ev.pic = coding.pic /\ ev.h = coding.h
  /\ ev.kind = "boundary" => coding.left = {}
  /\ PicturesOf(inProgress) \subseteq 1 .. coding.pic
  /\ ~ Aso => 0 \notin coding.left
  /\ lastReset \in Nat \ {0}

KeptInv ==
  /\ Types /\ Stations /\ PendingFirst
  /\ \A n \in lastReset .. coding.pic : n \in failed \/ Safe(n)

\* The smallest of a set of macroblocks that has the first.
LEMMA MinOfFirst ==
  ASSUME NEW S \in SUBSET All, 0 \in S
  PROVE  MinOf(S) = 0
<1>1. \A x \in S : x \in Int /\ 0 <= x
  BY DEF All
<1>2. \A x \in S : (\A y \in S : x <= y) => x = 0
  BY <1>1
<1>. QED
  BY <1>1, <1>2 DEF MinOf

\* A slice of the stream takes its macroblocks from those left, the first of
\* them first unless slices may be reordered.
LEMMA SliceNalsKept ==
  ASSUME Types, NEW pic \in Nat \ {0}, NEW h \in Headers, NEW left \in SUBSET All,
         NEW n \in SliceNals(pic, h, left)
  PROVE  /\ n.e.mbs \subseteq left /\ n.coding.left = left \ n.e.mbs
         /\ ~ Aso /\ 0 \in left => 0 \in n.e.mbs
         /\ ~ Partitions => n.e.kind = "slice" /\ n.coding.open = NoSlice
<1>1. PICK t \in Kinds(h) \X NextRuns(left) :
        n = [e |-> Slice(t[1], pic, h, t[2]),
             coding |-> [h |-> h, pic |-> pic, left |-> left \ t[2],
                         open |-> IF t[1] = "A" THEN [pic |-> pic, id |-> MinOf(t[2])] ELSE NoSlice]]
  BY DEF SliceNals
<1>2. t[1] \in Kinds(h) /\ t[2] \in NextRuns(left)
  OBVIOUS
<1>3. t[2] \in Runs(All) /\ t[2] \subseteq left
  BY <1>2 DEF NextRuns, Runs
<1>4. n.e.mbs = t[2] /\ n.e.kind = t[1] /\ n.coding.left = left \ t[2]
      /\ n.coding.open = IF t[1] = "A" THEN [pic |-> pic, id |-> MinOf(t[2])] ELSE NoSlice
  BY <1>1 DEF Slice
<1>5. ASSUME ~ Aso, 0 \in left
      PROVE  0 \in t[2]
  <2>1. MinOf(t[2]) = 0
    BY <1>2, <1>5, MinOfFirst DEF NextRuns
  <2>. QED
    BY <1>3, <2>1, MinOfRun
<1>6. ~ Partitions => t[1] = "slice"
  BY <1>2 DEF Kinds
<1>. QED
  BY <1>3, <1>4, <1>5, <1>6

\* What the stream codes next: a slice of what is left of the picture, one of
\* the next picture, or no slice of a primary picture.
LEMMA NalsKept ==
  ASSUME Types, NEW n \in Nals, ~ Aso => 0 \notin coding.left, ~ Partitions => coding.open = NoSlice
  PROVE  /\ Unheld(n.e) => n.e \in Slices /\ n.e.pic = n.coding.pic /\ n.e.h = n.coding.h
         /\ \/ /\ Unheld(n.e) /\ coding.left # {}
               /\ n.coding.pic = coding.pic /\ n.coding.h = coding.h
               /\ n.e.mbs \subseteq coding.left /\ n.coding.left = coding.left \ n.e.mbs
            \/ /\ Unheld(n.e) /\ coding.left = {} /\ n.coding.pic = coding.pic + 1
               /\ n.coding.left = All \ n.e.mbs
               /\ ~ Aso => 0 \in n.e.mbs
            \/ /\ ~ Unheld(n.e) /\ n.coding.pic = coding.pic /\ n.coding.h = coding.h
               /\ n.coding.left = coding.left
         /\ ~ Partitions => n.coding.open = NoSlice /\ n.e.kind \notin {"A", "B", "C"}
         /\ n.e.kind = "boundary" => n.coding.left = {}
         /\ ~ Aso => 0 \notin n.coding.left
<1>1. /\ coding \in Codings /\ NoOpen.left = coding.left /\ NoOpen.pic = coding.pic
      /\ NoOpen.h = coding.h /\ NoOpen.open = NoSlice
  BY DEF Types, NoOpen, Codings
<1>2. CASE coding.left # {} /\ n \in SliceNals(coding.pic, coding.h, coding.left)
  <2>1. coding.pic \in Nat \ {0} /\ coding.h \in Headers /\ coding.left \in SUBSET All
    BY <1>2 DEF Types, Codings
  <2>. QED
    BY <1>2, <2>1, SliceNalsTyped, SliceNalsKept DEF Unheld
<1>3. CASE coding.left = {} /\ n \in UNION {SliceNals(coding.pic + 1, h, All) : h \in Headers \ {coding.h}}
  <2>1. PICK h \in Headers \ {coding.h} : n \in SliceNals(coding.pic + 1, h, All)
    BY <1>3
  <2>2. coding.pic + 1 \in Nat \ {0} /\ 0 \in All
    BY <1>1, AssemblyAssumption DEF Codings, All
  <2>3. /\ n.e \in Slices /\ n.e.kind \in {"slice", "A"} /\ n.e.pic = coding.pic + 1 /\ n.e.h = h
        /\ n.coding.pic = coding.pic + 1 /\ n.coding.h = h
    BY <2>1, <2>2, SliceNalsTyped
  <2>4. /\ n.e.mbs \subseteq All /\ n.coding.left = All \ n.e.mbs
        /\ ~ Aso => 0 \in n.e.mbs
        /\ ~ Partitions => n.e.kind = "slice" /\ n.coding.open = NoSlice
    BY <2>1, <2>2, SliceNalsKept
  <2>. QED
    BY <1>3, <2>3, <2>4 DEF Unheld
<1>4. CASE coding.open # NoSlice /\ n \in {[e |-> Part("B"), coding |-> coding], [e |-> Part("C"), coding |-> NoOpen]}
  BY <1>1, <1>4 DEF Part, Unheld
<1>5. CASE /\ coding.left = {}
           /\ n \in {[e |-> [kind |-> "boundary"], coding |-> NoOpen],
                     [e |-> Slice("redundant", coding.pic, coding.h, All), coding |-> NoOpen]}
  BY <1>1, <1>5 DEF Slice, Unheld
<1>6. CASE n = [e |-> [kind |-> "other"], coding |-> NoOpen]
  BY <1>1, <1>6 DEF Unheld
<1>. QED
  BY <1>2, <1>3, <1>4, <1>5, <1>6 DEF Nals

\* A macroblock that comes is of a picture that does.
LEMMA ComesComing ==
  ASSUME NEW m, NEW n, Comes(m, n)
  PROVE  Coming(n)
BY DEF Comes, Coming

\* Nothing changes for picture n.
LEMMA KeepsSafe ==
  ASSUME NEW n, Safe(n), done' = done, inProgress' = inProgress,
         \A m \in All : Comes(m, n) => Comes(m, n)',
         Coming(n)' => Coming(n) /\ HeaderOf(n)' = HeaderOf(n)
  PROVE  Safe(n)'
<1>1. PassedOn(n) => PassedOn(n)'
  BY DEF PassedOn, Closed
<1>2. Unbegun(n) => Unbegun(n)'
  BY DEF Unbegun
<1>3. Assembles(n) => Assembles(n)'
  BY DEF Assembles, Joins, StartsNewPicture
<1>. QED
  BY <1>1, <1>2, <1>3 DEF Safe

\* A picture whose slices have all been decoded is passed on when the picture in
\* progress is closed.
LEMMA CloseSafe ==
  ASSUME Types, NEW n, Safe(n), done' = Finalized, ~ Coming(n), ~ Coming(n)'
  PROVE  Safe(n)'
<1>1. Closed' = Closed \cup (IF inProgress # NoPicture /\ Complete(inProgress) THEN {inProgress} ELSE {})
  BY FinalizedTyped DEF Closed
<1>2. CASE PassedOn(n)
  BY <1>1, <1>2 DEF PassedOn, Safe
<1>3. CASE Unbegun(n)
  <2>1. 0 \in All
    BY AssemblyAssumption DEF All
  <2>. QED
    BY <1>3, <2>1, ComesComing DEF Unbegun
<1>4. CASE Assembles(n)
  <2>1. inProgress \in PicturesInProgress /\ inProgress # NoPicture
    BY <1>4 DEF Types, Assembles, PicturesOf
  <2>2. inProgress.available = All
    BY <1>4, <2>1, ComesComing DEF Assembles, PicturesInProgress
  <2>3. inProgress \in Closed'
    BY <1>1, <1>4, <2>1, <2>2 DEF Complete, Assembles
  <2>. QED
    BY <1>4, <2>3 DEF Assembles, PassedOn, Safe
<1>. QED
  BY <1>2, <1>3, <1>4 DEF Safe

\* A slice reconstructed into a picture.
LEMMA WithSucceeds ==
  ASSUME NEW p \in PicturesInProgress, NEW s \in Slices, NEW o \in Outcomes(s)
  PROVE  /\ p.succeeded => With(p, s, o).succeeded
         /\ o.ok => With(p, s, o).succeeded /\ s.mbs \subseteq With(p, s, o).available
         /\ PicturesOf(With(p, s, o)) = {t.pic : t \in p.slices} \cup {s.pic}
<1>1. o.ok \in BOOLEAN /\ p.succeeded \in BOOLEAN
  BY OutcomesTyped DEF PicturesInProgress
<1>2. With(p, s, o).succeeded = (p.succeeded \/ o.ok)
  BY DEF With, PicturesInProgress
<1>3. /\ With(p, s, o).slices = p.slices \cup {s} /\ With(p, s, o) # NoPicture
      /\ With(p, s, o).available = p.available \cup o.marked
  BY WithTyped
<1>4. o.ok => o.marked = s.mbs
  BY OutcomesTyped
<1>. QED
  BY <1>2, <1>3, <1>4 DEF PicturesOf

\* What decoding a slice does: it joins the picture in progress, or closes it
\* and opens one or is refused.
LEMMA DecodeEffect ==
  ASSUME Types, NEW s \in Slices, s.kind # "redundant", NEW ok \in BOOLEAN, DecodeSlice(s, ok)
  PROVE  /\ failed' = IF ok THEN failed ELSE failed \cup {s.pic}
         /\ ~ ok => Faulty \/ (~ Joins(s.h) /\ ~ Aso /\ MinOf(s.mbs) # 0)
         /\ ok => /\ s.pic \in PicturesOf(inProgress)' /\ inProgress'.succeeded
                  /\ s.mbs \subseteq inProgress'.available /\ Joins(s.h)'
         /\ Joins(s.h) => /\ done' = done /\ inProgress \in PicturesInProgress
                          /\ PicturesOf(inProgress)' = PicturesOf(inProgress) \cup {s.pic}
                          /\ inProgress.succeeded => inProgress'.succeeded
                          /\ inProgress.available \subseteq inProgress'.available
         /\ ~ Joins(s.h) => done' = Finalized /\ PicturesOf(inProgress)' \subseteq {s.pic}
<1>1. Joins(s.h) <=> ~ StartsNewPicture(s)
  BY DEF Joins, StartsNewPicture
<1>2. failed' = IF ok THEN failed ELSE failed \cup {s.pic}
  BY DEF DecodeSlice, Note
<1>3. CASE /\ StartsNewPicture(s) /\ MayRefuse(s) /\ ~ ok
           /\ inProgress' = NoPicture /\ done' = Finalized
  BY <1>1, <1>2, <1>3 DEF MayRefuse, PicturesOf
<1>4. CASE /\ StartsNewPicture(s) /\ done' = Finalized
           /\ \E o \in Outcomes(s) : ok = o.ok /\ inProgress' = With(NewPicture(s), s, o)
  <2>1. PICK o \in Outcomes(s) : ok = o.ok /\ inProgress' = With(NewPicture(s), s, o)
    BY <1>4
  <2>2. NewPicture(s) \in PicturesInProgress /\ NewPicture(s).slices = {} /\ NewPicture(s).h = s.h
    BY NewPictureTyped
  <2>3. /\ ok => inProgress'.succeeded /\ s.mbs \subseteq inProgress'.available
        /\ PicturesOf(inProgress') = {s.pic}
    BY <2>1, <2>2, WithSucceeds
  <2>4. inProgress' # NoPicture /\ inProgress'.h = s.h
    BY <2>1, <2>2, WithTyped
  <2>5. Joins(s.h)'
    BY <2>4 DEF Joins, StartsNewPicture
  <2>6. PicturesOf(inProgress)' = {s.pic}
    BY <2>3 DEF PicturesOf
  <2>7. ~ ok => Faulty
    BY <2>1 DEF Outcomes
  <2>. QED
    BY <1>1, <1>2, <1>4, <2>3, <2>5, <2>6, <2>7
<1>5. CASE /\ ~ StartsNewPicture(s) /\ done' = done
           /\ \E o \in Outcomes(s) : ok = o.ok /\ inProgress' = With(inProgress, s, o)
  <2>1. PICK o \in Outcomes(s) : ok = o.ok /\ inProgress' = With(inProgress, s, o)
    BY <1>5
  <2>2. inProgress \in PicturesInProgress /\ inProgress # NoPicture
    BY <1>5 DEF StartsNewPicture, Types
  <2>3. /\ inProgress.succeeded => inProgress'.succeeded
        /\ ok => inProgress'.succeeded /\ s.mbs \subseteq inProgress'.available
        /\ PicturesOf(inProgress') = {t.pic : t \in inProgress.slices} \cup {s.pic}
    BY <2>1, <2>2, WithSucceeds
  <2>4. /\ inProgress' # NoPicture /\ inProgress'.h = inProgress.h
        /\ inProgress.available \subseteq inProgress'.available
    BY <2>1, <2>2, WithTyped
  <2>5. Joins(s.h)'
    BY <1>1, <1>5, <2>4 DEF Joins, StartsNewPicture
  <2>6. PicturesOf(inProgress)' = PicturesOf(inProgress) \cup {s.pic}
    BY <2>2, <2>3 DEF PicturesOf
  <2>7. ~ ok => Faulty
    BY <2>1 DEF Outcomes
  <2>. QED
    BY <1>1, <1>2, <1>5, <2>2, <2>3, <2>4, <2>5, <2>6, <2>7
<1>. QED
  BY <1>3, <1>4, <1>5 DEF DecodeSlice

\* A slice is decoded: its macroblocks reach the picture in progress, and a
\* picture that is closed for it is finished.
LEMMA DecodeSafe ==
  ASSUME Types, NEW s \in Slices, s.kind # "redundant", NEW ok \in BOOLEAN, DecodeSlice(s, ok),
         NEW n, Safe(n), n \notin failed',
         \A m \in All : Comes(m, n) => Comes(m, n)' \/ (s.pic = n /\ m \in s.mbs),
         s.pic = n => Coming(n) /\ HeaderOf(n) = s.h,
         s.pic # n /\ n \in PicturesOf(inProgress) => ~ Coming(n),
         Coming(n)' => Coming(n) /\ HeaderOf(n)' = HeaderOf(n)
  PROVE  Safe(n)'
<1>1. /\ s.pic = n => ok
      /\ ok => /\ s.pic \in PicturesOf(inProgress)' /\ inProgress'.succeeded
               /\ s.mbs \subseteq inProgress'.available /\ Joins(s.h)'
      /\ Joins(s.h) => /\ done' = done /\ inProgress \in PicturesInProgress
                       /\ PicturesOf(inProgress)' = PicturesOf(inProgress) \cup {s.pic}
                       /\ inProgress.succeeded => inProgress'.succeeded
                       /\ inProgress.available \subseteq inProgress'.available
      /\ ~ Joins(s.h) => done' = Finalized
  BY DecodeEffect
<1>2. CASE PassedOn(n)
  <2>1. Closed \subseteq Closed'
    <3>1. CASE Joins(s.h)
      BY <1>1, <3>1 DEF Closed
    <3>2. CASE ~ Joins(s.h)
      BY <1>1, <3>2, FinalizedTyped DEF Closed
    <3>. QED
      BY <3>1, <3>2
  <2>2. ~ Coming(n)'
    BY <1>2 DEF PassedOn
  <2>. QED
    BY <1>2, <2>1, <2>2 DEF PassedOn, Safe
<1>3. CASE Unbegun(n) /\ s.pic # n
  BY <1>3 DEF Unbegun, Safe
<1>4. CASE Unbegun(n) /\ s.pic = n
  <2>1. \A m \in All : Comes(m, n)' \/ m \in inProgress'.available
    BY <1>1, <1>4 DEF Unbegun
  <2>2. Coming(n)' => Joins(HeaderOf(n))'
    <3>1. Coming(n)' => HeaderOf(n)' = s.h
      BY <1>4
    <3>. QED
      BY <1>1, <1>4, <3>1 DEF Joins, StartsNewPicture
  <2>. QED
    BY <1>1, <1>4, <2>1, <2>2 DEF Assembles, Safe
<1>5. CASE Assembles(n) /\ s.pic = n
  <2>1. Joins(s.h)
    BY <1>5 DEF Assembles
  <2>2. \A m \in All : Comes(m, n)' \/ m \in inProgress'.available
    BY <1>1, <1>5, <2>1 DEF Assembles
  <2>3. Coming(n)' => Joins(HeaderOf(n))'
    <3>1. Coming(n)' => HeaderOf(n)' = s.h
      BY <1>5
    <3>. QED
      BY <1>1, <1>5, <3>1 DEF Joins, StartsNewPicture
  <2>. QED
    BY <1>1, <1>5, <2>2, <2>3 DEF Assembles, Safe
<1>6. CASE Assembles(n) /\ s.pic # n
  <2>1. ~ Coming(n) /\ ~ Coming(n)'
    BY <1>6 DEF Assembles
  <2>2. CASE Joins(s.h)
    <3>1. \A m \in All : m \in inProgress'.available
      BY <1>1, <1>6, <2>1, <2>2, ComesComing DEF Assembles
    <3>. QED
      BY <1>1, <1>6, <2>1, <2>2, <3>1 DEF Assembles, Safe
  <2>3. CASE ~ Joins(s.h)
    BY <1>1, <2>1, <2>3, CloseSafe
  <2>. QED
    BY <2>2, <2>3
<1>. QED
  BY <1>2, <1>3, <1>4, <1>5, <1>6 DEF Safe

\* A slice that is decoded in its turn succeeds unless it is faulty: the first of
\* a picture has its first macroblock, and the others join the first.
LEMMA FirstSlicesFirst ==
  ASSUME Types, NEW s \in Slices, s.kind # "redundant", NEW ok \in BOOLEAN, DecodeSlice(s, ok),
         ~ Faulty, Safe(s.pic), Coming(s.pic), HeaderOf(s.pic) = s.h,
         ~ Aso => \A m \in All : Comes(m, s.pic) /\ m = 0 => m \in s.mbs
  PROVE  ok
<1>1. SUFFICES ASSUME ~ ok PROVE FALSE
  OBVIOUS
<1>2. ~ Joins(s.h) /\ ~ Aso /\ MinOf(s.mbs) # 0
  BY <1>1, DecodeEffect
<1>3. Unbegun(s.pic)
  BY <1>2 DEF Safe, PassedOn, Assembles
<1>4. 0 \in s.mbs
  <2>1. 0 \in All
    BY AssemblyAssumption DEF All
  <2>. QED
    BY <1>2, <1>3, <2>1 DEF Unbegun
<1>. QED
  BY <1>2, <1>4, MinOfFirst DEF Slices

\* The pending slice is the one to be decoded.
LEMMA FlushPendingKept ==
  ASSUME PartitionsUnharmed, KeptInv, Types', FlushPendingDp \/ FlushPendingAtEnd
  PROVE  KeptInv'
<1>. DEFINE s == pendingDp
<1>1. PICK ok \in BOOLEAN :
        /\ DecodeSlice(s, ok)
        /\ ~ ok => phase' \in {"nal", "end"} /\ (phase' = "nal" => ev' = NoEvent)
        /\ ok => phase' \in {"event", "flush"}
        /\ ok \/ phase' = "end" => ev' = ev
        /\ phase' \in {"end", "flush"} => phase = "call"
        /\ phase' \in {"nal", "event"} => phase = "pending"
  BY DEF FlushPendingDp, FlushPendingAtEnd
<1>2. /\ s # NoSlice /\ s \in Slices /\ pendingDp' = NoSlice /\ coding' = coding
      /\ lastReset' = lastReset
      /\ phase' \in {"flush", "end"} => coding.left = {} /\ ev = NoEvent
  BY DEF FlushPendingDp, FlushPendingAtEnd, KeptInv, Types, Stations
<1>3. /\ Partitions /\ ~ Faulty /\ failed = {} /\ lastReset = 1
      /\ s.kind = "A" /\ s.pic \in 1 .. coding.pic
      /\ PicturesOf(inProgress) \subseteq 1 .. s.pic
      /\ s.pic = coding.pic => s.h = coding.h
      /\ s.pic # coding.pic => Unheld(ev)
      /\ Unheld(ev) => ev.pic = coding.pic /\ ev.h = coding.h
      /\ ~ Aso /\ Unheld(ev) /\ ev.pic = s.pic => 0 \notin ev.mbs
      /\ ~ Aso => 0 \notin coding.left
  BY <1>2 DEF KeptInv, Stations, PendingFirst, PartitionsUnharmed
<1>4. s.kind # "redundant" /\ coding.pic \in Nat /\ s.pic \in Nat
  BY <1>2, <1>3 DEF Slices, KeptInv, Types, Codings
<1>5. Coming(s.pic) /\ HeaderOf(s.pic) = s.h
  BY <1>2, <1>3 DEF Coming, HeaderOf
<1>6. \A n \in 1 .. coding.pic : Safe(n)
  BY <1>3 DEF KeptInv
<1>7. ok
  <2>1. ASSUME ~ Aso, NEW m \in All, Comes(m, s.pic), m = 0
        PROVE  m \in s.mbs
    BY <1>3, <2>1 DEF Comes
  <2>. QED
    BY <1>1, <1>2, <1>3, <1>4, <1>5, <1>6, <2>1, FirstSlicesFirst DEF KeptInv
<1>8. failed' = {} /\ PicturesOf(inProgress)' \subseteq 1 .. s.pic
  <2>1. failed' = failed /\ PicturesOf(inProgress)' \subseteq PicturesOf(inProgress) \cup {s.pic}
    BY <1>1, <1>2, <1>4, <1>7, DecodeEffect DEF KeptInv
  <2>. QED
    BY <1>2, <1>3, <1>4, <2>1 DEF Slices
<1>9. ev' = ev
  BY <1>1, <1>7
<1>10. ASSUME NEW n \in 1 .. coding.pic
       PROVE  Safe(n)'
  <2>1. Safe(n) /\ n \notin failed' /\ n \in Nat
    BY <1>6, <1>8
  <2>2. \A m \in All : Comes(m, n) => Comes(m, n)' \/ (s.pic = n /\ m \in s.mbs)
    BY <1>2, <1>9 DEF Comes
  <2>3. s.pic = n => Coming(n) /\ HeaderOf(n) = s.h
    BY <1>5
  <2>4. s.pic # n /\ n \in PicturesOf(inProgress) => ~ Coming(n)
    BY <1>3, <1>4, <2>1 DEF Coming
  <2>5. Coming(n)' => Coming(n) /\ HeaderOf(n)' = HeaderOf(n)
    BY <1>2, <1>3, <1>9 DEF Coming, HeaderOf
  <2>. QED
    BY <1>1, <1>2, <1>4, <2>1, <2>2, <2>3, <2>4, <2>5, DecodeSafe DEF KeptInv
<1>11. Stations'
  <2>1. phase' \in {"event", "flush"} /\ (phase' = "flush" => ev' = NoEvent /\ coding'.left = {})
    BY <1>1, <1>2, <1>7, <1>9
  <2>2. PicturesOf(inProgress)' \subseteq 1 .. coding.pic
    BY <1>3, <1>4, <1>8
  <2>. QED
    BY <1>2, <1>3, <1>8, <1>9, <2>1, <2>2 DEF KeptInv, Stations, Unheld, NoEvent
<1>. QED
  BY <1>2, <1>3, <1>10, <1>11 DEF KeptInv, PendingFirst

\* A slice is decoded in its own turn.
LEMMA HandleSliceKept ==
  ASSUME PartitionsUnharmed, KeptInv, Types', HandleSlice
  PROVE  KeptInv'
<1>1. PICK ok \in BOOLEAN : DecodeSlice(ev, ok)
  BY DEF HandleSlice
<1>2. /\ ev \in Slices /\ ev.kind \in {"slice", "redundant"} /\ phase = "event" /\ phase' = "nal"
      /\ ev' = NoEvent /\ coding' = coding /\ pendingDp' = NoSlice /\ pendingDp = NoSlice
      /\ lastReset' = lastReset
  BY DEF HandleSlice, Handled, KeptInv, Stations, Types, Events, Parts, Completes
<1>3. coding.pic \in Nat /\ ~ Unheld(ev')
  BY <1>2 DEF KeptInv, Types, Codings, Unheld, NoEvent
<1>4. CASE ev.kind = "redundant"
  <2>1. done' = done /\ inProgress' = inProgress /\ failed' = failed
    BY <1>1, <1>4 DEF DecodeSlice
  <2>2. ASSUME NEW n \in lastReset .. coding.pic, Safe(n)
        PROVE  Safe(n)'
    <3>1. \A m \in All : Comes(m, n) => Comes(m, n)'
      BY <1>2, <1>4 DEF Comes, Unheld
    <3>2. Coming(n)' => Coming(n) /\ HeaderOf(n)' = HeaderOf(n)
      BY <1>2, <1>3 DEF Coming, HeaderOf
    <3>. QED
      BY <2>1, <2>2, <3>1, <3>2, KeepsSafe
  <2>3. Stations'
    BY <1>2, <1>3, <2>1 DEF KeptInv, Stations, PicturesOf, NoEvent
  <2>. QED
    BY <1>2, <2>1, <2>2, <2>3 DEF KeptInv, PendingFirst
<1>5. CASE ev.kind = "slice"
  <2>1. Unheld(ev) /\ ev.pic = coding.pic /\ ev.h = coding.h /\ ev.pic \in Nat \ {0}
    BY <1>2, <1>5 DEF KeptInv, Stations, Unheld, Slices
  <2>2. Coming(ev.pic) /\ HeaderOf(ev.pic) = ev.h
    BY <2>1 DEF Coming, HeaderOf
  <2>3. Partitions => ok
    <3>1. SUFFICES ASSUME Partitions PROVE ok
      OBVIOUS
    <3>2. ~ Faulty /\ failed = {} /\ lastReset = 1
      BY <3>1 DEF KeptInv, Stations, PartitionsUnharmed
    <3>3. Safe(ev.pic)
      BY <1>3, <2>1, <3>2 DEF KeptInv
    <3>4. ASSUME ~ Aso, NEW m \in All, Comes(m, ev.pic), m = 0
          PROVE  m \in ev.mbs
      BY <1>2, <3>4 DEF Comes, KeptInv, Stations
    <3>. QED
      BY <1>1, <1>2, <1>5, <2>2, <3>2, <3>3, <3>4, FirstSlicesFirst DEF KeptInv
  <2>4. /\ failed' = IF ok THEN failed ELSE failed \cup {ev.pic}
        /\ PicturesOf(inProgress)' \subseteq 1 .. coding.pic
    <3>1. PicturesOf(inProgress) \subseteq 1 .. coding.pic /\ ev.pic \in 1 .. coding.pic
      BY <1>3, <2>1 DEF KeptInv, Stations
    <3>2. /\ failed' = IF ok THEN failed ELSE failed \cup {ev.pic}
          /\ PicturesOf(inProgress)' \subseteq PicturesOf(inProgress) \cup {ev.pic}
      BY <1>1, <1>2, <1>5, DecodeEffect DEF KeptInv
    <3>. QED
      BY <3>1, <3>2
  <2>5. ASSUME NEW n \in lastReset .. coding.pic, n \notin failed'
        PROVE  Safe(n)'
    <3>1. Safe(n)
      BY <2>4, <2>5 DEF KeptInv
    <3>2. \A m \in All : Comes(m, n) => Comes(m, n)' \/ (ev.pic = n /\ m \in ev.mbs)
      BY <1>2 DEF Comes
    <3>3. ev.pic # n /\ n \in PicturesOf(inProgress) => ~ Coming(n)
      BY <1>2, <2>1 DEF Coming
    <3>4. Coming(n)' => Coming(n) /\ HeaderOf(n)' = HeaderOf(n)
      BY <1>2, <1>3 DEF Coming, HeaderOf
    <3>5. ev.pic = n => Coming(n) /\ HeaderOf(n) = ev.h
      BY <2>2
    <3>. QED
      BY <1>1, <1>2, <1>5, <2>5, <3>1, <3>2, <3>3, <3>4, <3>5, DecodeSafe DEF KeptInv
  <2>6. Stations'
    <3>1. Partitions => failed' = {}
      BY <2>3, <2>4 DEF KeptInv, Stations
    <3>. QED
      BY <1>2, <1>3, <2>4, <3>1 DEF KeptInv, Stations, NoEvent
  <2>. QED
    BY <1>2, <2>5, <2>6 DEF KeptInv, PendingFirst
<1>. QED
  BY <1>2, <1>4, <1>5

\* The next event.
LEMMA TakeNalKept ==
  ASSUME KeptInv, Types', TakeNal
  PROVE  KeptInv'
<1>1. PICK nal \in Nals :
        /\ coding' = nal.coding /\ ev' = nal.e
        /\ phase' = IF pendingDp # NoSlice /\ Completes(nal.e) THEN "pending" ELSE "event"
  BY DEF TakeNal
<1>2. /\ ev = NoEvent /\ ~ Unheld(ev) /\ done' = done /\ inProgress' = inProgress
      /\ pendingDp' = pendingDp /\ failed' = failed /\ lastReset' = lastReset
  BY DEF TakeNal, KeptInv, Stations, NoEvent, Unheld
<1>3. /\ Unheld(ev') => ev' \in Slices /\ ev'.pic = coding'.pic /\ ev'.h = coding'.h
      /\ \/ /\ Unheld(ev') /\ coding.left # {}
            /\ coding'.pic = coding.pic /\ coding'.h = coding.h
            /\ ev'.mbs \subseteq coding.left /\ coding'.left = coding.left \ ev'.mbs
         \/ /\ Unheld(ev') /\ coding.left = {} /\ coding'.pic = coding.pic + 1
            /\ coding'.left = All \ ev'.mbs
            /\ ~ Aso => 0 \in ev'.mbs
         \/ /\ ~ Unheld(ev') /\ coding'.pic = coding.pic /\ coding'.h = coding.h
            /\ coding'.left = coding.left
      /\ ~ Partitions => coding'.open = NoSlice /\ ev'.kind \notin {"A", "B", "C"}
      /\ ev'.kind = "boundary" => coding'.left = {}
      /\ ~ Aso => 0 \notin coding'.left
  <2>1. (~ Aso => 0 \notin coding.left) /\ (~ Partitions => coding.open = NoSlice)
    BY DEF KeptInv, Stations
  <2>. QED
    BY <1>1, <2>1, NalsKept DEF KeptInv
<1>4. coding.pic \in Nat /\ coding'.pic \in Nat
  BY DEF KeptInv, Types, Codings
<1>5. pendingDp # NoSlice => pendingDp.pic = coding.pic /\ pendingDp.h = coding.h
  BY <1>2 DEF KeptInv, PendingFirst
<1>6. ASSUME NEW n \in lastReset .. coding'.pic, n \notin failed
      PROVE  Safe(n)'
  <2>1. CASE n = coding.pic + 1
    <3>1. Unheld(ev') /\ coding'.pic = n /\ ev'.pic = n /\ coding'.left = All \ ev'.mbs
      BY <1>3, <1>4, <2>1
    <3>. QED
      BY <3>1 DEF Unbegun, Comes, Safe
  <2>2. CASE n # coding.pic + 1
    <3>1. n \in lastReset .. coding.pic /\ Safe(n)
      BY <1>3, <1>4, <1>6, <2>2 DEF KeptInv, Stations
    <3>2. \A m \in All : Comes(m, n) => Comes(m, n)'
      BY <1>2, <1>3, <1>4 DEF Comes
    <3>3. Coming(n)' => Coming(n)
      BY <1>2, <1>3, <1>4, <3>1 DEF Coming
    <3>4. Coming(n)' => HeaderOf(n)' = HeaderOf(n)
      BY <1>2, <1>3, <1>4, <1>5, <3>1 DEF Coming, HeaderOf
    <3>. QED
      BY <1>2, <3>1, <3>2, <3>3, <3>4, KeepsSafe
  <2>. QED
    BY <2>1, <2>2
<1>7. Stations'
  <2>1. PicturesOf(inProgress)' \subseteq 1 .. coding'.pic
    BY <1>2, <1>3, <1>4 DEF KeptInv, Stations, PicturesOf
  <2>2. /\ phase' \in {"pending", "event"}
        /\ phase' = "event" /\ Completes(ev') => pendingDp = NoSlice
        /\ phase = "nal"
    BY <1>1 DEF TakeNal
  <2>. QED
    BY <1>2, <1>3, <2>1, <2>2 DEF KeptInv, Stations
<1>8. PendingFirst'
  <2>1. SUFFICES ASSUME pendingDp # NoSlice PROVE PendingFirst'
    BY <1>2 DEF PendingFirst
  <2>2. /\ pendingDp.kind = "A" /\ pendingDp.pic \in 1 .. coding.pic
        /\ PicturesOf(inProgress) \subseteq 1 .. pendingDp.pic
        /\ ~ Aso => 0 \notin coding.left
    BY <2>1 DEF KeptInv, Stations, PendingFirst
  <2>3. pendingDp'.pic \in 1 .. coding'.pic /\ PicturesOf(inProgress)' \subseteq 1 .. pendingDp'.pic
    BY <1>2, <1>3, <1>4, <2>2 DEF PicturesOf
  <2>4. /\ pendingDp'.pic = coding'.pic => pendingDp'.h = coding'.h
        /\ pendingDp'.pic # coding'.pic => Unheld(ev')
    BY <1>2, <1>3, <1>4, <1>5, <2>1
  <2>5. ~ Aso /\ Unheld(ev') /\ ev'.pic = pendingDp'.pic => 0 \notin ev'.mbs
    BY <1>2, <1>3, <1>4, <1>5, <2>1, <2>2
  <2>. QED
    BY <1>2, <2>2, <2>3, <2>4, <2>5 DEF PendingFirst
<1>. QED
  BY <1>2, <1>6, <1>7, <1>8 DEF KeptInv

\* A NAL unit that is lost: its picture is no longer healthy.
LEMMA LoseNalKept ==
  ASSUME PartitionsUnharmed, KeptInv, Types', LoseNal
  PROVE  KeptInv'
<1>0. ~ Partitions /\ pendingDp = NoSlice /\ ev = NoEvent /\ ~ Unheld(ev)
  BY DEF LoseNal, KeptInv, Stations, PartitionsUnharmed, Unheld, NoEvent
<1>1. PICK n \in Nals :
        /\ coding' = n.coding
        /\ failed' = IF n.e.kind \in {"slice", "A", "B", "C"} THEN failed \cup {n.e.pic} ELSE failed
  BY DEF LoseNal
<1>2. /\ done' = done /\ inProgress' = inProgress /\ pendingDp' = pendingDp /\ ev' = ev
      /\ lastReset' = lastReset /\ phase' = "lost"
  BY DEF LoseNal
<1>3. /\ \/ n.e.pic = coding'.pic /\ Unheld(n.e) /\ coding'.pic \in {coding.pic, coding.pic + 1}
            /\ (coding'.pic # coding.pic => coding.left = {})
         \/ coding'.pic = coding.pic /\ coding'.h = coding.h /\ coding'.left = coding.left
      /\ coding'.open = NoSlice
      /\ ~ Aso => 0 \notin coding'.left
  <2>1. (~ Aso => 0 \notin coding.left) /\ (~ Partitions => coding.open = NoSlice)
    BY DEF KeptInv, Stations
  <2>. QED
    BY <1>0, <1>1, <2>1, NalsKept DEF KeptInv
<1>4. coding.pic \in Nat /\ coding'.pic \in Nat
  BY DEF KeptInv, Types, Codings
<1>5. failed \subseteq failed' /\ (Unheld(n.e) => n.e.pic \in failed')
  BY <1>1 DEF Unheld
<1>6. ASSUME NEW n1 \in lastReset .. coding'.pic, n1 \notin failed'
      PROVE  Safe(n1)'
  <2>1. n1 \in lastReset .. coding.pic
    BY <1>3, <1>4, <1>5, <1>6 DEF KeptInv, Stations
  <2>2. Safe(n1)
    BY <1>5, <1>6, <2>1 DEF KeptInv
  <2>3. \A m \in All : Comes(m, n1) => Comes(m, n1)'
    BY <1>0, <1>2, <1>3, <1>4, <1>5, <1>6, <2>1 DEF Comes
  <2>4. Coming(n1)' => Coming(n1) /\ HeaderOf(n1)' = HeaderOf(n1)
    BY <1>0, <1>2, <1>3, <1>4, <1>5, <1>6, <2>1 DEF Coming, HeaderOf
  <2>. QED
    BY <1>2, <2>2, <2>3, <2>4, KeepsSafe
<1>7. Stations'
  <2>1. PicturesOf(inProgress)' \subseteq 1 .. coding'.pic
    BY <1>2, <1>3, <1>4 DEF KeptInv, Stations, PicturesOf
  <2>. QED
    BY <1>0, <1>2, <1>3, <2>1 DEF KeptInv, Stations, NoEvent, Unheld
<1>. QED
  BY <1>0, <1>2, <1>6, <1>7 DEF KeptInv, PendingFirst

\* A partition A waits; a partition B or C joins it.
LEMMA HandlePartitionsKept ==
  ASSUME KeptInv, Types', HandlePartitionA \/ HandlePartition
  PROVE  KeptInv'
<1>1. /\ done' = done /\ inProgress' = inProgress /\ coding' = coding /\ failed' = failed
      /\ lastReset' = lastReset /\ phase = "event" /\ phase' = "nal" /\ ev' = NoEvent
  BY DEF HandlePartitionA, HandlePartition, Handled
<1>2. /\ ~ Unheld(ev') /\ coding.pic \in Nat
      /\ ev.kind # "A" => ~ Unheld(ev)
  <2>1. ev.kind \in {"A", "B", "C"}
    BY DEF HandlePartitionA, HandlePartition
  <2>. QED
    BY <1>1, <2>1 DEF KeptInv, Types, Codings, NoEvent, Unheld
<1>3. /\ Partitions
      /\ PicturesOf(inProgress) \subseteq 1 .. coding.pic
  <2>1. ev.kind \in {"A", "B", "C"}
    BY DEF HandlePartitionA, HandlePartition
  <2>. QED
    BY <2>1 DEF KeptInv, Stations
<1>4. Stations'
  BY <1>1, <1>2, <1>3 DEF KeptInv, Stations, PicturesOf, NoEvent
<1>5. CASE HandlePartitionA
  <2>1. /\ pendingDp = NoSlice /\ pendingDp' = ev /\ ev.kind = "A" /\ Unheld(ev)
        /\ ev.pic = coding.pic /\ ev.h = coding.h
    BY <1>1, <1>5 DEF HandlePartitionA, KeptInv, Stations, Completes, Unheld
  <2>2. ev \in Slices /\ ev # NoSlice /\ ev.pic \in Nat \ {0}
    BY <2>1 DEF KeptInv, Types, Events, Parts, NoSlice, Slices
  <2>3. ASSUME NEW n \in lastReset .. coding.pic, Safe(n)
        PROVE  Safe(n)'
    <3>1. \A m \in All : Comes(m, n) => Comes(m, n)'
      BY <1>1, <2>1, <2>2 DEF Comes
    <3>2. Coming(n)' => Coming(n)
      BY <1>1, <1>2, <2>1, <2>2 DEF Coming
    <3>3. Coming(n)' => HeaderOf(n)' = HeaderOf(n)
      BY <1>1, <1>2, <2>1, <2>2 DEF Coming, HeaderOf
    <3>. QED
      BY <1>1, <2>3, <3>1, <3>2, <3>3, KeepsSafe
  <2>4. PendingFirst'
    BY <1>1, <1>2, <1>3, <2>1, <2>2 DEF PendingFirst, PicturesOf
  <2>. QED
    BY <1>1, <1>4, <2>3, <2>4 DEF KeptInv
<1>6. CASE HandlePartition
  <2>1. /\ ev.kind \in {"B", "C"} /\ ~ Unheld(ev)
        /\ pendingDp' # NoSlice <=> pendingDp # NoSlice
        /\ pendingDp' # NoSlice => /\ pendingDp'.kind = pendingDp.kind /\ pendingDp'.pic = pendingDp.pic
                                   /\ pendingDp'.h = pendingDp.h /\ pendingDp'.mbs = pendingDp.mbs
    <3>1. CASE Attaches(ev)
      <4>1. pendingDp \in Slices /\ pendingDp # NoSlice
        BY <3>1 DEF Attaches, KeptInv, Types
      <4>2. /\ pendingDp'.kind = pendingDp.kind /\ pendingDp'.pic = pendingDp.pic
            /\ pendingDp'.h = pendingDp.h /\ pendingDp'.mbs = pendingDp.mbs
        BY <1>6, <3>1, <4>1 DEF HandlePartition, Slices
      <4>3. pendingDp'.pic # 0
        BY <4>1, <4>2 DEF Slices
      <4>. QED
        BY <1>6, <4>1, <4>2, <4>3 DEF HandlePartition, NoSlice, Unheld
    <3>2. CASE ~ Attaches(ev)
      BY <1>6, <3>2 DEF HandlePartition, Unheld
    <3>. QED
      BY <3>1, <3>2
  <2>2. ASSUME NEW n \in lastReset .. coding.pic, Safe(n)
        PROVE  Safe(n)'
    <3>1. \A m \in All : Comes(m, n) => Comes(m, n)'
      BY <1>1, <2>1 DEF Comes
    <3>2. Coming(n)' => Coming(n)
      BY <1>1, <1>2, <2>1 DEF Coming
    <3>3. Coming(n)' => HeaderOf(n)' = HeaderOf(n)
      BY <1>1, <1>2, <2>1 DEF Coming, HeaderOf
    <3>. QED
      BY <1>1, <2>2, <3>1, <3>2, <3>3, KeepsSafe
  <2>3. PendingFirst'
    BY <1>1, <1>2, <2>1 DEF KeptInv, PendingFirst, PicturesOf
  <2>. QED
    BY <1>1, <1>4, <2>2, <2>3 DEF KeptInv
<1>. QED
  BY <1>5, <1>6

\* The picture in progress, all of whose slices have come, is closed.
LEMMA CloseKept ==
  ASSUME KeptInv, Types', HandleBoundary \/ FlushPicture
  PROVE  KeptInv'
<1>1. /\ done' = Finalized /\ inProgress' = NoPicture /\ coding' = coding /\ pendingDp' = pendingDp
      /\ ev' = NoEvent /\ phase' \in {"nal", "end"} /\ failed' = failed /\ lastReset' = lastReset
  BY DEF HandleBoundary, FlushPicture, Handled, KeptInv, Stations
<1>2. pendingDp = NoSlice /\ coding.left = {} /\ ~ Unheld(ev) /\ ~ Unheld(ev')
  BY <1>1 DEF HandleBoundary, FlushPicture, Handled, KeptInv, Stations, Completes, NoEvent, Unheld
<1>3. ASSUME NEW n \in lastReset .. coding.pic, Safe(n)
      PROVE  Safe(n)'
  <2>1. ~ Coming(n) /\ ~ Coming(n)'
    BY <1>1, <1>2 DEF Coming
  <2>. QED
    BY <1>1, <1>3, <2>1, CloseSafe DEF KeptInv
<1>4. Stations'
  BY <1>1, <1>2 DEF KeptInv, Stations, PicturesOf, NoEvent
<1>. QED
  BY <1>1, <1>2, <1>3, <1>4 DEF KeptInv, PendingFirst

\* The stream left is not missed.
LEMMA ResetKept ==
  ASSUME PartitionsUnharmed, KeptInv, Types', Reset
  PROVE  KeptInv'
<1>1. /\ inProgress' = NoPicture /\ phase' = "call" /\ ev' = ev /\ failed' = failed
      /\ coding' = [coding EXCEPT !.left = {}, !.open = NoSlice] /\ pendingDp' = pendingDp
      /\ lastReset' = coding.pic + 1 /\ phase \in {"call", "end"} /\ Resets
  BY DEF Reset
<1>2. coding \in Codings /\ coding.pic \in Nat
  BY DEF KeptInv, Types, Codings
<1>3. coding'.pic = coding.pic /\ coding'.left = {} /\ coding'.open = NoSlice
  BY <1>1, <1>2 DEF Codings
<1>4. ~ Partitions /\ pendingDp = NoSlice /\ ev = NoEvent /\ ~ Unheld(ev)
  BY <1>1 DEF KeptInv, Stations, PartitionsUnharmed, Unheld, NoEvent
<1>5. lastReset' .. coding'.pic = {}
  BY <1>1, <1>2, <1>3
<1>6. Stations'
  BY <1>1, <1>2, <1>3, <1>4 DEF KeptInv, Stations, PicturesOf, NoEvent, Unheld
<1>. QED
  BY <1>1, <1>4, <1>5, <1>6 DEF KeptInv, PendingFirst

\* Every step keeps the invariant.
LEMMA NextKept ==
  ASSUME PartitionsUnharmed, KeptInv, [Next]_vars
  PROVE  KeptInv'
<1>1. Types'
  BY NextTypes DEF KeptInv
<1>2. ASSUME SendPacket \/ PacketDone \/ HandleOther \/ UNCHANGED vars
      PROVE  KeptInv'
  <2>1. /\ done' = done /\ inProgress' = inProgress /\ pendingDp' = pendingDp /\ coding' = coding
        /\ failed' = failed /\ lastReset' = lastReset
        /\ \/ UNCHANGED <<ev, phase>>
           \/ /\ ev' = NoEvent /\ ~ Unheld(ev) /\ ev.kind \notin {"slice", "A"}
              /\ phase' \in {"nal", "call"}
    BY <1>2 DEF SendPacket, PacketDone, HandleOther, Handled, vars, KeptInv, Stations, NoEvent, Unheld
  <2>2. ~ Unheld(NoEvent) /\ NoEvent.kind = "none"
    BY DEF NoEvent, Unheld
  <2>3. Unheld(ev') <=> Unheld(ev)
    BY <2>1, <2>2
  <2>4. Unheld(ev) => ev' = ev
    BY <2>1
  <2>5. ASSUME NEW n \in lastReset .. coding.pic, Safe(n)
        PROVE  Safe(n)'
    <3>1. \A m \in All : Comes(m, n) => Comes(m, n)'
      BY <2>1, <2>3, <2>4 DEF Comes
    <3>2. Coming(n)' => Coming(n) /\ HeaderOf(n)' = HeaderOf(n)
      BY <2>1, <2>3, <2>4 DEF Coming, HeaderOf
    <3>. QED
      BY <2>1, <2>5, <3>1, <3>2, KeepsSafe
  <2>6. PendingFirst'
    BY <2>1, <2>3, <2>4 DEF KeptInv, PendingFirst, PicturesOf
  <2>7. Stations'
    BY <2>1, <2>2, <2>3, <2>4 DEF KeptInv, Stations, PicturesOf
  <2>. QED
    BY <1>1, <2>1, <2>5, <2>6, <2>7 DEF KeptInv
<1>. QED
  BY <1>1, <1>2, TakeNalKept, LoseNalKept, FlushPendingKept, HandleSliceKept, HandlePartitionsKept,
     CloseKept, ResetKept DEF Next

\* "Ignore per-slice errors so the stream can keep feeding": a picture is lost
\* only when one of its own slices fails, never arrives or was left by a reset,
\* whatever else fails or is lost (handle_event, handle_slice_with_dp); in a
\* data-partitioned stream, when nothing fails.
THEOREM OnlyFaultyLostCorrect ==
  ASSUME PartitionsUnharmed
  PROVE  Spec => []OnlyFaultyLost
<1>1. Init => KeptInv
  <2>. SUFFICES ASSUME Init PROVE KeptInv
    OBVIOUS
  <2>1. PicturesOf(inProgress) = {} /\ ~ Unheld(ev) /\ lastReset .. coding.pic = {}
    BY DEF Init, PicturesOf, Unheld, NoEvent
  <2>2. Stations /\ PendingFirst
    BY <2>1 DEF Init, Stations, PendingFirst, NoEvent
  <2>. QED
    BY <2>1, <2>2, InitTypes DEF KeptInv
<1>2. KeptInv /\ [Next]_vars => KeptInv'
  BY NextKept
<1>3. KeptInv => OnlyFaultyLost
  <2>. SUFFICES ASSUME KeptInv, NEW n \in lastReset .. coding.pic, n \notin failed
                PROVE  InFlight(n) \/ \E p \in Closed : n \in PicturesOf(p)
    BY DEF OnlyFaultyLost
  <2>1. Safe(n)
    BY DEF KeptInv
  <2>2. Coming(n) => InFlight(n)
    BY DEF Coming, InFlight, Unheld
  <2>3. Unbegun(n) => Coming(n)
    <3>1. 0 \in All
      BY AssemblyAssumption DEF All
    <3>. QED
      BY <3>1, ComesComing DEF Unbegun
  <2>. QED
    BY <2>1, <2>2, <2>3 DEF Safe, PassedOn, Assembles, InFlight
<1>. QED
  BY <1>1, <1>2, <1>3, PTL DEF Spec
=============================================================================
