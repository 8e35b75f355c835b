---------------------------------- MODULE Codec ----------------------------------
(***************************************************************************)
(* The encoder's streams (EncoderStreams) decoded by the decoder: the      *)
(* pictures are sent slice by slice to H264CodecDecoder                    *)
(* (src/src/h264_decoder.rs), which assembles them, derives their order    *)
(* counts (Poc), builds the reference lists of their slices (RefLists),    *)
(* marks and stores them (Dpb) and puts them out (Output).                 *)
(*                                                                         *)
(* The encoder decides what a picture predicts from by its own bookkeeping *)
(* and transmits none of it.  The two agree when the decoder's lists name  *)
(* the same pictures.                                                      *)
(*                                                                         *)
(* The channel loses nothing.  The caller sends what the encoder coded,    *)
(* fetches frames whenever there are some, and flushes at the end.         *)
(***************************************************************************)
EXTENDS EncoderStreams

VARIABLES
  sent,      \* slices of todo's first picture sent so far
  head,      \* the first slice header of the picture in progress, or the last one
  got,       \* history: the slices assembled into it
  ops,       \* its memory management control operations still to be applied
  counts,    \* its order counts
  pocState,  \* poc_state
  known,     \* history: of every decoded picture its order counts and its id
  dpb, store, nextKey, prevRef, phase, pic, cur, gap, mmco5, first,      \* see Dpb
  queue, cap, ready, pending, eof, outPhase, outPic, pics, pushed, cvs,
  inCvs, outFirst, shown                                                 \* see Output

D(refs) == INSTANCE Dpb WITH
  MaxNumRefFrames <- refs, GapsAllowed <- FALSE, Diffs <- Nat, LtIdx <- Nat,
  Structures <- {"frame", "top", "bottom"}, Modes <- BOOLEAN, Conforming <- FALSE,
  MaxPictures <- 1000

L == INSTANCE RefLists WITH
  Slices <- {}, slice <- 0, cur <- 0, built <- 0, list <- 0, x <- 0, pred <- 0, named <- 0

P == INSTANCE Poc WITH
  Streams <- {}, IntMax <- 0, sps <- 0, st <- pocState, hadMmco5 <- FALSE, topFoc <- 0,
  expected <- 0, poc <- 0, stored <- 0, anchor <- 0, absRef <- 0, lost <- 0

O == INSTANCE Output WITH
  Caps <- 1 .. 16, FrameNums <- Nat, Pocs <- Int, Structures <- {"frame", "top", "bottom"},
  Conforming <- FALSE, Reorder <- 0, LoneFields <- TRUE, MaxPictures <- 1000,
  phase <- outPhase, pic <- outPic, coded <- inCvs, first <- outFirst

decoded == <<sent, head, got, ops, counts, pocState, known>>
marking == <<dpb, store, nextKey, prevRef, phase, pic, cur, gap, mmco5, first>>
output  == <<queue, cap, ready, pending, eof, outPhase, outPic, pics, pushed, cvs,
             inCvs, outFirst, shown>>
vars == <<encoder, decoded, marking, output>>

-----------------------------------------------------------------------------
(***************************************************************************)
(* Picture sizes and levels.                                               *)
(***************************************************************************)
\* Level 1.1 taken for level 1b.
MaxDpbMbsLevel1b(mbs) ==
  CASE mbs <= 396 -> 396
    [] mbs > 396 /\ mbs <= 792 -> 4752
    [] mbs > 792 /\ mbs <= 1620 -> 8100
    [] mbs > 1620 /\ mbs <= 3600 -> 18000

\* min_level_idc_for_picture_size, then MaxDpbMbs of that level (level_idc 10,
\* 11, 21, 22 and 31; larger pictures have room for at least four).
MaxDpbMbs(mbs) ==
  CASE mbs <= 99 -> 396
    [] mbs > 99 /\ mbs <= 396 -> 900
    [] mbs > 396 /\ mbs <= 792 -> 4752
    [] mbs > 792 /\ mbs <= 1620 -> 8100
    [] mbs > 1620 /\ mbs <= 3600 -> 18000

\* output_dpb_sizing of a sequence parameter set without bitstream_restriction.
LevelCap(mbs) ==
  LET n == MaxDpbMbs(mbs) \div mbs IN CASE n < 1 -> 1 [] n > 16 -> 16 [] OTHER -> n

-----------------------------------------------------------------------------
(***************************************************************************)
(* Slices.                                                                 *)
(***************************************************************************)
Coming == Head(todo)
Slice  == Coming.slices[sent + 1]
Redundant == Slice[2]

SliceSent ==
  IF sent + 1 = Len(Coming.slices) THEN sent' = 0 /\ todo' = Tail(todo)
  ELSE sent' = sent + 1 /\ UNCHANGED todo

\* A detection that looks at frame_num, field and IDR flags only.
StartsNewPictureNoOrder(h) ==
  \E f \in {"frameNum", "structure", "ref", "idr"} : head[f] # h[f]

\* is_first_vcl_of_new_picture, while a picture is in progress; the encoders
\* use one pic_parameter_set_id, no delta order counts and idr_pic_id 0.
StartsNewPicture(h) ==
  \E f \in {"frameNum", "structure", "ref", "lsb", "idr"} : head[f] # h[f]

Header(h) ==
  [idr |-> h.idr, ref |-> h.ref, frameNum |-> h.frameNum, structure |-> h.structure,
   longTermFlag |-> h.longTerm, adaptive |-> h.mmco # <<>>]

Derived(h) ==
  P!Type0([idr |-> h.idr, ref |-> h.ref, lsb |-> h.lsb, structure |-> h.structure,
           frameNum |-> h.frameNum, delta |-> <<0, 0>>])

\* The first slice of a picture opens it.
OpenPicture ==
  /\ phase = "idle" /\ outPhase = "idle"
  /\ todo # <<>> /\ ~ Redundant
  /\ D(1)!OpenPicture(Header(Coming))
  /\ head' = Coming
  /\ got' = {<<Coming.id, Slice[1]>>}
  /\ counts' = Derived(Coming).counts
  /\ pocState' = Derived(Coming).st
  /\ SliceSent
  /\ UNCHANGED <<cfg, enc, coded, ops, known, output>>

\* Another slice of what the decoder takes for the same picture.
NextSlice ==
  /\ phase = "open"
  /\ todo # <<>> /\ ~ Redundant /\ ~ StartsNewPicture(Coming)
  /\ got' = got \cup {<<Coming.id, Slice[1]>>}
  /\ SliceSent
  /\ UNCHANGED <<cfg, enc, coded, head, ops, counts, pocState, known, marking, output>>

\* A slice of a redundant coded picture is not decoded.
SkipRedundant ==
  /\ todo # <<>> /\ Redundant
  /\ phase \in {"idle", "open"} /\ outPhase = "idle"
  /\ SliceSent
  /\ UNCHANGED <<cfg, enc, coded, head, got, ops, counts, pocState, known, marking, output>>

-----------------------------------------------------------------------------
(***************************************************************************)
(* finalize_in_progress_picture.                                           *)
(***************************************************************************)
\* The next picture's first slice has arrived, or the caller flushes.
Ended ==
  \/ todo # <<>> /\ ~ Redundant /\ StartsNewPicture(Coming)
  \/ EncoderDone

\* What Output is told of a picture: its display index stands for its number.
ToOutput ==
  [structure |-> head.structure, frameNum |-> head.frameNum, poc |-> counts.poc,
   idr |-> head.idr, mmco5 |-> FALSE, cap |-> LevelCap(cfg.mbs), n |-> head.display,
   frame |-> head.display, cvs |-> IF head.idr THEN cvs + 1 ELSE cvs]

Finished(key) ==
  /\ known' = [k \in (DOMAIN known) \cup {key} |->
                 IF k = key THEN [foc |-> [top |-> counts.top, bottom |-> counts.bottom],
                                  id |-> head.id] ELSE known[k]]
  /\ O!BeginOutput(ToOutput)
  /\ UNCHANGED <<encoder, sent, head, got, ops, counts, pocState>>

Finalize ==
  /\ phase = "open" /\ outPhase = "idle"
  /\ Ended
  /\ \/ D(1)!FinalizeNonReference
     \/ D(1)!FinalizeIdr
     \/ \E refs \in {d.refs : d \in Drivers} : refs = cfg.refs /\ D(refs)!FinalizeSlidingWindow
  /\ Finished(nextKey)

BeginMarking ==
  /\ phase = "open" /\ outPhase = "idle"
  /\ Ended
  /\ D(1)!BeginAdaptiveMarking
  /\ ops' = head.mmco
  /\ UNCHANGED <<encoder, sent, head, got, counts, pocState, known, output>>

ApplyMmco ==
  /\ phase = "mmco" /\ ops # <<>>
  /\ LET o == Head(ops)
     IN  \/ o.op = 1 /\ D(1)!Mmco1(o.diff)
         \/ o.op = 2 /\ D(1)!Mmco2(o.num)
         \/ o.op = 3 /\ D(1)!Mmco3(o.diff, o.idx)
         \/ o.op = 4 /\ D(1)!Mmco4(o.max)
         \/ o.op = 6 /\ D(1)!Mmco6(o.idx)
  /\ ops' = Tail(ops)
  /\ UNCHANGED <<encoder, sent, head, got, counts, pocState, known, output>>

EndMarking ==
  /\ phase = "mmco" /\ ops = <<>>
  /\ D(1)!EndAdaptiveMarking
  /\ Finished(nextKey - 1)

-----------------------------------------------------------------------------
OutputStep ==
  /\ O!Drain \/ O!Drained \/ O!Shrink \/ O!Place \/ O!ReceiveFrame \/ O!ReceiveAtEof \/ O!FetchStep
  /\ UNCHANGED <<encoder, decoded, marking>>

\* flush, after everything has been sent and the last picture finalized.
Flush ==
  /\ EncoderDone /\ phase = "idle" /\ ~ eof
  /\ O!Flush
  /\ UNCHANGED <<encoder, decoded, marking>>

Encode ==
  /\ SessionPush \/ SessionFinish \/ MultirefFrame \/ PaffFrame \/ PaffBGroup \/ SequenceFrame
  /\ UNCHANGED <<decoded, marking, output>>

Init ==
  /\ EncoderInit
  /\ sent = 0 /\ head = Blank /\ got = {} /\ ops = <<>>
  /\ counts = P!NoCounts /\ pocState = P!NoState
  /\ known = [k \in {} |-> 0]
  /\ D(1)!Init
  /\ O!Init

Next ==
  \/ Encode
  \/ OpenPicture \/ NextSlice \/ SkipRedundant
  \/ Finalize \/ BeginMarking \/ ApplyMmco \/ EndMarking
  \/ OutputStep \/ Flush

\* Every loop of the program ends or is driven by the caller's next call.
Spec == Init /\ [][Next]_vars /\ WF_vars(Next)

-----------------------------------------------------------------------------
(***************************************************************************)
(* Correctness.                                                            *)
(***************************************************************************)
\* The decoder's reference lists for the picture in progress.
Entries == [k \in DOMAIN dpb |-> [frameNum |-> dpb[k].frameNum, ltIdx |-> dpb[k].ltIdx,
                                  structure |-> dpb[k].structure, marking |-> dpb[k].marking,
                                  field |-> dpb[k].field, foc |-> known[k].foc]]

Current == [structure |-> head.structure, frameNum |-> head.frameNum, poc |-> counts.poc]

Modify(s, cmd) ==
  IF cmd.op = "long"
  THEN [s EXCEPT !.list = L!Spliced(@, s.at, L!LongTermNamed(Entries, Current, cmd.arg)), !.at = @ + 1]
  ELSE LET p == L!NoWrap(Current, s.pred, cmd.op, cmd.arg + 1)
           r == L!ShortTermNamed(Entries, Current, L!PicNumLX(Current, p))
       IN  [list |-> L!Spliced(s.list, s.at, r), at |-> s.at + 1, pred |-> p]

Modified(list) ==
  FoldLeft(Modify, [list |-> list, at |-> 0,
                    pred |-> L!CurrPicNum(head.frameNum, head.structure)], head.rplm).list

\* The pictures a list names, by the encoder's ids.
Named(list) == [i \in DOMAIN list |-> <<IF list[i] = L!NoRef THEN None ELSE known[list[i][1]].id,
                                        list[i][2]>>]

InitialLists == L!InitialLists(Entries, Current, head.type)

\* The decoder predicts every picture from the pictures the encoder predicted
\* it from: the lists, initialised and modified, name them index by index, after
\* every driver's marking operations, field pairs and modification commands.
PredictsFromSame ==
  phase = "open" /\ head.type # "I" =>
    /\ Named(Modified(L!Normalised(InitialLists[1], head.active))) = head.l0
    /\ head.type = "B" => Named(L!Normalised(InitialLists[2], 1)) = head.l1

\* The decoder recovers every order count from its transmitted low-order part,
\* which B pictures and the drivers' display layouts move back and forth.
OrderRecovered ==
  phase = "open" => counts.poc = head.order

\* encode_multiref_sequence's mirror of the reference buffer is the decoder's
\* buffer after every picture (multiref.rs DpbEntry).
MirrorAgrees ==
  cfg.kind = "multiref" /\ phase = "idle" /\ known # <<>> =>
    {<<known[k].id, IF dpb[k].marking = "long" THEN dpb[k].ltIdx ELSE None>> : k \in DOMAIN dpb} = head.held

\* A decoded picture is made of all slices of one coded picture and of nothing
\* else: every boundary between two coded pictures is found.
PicturesKeptApart ==
  LET own == {<<head.id, s[1]>> : s \in {t \in ToSet(head.slices) : ~ t[2]}}
  IN  got \subseteq own /\ (phase = "idle" /\ known # <<>> => got = own)

\* The frames come out in display order, each one once, both fields together.
ShownInDisplayOrder ==
  \A i \in DOMAIN shown : shown[i].sources = {[n |-> i - 1, frame |-> i - 1]}

\* No picture of a session has to be put out before it is removed from the CPB
\* (debug_assert in encode_au), for truncated mini-GOPs too.
NoPictureLate == \A i \in DOMAIN todo : todo[i].delay >= 0

\* Every frame pushed into the encoder comes out of the decoder.
AllFramesShown == <>(Len(shown) = cfg.frames)
=============================================================================
