# Formal model of oxideav-h264

This directory holds TLA+ models of the H.264 codec in `src/`, TLC configurations that
model-check them on small instances, and proofs that TLAPS checks. File and line references
are to `src/src/` (the Rust crate) at the commit this directory belongs to; `PROJECT.json`
maps every definition that models code to its lines.

## 1. The system

The crate is a decoder and an encoder for H.264 with no threads, no async code and no I/O.
Its difficulty is not concurrency but *state that outlives a call*: the caller feeds packets
(`send_packet`), and pictures, fields, partitions, reference markings, order counts and
timestamps carry over from one NAL unit to the next, across errors, drops, resets and
sequence boundaries, in places that were written at different times.

### 1.1 Components

| Component | Source | State | Operations |
|---|---|---|---|
| NAL driver | `decoder.rs` | SPS/PPS tables, subset SPSs, active SPS, queue of events | `process_nal`, `process_annex_b`, `process_avcc`, peeking at PPS ids, emitting `Event`s |
| Picture assembly | `h264_decoder.rs` 622–1192, 1757–1792, 2662–2811 | `in_progress`, `pending_dp`, `pending_pts`, `eof` | `handle_event`, first-slice detection, data partitions, coverage check, `flush`, `reset` |
| Picture order counts | `poc.rs`, `h264_decoder.rs` 1108–1124, 1898–1957, 2203–2216 | `poc_state`, `prev_had_mmco5`, `prev_reference_top_foc` | `derive_poc` (three types), carrying over operation 5, stepping over gaps |
| Reference marking | `ref_list.rs` 42–348, 1176–1721 | the `DpbEntry`s handed to it | sliding window, memory management control operations 1–6 |
| Reference DPB and store | `h264_decoder.rs` 1077–1106, 1855–1957, 2142–2285, `ref_store.rs` | `dpb_entries`, `ref_store`, `prev_ref_frame_num`, `next_dpb_key` | the `frame_num` gate, gap filling, marking, retention, insertion, pruning |
| Reference lists | `ref_list.rs` 350–1170 | none | list initialisation and modification for frames and fields |
| Output | `dpb_output.rs`, `h264_decoder.rs` 1958–2140, 2726–2811 | `output_dpb`, `ready`, `pending_field` | bumping, field pairing, draining at IDR pictures and operation 5, resizing, `receive_frame` |
| Separate colour planes | `h264_decoder.rs` 780–880, `encoder/scp.rs` | three sub-decoders and their output queues | routing by `colour_plane_id`, merging |
| Bitstream and NAL framing | `bitstream.rs`, `nal.rs`, `non_vcl.rs`, `encoder/bitstream.rs`, `encoder/nal.rs` | bit positions | Exp-Golomb codes, start codes, emulation prevention |
| Syntax | `sps.rs`, `pps.rs`, `subset_sps.rs`, `vui.rs`, `slice_header.rs`, `sei.rs`, ... | none | straight-line parsing |
| Entropy coding | `cabac*.rs`, `cavlc.rs`, `encoder/cabac_*.rs`, `encoder/cavlc.rs` | arithmetic coder registers, contexts, neighbour data | decode and encode a syntax element |
| Slice data | `slice_data.rs`, `macroblock_layer.rs`, `mb_address.rs`, `mb_grid.rs` | macroblock address, skip run, field flags | the macroblock walk, slice groups, neighbours |
| Reconstruction | `reconstruct.rs`, `intra_pred.rs`, `inter_pred.rs`, `mv_deriv.rs`, `transform.rs`, `sp_transform.rs`, `deblock.rs`, `simd/` | the picture and its macroblock grid | prediction, residuals, deblocking |
| Encoder | `encoder/` | a session's GOP position, references, rate controller | `encode_frame` and its parts |

### 1.2 How they interact

Everything is a call, and the two halves of the crate meet only in the byte stream: the encoder
mirrors what the decoder will do (reference buffers, contexts, neighbours, quantisers, motion) in
code of its own and transmits none of it, so that a mirror gone wrong shows as drift, much later.

In the decoder, `send_packet` stores the packet's pts, asks the driver for events and
passes each to `handle_event`. A slice event may first decode the partitioned slice that was
pending, then close the picture in progress if it starts another one. Closing a picture
(`finalize_in_progress_picture`) checks that all of its macroblocks were decoded, marks
references, stores it, and hands it to the output side, which may bump frames into `ready`.
Opening a picture passes the `frame_num` gate, fills gaps with non-existing frames, derives
its order count and builds reference lists. `receive_frame`, `flush` and `reset` are the
caller's other calls.

### 1.3 What is hard, and what makes each part correct

- *Order of effects in one call.* Old slices are decoded when new events arrive; an error
  of one is taken for an error of the other; the pts belongs to one of them. Correct: a
  picture is made of its own slices, lost only if one of them is, and carries its own
  packet's pts.
- *State updated in several places.* Frame and field markings, DPB entries and stored
  samples, order count state and `prev_had_mmco5`. Correct: the copies agree.
- *Numbers that wrap.* `frame_num` names frames modulo 16 or more, the order count LSB
  modulo 16 or more, and long-term references outlive many cycles. Correct: a number names
  one frame; the decoder recovers the order the stream meant.
- *Bounded buffers.* The sliding window counts frames while its entries are fields; the
  output queue is rebuilt in mid-stream with another capacity. Correct: never over
  capacity, nothing lost, nothing twice, and frames in display order.
- *Field pairs.* The second field must neither be taken for a gap, nor evict the first, nor
  be woven with a stranger.
- *Two mirrors of one state.* The encoder's reference buffer, `nc_grid`, CABAC neighbours, QP,
  skip runs and motion grids against the decoder's, through modes tried and rolled back, truncated
  mini-GOPs and late field flags. Correct: what is written is read as it was meant.
- *Copies that age.* An event carries the parameter sets it was parsed with; partitions and
  pictures are finished after newer ones have come. Correct: each is decoded with its own.
- *Sequence boundaries and end of stream.* IDR pictures, operation 5, `flush` and `reset`.
  Correct: sequences do not mix, everything is delivered once, a reset discards everything.

`PROJECT.json` lists each of these hazards at the line where it bites, with the properties
that cover it.

## 2. Plan

Order of work, most important first. Section 3 describes what is done.

1. *Done.* `RefMarking`, `Dpb`, `DpbProofs`: reference marking and the DPB.
2. *Done.* `DisplayOrder`, `Output`, `OutputProofs`, `DisplayProofs`: the abstract promise (frames in
   display order), the output side, and the proof that the second implements the first.
3. *Done.* `Poc`, `PocProofs`: order counts against what the stream meant.
4. *Done.* `Assembly`, `AssemblyProofs`: events to pictures.
5. *Done.* `RefLists`: initial lists and modification commands.
6. *Done.* `ParamSets`, `ParamSetsProofs`: tables, activation, replacement, and the copies events keep.
7. *Done.* `ColourPlanes`: routing and merging of separate colour planes.
8. *Done.* `EncoderStreams`, `Codec`, `CodecProofs`: the encoder's picture-level drivers, and their composition
   with `Poc`, `RefLists`, `Dpb` and `Output`.
9. *Done.* `CavlcContext`, `MbWriters`, `MbParser`, `CavlcSlices`: a CAVLC slice from the mode
   decision to the decoder's reconstruction QP.
10. *Done.* `MbaffPairs`, `CabacEngine`, `CabacSyntax`, `SliceGroups`, `NalFraming`, `Motion`:
    macroblock pairs, CABAC, slice groups, bytes, and motion vectors.
11. *Done.* `Deblock`, `DeblockProofs`: boundary strengths, in `Motion` on the grids of both sides.
12. Left: strengths in fields and MBAFF frames; the macroblock loops of CABAC slices of frames (`cabac_path.rs`; the ones of
    MBAFF frames are in `MbaffPairs`); rate control; SEI payloads.

Theorems worth proving next: `PredictsFromSame` of `Codec`, for the multi-reference driver on top of `MirrorInv` of
`CodecProofs`; `PlanesMatched`, once `Drained` and `Merged` of `ColourPlanes` are written without recursion.

## 3. The models

The models of the decoder share two conventions. The code is sequential, so a call is broken into
steps only where a loop runs (gap frames, operations of a list, drained frames) or where
one event does two things; `phase` is then the program counter and no other action is
enabled in between. The other party is the *stream* (and the caller): what it may send is a
guard (`StreamMayCode`), its view of its own pictures is kept in history variables the
code never reads, and where the code must stand any input, `Conforming = FALSE` removes
the guard.

### 3.1 `RefMarking` and `Dpb`

`RefMarking` is the data: entries with a frame-level marking and one marking per parity,
`ref_units` (a field pairs with the nearest field of the opposite parity and the same
`frame_num`), the sliding window, and operations 1–6 as functions from DPB to DPB. Entries
are kept in a function from keys (`dpb_key`, minted in increasing order) so that the order
of the `Vec` is the order of the keys.

`Dpb` is `H264CodecDecoder` around it: `OpenPicture` (gate and gap detection), `GapStep`
and `GapDone` (the loop of `fill_frame_num_gap` and what follows it), `DropPicture`, and the
branches of `finalize_in_progress_picture`: non-reference, IDR, sliding window, and an
operation list applied one `MarkingStep` at a time. `StoreCurrent` is the common end:
retain, insert, push, prune. Each entry carries a history field `frame` that names the frame
it was coded in; the code only has `frame_num`.

`Conforming` streams obey 7.4.3 (a new frame neither repeats nor skips the `frame_num` of the previous reference
frame or of any short-term reference), 8.2.5.1 (an operation list leaves at most `max_num_ref_frames` frames) and
8.2.5.3 (where a picture or a gap frame is to slide the window, the long-term frames do not fill it).

### 3.2 `DisplayOrder` and `Output`

`DisplayOrder` is the promise to the caller: each frame once, in the order of sequences
and, within one, of order counts. `Output` is the code: `BeginOutput` (the end of
`finalize_in_progress_picture`, flushing the pending field at an IDR picture or operation 5),
`Drain`/`Drained`, `Shrink` (one eviction of `ensure_output_dpb_sized`), `Place` (push a frame
or pair a field), `ReceiveFrame`, `ReceiveAtEof` and `FetchStep` (the drain in
`receive_frame`), `Flush`, `Reset`. The queue is the set of its entries with their insertion
numbers, since the code searches it for the least (order count, `frame_num`), earliest first.

`DisplaysInOrder == Order!Spec` with `decoded <- Pushed` is the refinement: each step of
`Output` is a step of `DisplayOrder` or a stutter.

### 3.3 `Poc`

The stream knows the order of every picture and codes only `frame_num`, the LSB and deltas;
the decoder must get the order back. `OpenPicture`, `Reject`, `GapStep`, `GapDone` are the
gate and the gap loop as in `Dpb`, here stepping `poc_state`; `DerivePoc` and `Overflow` are
`derive_poc`'s two outcomes (`Type0`, `Type1`, `Type2` are the three derivations, computed in
unbounded integers, as the code's i64, and refused when a result leaves 32 bits, as `i32::try_from` does);
`Drop`, `FinalizeReference` and `FinalizeNonReference` are the ends of a picture. The subtractions of
operation 5 (h264_decoder.rs 1915–1916, 1941, 1992–1993) are plain `i32`: `Wrapped` is what they give in a build without
overflow checks, and `FinalizePanics` is the other build, whose decoder stops (`Cargo.toml` chooses neither).
`sps` is the stream's parameter set together with what the stream makes of it, chosen once.

### 3.4 `Assembly`

One step per event: `TakeNal` (the next event; the stream may code any slicing of its
pictures), `FlushPendingDp` (the pending partitioned slice, whose error ends
`handle_event`), `HandleSlice`, `HandlePartitionA`, `HandlePartition`, `HandleBoundary`,
`HandleOther`; `SendPacket`, `PacketDone`, `LoseNal` (a NAL unit that does not parse ends the
packet), `FlushPendingAtEnd`, `FlushPicture`, `Reset`. `DecodeSlice` is
`handle_slice_with_dp`: close what was in progress, open or refuse, reconstruct. A slice
decodes completely or up to some macroblock; the macroblock at which it fails may have been
marked available already (`reconstruct.rs` 2102). Which pictures a slice belongs to, and
which failed, is history. What closing does to the DPB and the output queue is left to the
other models; conversely, a picture refused by them is a choice here.

Reading a whole packet before handling its first event (Annex B) and event by event (AVCC)
differ in what later parameter sets change; with parameter sets left out the two are the
same sequence of steps, and a NAL unit that does not parse loses the rest of its packet in
both.

### 3.5 `RefLists`

The lists of one slice: `Init` chooses a slice and a DPB that marking can leave behind (frames,
pairs, lone fields, each field short-term, long-term or unused), `BuildInitial` the initial lists
of `ref_list.rs` for frames and for fields, and `Command` one entry of the modification loop, whose
operand the stream chooses among the references the slice could name. The properties compare the
lists with a definition by sets (every reference once, parities in turn, newest first) and with what a
command is for (the named picture comes in front, and each short-term reference can be named).

### 3.6 `ParamSets`

The tables of `decoder.rs` by id, with contents abstracted to the `chroma_format_idc` of an SPS and, for a
PPS, the SPS it names, its `redundant_pic_cnt_present_flag` and the chroma format it was parsed under. A packet is read to its end before its first event is
handled (`annexb`) or event by event (`avcc`); `pending_dp` and `in_progress` hold the copies of
the sets they were opened with. The stream's view (`sent`, `open`, `opened`) says under which
contents each slice, partition and picture was coded. The stream sends a PPS again after the chroma
format of its SPS changed, as it must for the decoder to be able to read it.

### 3.7 `ColourPlanes`

Three monochrome decoders, reduced to their picture in progress and output queue, three queues and
the merge that takes the first picture of each. The stream codes every plane of a picture in
`SlicesEach` slices, in any interleaving; `Faulty = TRUE` lets slices fail.

### 3.8 `EncoderStreams` and `Codec`

`EncoderStreams` has one action for one turn of each of the encoder's picture-level loops:
`SessionPush` and `SessionFinish` (`session.rs`, mini-GOPs with B pictures), `MultirefFrame`
(`multiref.rs`, with its mirror of the decoder's buffer), `PaffFrame` and `PaffBGroup` (`field.rs`),
`SequenceFrame` (frames in several slices, arbitrary order, redundant copies). Each appends coded
pictures to `todo`: headers, marking commands, and, as history, the pictures the encoder predicted from.

`Codec` decodes them: `OpenPicture`, `NextSlice` and `SkipRedundant` for picture boundaries, then the
actions of `Dpb`, `Output` and the operators of `Poc` and `RefLists`, instantiated over the state of
one decoder. Both `Dpb` and `Output` are used with `Conforming = FALSE`: nothing is assumed of the
encoder, it is the encoder that is checked. A configuration is one the drivers accept (`Driver`: at most 16 B
pictures, as `session.rs` asserts), and its pictures have a primary slice first (`EncoderStreamsAssumption`).

### 3.9 `CavlcContext`, `MbWriters`, `MbParser`, `CavlcSlices`

`MbWriters` are the writers of `encoder/macroblock.rs`, each a sequence of *tokens* (a descriptor with its
value; a residual block with its context nC, its size and its counts); `MbParser` is
`parse_macroblock` as a parser of tokens, which notes whenever a token is not what it expected.
`CavlcContext` is the nC derivation of `macroblock_layer.rs`; the writer and the parser call the same
functions there as in the code, each on a grid of its own. `CavlcSlices` is the loop around them: which macroblock type, coded block
pattern and transform the mode decision takes is free (`plans`), and with it the trials that write into the
slice and are rolled back; the row budget chooses the wanted QP. On the other side `Decode` is a
turn of `parse_slice_data` and the QP chain of `reconstruct.rs`. It runs as soon as the slice holds
what it reads next.

### 3.10 `MbaffPairs`

Pairs of an MBAFF frame, coded by `encoder/mbaff.rs` (CAVLC) or `encoder/mbaff_cabac.rs` and read by
`slice_data.rs`: skip runs over pairs, the flag that comes late or never and is inferred, and the
neighbouring locations of `mb_address.rs` for all combinations of frame and field pairs. A token carries what its
contexts read at the neighbouring locations, so that a different view of a neighbour shows.

### 3.11 `CabacEngine` and `CabacSyntax`

`CabacEngine` is the arithmetic coder bit for bit (range and transition tables included): the encoder
with its outstanding bits, the decoder with its 9-bit offset, on every sequence of up to five bins of
the three kinds. `CabacSyntax` is the binarisation of each syntax element as a sequence of
<<ctxIdx, bin>>, written by `encoder/cabac_syntax.rs` and read by `cabac_ctx.rs`, residual blocks with
their significance maps included.

### 3.12 `SliceGroups`

The seven slice group maps, the encoder's dealing of macroblocks to slices (`encoder/slices.rs`) in any order
and with redundant copies, and the decoder's walk with the same-slice test of its neighbours. The maps of
all types but the box-out are also compared with a description that does not mention the algorithm.

### 3.13 `NalFraming`

`BitWriter` and `BitReader` on bits; `build_nal_unit` with emulation prevention, start codes or lengths;
the splitters; `more_rbsp_data`. The stream is made of bytes, since this is a model of bytes.

### 3.14 `Motion`

The encoder's grid (one entry per 8x8 quarter and list) and the decoder's (per 4x4 block): prediction,
P_Skip, the temporal and the spatial direct modes, and the motion kept with a picture for the colocated
block. The derivations of `mv_deriv.rs` are one set of operators, as they are one set of functions in the code; so the round trip
shows that both sides hand them the same neighbours and colocated blocks and not that the derivations
are those of the standard.

Both sides also leave a grid for the deblocking filter (`Deblock`): the encoder a third copy of
the macroblock's motion (`MbDeblockInfo`), in which the reference pictures of a B slice are numbers 0 and 1000
for the lists and coefficients are noted as quantised; the decoder its own grid, with picture order counts and the coefficients
dug out of the coded quarters. `StrengthsReadBack` says that every edge is smoothed as strongly. Frames only: in field
pictures and field pairs half a vertical threshold and other rules for intra edges apply, which are
not modelled. The encoder may leave `transform_size_8x8_flag` set although nothing is coded and the flag is not
sent (encoder/mod.rs 6735); some plans do so. Nothing comes of it, since no edge inside a quarter is
smoothed then, on either side.

### 3.15 Composites

`MCDpbStreams`, `MCOutputStreams` and `MCAssemblyStreams` instantiate a module for several kinds of stream and run them
side by side: `stream` says which. `MCParts` and `MCLayers` do so for several modules: `part` says which one
runs while the variables of the others are fixed. Nothing is shared between the parts of one run.

## 4. What is checked

| Run | Properties | Instance |
|---|---|---|
| `dpb_streams` | `MarkingsInSync` `StoreMatchesDpb` `OnlyReferencesHeld` `NeverRevived` `ConformingWithinWindow` `UnitsAreFramesOfPairs` `LongTermIdxUniqueOfPairs` `PairSurvives` `WindowIsNewestInGaps` | any: 3 `frame_num`s, window 2, 3 pictures, arbitrary lists, gaps; pairs: conforming, 5 `frame_num`s, window 2, 5 pictures, one long-term index; gaps: conforming frames, window 3, 5 `frame_num`s, 12 pictures |
| `output_streams` | `QueueBounded` `EachFrameOnce` `SequencesInOrder` `OrderedDisplays` `OrderedAllDelivered` | any: capacities 1 and 2, 3 pictures between resets; ordered: 4 order counts, 5 pictures, resizing at IDR pictures |
| `decoder_parts` | `TypeOK` `RecoversOrder` `ResetsFit` `StoredPocIsOutputPoc` `InitialListsOrdered` `CommandsReachFront` `OwnSets` `PlanesMatched` | seven streams of order counts; ten kinds of slice over DPBs of two or three slots, at most two commands; one id, two chroma formats, six NAL units; four pictures of three planes in two slices each |
| `layers` | `LayerReadBack` `NeighboursAreSpatial` `CabacReadBack` `SlicesReadBack` `GroupsAsDefined` `UnitsReadBack` `MotionReadBack` (with `StrengthsReadBack`) | see the bounds below |
| `asm_streams` | `OnePictureEachWithoutLoss` `OnlyFaultyLost` `PtsOfOwnPacket` `ClosedIsWhole` | faultless: headers that differ in each element in turn, 2 macroblocks, arbitrary slice order, data partitions; faulty: failing slices, broken NAL units, resets, 3 pictures in 3 packets |
| `codec_streams` | `PredictsFromSame` `OrderRecovered` `MirrorAgrees` `PicturesKeptApart` `ShownInDisplayOrder` `NoPictureLate` `AllFramesShown` | every driver of the encoder, 8 `frame_num`s, 32 LSBs, up to 12 frames |

Six more runs (`dpb_gap_pair`, `output_depth`, `poc_bottom_mmco5`, `asm_reset`, `codec_all_intra`,
`codec_large_b`) show a disagreement between code and comment (section 7).

What the runs show:

- **Marking under any stream.** Whatever a stream does, frame and field markings agree,
  the store holds the samples of exactly the DPB's entries, only references are held after a
  picture, and no marking is ever strengthened. These are proved in general (section 6).
- **Marking for conforming streams.** The window counts frames, pairs and lone fields
  properly; grouping by `frame_num` and parity finds exactly the fields of a frame; a
  `LongTermFrameIdx` belongs to one frame; a second field that slides no window evicts
  neither itself nor its first field. With sliding window only, the window holds the newest
  frames, through gaps and wraps.
- **Output.** Nothing lost, nothing twice, bounded, sequences in order, for any stream and
  caller. For streams whose frames are preceded by fewer than `max_num_reorder_frames`
  later ones, frames come out in display order, and after `flush` a polling caller gets
  everything. That pairs are then woven from their own two fields is proved
  (`PairsAreFramesCorrect`).
- **Order counts, lists, parameter sets, planes.** Each type gives back the order the stream meant; every count
  kept is in 32 bits, and what operation 5 subtracts leaves them only where the stream's own counts do;
  every reference is in the initial lists once and in order, and commands reach it; slices, partitions
  and pictures are decoded with the parameter sets they were sent under, whatever arrives in between;
  frames are made of the planes of one picture as long as no slice is lost.
- **Assembly.** A closed picture is made of one coded picture's slices; only faulty pictures
  are lost; timestamps are those of a picture's own packet.
- **The codec.** Whatever the drivers code, the decoder finds the picture boundaries, recovers the
  order counts, predicts from the pictures the encoder predicted from, has the buffer
  that the encoder's mirror says it has, and shows every frame once in display order.
- **Below the picture.** Macroblock syntax, contexts, QPs, skip runs, field flags, bins, slice groups, bytes and
  motion are read as they were meant, and edges deblocked alike, for every choice the mode decision may take.

### Bounds, and why they are enough

- `MaxPictures` (`Dpb`: keys minted; `Output`: pictures since the last reset; `Assembly`,
  `ColourPlanes`: pictures coded), `MaxPackets`, `MaxNals`, `MaxBins`, `MaxFields`, `maxOrder`, `maxAbs` only
  cut streams short. Where a stream stops there, the configuration says `CHECK_DEADLOCK FALSE`;
  `output_streams` is checked for deadlock, since a caller can always reset.
- *any* of `dpb_streams` stores up to three entries under a window of two: a pair, a long-term field and
  a third picture interact, and `frame_num` wraps after three. The properties checked there are
  proved for every bound, so that stream is there to find errors early. *pairs* needs four entries
  (two pairs) and one more picture to overflow a window of two, hence five; it stops before `frame_num`
  can repeat with an entry of an earlier cycle still held long-term: beyond that the code is wrong
  (section 7). What is checked there is proved without the bound (section 6). *gaps* goes through more than two cycles of `frame_num` with gaps longer than the
  window.
- *ordered* of `output_streams`: overtaking a frame in a queue of two takes four frames; the fifth covers
  a pair completed or a resize at an IDR picture in between.
- The streams of order counts (`MCPoc`): `Lsbs` (type 0, frames and fields, deltas, operation 5
  of frames and top fields, LSB wraps in both directions with 8 LSBs), `Large` (type 0, counts
  up to the largest integer and past it), `Lossy` (type 0 with dropped pictures, hence pictures
  the gate refuses, hence lost counts until the next IDR picture; counts to 4), `Cycles` (type 1, three
  offsets, operation 5 of every structure; counts to 10), `Counting` (type 2), `Gaps` (type 2, gaps of up
  to a `frame_num` cycle, drops), `Spread` (type 1, fields of a frame up to the width of the integers apart and lone
  fields of the least order, so that operation 5 overflows). The largest integer is 31 in these instances, so that refusal
  happens in types 0, 1 and 2. Numbers that wrap are small so that they do wrap.
- Reference lists: the two `frame_num`s make those of the DPB wrap; lists are shorter and longer than
  the DPB; a command shifts a list that already holds another command's picture.
- Parameter sets: six NAL units are an SPS, a PPS, a slice, both sets anew, and a slice or
  partition that needs the old ones.
- Colour planes: capacity 2 delays planes differently; four pictures pass through that queue twice.
- `asm_streams` needs two pictures, one in front of the other, and two slices in each to
  reorder; its faulty stream has a third picture so that a fault of one can harm its successor's
  successor.
- `codec_streams`: sessions of 11 and 12 frames wrap the 8 `frame_num`s and cut mini-GOPs of each size
  short; 32 LSBs wrap within a group of pictures of 10 with B pictures.
- `layers`, CAVLC: two macroblocks with every plan, beside each other with `transform_8x8_mode_flag` and above
  each other without, in all chroma formats, since a context takes the left and the upper
  neighbour; two references; 2x2 macroblocks with few plans for runs over a row's end; three rows with a
  row budget at QP 0 and 51 (the QP is 8-bit).
- `layers`, pairs: 2x2 pairs of I and P slices with both coders; neighbouring locations for blocks of
  16x16, 8x8 and 8x16 samples.
- `layers`, CABAC: five bins from four context states are enough for a carry through more than three outstanding
  bits; every value and increment of elements with a fixed range, and of the others values around the
  changes of code; sparse blocks with coefficients in first, middle and last places. A block of 64
  coefficients that are all zero is never coded outside 4:4:4 and is left out.
- `layers`, slice groups: pictures of 6 and 12 map units, rates 1, 2 and 5, cycles 0 to 4, slices of 0
  (unlimited), 1 and 2 macroblocks.
- `layers`, NAL units: three elements in at most two units, Annex B and four-byte lengths: zero runs across
  elements, start codes and unit ends.
- `layers`, motion: 3x2 macroblocks around macroblock 4, which has all four neighbours; P pictures with
  skipped, intra, 16x16 (two references) and 8x8 macroblocks; an anchor and a B picture with all lists and
  partition forms; frame macroblocks with `direct_8x8_inference_flag`, which is what the encoder writes. A vector
  is one number. Some plans have coefficients, in one quarter or two that are not neighbours, with either
  transform; blocks of list 0 stand beside blocks of list 1 with vectors less than 4 apart.

### Fairness

Two properties are liveness. `OrderedAllDelivered` uses `Fairness` of `Output`: weak fairness of the
decoder's own steps (a call, once begun, runs to its end: the code has no loop that waits) and of
`receive_frame` while it has something to return (a caller drains the decoder at end of
stream: that is what `flush` and `Error::Eof` are for). Nothing is assumed of the stream or of
`flush` itself. `AllFramesShown` uses weak fairness of `Next` of `Codec`: the caller pushes the frames
it has, finishes the session, sends what was coded and polls, and each call returns.

## 5. Mutants

Each property of each passing run has a mutated definition in its module (a dropped guard, an
off-by-one, a missing reset), not used by the model, next to the definition it would replace;
with it in place the run reports the property violated. `PROJECT.json` pairs them.

## 6. What is proved

For every value of the constants satisfying the modules' named assumptions (`MaxFrameNum` and `Mbs`
positive, sets of the right type, an even number of LSBs; nothing else but what a theorem names), and for every stream and
caller:

`DpbProofs`
- `TypeCorrect`, `SyncCorrect` (`MarkingsInSync`), `StoreCorrect` (`StoreMatchesDpb`),
  `RetentionCorrect` (`OnlyReferencesHeld`), `NoRevival` (`NeverRevived`).
- The inductive invariant is `Inv`: the four invariants together with `GapKeys` (inside the
  gap loop, the store holds what the DPB held before it, and every key from the loop's first
  on is a gap frame's) and `CurrentKeyFree` (while operations are applied the key of the
  current picture is minted but not in the DPB). Without `GapKeys` nothing relates store and
  DPB when the loop ends; without `CurrentKeyFree` an operation could find the current
  picture among the references.
- The argument: every operation, whatever its operands, maps a well-formed DPB to a
  well-formed one with the same keys and markings no stronger (`Fades`, one lemma per
  operation), so the actions only have to account for keys. `NoRevival` follows from the same
  lemmas.
- For `Conforming` streams: `WithinWindowCorrect`, `FirstFieldHeldCorrect` and `PairSurvivesCorrect`, if
  `NoFieldGaps` (an SPS that allows gaps in `frame_num` codes frames only). Where gaps and fields meet,
  `FirstFieldHeld` is false (`dpb_gap_pair`): this is all that excludes.
- Counting is the difficulty: `ref_units` is a choice of nearest fields, and the code
  compares the number of units with the window. Each reference is labelled with its kind, its `frame_num` and how many of its
  parity and `frame_num` come before it; both fields of a pair have one label, so there are as many units as labels, and a
  new field makes a new one exactly if its parity is not the fewer. `StreamInv` says how the stream's own knowledge of its
  pictures lies to the entries: the `frame_num` of a new frame is no short-term reference's, at most two entries are of a
  frame, and a field that awaits its second is alone. `WindowInv` adds `RoomForSecond`: while a
  field awaits its second, either there is a field for the second to pair with or the window has room for another unit.
  The second field evicts nothing (ref_list.rs 1205), so that without it `WithinWindow` is not inductive.
- `WindowIsNewestCorrect`, if `SlidingFramesOnly`: frames and gaps, and no operation lists. `NewestInv`: from the oldest
  short-term reference on, there is exactly one for every `frame_num` up to the last one. It is kept because the frame with
  the least `FrameNumWrap` is the one the most `frame_num`s back (`FurthestEvicted`), and because no frame reaches a
  `frame_num` that is still taken.
- `UnitsAreFramesCorrect` and `LongTermIdxUniqueCorrect`, if `NoFieldGaps`, for the behaviours in which
  `FrameNumNotReused` holds: no picture has the `frame_num` of a long-term reference of another frame where one of the two
  is a field; *pairs* of `dpb_streams` is such a stream. Both properties are false without (section 7), since `frame_num` is all that `ref_units` and `evict_ltfi` have
  to go by; short-term references need no such condition. `TellsInv` says that `frame_num` then tells frames
  apart, but for two frames one of which is long-term only; `LongInv` that an index that operation 6 gave to the current
  picture is no other frame's.

`OutputProofs`
- `QueueStaysBounded` (`QueueBounded`) and `SequencesHandedOutInOrder` (`SequencesInOrder`).
- The bumping order is total, so every non-empty finite queue has a lowest entry
  (`LowestExists`, by well-founded induction on the size of a counterexample); a push into
  a full queue therefore replaces one entry, which bounds the queue. For the sequences, the
  invariant adds that between drains everything queued or pending is of the current coded
  video sequence and everything handed out is of it or an earlier one.
- `EachFrameOnceCorrect` (`EachFrameOnce`). `OnceInv` adds what is still on its way to the pictures
  handed out, ready and queued: the picture being finalized and the pending field. These all have
  sources of their own, and together they account for every picture since the last reset.

`DisplayProofs`
- `DisplaysInOrderCorrect`: `Output` implements `DisplayOrder` (`DisplaysInOrder`, the refinement with
  `decoded <- Pushed`), `ShownInOrderCorrect` (`ShownInOrder`) and `PairsAreFramesCorrect`
  (`PairsAreFrames`), for every capacity, if `OrderedStream`: the stream conforms; it reorders by less than the
  capacity (at exactly the capacity the code is wrong, `output_depth`); and no frame follows a lone field but to
  begin a sequence (else the field stays pending, section 7). *ordered* of `output_streams` is such a stream.
- A conforming stream codes a picture only when less than a queue-full of the order counts of its sequence
  follow it. `OrderInv` carries this to the decoder: when the queue is full, its lowest frame precedes the one
  pushed, and a queue-full of the sequence's counts follow the frame it gives up (`Reordered`), so that nothing
  coded later comes before it. The stream is counted by the counts it coded, the queue by its entries; `Counts`
  relates them. In between are the pending field, whose frame is to be pushed with the lesser of two counts, and
  the picture being placed, which may complete it: hence one conjunct for each.
- `PairInv` for the pairs: what has been pushed is of other frames than what waits, and the pending field and
  the picture being placed are of one frame exactly when the code finds them complementary.

`PocProofs`
- `TypeCorrect` (`TypeOK`: every count kept is in 32 bits, refused by `derive_poc` or wrapped after operation 5) and
  `StoredPocCorrect` (`StoredPocIsOutputPoc`), for all streams. They rest on `PocAssumption`: the range of
  the LSB is even and within that of the integers (2 ^ 16 at most).
- `ResetsFitCorrect` (`ResetsFit`), for streams that are `Recoverable`: where the subtractions of operation 5 wrap or
  panic. It needs the invariant below, since it is about the stream's orders and not the decoder's numbers
  (`OverflowMeant`); `RecoversOrder` in turn needs that the count left by operation 5 did not wrap.
- `RecoversOrderCorrect` (`RecoversOrder`), for all widths, offset cycles and streams that are `Recoverable`; `MCParts`
  asserts that the streams checked are. `Follows` says in each phase how far the decoder's state is from the
  stream's: equal to its anchor (type 0), or the count of frames and its wraps (types 1 and 2), or reset by an
  operation 5 that the next picture has yet to leave behind. That the equation for `PicOrderCntMsb` and the wraps
  of `frame_num` undo the stream's remainders is `MsbCorrect` and `WrapCount`; that 8-8 to 8-10 sum the offsets
  of a cycle is `CycleSums`, by induction on the frames of a cycle.
- `Recoverable` excludes what the code really gets wrong: operation 5 in a bottom field (`poc_bottom_mmco5`);
  operation 5 and gaps together in types 1 and 2 (`prev_had_mmco5` stays set through the gap and a wrap in it is
  lost, section 7), and fields and gaps together there (`dpb_gap_pair`). In type 0 with operation 5 it excludes
  deltas of a whole LSB cycle, which a stream must not have (7.4.3), and the loss of pictures among fields or
  gaps, after which the first field's order count may be taken for another's. `frame_num` has at least three values.

`ParamSetsProofs`
- `OwnSetsCorrect` (`OwnSets`), if chroma formats are numbers (`Formats \subseteq Nat`).
- `Inv` says that the tables hold what the stream sent last (`TablesFollow`); that whatever waits in the
  driver's queue, in `pending_dp` and in `in_progress` carries its own sets; and that a partition B
  or C, which carries none and is read by the active PPS, can only follow a partition A sent under that very
  PPS (`OpenIsActive`). The last part is what `OwnSets` lacks to be inductive: an activation
  between partition A and its B would break it, and no step of a stream that `Next` allows makes one.

`AssemblyProofs`
- `ClosedIsWholeCorrect` (`ClosedIsWhole`), under every fault. `WholeInv`: what is available in a picture
  is of its slices; unless it is among the failed, all macroblocks of its slices are painted; and a
  picture closed has all of them available.
- `PtsCorrect` (`PtsOfOwnPacket`), if `~ Partitions`: with data partitioning the property is false
  (section 7). `PtsInv`: a picture's pts is the packet of one of its slices, none of which came
  earlier, or none; the pts waiting is the current packet's or none, and newer than those given out.
- `OnlyFaultyLostCorrect` (`OnlyFaultyLost`), if `PartitionsUnharmed`: failures and resets of any kind, but with data
  partitioning neither (the error of a pending slice takes the next event with it, and a reset leaves the
  slice pending: section 7). `KeptInv`: of every picture since the last reset that has not failed, nothing has begun, or it has
  been passed on whole, or it is being assembled (`Safe`) and each of its macroblocks is available or in a slice
  still on its way. A slice can be on its way at three places, `coding`, `ev` and `pendingDp`, and get lost at each, hence
  `Stations` and `PendingFirst`.
- `OnePictureCorrect` (`OnePictureEach`), if `~ Faulty` and `HeadersDiffer` (any two headers differ in an element
  of 7.4.1.2.4; `EachElement` is such a set). `OrderInv`: along the way from the stream over the event and the pending
  slice to the picture in progress, each station is at the same picture as the one before it,
  with the same header, or one picture behind with a different header (`Follows`); everything closed is
  older than all of them. So a comparison of headers, which is all the code has, tells whether a slice begins a picture.

`CodecProofs`
- `NoPictureLateCorrect` (`NoPictureLate`), for every configuration. A session's frames pushed are those coded since its
  IDR picture and those waiting (`SessionInv`), so a mini-GOP, cut short or not, is coded before it is due.
- `PicturesKeptApartCorrect` (`PicturesKeptApart`), if `Spaced`: sessions have a GOP of more than one frame. With a GOP of
  one it is false (`codec_all_intra`, section 7).
- `OrderRecoveredCorrect` (`OrderRecovered`), if `Spaced` and `Roomy`: `pic_order_cnt_lsb` has a range of at least four times
  the distance between two anchors of a session, and of at least 22 with B field pairs. The drivers write 8 bits and a
  session accepts 16 B pictures, which makes 68 of 256 at most; `codec_streams` has 32, of which its drivers need 22.
- The encoder's side comes first. `DriversCode`: every turn of every driver codes pictures (`Coding`) each of which
  differs from the one before in an element the decoder compares (`Separate`), and the order count of each is less than half
  the range away from that of the reference picture before it (`Ordered`). A turn that codes nothing, and the boundary
  between two turns, are why each driver also needs to say what its last picture can have been (`LastOne`, `LastOrder`).
  `MiniGopLoop` and `ChainConcat` put the turns together picture by picture.
- `MirrorAgreesCorrect` (`MirrorAgrees`), if `Accepted`: what `encode_multiref_sequence` asserts of its
  configuration (fewer pictures than `frame_num` has values, a long-term picture after the IDR picture and before it
  is unmarked), and a buffer with room for one picture besides the long-term ones, without which the driver panics
  for want of a picture to evict; the drivers of `codec_streams` are all accepted. The buffers are compared as sets
  of pairs of number and index. `MirrorSent`: what the driver holds is what its last coded picture says, and the
  picture that waits is a `Turn` of it. `MirrorKept`: what the decoder holds between pictures is what the driver
  held at the same place; among the operations of a picture, the ones still to be applied lead from what is held now
  to that (`Leads`). On the driver's side `MirrorSlides`, `LongTurn` and `UnmarkTurn` say which operations it
  writes, on the decoder's `HeldSlides` and `Held1` to `Held6` what they do to `Dpb`. The driver frees a place by
  operation 2 and does not slide then; that the place exists is the last conjunct of `MirrorOf` (the picture at
  `longAt` is held until `unmarkAt`).
- The decoder's side of these three is as many invariants, one on top of the other: what waits to be sent is coded pictures
  (`CodesInv`); the slices assembled are those sent so far of the picture they belong to, and the next picture differs from it
  (`KeptApart`); `pocState` is the count of the last reference picture begun, from which the counts of
  the pictures not begun follow (`OrderKept`).

`DeblockProofs`
- `DifferentRefOrMvCorrect`: the comparison of two blocks says "different" exactly when no matching of
  their lists gives the same pictures and near vectors (`PredictedAlike`). No invariant: the cases of the code
  are compared with the two matchings there are.
- `NamesDoNotMatter`: two grids in which the same lists are used with the same vectors and the same pairs of
  references are one picture give the same answer. This is why `StrengthsReadBack` follows from
  `MotionReadBack` when the encoder's numbers tell pictures apart, and what `RefKeyOfIndex` breaks.

Some property names in the runs belong to the composite that states them for one kind of stream:
`ConformingWithinWindow` for `WithinWindow` of `Dpb`, `UnitsAreFramesOfPairs`, `LongTermIdxUniqueOfPairs` and
`WindowIsNewestInGaps` for `UnitsAreFrames`, `LongTermIdxUnique` and `WindowIsNewest`, `PairSurvives` for
`PairSurvivesSlidingWindow`, `OrderedDisplays` for `DisplaysInOrder` of `Output`, and so on; what is
proved are the properties of the modules themselves.

Only model-checked: liveness (`OrderedAllDelivered`, `AllFramesShown`); of `Codec`, `PredictsFromSame` and `ShownInDisplayOrder`
(which need the decoder's lists and queue related to each driver's own bookkeeping); everything of `RefLists`,
`ColourPlanes` and the modules of the slice layer, where what matters is computed by folds over sequences or by
recursive operators.

## 7. Deviations

Checked by a run that finds the violation (`findings` in `PROJECT.json`):

- `dpb_gap_pair`: where the SPS allows gaps, the second field of a pair (same `frame_num` as
  `PrevRefFrameNum`) is sent into `fill_frame_num_gap`, which synthesises a whole
  `frame_num` cycle of frames and evicts the first field.
- `output_depth`: `push` bumps the lowest queued frame before it looks at the new one, so a
  stream that reorders by exactly `max_num_reorder_frames` is shown out of order.
- `poc_bottom_mmco5`: after a bottom field with operation 5 the next LSB is compared with
  `-BottomFieldOrderCnt`, where `derive_type0` expects its caller to pass 0.
- `asm_reset`: `reset` keeps `pending_dp`; the slice is decoded into the next stream.
- `codec_all_intra`: consecutive IDR pictures of a session with `gop_length` 1 differ in no element
  that separates pictures, and are assembled as one.
- `codec_large_b`: a hierarchical field-pair B sequence of 301 to 396 macroblocks gets a level whose DPB
  holds two frames, fewer than the four it uses, and is shown out of order.

Met while modelling, and kept out of the passing runs by the restriction named:

- `evict_ltfi` and `ref_units` recognise a frame by `frame_num`; a long-term lone field kept
  over a whole cycle is taken for the mate of a new field (`LongTermIdxUniqueOfPairs` fails once a
  stream has more pictures than `frame_num` has values; the *pairs* stream stops before). `FrameNumNotReused` of
  `DpbProofs` excludes just that.
- An operation list that frees nothing lets `dpb_entries` and `ref_store` grow without bound;
  the comment of `prune_ref_store` says the store is bounded by the DPB size. No property
  claims a bound for nonconforming streams (h264_decoder.rs 1932).
- An unpaired field stays pending over following frames and may be woven with a later field
  of the same `frame_num` (`PairsAreFrames` fails with `LoneFields = TRUE`).
- Gap frames after an operation-5 picture leave `prev_had_mmco5` set, so a wrap inside the
  gap is lost (`RecoversOrder` fails if `Gaps` codes operation 5).
- Operation 5 of a type 1 frame whose fields are 2 ^ 31 or more apart, or of a lone field of count -2 ^ 31, overflows
  (h264_decoder.rs 1915, 1941, 1992): a panic with overflow checks, a wrapped count without, where `derive_poc` would have
  answered `PocError::Overflow`. `ResetsFit` says that nothing else does.
- A field with operation 5 is stored with `Min(0, -POC)`, not the 0 it is output with
  (`StoredPocIsOutputPoc` is stated for frames).
- With data partitioning: the error of a pending slice swallows the event that completed it
  (`OnlyFaultyLost` with both `Partitions` and `Faulty`), keeps `flush` from closing the
  picture, and a pending slice takes the next packet's pts (`PtsOfOwnPacket` with
  `Partitions`).
- A slice failing inside an I_NxN macroblock leaves it marked available, so the coverage
  check may pass a picture with an unpainted macroblock (`ClosedIsWhole` claims painting
  only for pictures none of whose slices failed).
- A plane picture that is dropped shifts all later ones of its plane: `PlanesMatched` fails with
  `Faulty = TRUE`, against the comment at h264_decoder.rs 180-183.
- Partitions B and C are matched to a pending partition A by `slice_id` alone (h264_decoder.rs 732); after a
  lost A they may attach to another picture's. Transport loss is outside `Assembly`'s partitioned stream.
- `slice_group_change_cycle`: encoder/slices.rs 101-104 computes its width with exact division,
  slice_header.rs 627-628 with integer division. Where the rate does not divide the number of map
  units and the two widths differ (24 units at rate 7: 3 bits written, 2 read; 6 at rate 4: 2 and 1)
  the decoder misreads the encoder's header; such a picture in `SomeGrouped` breaks `SlicesReadBack`.
- Box-out maps: the loop of mb_address.rs (244) counts every turn instead of the units it fills,
  so that group 0 gets fewer units than the comment at 184-186 gives it. Encoder and decoder share the
  function, so the round trip holds; `GroupsAsDefined` says nothing of this type of map.
- put_bit's comment (encoder/cabac_engine.rs 297-299) has the order of a bit and its outstanding
  opposites the wrong way round, the code is right. `encode_flush` writes two last bits without the stop bit and
  `finish` adds another; harmless.
- reset with an AVCC stream loses the parameter sets of its extradata (h264_decoder.rs 2786).
- Rate control: the fullness is clamped (rate_control.rs 175-177, session.rs 720-723), so that a request for filler
  moves the model away from the real buffer by some bits, which the comments exclude.
- `encode_multiref_sequence` panics when no short-term picture is left to predict from (one reference
  frame and a long-term IDR picture; two and a second long-term picture) or when a picture is to be unmarked
  before it was made long-term; `Multirefs` of `MCCodec` leaves these out.
- B slices always end with an `mb_skip_run`, even of 0 (encoder/mod.rs 11430); the decoder tolerates it
  (slice_data.rs 923) although the syntax quoted above that line expects another macroblock. B slices of 4:2:2 and 4:4:4
  write `mb_qp_delta` 0 whatever QP is wanted, so that the row budget has no effect on them.
- The encoder's snapshot of an anchor's motion keeps list 0 only; `b_l0_bi_only` keeps such pictures from being
  predicted from list 1 alone, and `Motion` models that guard.

## 8. Not modelled, and why

Sample values: prediction, transforms, filters and colour are numeric kernels without
state across calls, covered by the crate's own tests. Of the syntax, SPS, PPS, VUI and SEI are
straight-line; the models take the values a parser returns. Code tables and the initial
states of contexts are data. Motion search and mode decision choose among outcomes all of
which are modelled; how they choose is not. Rate control chooses a QP; only the row budget, which does
so inside a picture, is modelled, as a free choice. PCM macroblocks and sub-macroblock shapes smaller than 8x8,
which the encoder never writes, are left out of the CAVLC parser; the macroblock loops of CABAC
slices outside MBAFF frames, and boundary strengths of fields, are what the plan has left. Wording of errors, logging
and `decode_errors` counting are left out. Tests, benchmarks, examples and fuzz targets are not
part of the program.
