------------------------------- MODULE MbaffPairs -------------------------------
(* Macroblock pairs of an MBAFF frame: the frame/field decision of each pair     *)
(* from the encoder (encoder/mbaff.rs for CAVLC, encoder/mbaff_cabac.rs) to the  *)
(* decoder (slice_data.rs), and the neighbouring locations that follow from it   *)
(* (mb_address.rs).  mb_field_decoding_flag is sent with the first macroblock of *)
(* a pair that is not skipped; until it comes, and where it never does, it is    *)
(* inferred from the pairs before.                                               *)
(*                                                                               *)
(* Which flag the pair mode takes and which macroblocks are skipped is free.  Of *)
(* a macroblock's syntax elements a token keeps what depends on the pairs: its   *)
(* own flag and what its contexts read at each neighbouring location.            *)
EXTENDS Integers, Sequences

CONSTANTS
  MbaffPictures   \* records: cabac, slice, w (macroblocks), h (pairs)

VARIABLES
  frame,     \* the picture
  st,        \* encoder: field of each macroblock (PicState), as its samples and motion use it
  coder,       \* encoder: grid (nc of PicState, cab of CABAC), bits, skip (pending_skip)
  pair,      \* encoder: the next pair
  reader,       \* decoder: grid (cavlc_nc, cabac_nb), flags, addr, pending, prevSkipped
  agreed     \* every token was of the kind, and had the contexts, the decoder read it with

mbaffVars == <<frame, st, coder, pair, reader, agreed>>

Unset == <<>>         \* an optional flag: None, or <<flag>>
Pairs == 0 .. (frame.w * frame.h) - 1
PairMbs == 0 .. (2 * frame.w * frame.h) - 1

EmptyMb == [available |-> FALSE, is_skip |-> FALSE, field |-> FALSE]

-----------------------------------------------------------------------------------
(* Neighbouring locations.                                                         *)

\* mbaff_pair_neighbour_addrs: the top macroblock of pair A, B, C or D, as a set
\* with at most one address.
PairAt(w, addr, name) ==
  LET idx == addr \div 2
      col == idx % w
      up  == idx >= w
  IN CASE name = "A" -> IF col > 0 THEN {2 * (idx - 1)} ELSE {}
       [] name = "B" -> IF up THEN {2 * (idx - w)} ELSE {}
       [] name = "C" -> IF up /\ col + 1 < w THEN {2 * (idx - w + 1)} ELSE {}
       [] name = "D" -> IF up /\ col > 0 THEN {2 * (idx - w - 1)} ELSE {}

Loc(addr, y) == [addr |-> addr, y |-> y]

\* The pair of row yN = -1 for a frame macroblock on top and for a field
\* macroblock, in the column of pair name.
AbovePairBottom(fields, w, addr, name, y) == {Loc(n + 1, y) : n \in PairAt(w, addr, name)}
AbovePair(fields, w, addr, name, y) ==
  LET topField == addr % 2 = 0 /\ fields[addr]
  IN {CASE topField /\ fields[n]   -> Loc(n, y)
        [] topField /\ ~ fields[n] -> Loc(n + 1, 2 * y)
        [] OTHER                   -> Loc(n + 1, y) : n \in PairAt(w, addr, name)}

\* The left pair of a row inside the macroblock.
LeftPair(fields, addr, n, y, maxH) ==
  LET bottom == addr % 2
      asRows == 2 * y + bottom
  IN CASE fields[addr] = fields[n]       -> Loc(n + bottom, y)
       [] ~ fields[addr] /\ fields[n]    -> Loc(n + (y % 2), (y + bottom * maxH) \div 2)
       [] fields[addr] /\ ~ fields[n]    ->
            IF y < maxH \div 2 THEN Loc(n, asRows) ELSE Loc(n + 1, asRows - maxH)

\* The pair to the left and above of a frame macroblock at the bottom.
AboveLeftOfBottom(fields, n, y, maxH) ==
  IF fields[n] THEN Loc(n + 1, (y + maxH) \div 2) ELSE Loc(n, y)

\* mbaff_neigh_location (Table 6-4): macroblock and position of location (x, y) of
\* the macroblock addr, empty if not available; maxW by maxH is the size of its
\* blocks of samples.
NeighLocation(fields, w, addr, x, y, maxW, maxH) ==
  LET inner == x \in 0 .. maxW - 1
      frameBottom == ~ fields[addr] /\ addr % 2 = 1
      found ==
        CASE y \in 0 .. maxH - 1 /\ x < 0 ->
               {LeftPair(fields, addr, n, y, maxH) : n \in PairAt(w, addr, "A")}
          [] y \in 0 .. maxH - 1 /\ inner -> {Loc(addr, y)}
          [] y < 0 /\ frameBottom /\ x < 0 ->
               {AboveLeftOfBottom(fields, n, y, maxH) : n \in PairAt(w, addr, "A")}
          [] y < 0 /\ frameBottom /\ inner -> {Loc(addr - 1, y)}
          [] y < 0 /\ ~ frameBottom ->
               AbovePair(fields, w, addr, IF x < 0 THEN "D" ELSE IF inner THEN "B" ELSE "C", y)
          [] OTHER -> {}
  IN {[addr |-> l.addr, x |-> (x + maxW) % maxW, y |-> (l.y + maxH) % maxH] :
        l \in {k \in found : k.addr <= addr}}

\* neighbour_block_loc in a grid of flags.
LocIn(grid, addr, x, y, max) ==
  NeighLocation([n \in DOMAIN grid |-> grid[n].field], frame.w, addr, x, y, max, max)

\* mbaff_mb_to_sample_xy with its stride: the picture's sample at a location.
SampleAt(fields, w, addr, x, y, maxW, maxH) ==
  LET bottom == addr % 2
  IN <<maxW * ((addr \div 2) % w) + x,
       2 * maxH * ((addr \div 2) \div w)
       + (IF fields[addr] THEN bottom + 2 * y ELSE maxH * bottom + y)>>

-----------------------------------------------------------------------------------
(* Contexts and the inferred flag.                                                 *)

\* infer_pair_field_flag, infer_pair_field_flag_cavlc and inferred_pair_flag.
Inferred(grid, w, addr) ==
  LET Known(name) == {n \in PairAt(w, addr, name) : grid[n].available}
      from == IF Known("A") # {} THEN Known("A") ELSE Known("B")
  IN \E n \in from : grid[n].field

\* ctxIdxInc of mb_field_decoding_flag.
FieldCtx(grid, addr) ==
  [name \in {"A", "B"} |->
     \E n \in PairAt(frame.w, addr, name) : grid[n].available /\ grid[n].field]

\* ctxIdxInc of mb_skip_flag: neighbours that are there and not skipped.
SkipCtx(grid, addr) ==
  [at \in {<<-1, 0>>, <<0, -1>>} |->
     \E l \in LocIn(grid, addr, at[1], at[2], 16) :
       grid[l.addr].available /\ ~ grid[l.addr].is_skip]

\* What the elements of a macroblock read around it: the blocks beside its rows
\* of blocks, of luma and of chroma, with their macroblocks.
BlockProbes ==
  {<<-1, y, 16>> : y \in {0, 4, 8, 12}} \cup {<<x, -1, 16>> : x \in {0, 4, 8, 12}}
  \cup {<<-1, y, 8>> : y \in {0, 4}} \cup {<<x, -1, 8>> : x \in {0, 4}}

Seen(grid, addr) ==
  [p \in BlockProbes |->
     {[addr |-> l.addr, x |-> l.x \div 4, y |-> l.y \div 4, of |-> grid[l.addr]] :
        l \in {k \in LocIn(grid, addr, p[1], p[2], p[3]) : grid[k.addr].available}}]

Sent(e, v, ctx) == [e |-> e, v |-> v, ctx |-> ctx]
NoCtx == <<>>

-----------------------------------------------------------------------------------
(* The encoder.  s is its state while it codes a pair: field and grid, bits, skip, *)
(* flag (mbaff_flag_pending or pending_pair_flag) and prevSkipped.                 *)

Put(grid, addr, isSkip, field) ==
  [grid EXCEPT ![addr] = [available |-> TRUE, is_skip |-> isSkip, field |-> field]]

\* code_mb of mbaff.rs with encode_p_mb: the pending flag goes after mb_skip_run.
CodeMbCavlc(s, addr, field, skip) ==
  LET grid == Put(s.grid, addr, skip, field)
  IN IF skip THEN [s EXCEPT !.grid = grid, !.skip = @ + 1]
     ELSE [s EXCEPT !.grid = grid, !.skip = 0, !.flag = Unset,
             !.bits = @ \o (IF frame.slice = "P" THEN <<Sent("run", s.skip, NoCtx)>> ELSE <<>>)
                        \o (IF s.flag # Unset THEN <<Sent("field", s.flag[1], NoCtx)>> ELSE <<>>)
                        \o <<Sent("mb", field, Seen(grid, addr))>>]

CodeMbCabacBottom(s, addr, field, skip) ==
  LET eff   == IF s.flag # Unset THEN s.flag[1] ELSE Inferred(s.grid, frame.w, addr)
      asked == [s.grid EXCEPT ![addr].field = eff]
      first == addr % 2 = 0 \/ s.prevSkipped
      coded == IF ~ first THEN asked
               ELSE [asked EXCEPT ![addr].field = field]
      skips == IF frame.slice = "P" THEN <<Sent("skip", skip, SkipCtx(asked, addr))>> ELSE <<>>
  IN IF skip
     THEN [s EXCEPT !.grid = Put(asked, addr, TRUE, eff), !.bits = @ \o skips, !.prevSkipped = TRUE]
     ELSE [s EXCEPT !.grid = Put(coded, addr, FALSE, field),
             !.flag = IF first THEN <<field>> ELSE @,
             !.prevSkipped = FALSE,
             !.bits = @ \o skips
                        \o (IF first THEN <<Sent("field", field, FieldCtx(asked, addr))>> ELSE <<>>)
                        \o <<Sent("mb", field, Seen(coded, addr))>>]

\* code_mb of mbaff_cabac.rs: until the flag is coded the grid holds the inferred
\* one; a flag coded with the bottom macroblock is the top one's as well.
CodeMbCabac(s, addr, field, skip) ==
  LET eff   == IF s.flag # Unset THEN s.flag[1] ELSE Inferred(s.grid, frame.w, addr)
      asked == [s.grid EXCEPT ![addr].field = eff]
      first == addr % 2 = 0 \/ s.prevSkipped
      coded == IF ~ first THEN asked
               ELSE [asked EXCEPT ![addr].field = field,
                                  ![IF addr % 2 = 1 THEN addr - 1 ELSE addr].field = field]
      skips == IF frame.slice = "P" THEN <<Sent("skip", skip, SkipCtx(asked, addr))>> ELSE <<>>
  IN IF skip
     THEN [s EXCEPT !.grid = Put(asked, addr, TRUE, eff), !.bits = @ \o skips, !.prevSkipped = TRUE]
     ELSE [s EXCEPT !.grid = Put(coded, addr, FALSE, field),
             !.flag = IF first THEN <<field>> ELSE @,
             !.prevSkipped = FALSE,
             !.bits = @ \o skips
                        \o (IF first THEN <<Sent("field", field, FieldCtx(asked, addr))>> ELSE <<>>)
                        \o <<Sent("mb", field, Seen(coded, addr))>>]

\* One try at the pair p: both macroblocks with the flag field.
CodePair(s, p, field, skips) ==
  LET start == [s EXCEPT !.flag = IF frame.cabac THEN Unset ELSE <<field>>]
      Code(t, addr, skip) == IF frame.cabac THEN CodeMbCabac(t, addr, field, skip)
                             ELSE CodeMbCavlc(t, addr, field, skip)
  IN Code(Code(start, 2 * p, skips[1]), 2 * p + 1, skips[2])

\* The flag the decoder infers for a pair that is skipped altogether.
PairInferred(s, p) ==
  IF frame.cabac THEN s.grid[2 * p].field ELSE Inferred(s.grid, frame.w, 2 * p)

Skips == IF frame.slice = "I" THEN {<<FALSE, FALSE>>} ELSE BOOLEAN \X BOOLEAN

\* end_of_slice_flag after each pair; a CAVLC slice ends with the run it has left.
Finish(s, p) ==
  LET last == p + 1 = frame.w * frame.h
  IN IF frame.cabac THEN [s EXCEPT !.bits = Append(@, Sent("end", last, NoCtx))]
     ELSE IF last /\ s.skip > 0
     THEN [s EXCEPT !.bits = Append(@, Sent("run", s.skip, NoCtx)), !.skip = 0]
     ELSE s

Commit(s, field) ==
  /\ coder' = [Finish(s, pair) EXCEPT !.flag = Unset]
  /\ st' = [st EXCEPT ![2 * pair] = field, ![2 * pair + 1] = field]
  /\ pair' = pair + 1
  /\ UNCHANGED <<frame, reader, agreed>>

\* The pair loop of encode_mbaff_sequence and encode_mbaff_cabac_sequence: a pair
\* skipped altogether under another flag than the inferred one is coded again,
\* from the state before it, under the inferred flag.
EncodePair ==
  /\ coder.bits = <<>> /\ pair \in Pairs
  /\ \E field \in BOOLEAN, skips \in Skips :
       LET try   == CodePair(coder, pair, field, skips)
           again == PairInferred(try, pair)
       IN IF skips = <<TRUE, TRUE>> /\ again # field
          THEN \E skips2 \in Skips : Commit(CodePair(coder, pair, again, skips2), again)
          ELSE Commit(try, field)

-----------------------------------------------------------------------------------
(* The decoder (parse_slice_data).                                                 *)

\* A macroblock is done: the pair's flag is forgotten after its bottom one.
Advance(d) == [d EXCEPT !.addr = @ + 1, !.pending = IF d.addr % 2 = 1 THEN Unset ELSE @]

SkipMbFrame(d) ==
  LET flag == IF d.pending # Unset THEN d.pending[1] ELSE FALSE
  IN Advance([d EXCEPT !.grid = Put(@, d.addr, TRUE, flag), !.flags = Append(@, flag)])

\* A skipped macroblock under the pair's flag, or the inferred one.
SkipMb(d) ==
  LET flag == IF d.pending # Unset THEN d.pending[1] ELSE Inferred(d.grid, frame.w, d.addr)
  IN Advance([d EXCEPT !.grid = Put(@, d.addr, TRUE, flag), !.flags = Append(@, flag)])

RECURSIVE SkipMbs(_, _)
SkipMbs(d, n) == IF n = 0 THEN d ELSE SkipMbs(SkipMb(d), n - 1)

\* Whether the flag is read before the macroblock, and the flag as read: it is
\* the skipped top macroblock's as well.
ReadsFlag(d) == d.addr % 2 = 0 \/ d.prevSkipped
FlagReadHere(d, flag) == [d EXCEPT !.pending = <<flag>>, !.grid[d.addr].field = flag]
FlagRead(d, flag) ==
  LET here == [d EXCEPT !.pending = <<flag>>, !.grid[d.addr].field = flag]
  IN IF d.addr % 2 = 0 THEN here
     ELSE [here EXCEPT !.flags[Len(d.flags)] = flag, !.grid[d.addr - 1].field = flag]

\* A coded macroblock: its flag, and whether its token t was read as written.
PendingFlag(d) == IF d.pending = Unset THEN FALSE ELSE d.pending[1]
CodedMb(d) ==
  Advance([d EXCEPT !.grid = Put(@, d.addr, FALSE, PendingFlag(d)),
                    !.flags = Append(@, PendingFlag(d)), !.prevSkipped = FALSE])
ReadAsWritten(d, t) ==
  /\ t.e = "mb" /\ t.v = PendingFlag(d)
  /\ t.ctx = Seen(Put(d.grid, d.addr, FALSE, PendingFlag(d)), d.addr)

\* The next macroblock of a CAVLC slice with the run of skipped ones before it.
DecodeCavlc ==
  /\ coder.bits # <<>> /\ ~ frame.cabac
  /\ LET runs  == frame.slice = "P"
         run   == Head(coder.bits)
         d1    == IF runs THEN [SkipMbs(reader, run.v) EXCEPT !.prevSkipped = run.v > 0] ELSE reader
         rest  == IF runs THEN Tail(coder.bits) ELSE coder.bits
         flag  == ReadsFlag(d1)
         d2    == IF flag THEN FlagRead(d1, rest[1].v)
                  ELSE [d1 EXCEPT !.grid[d1.addr].field = PendingFlag(d1)]
         mb    == rest[IF flag THEN 2 ELSE 1]
     IN /\ runs => run.e = "run"
        /\ IF rest = <<>>
           THEN reader' = d1 /\ agreed' = agreed
           ELSE /\ agreed' = (/\ agreed /\ flag = (rest[1].e = "field")
                              /\ flag => Len(rest) > 1
                              /\ ReadAsWritten(d2, mb))
                /\ reader' = CodedMb(d2)
        /\ coder' = [coder EXCEPT !.bits = SubSeq(rest, IF flag THEN 3 ELSE 2, Len(rest))]
  /\ UNCHANGED <<frame, st, pair>>

\* The next macroblock of a CABAC slice: before anything is read the grid takes
\* the pair's flag, or the inferred one.
DecodeCabac ==
  /\ coder.bits # <<>> /\ frame.cabac
  /\ LET t     == coder.bits
         eff   == IF reader.pending # Unset THEN reader.pending[1]
                  ELSE Inferred(reader.grid, frame.w, reader.addr)
         d1    == [reader EXCEPT !.grid[reader.addr].field = eff]
         asks  == frame.slice = "P"
         skip  == asks /\ t[1].v
         i     == IF asks THEN 2 ELSE 1
         flag  == ReadsFlag(d1)
         d2    == IF flag THEN FlagRead(d1, t[i].v) ELSE d1
         j     == IF flag THEN i + 1 ELSE i
         next  == IF skip THEN [SkipMb(d1) EXCEPT !.prevSkipped = TRUE] ELSE CodedMb(d2)
         k     == IF skip THEN i ELSE j + 1
         ends  == reader.addr % 2 = 1
     IN /\ reader' = next
        /\ agreed' = (/\ agreed
                      /\ asks => t[1].e = "skip" /\ t[1].ctx = SkipCtx(d1.grid, reader.addr)
                      /\ ~ skip => /\ flag => /\ t[i].e = "field"
                                            /\ t[i].ctx = FieldCtx(d1.grid, reader.addr)
                                   /\ ReadAsWritten(d2, t[j])
                      /\ ends => t[k].e = "end" /\ t[k].v = (next.addr \notin PairMbs))
        /\ coder' = [coder EXCEPT !.bits = SubSeq(t, IF ends THEN k + 1 ELSE k, Len(t))]
  /\ UNCHANGED <<frame, st, pair>>

-----------------------------------------------------------------------------------
MbaffInit ==
  /\ frame \in MbaffPictures
  /\ st = [a \in PairMbs |-> FALSE]
  /\ coder = [grid |-> [a \in PairMbs |-> EmptyMb], bits |-> <<>>, skip |-> 0, flag |-> Unset,
            prevSkipped |-> FALSE]
  /\ pair = 0
  /\ reader = [grid |-> [a \in PairMbs |-> EmptyMb], flags |-> <<>>, addr |-> 0, pending |-> Unset,
            prevSkipped |-> FALSE]
  /\ agreed = TRUE

MbaffNext == EncodePair \/ DecodeCavlc \/ DecodeCabac
MbaffSpec == MbaffInit /\ [][MbaffNext]_mbaffVars

-----------------------------------------------------------------------------------
\* The decoder reads every macroblock of an MBAFF frame with the contexts it was
\* written with, whether its pair's flag was sent, sent late or never, and ends
\* up with the frame/field decisions the encoder predicted and reconstructed by.
PairsReadBack ==
  /\ agreed
  /\ \A i \in DOMAIN reader.flags :
       (i <= 2 * (reader.addr \div 2) => reader.flags[i] = st[i - 1])
  /\ pair = frame.w * frame.h /\ coder.bits = <<>> => reader.addr = 2 * frame.w * frame.h

\* Table 6-4 is geometry: the neighbouring location it yields is the sample right
\* beside the macroblock's own, where rows of a field macroblock are two apart;
\* and it is available exactly where that sample belongs to an earlier
\* macroblock, in any mixture of frame and field pairs.
NeighboursAreSpatial ==
  pair > 0 =>
    \A addr \in {2 * pair - 2, 2 * pair - 1}, size \in {<<16, 16>>, <<8, 8>>, <<8, 16>>} :
      \A x \in {-1, 0, size[1] - 1, size[1]}, y \in -1 .. size[2] - 1 :
        LET at     == SampleAt(st, frame.w, addr, x, y, size[1], size[2])
            inside == at[1] \in 0 .. (frame.w * size[1]) - 1 /\ at[2] >= 0
            owner  == (at[2] \div (2 * size[2])) * frame.w + at[1] \div size[1]
            found  == NeighLocation(st, frame.w, addr, x, y, size[1], size[2])
        IN x < 0 \/ y < 0 =>
             /\ found # {} <=> inside /\ owner <= addr \div 2
             /\ \A l \in found : SampleAt(st, frame.w, l.addr, l.x, l.y, size[1], size[2]) = at
=================================================================================
