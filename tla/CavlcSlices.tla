------------------------------ MODULE CavlcSlices ------------------------------
(* One slice from the encoder's macroblock loop (encode_idr, encode_p, encode_b *)
(* with entropy coding mode 0, encoder/mod.rs) through the decoder's            *)
(* (parse_slice_data, slice_data.rs; the QP chain of reconstruct.rs).  Which    *)
(* macroblock type, coded_block_pattern and transform the mode decision takes   *)
(* is free; the coefficient counts, modes and vectors are functions of the      *)
(* block they belong to, so that a value read in another's place shows.         *)
(*                                                                              *)
(* The decoder runs as soon as the slice holds what it reads next: what it does *)
(* depends on nothing the encoder does later.                                   *)
EXTENDS MbWriters, FiniteSets

CONSTANTS
  Pictures   \* records: slice, cat, w, h, t8, num, direct8, intraInInter, budget, qp, few

Parser == INSTANCE MbParser

VARIABLES
  pic,       \* the picture's settings and the slice's header
  enc,       \* encoder: grid (nc_grid), qp (qp_tracker.cur), skip (pending_skip), bits (sw)
  want,      \* encoder: want_qp
  row,       \* encoder: the macroblock row
  addr,      \* encoder: the next macroblock
  meant,     \* the macroblocks encoded and not decoded yet, in order
  dec,       \* decoder: grid (cavlc_nc), qp (prev_qp_y), addr, run (pending_skip), ended
  ok         \* every macroblock decoded was the one meant

vars == <<pic, enc, want, row, addr, meant, dec, ok>>

Mbs == 0 .. (pic.w * pic.h) - 1
NewGrid == [a \in Mbs |-> EmptySlot(pic.cat)]

(* ---------------------------------------------------------------------------- *)
(* A plan is what the mode decision settles: writer, cbp, t8, whether the motion *)
(* is that of a skipped macroblock (still), reference index, lists.              *)

Plan(writer, cbp, t8, still, ref, preds) ==
  [writer |-> writer, cbp |-> [y |-> cbp[1], c |-> cbp[2]], t8 |-> t8, still |-> still,
   ref |-> ref, preds |-> preds]

NothingCoded == <<0, 0>>
EverythingCoded == IF pic.cat \in {0, 3} THEN <<15, 0>> ELSE <<15, 2>>

Cbps ==
  IF pic.cat \in {0, 3} THEN {<<0, 0>>, <<5, 0>>, <<15, 0>>}
  ELSE IF pic.few THEN {<<0, 0>>, <<5, 1>>, <<15, 2>>}
  ELSE {<<0, 0>>, <<0, 2>>, <<5, 1>>, <<15, 0>>, <<15, 2>>}
Cbps16x16 ==
  IF pic.cat \in {0, 3} THEN {<<0, 0>>, <<15, 0>>} ELSE {<<0, 0>>, <<0, 1>>, <<15, 2>>}

\* A 8x8 transform is an option of pictures with transform_8x8, where luma is coded.
T8s(cbp) == IF pic.t8 /\ cbp[1] > 0 THEN BOOLEAN ELSE {FALSE}

I16x16Plans == {Plan("I16x16", c, FALSE, FALSE, 0, <<>>) : c \in Cbps16x16}
I4x4Plans == {Plan("I4x4", c, FALSE, FALSE, 0, <<>>) : c \in Cbps}
I8x8Plans == {Plan("I8x8", c, TRUE, FALSE, 0, <<>>) : c \in Cbps}

SkipPlan(writer, preds) == Plan(writer, NothingCoded, FALSE, TRUE, 0, preds)
InterPlans(writer, cbps, refs, preds) ==
  UNION {{Plan(writer, c, t, FALSE, r, p) : t \in T8s(c), r \in refs, p \in preds} : c \in cbps}

PPlans ==
  {SkipPlan("P16x16", <<{0}>>)}
  \cup InterPlans("P16x16", Cbps, 0 .. pic.num[0], {<<{0}>>})
  \cup IF pic.cat = 1
       THEN {[p EXCEPT !.t8 = FALSE] : p \in InterPlans("P8x8", Cbps, {pic.num[0]},
                                                        {<<{0}, {0}, {0}, {0}>>})}
       ELSE {}

Lists == {{0}, {1}, {0, 1}}
Mixed == {<<{}, {0}, {1}, {0, 1}>>, <<{1}, {}, {0}, {}>>, <<{0, 1}, {1}, {0}, {0}>>}

BPlans ==
  {SkipPlan("BDirect", <<{}>>)}
  \cup InterPlans("BDirect", Cbps, {0}, {<<{}>>})
  \cup IF pic.few THEN {}
       ELSE InterPlans("B16x16", {NothingCoded, EverythingCoded}, {0}, {<<l>> : l \in Lists})
            \cup InterPlans("B16x8", {EverythingCoded}, {0}, {<<k, l>> : k \in Lists, l \in Lists})
            \cup InterPlans("B8x16", {EverythingCoded}, {0}, {<<k, l>> : k \in Lists, l \in Lists})
  \cup IF pic.cat # 1 THEN {}
       ELSE InterPlans("B8x8Direct", Cbps, {0}, {<<{}, {}, {}, {}>>})
            \cup InterPlans("B8x8Mixed", {NothingCoded, EverythingCoded}, {0}, Mixed)

(* ---------------------------------------------------------------------------- *)
(* The macroblock of a plan.                                                     *)

AllBlocks == (({"Y", "Cb4", "Cr4", "Cb", "Cr"} \X (0..15))
              \cup ({"Ydc", "Cb4dc", "Cr4dc", "Cbdc", "Crdc"} \X {0}))

\* The blocks that are sent.
CodedBlocks(plan, cat) ==
  {b \in AllBlocks :
     CASE b[1] \in LumaPlanes -> b[1] \in PlanesOf(cat) /\ (plan.cbp.y \div 2^(b[2] \div 4)) % 2 = 1
       [] b[1] = "Ydc" -> plan.writer = "I16x16"
       [] b[1] \in {"Cb4dc", "Cr4dc"} -> plan.writer = "I16x16" /\ cat = 3
       [] b[1] \in {"Cbdc", "Crdc"} -> cat \in {1, 2} /\ plan.cbp.c > 0
       [] OTHER -> cat \in {1, 2} /\ plan.cbp.c = 2 /\ b[2] < 4 * cat}

CountOf(a, b) ==
  (a + b[2] + (CASE b[1] \in {"Y", "Ydc"} -> 0 [] b[1] \in {"Cb", "Cb4"} -> 1 [] OTHER -> 2)) % 5

\* The values of the syntax elements; each partition and list has its own.
Filled(plan, delta) ==
  [writer |-> plan.writer, cbp |-> plan.cbp, t8 |-> plan.t8, ref |-> plan.ref,
   preds |-> plan.preds, delta |-> delta, chroma |-> 2,
   modes |-> CASE plan.writer = "I16x16" -> <<3>>
               [] plan.writer = "I4x4" -> [i \in 1..16 |-> (i % 9) - 1]
               [] plan.writer = "I8x8" -> [i \in 1..4 |-> i - 2]
               [] OTHER -> <<>>,
   mvd |-> [l \in {0, 1} |-> [i \in DOMAIN plan.preds |-> <<20 * l + 2 * i, 20 * l + 2 * i + 1>>]],
   count |-> [b \in AllBlocks |-> CountOf(addr, b)],
   nC |-> [b \in AllBlocks |-> 0]]

\* MUTANT: blocks that are not sent keep their counts.
CommittedUnsent(m) ==
  [EmptySlot(pic.cat) EXCEPT
     !.available = TRUE,
     !.totals = [p \in DOMAIN @ |-> [b \in DOMAIN @[p] |-> m.count[<<p, b>>]]]]

\* The slot of a coded macroblock: the totals of the blocks it sends.
Committed(m) ==
  [EmptySlot(pic.cat) EXCEPT
     !.available = TRUE,
     !.totals = [p \in DOMAIN @ |-> [b \in DOMAIN @[p] |->
                   IF <<p, b>> \in CodedBlocks(m, pic.cat) THEN m.count[<<p, b>>] ELSE 0]]]

\* That of a skipped one, in the encoder's grid and in the decoder's.
SkippedSlot == [EmptySlot(pic.cat) EXCEPT !.available = TRUE, !.is_skip = TRUE]

\* The contexts, derived from the encoder's grid block by block.
WithContexts(m, grid) ==
  [m EXCEPT !.nC = [b \in AllBlocks |->
     IF b \in CodedBlocks(m, pic.cat) THEN ContextOf(grid, pic.w, addr, pic.cat, b) ELSE 0]]

Tokens(m) ==
  CASE m.writer = "I16x16" ->
         WriteIntra16x16(m, pic, CASE pic.slice = "I" -> 0 [] pic.slice = "P" -> 5 [] OTHER -> 23)
    [] m.writer = "I4x4" /\ pic.cat = 0 -> WriteI4x4Mono(m, pic)
    [] m.writer = "I4x4" /\ pic.cat = 3 -> WriteI4x4In444(m, pic)
    [] m.writer = "I4x4" /\ pic.cat \in {1, 2} -> WriteINxN(m, pic)
    [] m.writer = "I8x8" /\ pic.cat = 3 -> WriteI8x8In444(m)
    [] m.writer = "I8x8" /\ pic.cat # 3 -> WriteI8x8(m, pic)
    [] m.writer = "P16x16" -> WriteP16x16(m, pic)
    [] m.writer = "P8x8" -> WriteP8x8(m, pic)
    [] m.writer = "BDirect" -> WriteBDirect(m, pic)
    [] m.writer = "B16x16" -> WriteB16x16(m, pic)
    [] m.writer = "B16x8" -> WriteB16x8(m, pic)
    [] m.writer = "B8x16" -> WriteB8x16(m, pic)
    [] m.writer = "B8x8Direct" -> WriteB8x8Direct(m, pic)
    [] m.writer = "B8x8Mixed" -> WriteB8x8Mixed(m, pic)

(* ---------------------------------------------------------------------------- *)
(* Encoding one macroblock: s is the encoder's state.                            *)

\* A macroblock without coefficients, and of the motion a skipped one has.
IsSkip(plan) ==
  /\ plan.cbp = [y |-> 0, c |-> 0]
  /\ plan.writer = "BDirect" \/ (plan.writer = "P16x16" /\ plan.still /\ plan.ref = 0)

\* MUTANT: a macroblock without coefficients moves the QP as well.
QpAfterAny(s, plan) == want

\* The QP tracker moves with a macroblock that writes mb_qp_delta.
QpAfter(s, plan) ==
  IF plan.writer = "I16x16" \/ plan.cbp # [y |-> 0, c |-> 0] THEN want ELSE s.qp

\* Grid and slice data of a coded macroblock; mb_skip_run goes first.
Write(s, m) ==
  LET grid == [s.grid EXCEPT ![addr] = Committed(m)]
  IN [s EXCEPT !.grid = grid, !.skip = 0,
               !.bits = @ \o When(pic.slice # "I", <<Token("ue", s.skip)>>)
                          \o Tokens(WithContexts(m, grid))]

\* encode_mb and its variants, encode_p_mb, encode_p_mb_4mv, encode_b_mb,
\* encode_b_mb_multifmt, encode_p_mb_intra16x16, encode_b_mb_intra16x16.
Encode(s, plan) ==
  [IF IsSkip(plan) THEN [s EXCEPT !.skip = @ + 1, !.grid[addr] = SkippedSlot]
   ELSE Write(s, Filled(plan, want - s.qp)) EXCEPT !.qp = QpAfter(s, plan)]

\* MbStateSnapshot, InterMbStateSnapshot and the copy of the QP tracker.
Capture(s) == [slot |-> s.grid[addr], skip |-> s.skip, bits |-> s.bits, qp |-> s.qp]
\* MUTANT: the pending skips are not rolled back.
RestoreWithoutSkip(s, snap) ==
  [s EXCEPT !.grid[addr] = snap.slot, !.bits = snap.bits, !.qp = snap.qp]

Restore(s, snap) ==
  [s EXCEPT !.grid[addr] = snap.slot, !.skip = snap.skip, !.bits = snap.bits, !.qp = snap.qp]

\* What the decoder is to find.
Meant(plan, s) ==
  LET m == Filled(plan, 0)
      intra == plan.writer \in {"I16x16", "I4x4", "I8x8"}
      used(l) == [i \in DOMAIN plan.preds |->
                    IF l \in plan.preds[i] THEN <<m.mvd[l][i]>> ELSE <<>>]
  IN [form |-> IF IsSkip(plan) THEN "skip"
               ELSE CASE plan.writer \in {"I4x4", "I8x8"} -> "INxN"
                      [] plan.writer \in {"P16x16", "B16x16"} -> "16x16"
                      [] plan.writer = "BDirect" -> "direct"
                      [] plan.writer = "B16x8" -> "16x8"
                      [] plan.writer = "B8x16" -> "8x16"
                      [] plan.writer \in {"B8x8Direct", "B8x8Mixed"} -> "B8x8"
                      [] OTHER -> plan.writer,
      modes |-> m.modes,
      chroma |-> IF intra /\ pic.cat \in {1, 2} THEN m.chroma ELSE 0,
      lists |-> plan.preds,
      refs |-> [l \in {0, 1} |-> [i \in DOMAIN plan.preds |->
                  IF l = 0 /\ l \in plan.preds[i] THEN plan.ref ELSE 0]],
      mvds |-> [l \in {0, 1} |-> used(l)],
      cbp |-> plan.cbp,
      t8 |-> plan.t8,
      residual |-> {<<b, b, CountOf(addr, b)>> : b \in CodedBlocks(plan, pic.cat)},
      qp |-> s.qp]

(* ---------------------------------------------------------------------------- *)
(* The slice.                                                                    *)

Init ==
  /\ pic \in Pictures
  /\ enc = [grid |-> NewGrid, qp |-> pic.qp, skip |-> 0, bits |-> <<>>]
  /\ want = pic.qp
  /\ row = 0
  /\ addr = 0
  /\ meant = <<>>
  /\ dec = [grid |-> NewGrid, qp |-> pic.qp, addr |-> 0, run |-> 0, ended |-> FALSE]
  /\ ok = TRUE

\* The row loop: a row that begins moves want_qp by the bits spent so far; only
\* the 4:2:0 pictures of a rate-controlled session have a budget.
NextRow ==
  /\ enc.bits = <<>> /\ addr \in Mbs /\ row < addr \div pic.w
  /\ row' = row + 1
  /\ want' \in IF pic.budget
               THEN {q \in want - 1 .. want + 2 :
                       /\ q \in pic.qp - 2 .. pic.qp + 6 /\ q \in 0 .. 51
                       /\ q < pic.qp => 5 * row' >= 3 * pic.h}
               ELSE {want}
  /\ UNCHANGED <<pic, enc, addr, meant, dec, ok>>

\* What is tried in turn for a macroblock, and which of it is taken.
Tries ==
  LET Other(w) == Plan(w, EverythingCoded, w = "I8x8", FALSE, 0, <<>>)
      Turn(w, win) == IF win.writer = w THEN win ELSE Other(w)
      inter == IF pic.slice = "P" THEN PPlans ELSE BPlans
  IN CASE pic.slice = "I" ->
            LET writers == <<"I16x16", "I4x4">> \o When(pic.t8 /\ pic.cat # 0, <<"I8x8">>)
            IN {[plans |-> [i \in DOMAIN writers |-> Turn(writers[i], win)], taken |-> win] :
                  win \in {p \in I16x16Plans \cup I4x4Plans \cup I8x8Plans :
                            \E i \in DOMAIN writers : writers[i] = p.writer}}
       [] pic.slice # "I" /\ ~ pic.intraInInter ->
            {[plans |-> <<p>>, taken |-> p] : p \in inter}
       [] OTHER ->
            {[plans |-> <<p, Other("I16x16")>>, taken |-> p] : p \in inter}
            \cup {[plans |-> <<p, i>>, taken |-> i] :
                    p \in {q \in inter : IsSkip(q) \/ q.cbp = [y |-> 15, c |-> 2]}, i \in I16x16Plans}

\* Every try starts from the state captured before the first; at the end the
\* state after the one taken is put back.
Trial(tries) ==
  LET pre == Capture(enc)
  IN FoldLeft(LAMBDA t, plan :
                LET s == Encode(Restore(t.s, pre), plan)
                IN [s |-> s, best |-> IF plan = tries.taken THEN Capture(s) ELSE t.best],
              [s |-> enc, best |-> pre], tries.plans)

\* encode_mb_inner (16x16, 4x4 and 8x8), encode_p_mb, encode_b_mb and their
\* _with_intra_fallback.
EncodeMb ==
  /\ enc.bits = <<>> /\ addr \in Mbs /\ row = addr \div pic.w
  /\ \E tries \in Tries : \E end \in {Trial(tries)} : \E s \in {Restore(end.s, end.best)} :
       /\ enc' = s
       /\ meant' = Append(meant, Meant(tries.taken, s))
  /\ addr' = addr + 1
  /\ UNCHANGED <<pic, want, row, dec, ok>>

\* The trailing skip run: a P slice writes it when there is one, a B slice always.
EndSlice ==
  /\ enc.bits = <<>> /\ addr = pic.w * pic.h /\ ~ dec.ended
  /\ enc' = [enc EXCEPT !.skip = 0,
                        !.bits = When(pic.slice = "B" \/ enc.skip > 0, <<Token("ue", enc.skip)>>)]
  /\ dec' = [dec EXCEPT !.ended = TRUE]
  /\ UNCHANGED <<pic, want, row, addr, meant, ok>>

(* ---------------------------------------------------------------------------- *)
(* parse_slice_data, CAVLC, and the QP of each macroblock (next_qp_y).           *)

NextQp(qp, delta) == (qp + delta + 52) % 52

Skipped(qp) ==
  [form |-> "skip", cbp |-> [y |-> 0, c |-> 0], lists |-> <<IF pic.slice = "P" THEN {0} ELSE {}>>,
   qp |-> qp]
SameSkip(m, qp) ==
  m.form = "skip" /\ [form |-> m.form, cbp |-> m.cbp, lists |-> m.lists, qp |-> m.qp] = Skipped(qp)

\* mb_skip_run and the macroblock behind it, if the slice goes on.
DecodeRun ==
  /\ enc.bits # <<>> /\ pic.slice # "I" /\ dec.run = 0
  /\ LET run == Head(enc.bits)
         n   == run.v
     IN /\ ok' = /\ ok /\ run.e = "ue" /\ n <= Len(meant)
                 /\ \A i \in 1 .. n : i <= Len(meant) => SameSkip(meant[i], dec.qp)
        /\ dec' = [dec EXCEPT
                     !.addr = @ + n, !.run = 1,
                     !.grid = [a \in Mbs |-> IF a \in dec.addr .. dec.addr + n - 1
                                             THEN SkippedSlot ELSE dec.grid[a]]]
        /\ meant' = SubSeq(meant, n + 1, Len(meant))
        /\ enc' = [enc EXCEPT !.bits = Tail(@)]
  /\ UNCHANGED <<pic, want, row, addr>>

DecodeMb ==
  /\ enc.bits # <<>>
  /\ pic.slice = "I" \/ dec.run = 1
  /\ \E got \in {Parser!ParseMb(enc.bits, pic, dec.grid, pic.w, dec.addr)} :
     \E qp \in {NextQp(dec.qp, got.delta)} :
       /\ ok' = /\ ok /\ got.ok /\ meant # <<>>
                /\ [f \in DOMAIN got.mb \cup {"qp"} |-> IF f = "qp" THEN qp ELSE got.mb[f]] = Head(meant)
       /\ dec' = [dec EXCEPT !.grid = got.grid, !.addr = @ + 1, !.run = 0, !.qp = qp]
       /\ meant' = IF meant = <<>> THEN <<>> ELSE Tail(meant)
       /\ enc' = [enc EXCEPT !.bits = SubSeq(@, got.length + 1, Len(@))]
  /\ UNCHANGED <<pic, want, row, addr>>

Next == NextRow \/ EncodeMb \/ EndSlice \/ DecodeRun \/ DecodeMb

Spec == Init /\ [][Next]_vars

-----------------------------------------------------------------------------
\* Whatever the mode decision takes, macroblock after macroblock, the decoder
\* reads from a CAVLC slice the macroblocks the encoder meant: their types,
\* modes, vectors and coded blocks, every coefficient block with the context and
\* the size it was written with and in its own place, and the QP the encoder
\* quantised and deblocks with; and it has them all when the slice has ended.
SliceReadBack ==
  /\ ok
  /\ dec.ended /\ enc.bits = <<>> => meant = <<>> /\ dec.addr = pic.w * pic.h
=============================================================================
