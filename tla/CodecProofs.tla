------------------------------- MODULE CodecProofs -------------------------------
(***************************************************************************)
(* Proofs about the encoder's streams decoded (Codec), for every set of    *)
(* drivers' configurations and every length of the streams: no picture is  *)
(* late (NoPictureLateCorrect), coded pictures are told apart              *)
(* (PicturesKeptApartCorrect), order counts are recovered                  *)
(* (OrderRecoveredCorrect), and the buffers mirror each other              *)
(* (MirrorAgreesCorrect).                                                  *)
(*                                                                         *)
(* What each driver codes in a turn is derived first: Coding says that the *)
(* group is made of coded pictures, Separate that each of them differs in  *)
(* its slice headers from the one before, across groups too, and Ordered   *)
(* that each count is less than half the range of pic_order_cnt_lsb from   *)
(* that of the reference picture before it.  The decoder's side is three   *)
(* invariants on top of each other: CodesInv of what waits to be sent,     *)
(* KeptApart of the slices assembled, OrderKept of poc_state.              *)
(*                                                                         *)
(* The last part shows that the mirror of the reference buffer that        *)
(* encode_multiref_sequence keeps is the decoder's buffer                  *)
(* (MirrorAgreesCorrect): MirrorSent follows the driver, MirrorKept the    *)
(* decoder, operation by operation.                                        *)
(***************************************************************************)
EXTENDS Codec, FiniteSetTheorems, SequenceTheorems, NaturalsInduction, WellFoundedInduction, TLAPS
-----------------------------------------------------------------------------
(* Quotients and remainders. *)

\* Division by K with its remainder.
LEMMA ModFacts ==
  ASSUME NEW a \in Int, NEW K \in Nat \ {0}
  PROVE  a % K \in 0 .. K - 1 /\ (a \div K) \in Int /\ a = (K * (a \div K)) + (a % K)
OBVIOUS

\* A multiple of K is 0, K, -K or beyond.
LEMMA Times ==
  ASSUME NEW K \in Nat \ {0}, NEW d \in Int
  PROVE  /\ K * d \in Int
         /\ d >= 2 => K * d >= 2 * K
         /\ d <= -2 => K * d <= -(2 * K)
         /\ d = 1 => K * d = K
         /\ d = -1 => K * d = -K
         /\ d = 0 => K * d = 0
OBVIOUS

\* Multiples of K subtract.
LEMMA Diff ==
  ASSUME NEW K \in Nat \ {0}, NEW a \in Int, NEW b \in Int
  PROVE  K * (a - b) = (K * a) - (K * b)
OBVIOUS

\* Numbers less than K apart: their whole parts are equal or one K apart.
LEMMA Near ==
  ASSUME NEW K \in Nat \ {0}, NEW a \in Int, NEW b \in Int, b - a < K, a - b < K
  PROVE  \/ b - (b % K) = a - (a % K)
         \/ b - (b % K) = a - (a % K) + K
         \/ b - (b % K) = a - (a % K) - K
<1>. DEFINE d == (b \div K) - (a \div K)
            m == K * d
<1>1. d \in Int
  BY ModFacts
<1>2. (b - (b % K)) - (a - (a % K)) = m
  BY ModFacts, Diff
<1>3. /\ m \in Int
      /\ d >= 2 => m >= 2 * K
      /\ d <= -2 => m <= -(2 * K)
      /\ d = 1 => m = K
      /\ d = -1 => m = -K
      /\ d = 0 => m = 0
  <2>. HIDE DEF d
  <2>. QED
    BY <1>1, Times
<1>4. a % K \in 0 .. K - 1 /\ b % K \in 0 .. K - 1
  BY ModFacts
<1>. HIDE DEF d, m
<1>5. d <= 1 /\ d >= -1
  <2>. DEFINE r == a % K
              s == b % K
  <2>1. r \in 0 .. K - 1 /\ s \in 0 .. K - 1 /\ (b - s) - (a - r) = m
    BY <1>2, <1>4
  <2>. HIDE DEF r, s
  <2>. QED
    BY <1>1, <1>3, <2>1
<1>6. d = 0 \/ d = 1 \/ d = -1
  BY <1>1, <1>5
<1>. QED
  BY <1>1, <1>2, <1>3, <1>4, <1>6
\* Numbers less than K apart differ in their remainders.
LEMMA ModDiffer ==
  ASSUME NEW K \in Nat \ {0}, NEW a \in Int, NEW b \in Int, 0 < b - a, b - a < K
  PROVE  a % K # b % K
<1>. DEFINE r == a % K
            s == b % K
<1>1. r \in 0 .. K - 1 /\ s \in 0 .. K - 1
  BY ModFacts
<1>2. b - s = a - r \/ b - s = a - r + K \/ b - s = a - r - K
  <2>1. a - b < K
    OBVIOUS
  <2>. QED
    BY <2>1, Near
<1>. HIDE DEF r, s
<1>3. r # s
  BY <1>1, <1>2
<1>. QED
  BY <1>3 DEF r, s

\* A number below K is its own remainder.
LEMMA ModSmall ==
  ASSUME NEW K \in Nat \ {0}, NEW n \in 0 .. K - 1
  PROVE  n % K = n
<1>. DEFINE r == n % K
<1>1. r \in 0 .. K - 1
  BY ModFacts
<1>2. 0 < n - r /\ n - r < K => n % K # r % K
  <2>. HIDE DEF r
  <2>. QED
    BY <1>1, ModDiffer
<1>3. 0 < r - n /\ r - n < K => n % K # r % K
  <2>. HIDE DEF r
  <2>. QED
    BY <1>1, ModDiffer
<1>4. r % K = r
  OBVIOUS
<1>. HIDE DEF r
<1>. QED
  BY <1>1, <1>2, <1>3, <1>4 DEF r
\* Two numbers from 1 to K - 1 apart, for the frame_num and the order counts
\* of pictures that follow one another.
LEMMA NumbersDiffer ==
  ASSUME NEW n \in Int
  PROVE  n % MaxFrameNum # (n + 1) % MaxFrameNum
<1>. DEFINE m == n + 1
<1>1. m \in Int /\ 0 < m - n /\ m - n < MaxFrameNum /\ MaxFrameNum \in Nat \ {0}
  BY EncoderStreamsAssumption
<1>. HIDE DEF m
<1>2. n % MaxFrameNum # m % MaxFrameNum
  BY <1>1, ModDiffer
<1>. QED
  BY <1>2 DEF m

\* Order counts of consecutive frames differ in their low-order part.
LEMMA OrdersDiffer ==
  ASSUME NEW n \in Int
  PROVE  n % MaxLsb # (n + 2) % MaxLsb
<1>. DEFINE m == n + 2
<1>1. m \in Int /\ 0 < m - n /\ m - n < MaxLsb /\ MaxLsb \in Nat \ {0}
  BY EncoderStreamsAssumption
<1>. HIDE DEF m
<1>2. n % MaxLsb # m % MaxLsb
  BY <1>1, ModDiffer
<1>. QED
  BY <1>2 DEF m
\* Induction over the naturals, for a set.
LEMMA Induction ==
  ASSUME NEW S, 0 \in S, \A n \in Nat : n \in S => n + 1 \in S
  PROVE  \A n \in Nat : n \in S
<1>. DEFINE Left == {n \in Nat : n \notin S}
<1>. SUFFICES ASSUME NEW k \in Left PROVE FALSE
  OBVIOUS
<1>1. IsWellFoundedOn({ss \in Nat \X Nat : ss[1] < ss[2]}, Nat)
  BY NatLessThanWellFounded, Zenon DEF OpToRel
<1>2. Left \subseteq Nat
  OBVIOUS
<1>3. PICK m \in Left : \A j \in Left : ~ (<<j, m>> \in {ss \in Nat \X Nat : ss[1] < ss[2]})
  <2>. HIDE DEF Left
  <2>. QED
    BY <1>1, <1>2, WFMin
<1>4. \A j \in Left : m <= j
  <2>. SUFFICES ASSUME NEW j \in Left PROVE ~ (j < m)
    OBVIOUS
  <2>. QED
    BY <1>3
<1>5. m - 1 \in Nat /\ m - 1 \notin Left
  BY <1>4
<1>. QED
  BY <1>5
-----------------------------------------------------------------------------
(* Sequences of anything. *)

IsSeq(s) == Len(s) \in Nat /\ s = [i \in 1 .. Len(s) |-> s[i]]

\* They are sequences of what is in them.
LEMMA SeqIn ==
  ASSUME NEW s, IsSeq(s), NEW S, \A i \in 1 .. Len(s) : s[i] \in S
  PROVE  s \in Seq(S)
<1>. DEFINE n == Len(s)
            t == [i \in 1 .. n |-> s[i]]
<1>1. t \in [1 .. n -> S] /\ n \in Nat /\ s = t
  BY DEF IsSeq
<1>. HIDE DEF n, t
<1>. QED
  BY <1>1, SeqDef

\* A sequence of anything is one of something, and back.
LEMMA SeqIs ==
  ASSUME NEW S, NEW s \in Seq(S)
  PROVE  IsSeq(s)
BY DEF IsSeq

\* A sequence and one more element.
LEMMA AppendIs ==
  ASSUME NEW s, IsSeq(s), NEW x
  PROVE  /\ IsSeq(Append(s, x)) /\ Len(Append(s, x)) = Len(s) + 1
         /\ \A i \in 1 .. Len(s) : Append(s, x)[i] = s[i]
         /\ Append(s, x)[Len(s) + 1] = x
<1>. DEFINE S == {s[i] : i \in 1 .. Len(s)} \cup {x}
<1>1. s \in Seq(S) /\ x \in S
  <2>1. \A i \in 1 .. Len(s) : s[i] \in S
    OBVIOUS
  <2>. HIDE DEF S
  <2>2. s \in Seq(S)
    BY <2>1, SeqIn
  <2>. QED
    BY <2>2 DEF S
<1>. HIDE DEF S
<1>2. Append(s, x) \in Seq(S)
  BY <1>1
<1>3. IsSeq(Append(s, x))
  BY <1>2, SeqIs
<1>. QED
  BY <1>1, <1>3

\* A sequence without its first element.
LEMMA TailIs ==
  ASSUME NEW s, IsSeq(s), s # <<>>
  PROVE  /\ IsSeq(Tail(s)) /\ Len(Tail(s)) = Len(s) - 1
         /\ \A i \in 1 .. Len(s) - 1 : Tail(s)[i] = s[i + 1]
         /\ Head(s) = s[1] /\ Len(s) > 0
<1>. DEFINE S == {s[i] : i \in 1 .. Len(s)}
<1>1. s \in Seq(S)
  <2>1. \A i \in 1 .. Len(s) : s[i] \in S
    OBVIOUS
  <2>. HIDE DEF S
  <2>. QED
    BY <2>1, SeqIn
<1>. HIDE DEF S
<1>2. Tail(s) \in Seq(S)
  BY <1>1
<1>3. IsSeq(Tail(s))
  BY <1>2, SeqIs
<1>. QED
  BY <1>1, <1>3

\* One sequence after another.
LEMMA ConcatIs ==
  ASSUME NEW s, IsSeq(s), NEW t, IsSeq(t)
  PROVE  /\ IsSeq(s \o t) /\ Len(s \o t) = Len(s) + Len(t)
         /\ \A i \in 1 .. Len(s) : (s \o t)[i] = s[i]
         /\ \A i \in 1 .. Len(t) : (s \o t)[Len(s) + i] = t[i]
<1>. DEFINE S == {s[i] : i \in 1 .. Len(s)} \cup {t[i] : i \in 1 .. Len(t)}
<1>1. s \in Seq(S) /\ t \in Seq(S)
  <2>1. (\A i \in 1 .. Len(s) : s[i] \in S) /\ (\A i \in 1 .. Len(t) : t[i] \in S)
    OBVIOUS
  <2>. HIDE DEF S
  <2>. QED
    BY <2>1, SeqIn
<1>. HIDE DEF S
<1>2. s \o t \in Seq(S)
  BY <1>1
<1>3. IsSeq(s \o t)
  BY <1>2, SeqIs
<1>. QED
  BY <1>1, <1>3
\* The state of a session.
SessionState ==
  [idx : Nat, pending : Seq(Nat), gopStart : Nat, decInGop : Nat, nextRef : Nat, prev : Int,
   id : Int]

\* What the header of a picture says, and where it is shown.
Looks(p, idr, ref, structure, frameNum, order) ==
  /\ p.idr = idr /\ p.ref = ref /\ p.structure = structure
  /\ p.frameNum = frameNum % MaxFrameNum
  /\ p.order = order /\ p.lsb = order % MaxLsb

\* What encode_au writes.
LEMMA AuCodesI ==
  ASSUME NEW e \in SessionState, NEW display, NEW anchor
  PROVE  /\ Looks(Au(e, "I", display, anchor).pic, TRUE, TRUE, "frame", 0,
                  2 * (display - e.gopStart))
         /\ Au(e, "I", display, anchor).pic.delay = OutputDelay(e, display)
         /\ Au(e, "I", display, anchor).pic.slices = <<<<0, FALSE>>>>
BY DEF SessionState, Looks, Au, Numbered, Predicted, Bipredicted, Blank, SessionFrameNum

\* encode_au of a P picture.
LEMMA AuCodesP ==
  ASSUME NEW e \in SessionState, NEW display, NEW anchor
  PROVE  /\ Looks(Au(e, "P", display, anchor).pic, FALSE, TRUE, "frame", e.nextRef,
                  2 * (display - e.gopStart))
         /\ Au(e, "P", display, anchor).pic.delay = OutputDelay(e, display)
         /\ Au(e, "P", display, anchor).pic.slices = <<<<0, FALSE>>>>
BY DEF SessionState, Looks, Au, Numbered, Predicted, Bipredicted, Blank, SessionFrameNum

\* encode_au of a B picture.
LEMMA AuCodesB ==
  ASSUME NEW e \in SessionState, NEW display, NEW anchor
  PROVE  /\ Looks(Au(e, "B", display, anchor).pic, FALSE, FALSE, "frame",
                  SessionFrameNum(e, "B"), 2 * (display - e.gopStart))
         /\ Au(e, "B", display, anchor).pic.delay = OutputDelay(e, display)
         /\ Au(e, "B", display, anchor).pic.slices = <<<<0, FALSE>>>>
BY DEF SessionState, Looks, Au, Numbered, Predicted, Bipredicted, Blank

\* The session after n more access units, with frame_num nextRef to come.
After(e, n, nextRef) ==
  [idx |-> e.idx, pending |-> e.pending, gopStart |-> e.gopStart, decInGop |-> e.decInGop + n,
   nextRef |-> nextRef, prev |-> e.prev, id |-> e.id + n]

\* The state after encode_au: one more picture coded.
LEMMA AuAfter ==
  ASSUME NEW e \in SessionState, NEW kind \in {"I", "P", "B"}, NEW display, NEW anchor
  PROVE  Au(e, kind, display, anchor).enc
           = After(e, 1, IF kind = "B" THEN e.nextRef
                         ELSE (SessionFrameNum(e, kind) + 1) % MaxFrameNum)
BY DEF SessionState, Au, After

\* It is a state of a session.
LEMMA AfterTyped ==
  ASSUME NEW e \in SessionState, NEW n \in Nat, NEW nextRef \in Nat
  PROVE  After(e, n, nextRef) \in SessionState
BY DEF After, SessionState
\* The session after the anchor of a mini-GOP and n - 1 B pictures.
AfterAu(e, n) == After(e, n, (e.nextRef + 1) % MaxFrameNum)

\* frame_num stays in its range.
LEMMA NextRefTyped ==
  ASSUME NEW e \in SessionState
  PROVE  (e.nextRef + 1) % MaxFrameNum \in Nat
BY EncoderStreamsAssumption DEF SessionState

\* The anchor first, and a B picture after n pictures.
LEMMA AnchorAfter ==
  ASSUME NEW e \in SessionState, NEW display, NEW anchor
  PROVE  Au(e, "P", display, anchor).enc = AfterAu(e, 1)
<1>1. SessionFrameNum(e, "P") = e.nextRef
  BY DEF SessionFrameNum
<1>. QED
  BY <1>1, AuAfter DEF AfterAu

\* A B picture after n pictures leaves the frame_num of the next reference alone.
LEMMA BAfter ==
  ASSUME NEW e \in SessionState, NEW n \in Nat, NEW display, NEW anchor
  PROVE  Au(AfterAu(e, n), "B", display, anchor).enc = AfterAu(e, n + 1)
<1>1. AfterAu(e, n) \in SessionState
  BY AfterTyped, NextRefTyped DEF AfterAu
<1>2. Au(AfterAu(e, n), "B", display, anchor).enc = After(AfterAu(e, n), 1, AfterAu(e, n).nextRef)
  BY <1>1, AuAfter
<1>3. e.id \in Int /\ e.decInGop \in Int /\ n \in Int
  BY DEF SessionState
<1>. QED
  BY <1>2, <1>3 DEF AfterAu, After
\* encode_minigop's loop.
LEMMA MiniGopLoop ==
  ASSUME NEW e \in SessionState, NEW n \in Nat \ {0}, n = Len(e.pending)
  PROVE  LET anchor == Au(e, "P", Last(e.pending), None)
             after(i) == IF i = 0 THEN anchor
                         ELSE Au(AfterAu(e, i), "B", e.pending[i], anchor.pic.id)
         IN  MiniGop(e) =
               [pics |-> [i \in 1 .. n |-> after(i - 1).pic],
                enc  |-> [after(n - 1).enc EXCEPT !.prev = anchor.pic.id, !.pending = <<>>]]
<1>. DEFINE anchor == Au(e, "P", Last(e.pending), None)
            B(a, i) == Au(a, "B", e.pending[i], anchor.pic.id)
            after(i) == IF i = 0 THEN anchor ELSE B(AfterAu(e, i), i)
            Loop(f) == f = [i \in 0 .. n - 1 |-> IF i = 0 THEN anchor ELSE B(f[i - 1].enc, i)]
            g == [i \in 0 .. n - 1 |-> after(i)]
            f == CHOOSE h : Loop(h)
<1>1. \A i \in 0 .. n - 1 : after(i).enc = AfterAu(e, i + 1)
  BY AnchorAfter, BAfter
<1>2. Loop(g)
  <2>1. \A i \in 0 .. n - 1 : i # 0 => i - 1 \in 0 .. n - 1 /\ g[i - 1].enc = AfterAu(e, i)
    <3>. HIDE DEF after
    <3>. QED
      BY <1>1
  <2>2. \A i \in 0 .. n - 1 : g[i] = IF i = 0 THEN anchor ELSE B(g[i - 1].enc, i)
    <3>. HIDE DEF anchor, B
    <3>. QED
      BY <2>1
  <2>. HIDE DEF B, anchor
  <2>3. g = [i \in 0 .. n - 1 |-> g[i]]
    OBVIOUS
  <2>. HIDE DEF g
  <2>. QED
    BY <2>2, <2>3
<1>3. Loop(f)
  <2>. HIDE DEF Loop, g
  <2>. QED
    BY <1>2
<1>4. \A i \in 0 .. n - 1 : f[i] = after(i)
  <2>. DEFINE S == {i \in Nat : i <= n - 1 => f[i] = after(i)}
  <2>0. \A i \in 0 .. n - 1 : f[i] = IF i = 0 THEN anchor ELSE B(f[i - 1].enc, i)
    <3>. HIDE DEF f, anchor, B
    <3>. QED
      BY <1>3
  <2>. HIDE DEF f, anchor, B
  <2>1. 0 \in S
    BY <2>0
  <2>2. ASSUME NEW i \in Nat, i \in S
        PROVE  i + 1 \in S
    <3>. SUFFICES ASSUME i + 1 <= n - 1
         PROVE  f[i + 1] = after(i + 1)
      OBVIOUS
    <3>1. i + 1 \in 0 .. n - 1 /\ i \in 0 .. n - 1 /\ (i + 1) - 1 = i /\ i + 1 # 0
      OBVIOUS
    <3>2. f[i] = after(i)
      BY <2>2
    <3>. HIDE DEF after
    <3>3. f[i].enc = AfterAu(e, i + 1)
      BY <1>1, <3>1, <3>2
    <3>. QED
      BY <2>0, <3>1, <3>3 DEF after
  <2>. HIDE DEF S
  <2>3. \A i \in Nat : i \in S
    BY <2>1, <2>2, Induction
  <2>. QED
    BY <2>3 DEF S
<1>5. MiniGop(e) = [pics |-> [i \in 1 .. n |-> f[i - 1].pic],
                    enc  |-> [f[n - 1].enc EXCEPT !.prev = anchor.pic.id, !.pending = <<>>]]
  <2>1. (n - 1) + 1 = n
    OBVIOUS
  <2>. QED
    BY <2>1 DEF MiniGop
<1>6. [i \in 1 .. n |-> f[i - 1].pic] = [i \in 1 .. n |-> after(i - 1).pic]
  <2>. HIDE DEF f, after
  <2>. QED
    BY <1>4
<1>7. f[n - 1] = after(n - 1)
  <2>. HIDE DEF f, after
  <2>. QED
    BY <1>4
<1>. HIDE DEF f, after
<1>. QED
  BY <1>5, <1>6, <1>7 DEF after
-----------------------------------------------------------------------------
(* EncoderSession. *)

\* No picture is late, and the slices of every picture but those of
\* encode_slices_sequence are one.
Timely(p) == p.delay >= 0 /\ p.slices = <<<<0, FALSE>>>>

\* The first n pictures are a mini-GOP, coded k pictures after their IDR picture.
Begins(s, k, n, frameNum) ==
  /\ n > 0 => Looks(s[1], FALSE, TRUE, "frame", frameNum, 2 * (k + n - 1))
  /\ \A i \in 2 .. n : \E f : Looks(s[i], FALSE, FALSE, "frame", f, 2 * (k + i - 2))
  /\ \A i \in 1 .. n : Timely(s[i])

MiniGopOf(s, k, n, frameNum) == IsSeq(s) /\ Len(s) = n /\ Begins(s, k, n, frameNum)

\* The pictures waiting are those before the one at next, n in number.
Waits(e, n, next) ==
  /\ n = Len(e.pending)
  /\ \A i \in 1 .. n : e.pending[i] = next - n + i - 1
  /\ e.gopStart + e.decInGop + n = next

\* Coded and waiting, from the IDR picture on.
LEMMA WaitsSum ==
  ASSUME NEW e \in SessionState, NEW n, NEW next, Waits(e, n, next)
  PROVE  /\ e.gopStart + e.decInGop + n = next
         /\ e.gopStart \in Nat /\ e.decInGop \in Nat /\ n \in Nat
BY DEF Waits, SessionState

\* A P and a B picture m frames after the IDR picture.
LEMMA PLooks ==
  ASSUME NEW e \in SessionState, NEW display, NEW anchor, NEW m, display - e.gopStart = m,
         OutputDelay(e, display) >= 0
  PROVE  /\ Looks(Au(e, "P", display, anchor).pic, FALSE, TRUE, "frame", e.nextRef, 2 * m)
         /\ Timely(Au(e, "P", display, anchor).pic)
         /\ Au(e, "P", display, anchor).pic.id = e.id
<1>1. 2 * (display - e.gopStart) = 2 * m
  OBVIOUS
<1>2. Au(e, "P", display, anchor).pic.id = e.id
  BY DEF SessionState, Au, Numbered, Predicted, Blank
<1>. QED
  <2>1. /\ Looks(Au(e, "P", display, anchor).pic, FALSE, TRUE, "frame", e.nextRef, 2 * m)
        /\ Timely(Au(e, "P", display, anchor).pic)
    BY <1>1, AuCodesP DEF Timely
  <2>. QED
    BY <1>2, <2>1

\* A B picture m frames after the IDR picture.
LEMMA BLooks ==
  ASSUME NEW e \in SessionState, NEW display, NEW anchor, NEW m, display - e.gopStart = m,
         OutputDelay(e, display) >= 0
  PROVE  /\ \E f : Looks(Au(e, "B", display, anchor).pic, FALSE, FALSE, "frame", f, 2 * m)
         /\ Timely(Au(e, "B", display, anchor).pic)
<1>1. 2 * (display - e.gopStart) = 2 * m
  OBVIOUS
<1>. QED
  BY <1>1, AuCodesB DEF Timely

\* encode_minigop
LEMMA MiniGopCodes ==
  ASSUME NEW e \in SessionState, NEW n \in Nat \ {0}, NEW next \in Nat, Waits(e, n, next),
         cfg.bFrames > 0
  PROVE  /\ MiniGopOf(MiniGop(e).pics, e.decInGop, n, e.nextRef)
         /\ MiniGop(e).enc = [idx |-> e.idx, pending |-> <<>>, gopStart |-> e.gopStart,
                              decInGop |-> e.decInGop + n,
                              nextRef |-> (e.nextRef + 1) % MaxFrameNum,
                              prev |-> e.id, id |-> e.id + n]
<1>. DEFINE anchor == Au(e, "P", Last(e.pending), None)
            B(i) == Au(AfterAu(e, i), "B", e.pending[i], anchor.pic.id)
            after(i) == IF i = 0 THEN anchor ELSE B(i)
            k == e.decInGop
<1>1. MiniGop(e) = [pics |-> [i \in 1 .. n |-> after(i - 1).pic],
                    enc  |-> [after(n - 1).enc EXCEPT !.prev = anchor.pic.id, !.pending = <<>>]]
  BY MiniGopLoop DEF Waits
<1>2. /\ anchor.pic.id = e.id
      /\ Looks(anchor.pic, FALSE, TRUE, "frame", e.nextRef, 2 * (k + n - 1))
      /\ Timely(anchor.pic)
  <2>0. e.gopStart \in Nat /\ k \in Nat /\ n \in 1 .. n
    BY DEF SessionState
  <2>1. Last(e.pending) = e.pending[n] /\ e.pending[n] = next - n + n - 1
    BY <2>0 DEF Waits, Last
  <2>2. Last(e.pending) = next - 1 /\ (next - 1) - e.gopStart = k + n - 1
    <3>1. e.gopStart + k + n = next
      BY WaitsSum
    <3>. HIDE DEF k
    <3>. QED
      BY <2>0, <2>1, <3>1
  <2>3. OutputDelay(e, next - 1) = 2 * n
    BY <2>0, <2>2 DEF OutputDelay
  <2>. DEFINE d == Last(e.pending)
  <2>4. d - e.gopStart = k + n - 1 /\ OutputDelay(e, d) >= 0
    BY <2>2, <2>3
  <2>. HIDE DEF d
  <2>6. /\ Looks(Au(e, "P", d, None).pic, FALSE, TRUE, "frame", e.nextRef, 2 * (k + n - 1))
        /\ Timely(Au(e, "P", d, None).pic)
        /\ Au(e, "P", d, None).pic.id = e.id
    <3>. HIDE DEF k
    <3>. QED
      BY <2>4, PLooks
  <2>. QED
    BY <2>6 DEF d
<1>3. \A i \in 1 .. n - 1 :
        /\ \E f : Looks(B(i).pic, FALSE, FALSE, "frame", f, 2 * (k + i - 1))
        /\ Timely(B(i).pic)
  <2>. SUFFICES ASSUME NEW i \in 1 .. n - 1
       PROVE  /\ \E f : Looks(B(i).pic, FALSE, FALSE, "frame", f, 2 * (k + i - 1))
              /\ Timely(B(i).pic)
    OBVIOUS
  <2>1. AfterAu(e, i) \in SessionState
    BY AfterTyped, NextRefTyped DEF AfterAu
  <2>0. e.gopStart \in Nat /\ k \in Nat /\ i \in 1 .. n /\ i \in Nat
    BY DEF SessionState
  <2>2. e.pending[i] = next - n + i - 1
    BY <2>0 DEF Waits
  <2>3. AfterAu(e, i).gopStart = e.gopStart /\ AfterAu(e, i).decInGop = k + i
    BY DEF AfterAu, After
  <2>4. e.gopStart + k + n = next
    BY DEF Waits
  <2>5. e.pending[i] - e.gopStart = k + i - 1
    BY <2>0, <2>2, <2>4
  <2>6. OutputDelay(AfterAu(e, i), e.pending[i]) = 0
    BY <2>0, <2>3, <2>5 DEF OutputDelay
  <2>. DEFINE d == e.pending[i]
              a == AfterAu(e, i)
              m == k + i - 1
              x == anchor.pic.id
  <2>7. a \in SessionState /\ d - a.gopStart = m /\ OutputDelay(a, d) >= 0
    BY <2>1, <2>3, <2>5, <2>6
  <2>. HIDE DEF a, d, m, x
  <2>8. /\ \E f : Looks(Au(a, "B", d, x).pic, FALSE, FALSE, "frame", f, 2 * m)
        /\ Timely(Au(a, "B", d, x).pic)
    BY <2>7, BLooks
  <2>. QED
    BY <2>8 DEF a, d, m, x
<1>4. after(n - 1).enc = AfterAu(e, n)
  <2>1. (n - 1) + 1 = n /\ n - 1 \in Nat
    OBVIOUS
  <2>2. n = 1 => anchor.enc = AfterAu(e, n)
    BY AnchorAfter
  <2>3. n # 1 => B(n - 1).enc = AfterAu(e, n)
    BY <2>1, BAfter
  <2>. QED
    BY <2>2, <2>3
<1>. HIDE DEF anchor, B, k
<1>5. MiniGopOf(MiniGop(e).pics, e.decInGop, n, e.nextRef)
  <2>. DEFINE s == [i \in 1 .. n |-> after(i - 1).pic]
  <2>1. IsSeq(s) /\ Len(s) = n
    <3>. HIDE DEF after
    <3>. QED
      BY DEF IsSeq
  <2>2. s[1] = anchor.pic
    OBVIOUS
  <2>3. \A i \in 2 .. n : s[i] = B(i - 1).pic /\ i - 1 \in 1 .. n - 1 /\ k + (i - 1) - 1 = k + i - 2
    BY DEF k, SessionState
  <2>. HIDE DEF s
  <2>4. \A i \in 1 .. n : Timely(s[i])
    <3>1. \A i \in 1 .. n : i = 1 \/ i \in 2 .. n
      OBVIOUS
    <3>2. \A i \in 2 .. n : Timely(s[i])
      BY <1>3, <2>3
    <3>. QED
      BY <1>2, <2>2, <3>1, <3>2
  <2>5. \A i \in 2 .. n : \E f : Looks(s[i], FALSE, FALSE, "frame", f, 2 * (k + i - 2))
    BY <1>3, <2>3
  <2>6. MiniGop(e).pics = s
    BY <1>1 DEF s
  <2>. QED
    BY <1>2, <2>1, <2>2, <2>4, <2>5, <2>6 DEF MiniGopOf, Begins, k
<1>6. MiniGop(e).enc = [AfterAu(e, n) EXCEPT !.prev = e.id, !.pending = <<>>]
  <2>1. MiniGop(e).enc = [after(n - 1).enc EXCEPT !.prev = anchor.pic.id, !.pending = <<>>]
    <3>. HIDE DEF after
    <3>. QED
      BY <1>1
  <2>. QED
    BY <1>2, <1>4, <2>1
<1>. QED
  BY <1>5, <1>6 DEF AfterAu, After
\* Between two calls: the frames pushed are those coded and those waiting.
SessionInv(e) ==
  /\ e \in SessionState
  /\ Len(e.pending) <= cfg.bFrames
  /\ Waits(e, Len(e.pending), e.idx)
  /\ e.idx > 0 => e.decInGop > 0
  /\ e.gopStart % cfg.gop = 0

\* The pictures s take the session from e to f: a mini-GOP of n, then perhaps an
\* IDR picture.
SessionGroup(s, e, f, n, idr) ==
  /\ IsSeq(s) /\ Len(s) = n + (IF idr THEN 1 ELSE 0)
  /\ n \in 0 .. cfg.bFrames + 1
  /\ Begins(s, e.decInGop, n, e.nextRef)
  /\ idr => Looks(s[n + 1], TRUE, TRUE, "frame", 0, 0) /\ Timely(s[n + 1])
  /\ f.decInGop = IF idr THEN 1 ELSE e.decInGop + n
  /\ f.nextRef = IF idr THEN 1 % MaxFrameNum
                 ELSE IF n = 0 THEN e.nextRef ELSE (e.nextRef + 1) % MaxFrameNum

\* flush_pending
LEMMA FlushCodes ==
  ASSUME NEW e \in SessionState, NEW next \in Nat, Waits(e, Len(e.pending), next),
         Len(e.pending) > 0 => cfg.bFrames > 0
  PROVE  /\ MiniGopOf(Flushed(e).pics, e.decInGop, Len(e.pending), e.nextRef)
         /\ Flushed(e).enc \in SessionState
         /\ Flushed(e).enc.idx = e.idx /\ Flushed(e).enc.pending = <<>>
         /\ Flushed(e).enc.gopStart = e.gopStart
         /\ Flushed(e).enc.decInGop = e.decInGop + Len(e.pending)
         /\ Flushed(e).enc.nextRef = IF Len(e.pending) = 0 THEN e.nextRef
                                     ELSE (e.nextRef + 1) % MaxFrameNum
<1>1. CASE e.pending = <<>>
  <2>1. Flushed(e) = [pics |-> <<>>, enc |-> e] /\ Len(e.pending) = 0
    BY <1>1 DEF Flushed
  <2>2. MiniGopOf(<<>>, e.decInGop, 0, e.nextRef)
    BY DEF MiniGopOf, Begins, IsSeq
  <2>. QED
    BY <1>1, <2>1, <2>2 DEF SessionState
<1>2. CASE e.pending # <<>>
  <2>. DEFINE n == Len(e.pending)
  <2>1. Flushed(e) = MiniGop(e) /\ n \in Nat \ {0}
    BY <1>2 DEF Flushed, SessionState
  <2>2. Waits(e, n, next) /\ cfg.bFrames > 0
    BY <2>1
  <2>. HIDE DEF n
  <2>3. /\ MiniGopOf(MiniGop(e).pics, e.decInGop, n, e.nextRef)
        /\ MiniGop(e).enc = [idx |-> e.idx, pending |-> <<>>, gopStart |-> e.gopStart,
                             decInGop |-> e.decInGop + n,
                             nextRef |-> (e.nextRef + 1) % MaxFrameNum,
                             prev |-> e.id, id |-> e.id + n]
    BY <2>1, <2>2, MiniGopCodes
  <2>4. MiniGop(e).enc \in SessionState
    BY <2>1, <2>3, NextRefTyped DEF SessionState
  <2>. QED
    BY <2>1, <2>3, <2>4 DEF n
<1>. QED
  BY <1>1, <1>2

\* An IDR picture.
LEMMA ILooks ==
  ASSUME NEW e \in SessionState, NEW display, e.gopStart = display, display \in Nat,
         OutputDelay(e, display) >= 0
  PROVE  /\ Looks(Au(e, "I", display, None).pic, TRUE, TRUE, "frame", 0, 0)
         /\ Timely(Au(e, "I", display, None).pic)
         /\ Au(e, "I", display, None).pic.id = e.id
<1>1. 2 * (display - e.gopStart) = 0
  OBVIOUS
<1>2. Au(e, "I", display, None).pic.id = e.id
  BY DEF SessionState, Au, Numbered, Blank
<1>. QED
  <2>1. /\ Looks(Au(e, "I", display, None).pic, TRUE, TRUE, "frame", 0, 0)
        /\ Timely(Au(e, "I", display, None).pic)
    BY <1>1, AuCodesI DEF Timely
  <2>. QED
    BY <1>2, <2>1

\* The session at the beginning of a GOP.
LEMMA NewGop ==
  ASSUME NEW b \in SessionState, NEW d
  PROVE  [b EXCEPT !.gopStart = d, !.decInGop = 0, !.nextRef = 0]
           = [idx |-> b.idx, pending |-> b.pending, gopStart |-> d, decInGop |-> 0,
              nextRef |-> 0, prev |-> b.prev, id |-> b.id]
<1>. DEFINE State(start, n, next) ==
              [idx |-> b.idx, pending |-> b.pending, gopStart |-> start, decInGop |-> n,
               nextRef |-> next, prev |-> b.prev, id |-> b.id]
<1>. DEFINE x == [b EXCEPT !.gopStart = d]
            y == [x EXCEPT !.decInGop = 0]
<1>1. [b EXCEPT !.gopStart = d, !.decInGop = 0, !.nextRef = 0] = [y EXCEPT !.nextRef = 0]
  OBVIOUS
<1>2. b = State(b.gopStart, b.decInGop, b.nextRef)
  BY DEF SessionState
<1>3. ASSUME NEW start, NEW n, NEW next
      PROVE  /\ [State(start, n, next) EXCEPT !.gopStart = d] = State(d, n, next)
             /\ [State(start, n, next) EXCEPT !.decInGop = 0] = State(start, 0, next)
             /\ [State(start, n, next) EXCEPT !.nextRef = 0] = State(start, n, 0)
  OBVIOUS
<1>. HIDE DEF State
<1>4. x = State(d, b.decInGop, b.nextRef)
  BY <1>2, <1>3
<1>. HIDE DEF x
<1>5. y = State(d, 0, b.nextRef)
  BY <1>3, <1>4
<1>. HIDE DEF y
<1>6. [y EXCEPT !.nextRef = 0] = State(d, 0, 0)
  BY <1>3, <1>5
<1>. QED
  BY <1>1, <1>6 DEF State

\* push_idr
LEMMA PushIdrCodes ==
  ASSUME NEW e \in SessionState, NEW d \in Nat, Waits(e, Len(e.pending), d), d % cfg.gop = 0,
         Len(e.pending) <= cfg.bFrames, cfg.bFrames \in Nat, e.idx = d + 1
  PROVE  /\ SessionGroup(PushIdr(e, d).pics, e, PushIdr(e, d).enc, Len(e.pending), TRUE)
         /\ SessionInv(PushIdr(e, d).enc)
         /\ PushIdr(e, d).enc.idx = e.idx
<1>. DEFINE n == Len(e.pending)
            before == Flushed(e)
            b == before.enc
            g == [idx |-> b.idx, pending |-> b.pending, gopStart |-> d, decInGop |-> 0,
                  nextRef |-> 0, prev |-> b.prev, id |-> b.id]
            au == Au(g, "I", d, None)
            f == [au.enc EXCEPT !.prev = au.pic.id]
<1>0. n \in Nat /\ e.decInGop \in Nat
  BY DEF SessionState
<1>1. /\ MiniGopOf(before.pics, e.decInGop, n, e.nextRef)
      /\ b \in SessionState /\ b.idx = e.idx /\ b.pending = <<>>
  <2>1. Len(e.pending) > 0 => cfg.bFrames > 0
    BY <1>0
  <2>. QED
    BY <2>1, FlushCodes
<1>2. PushIdr(e, d) = [pics |-> Append(before.pics, au.pic), enc |-> f]
  <2>1. [b EXCEPT !.gopStart = d, !.decInGop = 0, !.nextRef = 0] = g
    <3>. HIDE DEF before
    <3>1. b \in SessionState
      BY <1>1
    <3>. HIDE DEF b
    <3>. QED
      BY <3>1, NewGop
  <2>. HIDE DEF g
  <2>. QED
    BY <2>1 DEF PushIdr
<1>3. g \in SessionState /\ g.gopStart = d /\ g.decInGop = 0 /\ g.pending = <<>> /\ g.idx = d + 1
  <2>. HIDE DEF b
  <2>. QED
    BY <1>1 DEF SessionState
<1>. HIDE DEF g, before
<1>4. OutputDelay(g, d) >= 0
  BY <1>3 DEF OutputDelay
<1>5. /\ Looks(au.pic, TRUE, TRUE, "frame", 0, 0) /\ Timely(au.pic) /\ au.pic.id = g.id
  BY <1>3, <1>4, ILooks
<1>6. au.enc = After(g, 1, 1 % MaxFrameNum)
  <2>1. SessionFrameNum(g, "I") = 0
    BY DEF SessionFrameNum
  <2>. QED
    BY <1>3, <2>1, AuAfter
<1>. HIDE DEF au
<1>7. f = [idx |-> d + 1, pending |-> <<>>, gopStart |-> d, decInGop |-> 1,
           nextRef |-> 1 % MaxFrameNum, prev |-> g.id, id |-> g.id + 1]
  BY <1>3, <1>5, <1>6 DEF After
<1>. HIDE DEF f
<1>8. f \in SessionState
  <2>1. 1 % MaxFrameNum \in Nat
    BY EncoderStreamsAssumption
  <2>. QED
    BY <1>3, <1>7, <2>1 DEF SessionState
<1>. DEFINE s == before.pics
            t == Append(s, au.pic)
<1>9. /\ IsSeq(s) /\ Len(s) = n /\ Begins(s, e.decInGop, n, e.nextRef)
  BY <1>1 DEF MiniGopOf
<1>. HIDE DEF s
<1>10. /\ IsSeq(t) /\ Len(t) = n + 1 /\ t[n + 1] = au.pic
       /\ \A i \in 1 .. n : t[i] = s[i]
  BY <1>9, AppendIs
<1>. HIDE DEF t, n
<1>11. Begins(t, e.decInGop, n, e.nextRef)
  <2>1. n > 0 => t[1] = s[1]
    BY <1>0, <1>10
  <2>2. \A i \in 2 .. n : t[i] = s[i]
    BY <1>0, <1>10
  <2>. QED
    BY <1>9, <1>10, <2>1, <2>2 DEF Begins
<1>12. n \in 0 .. cfg.bFrames + 1
  BY <1>0 DEF n
<1>13. SessionGroup(t, e, f, n, TRUE)
  BY <1>5, <1>7, <1>10, <1>11, <1>12 DEF SessionGroup
<1>14. SessionInv(f)
  BY <1>7, <1>8 DEF SessionInv, Waits
<1>15. f.idx = e.idx
  BY <1>7
<1>16. PushIdr(e, d).pics = t /\ PushIdr(e, d).enc = f
  BY <1>2 DEF s, t
<1>. QED
  BY <1>13, <1>14, <1>15, <1>16 DEF n
\* push_p
LEMMA PushPCodes ==
  ASSUME NEW e \in SessionState, NEW d \in Nat, Waits(e, Len(e.pending), d), e.pending = <<>>,
         cfg.bFrames = 0, e.idx = d + 1, e.gopStart % cfg.gop = 0
  PROVE  /\ SessionGroup(PushP(e, d).pics, e, PushP(e, d).enc, 1, FALSE)
         /\ SessionInv(PushP(e, d).enc)
         /\ PushP(e, d).enc.idx = e.idx
<1>. DEFINE au == Au(e, "P", d, None)
            f == [au.enc EXCEPT !.prev = au.pic.id]
            k == e.decInGop
            s == <<au.pic>>
<1>1. PushP(e, d).pics = s /\ PushP(e, d).enc = f
  BY DEF PushP
<1>2. d - e.gopStart = k /\ k \in Nat /\ e.gopStart + k = d /\ k + 1 - 1 = k
  BY DEF Waits, SessionState
<1>3. OutputDelay(e, d) >= 0
  BY DEF OutputDelay
<1>4. /\ Looks(au.pic, FALSE, TRUE, "frame", e.nextRef, 2 * k)
      /\ Timely(au.pic) /\ au.pic.id = e.id
  <2>. HIDE DEF k
  <2>. QED
    BY <1>2, <1>3, PLooks
<1>5. au.enc = AfterAu(e, 1)
  BY AnchorAfter
<1>. HIDE DEF au
<1>6. f = [idx |-> d + 1, pending |-> <<>>, gopStart |-> e.gopStart, decInGop |-> k + 1,
           nextRef |-> (e.nextRef + 1) % MaxFrameNum, prev |-> e.id, id |-> e.id + 1]
  BY <1>4, <1>5 DEF AfterAu, After
<1>. HIDE DEF f
<1>7. f \in SessionState
  BY <1>2, <1>6, NextRefTyped DEF SessionState
<1>8. IsSeq(s) /\ Len(s) = 1 /\ s[1] = au.pic
  BY DEF IsSeq
<1>. HIDE DEF s
<1>9. Begins(s, k, 1, e.nextRef)
  <2>1. 2 * (k + 1 - 1) = 2 * k
    BY <1>2
  <2>. HIDE DEF k
  <2>2. \A i \in 2 .. 1 : FALSE
    OBVIOUS
  <2>3. \A i \in 1 .. 1 : i = 1
    OBVIOUS
  <2>. QED
    BY <1>4, <1>8, <2>1, <2>2, <2>3 DEF Begins
<1>10. SessionGroup(s, e, f, 1, FALSE)
  BY <1>6, <1>8, <1>9 DEF SessionGroup
<1>11. f.idx = e.idx /\ f.pending = <<>> /\ f.gopStart = e.gopStart /\ f.decInGop = k + 1
  BY <1>6
<1>12. Waits(f, Len(f.pending), f.idx)
  <2>1. e.gopStart + (k + 1) + 0 = d + 1
    BY <1>2, WaitsSum
  <2>2. Waits(f, 0, d + 1)
    BY <1>11, <2>1 DEF Waits
  <2>. QED
    BY <1>11, <2>2
<1>13. SessionInv(f)
  BY <1>2, <1>7, <1>11, <1>12 DEF SessionInv
<1>. QED
  BY <1>1, <1>10, <1>11, <1>13

\* A session with other frames waiting.
LEMMA WithPending ==
  ASSUME NEW e \in SessionState, NEW w
  PROVE  [e EXCEPT !.pending = w]
           = [idx |-> e.idx, pending |-> w, gopStart |-> e.gopStart, decInGop |-> e.decInGop,
              nextRef |-> e.nextRef, prev |-> e.prev, id |-> e.id]
<1>. DEFINE State(v) ==
              [idx |-> e.idx, pending |-> v, gopStart |-> e.gopStart, decInGop |-> e.decInGop,
               nextRef |-> e.nextRef, prev |-> e.prev, id |-> e.id]
<1>1. e = State(e.pending)
  BY DEF SessionState
<1>2. ASSUME NEW v
      PROVE  [State(v) EXCEPT !.pending = w] = State(w)
  OBVIOUS
<1>. HIDE DEF State
<1>3. [e EXCEPT !.pending = w] = State(w)
  BY <1>1, <1>2
<1>. QED
  BY <1>3 DEF State

\* The frame joins those waiting; the last one completes the mini-GOP.
LEMMA PushPendingCodes ==
  ASSUME NEW e \in SessionState, NEW d \in Nat, Waits(e, Len(e.pending), d),
         cfg.bFrames \in Nat \ {0}, Len(e.pending) <= cfg.bFrames,
         e.idx = d + 1, e.gopStart % cfg.gop = 0, e.decInGop > 0
  PROVE  /\ \E n \in Nat : SessionGroup(PushPending(e, d).pics, e, PushPending(e, d).enc, n, FALSE)
         /\ SessionInv(PushPending(e, d).enc)
         /\ PushPending(e, d).enc.idx = e.idx
<1>. DEFINE n == Len(e.pending) + 1
            w == Append(e.pending, d)
            full == [e EXCEPT !.pending = w]
            next == d + 1
<1>1. full = [idx |-> e.idx, pending |-> w, gopStart |-> e.gopStart,
              decInGop |-> e.decInGop, nextRef |-> e.nextRef, prev |-> e.prev, id |-> e.id]
  <2>. HIDE DEF w
  <2>. QED
    BY WithPending
<1>0. PushPending(e, d) = IF Len(full.pending) = cfg.bFrames + 1 THEN MiniGop(full)
                          ELSE [pics |-> <<>>, enc |-> full]
  BY DEF PushPending
<1>. HIDE DEF full
<1>2. full \in SessionState /\ next \in Nat /\ n \in Nat \ {0}
  BY <1>1 DEF SessionState
<1>3. full.pending = Append(e.pending, d) /\ Len(full.pending) = n
  BY <1>1 DEF SessionState
<1>4. Waits(full, n, next)
  <2>1. e.gopStart + e.decInGop + n = next /\ e.gopStart \in Nat /\ e.decInGop \in Nat
    <3>. DEFINE m == Len(e.pending)
    <3>1. e.gopStart + e.decInGop + m = d /\ e.gopStart \in Nat /\ e.decInGop \in Nat /\ m \in Nat
      BY WaitsSum
    <3>. HIDE DEF m
    <3>2. n = m + 1
      BY DEF m
    <3>. HIDE DEF n
    <3>. QED
      BY <3>1, <3>2
  <2>2. ASSUME NEW i \in 1 .. n
        PROVE  full.pending[i] = next - n + i - 1
    <3>. DEFINE m == Len(e.pending)
    <3>1. e.pending \in Seq(Nat) /\ m \in Nat
      BY DEF SessionState
    <3>2. CASE i = n
      BY <1>3, <3>1, <3>2
    <3>3. CASE i # n
      <4>1. i \in 1 .. m
        BY <3>1, <3>3
      <4>2. full.pending[i] = e.pending[i]
        BY <1>3, <3>1, <4>1
      <4>3. e.pending[i] = d - m + i - 1
        BY <4>1 DEF Waits
      <4>. QED
        BY <3>1, <4>1, <4>2, <4>3
    <3>. QED
      BY <3>2, <3>3
  <2>. QED
    BY <1>1, <1>3, <2>1, <2>2 DEF Waits
<1>. HIDE DEF n, next
<1>5. CASE n = cfg.bFrames + 1
  <2>. DEFINE g == MiniGop(full)
  <2>1. PushPending(e, d) = g
    BY <1>0, <1>3, <1>5
  <2>2. /\ MiniGopOf(g.pics, full.decInGop, n, full.nextRef)
        /\ g.enc = [idx |-> full.idx, pending |-> <<>>, gopStart |-> full.gopStart,
                    decInGop |-> full.decInGop + n,
                    nextRef |-> (full.nextRef + 1) % MaxFrameNum,
                    prev |-> full.id, id |-> full.id + n]
    BY <1>2, <1>4, MiniGopCodes
  <2>. HIDE DEF g
  <2>3. MiniGopOf(g.pics, e.decInGop, n, e.nextRef)
    BY <1>1, <2>2
  <2>4. SessionGroup(g.pics, e, g.enc, n, FALSE)
    <3>1. n \in 0 .. cfg.bFrames + 1 /\ n # 0 /\ Len(g.pics) = n + 0
      BY <1>2, <1>5, <2>3 DEF MiniGopOf
    <3>. QED
      BY <1>1, <2>2, <2>3, <3>1 DEF SessionGroup, MiniGopOf
  <2>5. g.enc \in SessionState
    <3>1. (full.nextRef + 1) % MaxFrameNum \in Nat
      BY <1>2, NextRefTyped
    <3>0. full.idx \in Nat /\ full.gopStart \in Nat /\ full.decInGop \in Nat /\ full.id \in Int
      BY <1>2 DEF SessionState
    <3>2. /\ full.idx \in Nat /\ full.gopStart \in Nat /\ full.decInGop + n \in Nat
          /\ full.id \in Int /\ full.id + n \in Int
      BY <1>2, <3>0
    <3>. QED
      BY <2>2, <3>1, <3>2 DEF SessionState
  <2>6. SessionInv(g.enc)
    <3>1. e.gopStart + e.decInGop + n = d + 1 /\ e.decInGop \in Nat /\ e.gopStart \in Nat
      BY <1>1, <1>2, <1>4, WaitsSum DEF next
    <3>2. g.enc.idx = d + 1 /\ g.enc.pending = <<>> /\ g.enc.gopStart = e.gopStart
          /\ g.enc.decInGop = e.decInGop + n
      BY <1>1, <2>2
    <3>3. Waits(g.enc, Len(g.enc.pending), g.enc.idx)
      <4>1. e.gopStart + (e.decInGop + n) + 0 = d + 1
        BY <1>2, <3>1
      <4>. QED
        BY <3>2, <4>1 DEF Waits
    <3>. QED
      BY <1>2, <2>5, <3>1, <3>2, <3>3 DEF SessionInv
  <2>7. g.enc.idx = e.idx /\ n \in Nat
    BY <1>1, <1>2, <2>2
  <2>. QED
    BY <2>1, <2>4, <2>6, <2>7
<1>6. CASE n # cfg.bFrames + 1
  <2>1. PushPending(e, d) = [pics |-> <<>>, enc |-> full]
    BY <1>0, <1>3, <1>6
  <2>2. SessionGroup(<<>>, e, full, 0, FALSE)
    <3>1. IsSeq(<<>>) /\ Len(<<>>) = 0 + 0 /\ Begins(<<>>, e.decInGop, 0, e.nextRef)
      BY DEF IsSeq, Begins
    <3>2. full.decInGop = e.decInGop + 0 /\ 0 \in 0 .. cfg.bFrames + 1
      BY <1>1 DEF SessionState
    <3>. QED
      BY <1>1, <3>1, <3>2 DEF SessionGroup
  <2>3. SessionInv(full)
    <3>1. Len(full.pending) <= cfg.bFrames
      <4>. DEFINE m == Len(e.pending)
      <4>1. m \in Nat /\ n = m + 1 /\ m <= cfg.bFrames
        BY DEF n, SessionState
      <4>. HIDE DEF m
      <4>. QED
        BY <1>3, <1>6, <4>1
    <3>2. Waits(full, Len(full.pending), full.idx)
      BY <1>1, <1>3, <1>4 DEF next
    <3>. QED
      BY <1>1, <1>2, <3>1, <3>2 DEF SessionInv
  <2>4. 0 \in Nat /\ full.idx = e.idx
    BY <1>1
  <2>5. PushPending(e, d).pics = <<>> /\ PushPending(e, d).enc = full
    BY <2>1
  <2>. QED
    BY <2>2, <2>3, <2>4, <2>5
<1>. QED
  BY <1>5, <1>6
\* What a call to the session codes.  A mini-GOP follows pictures of its GOP, and
\* an IDR picture follows another one only if every picture is one.
SessionCodes(s, e, f) ==
  \E n \in Nat : \E idr \in BOOLEAN :
    /\ SessionGroup(s, e, f, n, idr)
    /\ n > 0 => e.decInGop > 0
    /\ idr /\ n = 0 /\ cfg.gop > 1 => e.decInGop # 1

\* SessionGroup looks at two components of the state before.
LEMMA SessionGroupLooks ==
  ASSUME NEW s, NEW e, NEW g, NEW f, NEW n, NEW idr, SessionGroup(s, e, f, n, idr),
         g.decInGop = e.decInGop, g.nextRef = e.nextRef
  PROVE  SessionGroup(s, g, f, n, idr)
BY DEF SessionGroup

\* A driver's configuration.
LEMMA DriverTyped ==
  ASSUME NEW c \in Driver
  PROVE  /\ c.bFrames \in 0 .. 16 /\ c.gop \in Nat \ {0} /\ c.frames \in Nat \ {0}
         /\ c.stride \in 2 .. 4
BY DEF Driver

\* push_frame
LEMMA SessionPushes ==
  ASSUME cfg \in Driver, SessionInv(enc), SessionPush
  PROVE  SessionCodes(todo', enc, enc') /\ SessionInv(enc')
<1>. DEFINE d == enc.idx
            e == [enc EXCEPT !.idx = @ + 1]
            m == Len(enc.pending)
<1>1. /\ enc \in SessionState /\ d \in Nat /\ m \in Nat /\ m <= cfg.bFrames
      /\ d > 0 => enc.decInGop > 0
      /\ enc.gopStart % cfg.gop = 0
      /\ Waits(enc, m, d)
  BY DEF SessionInv, SessionState
<1>2. cfg.bFrames \in Nat /\ cfg.gop \in Nat \ {0}
  <2>1. cfg.bFrames \in 0 .. 16 /\ cfg.gop \in Nat \ {0}
    BY DriverTyped
  <2>. QED
    BY <2>1
<1>3. e = [idx |-> d + 1, pending |-> enc.pending, gopStart |-> enc.gopStart,
           decInGop |-> enc.decInGop, nextRef |-> enc.nextRef, prev |-> enc.prev, id |-> enc.id]
  BY <1>1 DEF SessionState
<1>4. CASE d % cfg.gop = 0
  <2>0. enc' = PushIdr(e, d).enc /\ todo' = PushIdr(e, d).pics
    BY <1>4 DEF SessionPush, Code
  <2>. HIDE DEF e
  <2>1. e \in SessionState /\ e.idx = d + 1 /\ e.pending = enc.pending
    BY <1>1, <1>3 DEF SessionState
  <2>2. Waits(e, Len(e.pending), d)
    BY <1>1, <1>3 DEF Waits
  <2>. HIDE DEF d, m
  <2>3. Len(e.pending) = m
    BY <2>1 DEF m
  <2>4. /\ SessionGroup(PushIdr(e, d).pics, e, PushIdr(e, d).enc, m, TRUE)
        /\ SessionInv(PushIdr(e, d).enc)
    BY <1>1, <1>2, <1>4, <2>1, <2>2, <2>3, PushIdrCodes
  <2>5. SessionGroup(todo', enc, enc', m, TRUE)
    <3>1. enc.decInGop = e.decInGop /\ enc.nextRef = e.nextRef
      BY <1>3
    <3>2. SessionGroup(todo', e, enc', m, TRUE)
      BY <2>0, <2>4
    <3>. QED
      BY <3>1, <3>2, SessionGroupLooks
  <2>6. enc.gopStart + enc.decInGop + m = d /\ enc.gopStart \in Nat /\ enc.decInGop \in Nat
    BY <1>1, WaitsSum
  <2>7. m > 0 => enc.decInGop > 0
    BY <1>1, <2>6
  <2>8. m = 0 /\ cfg.gop > 1 => enc.decInGop # 1
    <3>. DEFINE a == enc.gopStart
                K == cfg.gop
    <3>. SUFFICES ASSUME m = 0, K > 1, enc.decInGop = 1
         PROVE  FALSE
      OBVIOUS
    <3>1. d = a + 1 /\ a \in Int /\ a % K = 0 /\ d % K = 0 /\ K \in Nat \ {0}
      BY <1>1, <1>2, <1>4, <2>6
    <3>. HIDE DEF a, K
    <3>2. 0 < d - a /\ d - a < K /\ d \in Int
      BY <3>1
    <3>. QED
      BY <3>1, <3>2, ModDiffer
  <2>. QED
    BY <1>1, <2>0, <2>4, <2>5, <2>7, <2>8 DEF SessionCodes
<1>5. CASE d % cfg.gop # 0
  <2>0. d > 0
    <3>1. d = 0 => d % cfg.gop = 0
      BY <1>2
    <3>. QED
      BY <1>1, <1>5, <3>1
  <2>. HIDE DEF e
  <2>1. e \in SessionState /\ e.idx = d + 1 /\ e.pending = enc.pending
    BY <1>1, <1>3 DEF SessionState
  <2>2. Waits(e, Len(e.pending), d)
    BY <1>1, <1>3 DEF Waits
  <2>3. e.gopStart % cfg.gop = 0 /\ e.decInGop > 0 /\ Len(e.pending) <= cfg.bFrames
    BY <1>1, <1>3, <2>0
  <2>4. CASE cfg.bFrames = 0
    <3>0. enc' = PushP(e, d).enc /\ todo' = PushP(e, d).pics
      BY <1>5, <2>4 DEF SessionPush, Code, e
    <3>1. e.pending = <<>>
      <4>1. m = 0 /\ enc.pending \in Seq(Nat)
        BY <1>1, <2>4 DEF SessionState
      <4>. QED
        BY <2>1, <4>1
    <3>. HIDE DEF d
    <3>2. /\ SessionGroup(PushP(e, d).pics, e, PushP(e, d).enc, 1, FALSE)
          /\ SessionInv(PushP(e, d).enc)
      BY <1>1, <2>1, <2>2, <2>3, <2>4, <3>1, PushPCodes
    <3>3. SessionGroup(todo', enc, enc', 1, FALSE)
      <4>1. enc.decInGop = e.decInGop /\ enc.nextRef = e.nextRef
        BY <1>3
      <4>2. SessionGroup(todo', e, enc', 1, FALSE)
        BY <3>0, <3>2
      <4>. QED
        BY <4>1, <4>2, SessionGroupLooks
    <3>. QED
      BY <1>1, <2>0, <3>0, <3>2, <3>3 DEF SessionCodes
  <2>5. CASE cfg.bFrames # 0
    <3>0. enc' = PushPending(e, d).enc /\ todo' = PushPending(e, d).pics
      BY <1>5, <2>5 DEF SessionPush, Code, e
    <3>. HIDE DEF d
    <3>1. cfg.bFrames \in Nat \ {0}
      BY <1>2, <2>5
    <3>2. /\ \E n \in Nat : SessionGroup(PushPending(e, d).pics, e, PushPending(e, d).enc, n, FALSE)
          /\ SessionInv(PushPending(e, d).enc)
      BY <1>1, <2>1, <2>2, <2>3, <3>1, PushPendingCodes
    <3>3. PICK n \in Nat : SessionGroup(PushPending(e, d).pics, e, PushPending(e, d).enc, n, FALSE)
      BY <3>2
    <3>4. SessionGroup(todo', enc, enc', n, FALSE)
      <4>1. enc.decInGop = e.decInGop /\ enc.nextRef = e.nextRef
        BY <1>3
      <4>2. SessionGroup(todo', e, enc', n, FALSE)
        BY <3>0, <3>3
      <4>. QED
        BY <4>1, <4>2, SessionGroupLooks
    <3>. QED
      BY <1>1, <2>0, <3>0, <3>2, <3>4 DEF SessionCodes
  <2>. QED
    BY <2>4, <2>5
<1>. QED
  BY <1>4, <1>5

\* finish
LEMMA SessionFinishes ==
  ASSUME cfg \in Driver, SessionInv(enc), SessionFinish
  PROVE  SessionCodes(todo', enc, enc') /\ SessionInv(enc')
<1>. DEFINE n == Len(enc.pending)
            f == Flushed(enc).enc
<1>1. /\ enc \in SessionState /\ enc.idx \in Nat /\ n \in Nat /\ n <= cfg.bFrames
      /\ enc.idx > 0 => enc.decInGop > 0
      /\ enc.gopStart % cfg.gop = 0
      /\ Waits(enc, n, enc.idx)
  BY DEF SessionInv, SessionState
<1>2. cfg.bFrames \in Nat /\ cfg.frames \in Nat \ {0}
  <2>1. cfg.bFrames \in 0 .. 16 /\ cfg.frames \in Nat \ {0}
    BY DriverTyped
  <2>. QED
    BY <2>1
<1>3. todo' = Flushed(enc).pics /\ enc' = f /\ enc.idx = cfg.frames
  BY DEF SessionFinish, Code
<1>4. n > 0 => cfg.bFrames > 0
  BY <1>1, <1>2
<1>5. /\ MiniGopOf(todo', enc.decInGop, n, enc.nextRef)
      /\ f \in SessionState
      /\ f.idx = enc.idx /\ f.pending = <<>>
      /\ f.gopStart = enc.gopStart
      /\ f.decInGop = enc.decInGop + n
      /\ f.nextRef = IF n = 0 THEN enc.nextRef ELSE (enc.nextRef + 1) % MaxFrameNum
  BY <1>1, <1>3, <1>4, FlushCodes
<1>. HIDE DEF f
<1>6. SessionGroup(todo', enc, enc', n, FALSE)
  <2>1. n \in 0 .. cfg.bFrames + 1 /\ Len(todo') = n + 0
    BY <1>1, <1>2, <1>5 DEF MiniGopOf
  <2>. HIDE DEF n
  <2>. QED
    BY <1>3, <1>5, <2>1 DEF SessionGroup, MiniGopOf
<1>7. enc.gopStart + enc.decInGop + n = enc.idx /\ enc.gopStart \in Nat /\ enc.decInGop \in Nat
  BY <1>1, WaitsSum
<1>. HIDE DEF n
<1>8. SessionInv(f)
  <2>1. Waits(f, 0, f.idx)
    <3>1. f.gopStart + f.decInGop + 0 = f.idx
      BY <1>1, <1>5, <1>7
    <3>. QED
      BY <1>5, <3>1 DEF Waits
  <2>2. Len(f.pending) = 0 /\ f.decInGop > 0
    BY <1>1, <1>2, <1>3, <1>5, <1>7
  <2>. QED
    BY <1>1, <1>2, <1>5, <2>1, <2>2 DEF SessionInv
<1>9. enc.decInGop > 0
  BY <1>1, <1>2, <1>3
<1>. QED
  BY <1>1, <1>3, <1>6, <1>8, <1>9 DEF SessionCodes
-----------------------------------------------------------------------------
(* What the drivers code, seen from the decoder. *)

\* The slice headers of two pictures tell them apart.
Boundary(h, p) == \E f \in {"frameNum", "structure", "ref", "lsb", "idr"} : h[f] # p[f]

\* A coded picture.
Written(p) ==
  /\ p.delay >= 0
  /\ p.slices \in {<<<<0, FALSE>>>>, cfg.slices}
  /\ \E idr \in BOOLEAN, ref \in BOOLEAN, structure \in {"frame", "top", "bottom"}, order \in Nat :
        \E n : Looks(p, idr, ref, structure, n, order) /\ (idr => order = 0)

\* Half the range of pic_order_cnt_lsb.
Half == MaxLsb \div 2

\* A count follows from its low-order part and the previous count.
Within(a, b) == b - a \in -(Half - 1) .. Half

\* Where the count of the last reference picture goes from a with picture p.
StepTo(a, p, b) ==
  /\ ~ p.idr => Within(a, p.order)
  /\ b = IF p.ref THEN p.order ELSE a

ChainTo(a, s, b) ==
  \E c \in [0 .. Len(s) -> Int] :
    c[0] = a /\ c[Len(s)] = b /\ \A i \in 1 .. Len(s) : StepTo(c[i - 1], s[i], c[i])

\* The driver's state between two turns of its loop.
EncInv(e) ==
  /\ cfg.kind = "session" => SessionInv(e)
  /\ cfg.kind \in {"multiref", "paff", "sequence"} => e.k \in Nat
  /\ cfg.kind = "paff_b" => e.d \in Nat

\* p may be the last picture coded by a driver in state e.
LastOne(p, e) ==
  /\ cfg.kind = "session" =>
       /\ p.ref => \E n \in Nat : p.frameNum = n % MaxFrameNum /\ e.nextRef = (n + 1) % MaxFrameNum
       /\ p.idr => e.decInGop = 1
  /\ cfg.kind \in {"multiref", "paff", "sequence"} =>
       /\ e.k > 0
       /\ \/ p.structure = "frame" /\ p.frameNum = (e.k - 1) % MaxFrameNum
          \/ p.structure = "bottom" /\ cfg.kind = "paff"
  /\ cfg.kind = "paff_b" => p.structure = "bottom"

\* b is the count of the last reference picture coded by a driver in state e.
LastOrder(b, e) ==
  /\ cfg.kind = "session" /\ e.decInGop > 0 => b = 2 * (e.decInGop - 1)
  /\ cfg.kind \in {"multiref", "paff", "sequence"} /\ e.k > 0 => b \in {2 * e.k - 2, 2 * e.k - 1}
  /\ cfg.kind = "paff_b" /\ e.d > 0 => 2 * e.d - b \in 1 .. 11

\* The pictures s take the driver from state e to f.
Coding(s, e, f) ==
  /\ IsSeq(s) /\ \A i \in 1 .. Len(s) : Written(s[i])
  /\ EncInv(f)

Separate(s, e, f) ==
  /\ \A i \in 1 .. Len(s) - 1 : Boundary(s[i], s[i + 1])
  /\ Len(s) > 0 => LastOne(s[Len(s)], f) /\ \A h : LastOne(h, e) => Boundary(h, s[1])
  /\ Len(s) = 0 => \A h : LastOne(h, e) => LastOne(h, f)

Ordered(s, e, f) ==
  \A a \in Int : LastOrder(a, e) => \E b \in Int : ChainTo(a, s, b) /\ LastOrder(b, f)

\* The pictures between two IDR pictures of a session.
Spaced == \A d \in Drivers : d.kind = "session" => d.gop > 1

\* Counts far enough apart to be told from their low-order part.
Roomy ==
  \A d \in Drivers : /\ d.kind = "session" => 4 * (d.bFrames + 1) <= MaxLsb
                     /\ d.kind = "paff_b" => 22 <= MaxLsb

\* Half the range, and the range.
LEMMA LsbFacts == MaxLsb = 2 * Half /\ Half \in Nat \ {0} /\ MaxLsb \div 2 = Half
<1>1. MaxLsb = (2 * (MaxLsb \div 2)) + (MaxLsb % 2) /\ MaxLsb \div 2 \in Int
  <2>1. MaxLsb \in Int /\ 2 \in Nat \ {0}
    BY EncoderStreamsAssumption
  <2>. QED
    BY <2>1, ModFacts
<1>2. MaxLsb % 2 = 0 /\ MaxLsb \in Nat \ {0} /\ MaxLsb > 2
  BY EncoderStreamsAssumption
<1>. QED
  BY <1>1, <1>2 DEF Half

\* One picture, or two.
LEMMA ChainOne ==
  ASSUME NEW a \in Int, NEW p, NEW b \in Int, StepTo(a, p, b)
  PROVE  ChainTo(a, <<p>>, b)
<1>. DEFINE c == [i \in 0 .. 1 |-> IF i = 0 THEN a ELSE b]
            s == <<p>>
<1>1. c \in [0 .. 1 -> Int] /\ c[0] = a /\ c[1] = b
  OBVIOUS
<1>2. Len(s) = 1 /\ s[1] = p
  OBVIOUS
<1>. HIDE DEF c, s
<1>3. \A i \in 1 .. 1 : StepTo(c[i - 1], s[i], c[i])
  <2>1. \A i \in 1 .. 1 : i = 1 /\ i - 1 = 0
    OBVIOUS
  <2>. QED
    BY <1>1, <1>2, <2>1
<1>4. ChainTo(a, s, b)
  BY <1>1, <1>2, <1>3 DEF ChainTo
<1>. QED
  BY <1>4 DEF s

\* Two pictures.
LEMMA ChainTwo ==
  ASSUME NEW a \in Int, NEW p, NEW b \in Int, NEW q, NEW d \in Int, StepTo(a, p, b), StepTo(b, q, d)
  PROVE  ChainTo(a, <<p, q>>, d)
<1>. DEFINE c == [i \in 0 .. 2 |-> IF i = 0 THEN a ELSE IF i = 1 THEN b ELSE d]
            s == <<p, q>>
<1>1. c \in [0 .. 2 -> Int] /\ c[0] = a /\ c[1] = b /\ c[2] = d
  OBVIOUS
<1>2. Len(s) = 2 /\ s[1] = p /\ s[2] = q
  OBVIOUS
<1>. HIDE DEF c, s
<1>3. \A i \in 1 .. 2 : StepTo(c[i - 1], s[i], c[i])
  <2>1. \A i \in 1 .. 2 : (i = 1 /\ i - 1 = 0) \/ (i = 2 /\ i - 1 = 1)
    OBVIOUS
  <2>. QED
    BY <1>1, <1>2, <2>1
<1>4. ChainTo(a, s, d)
  BY <1>1, <1>2, <1>3 DEF ChainTo
<1>. QED
  BY <1>4 DEF s

\* Pictures that follow pictures.
LEMMA ChainConcat ==
  ASSUME NEW s, IsSeq(s), NEW t, IsSeq(t), NEW a \in Int, NEW b \in Int, NEW d \in Int,
         ChainTo(a, s, b), ChainTo(b, t, d)
  PROVE  ChainTo(a, s \o t, d)
<1>. DEFINE m == Len(s)
            n == Len(t)
            u == s \o t
<1>0. m \in Nat /\ n \in Nat
  BY DEF IsSeq
<1>1. PICK x \in [0 .. m -> Int] :
        x[0] = a /\ x[m] = b /\ \A i \in 1 .. m : StepTo(x[i - 1], s[i], x[i])
  BY DEF ChainTo
<1>2. PICK y \in [0 .. n -> Int] :
        y[0] = b /\ y[n] = d /\ \A i \in 1 .. n : StepTo(y[i - 1], t[i], y[i])
  BY DEF ChainTo
<1>3. /\ Len(u) = m + n
      /\ \A i \in 1 .. m : u[i] = s[i]
      /\ \A i \in 1 .. n : u[m + i] = t[i]
  BY ConcatIs
<1>. DEFINE c == [i \in 0 .. m + n |-> IF i <= m THEN x[i] ELSE y[i - m]]
<1>. HIDE DEF m, n, u
<1>4. c \in [0 .. m + n -> Int]
  <2>1. \A i \in 0 .. m + n : IF i <= m THEN i \in 0 .. m ELSE i - m \in 0 .. n
    BY <1>0
  <2>. QED
    BY <2>1
<1>5. \A i \in 0 .. m : c[i] = x[i]
  BY <1>0
<1>6. \A i \in 0 .. n : c[m + i] = y[i]
  <2>. SUFFICES ASSUME NEW i \in 0 .. n
       PROVE  c[m + i] = y[i]
    OBVIOUS
  <2>1. m + i \in 0 .. m + n /\ (m + i) - m = i
    BY <1>0
  <2>2. CASE i = 0
    BY <1>0, <1>1, <1>2, <2>1, <2>2
  <2>3. CASE i # 0
    BY <1>0, <2>1, <2>3
  <2>. QED
    BY <2>2, <2>3
<1>. HIDE DEF c
<1>7. ASSUME NEW i \in 1 .. m + n
      PROVE  StepTo(c[i - 1], u[i], c[i])
  <2>1. CASE i <= m
    <3>1. i \in 1 .. m /\ i \in 0 .. m /\ i - 1 \in 0 .. m
      BY <1>0, <2>1
    <3>. QED
      BY <1>1, <1>3, <1>5, <3>1
  <2>2. CASE ~ (i <= m)
    <3>. DEFINE j == i - m
    <3>1. j \in 1 .. n /\ j \in 0 .. n /\ j - 1 \in 0 .. n /\ i = m + j /\ i - 1 = m + (j - 1)
      BY <1>0, <2>2
    <3>. HIDE DEF j
    <3>2. u[i] = t[j] /\ c[i] = y[j] /\ c[i - 1] = y[j - 1]
      BY <1>3, <1>6, <3>1
    <3>. QED
      BY <1>2, <3>1, <3>2
  <2>. QED
    BY <2>1, <2>2
<1>8. c[0] = a /\ c[m + n] = d
  BY <1>0, <1>1, <1>2, <1>5, <1>6
<1>9. ChainTo(a, u, d)
  BY <1>3, <1>4, <1>7, <1>8 DEF ChainTo
<1>. QED
  BY <1>9 DEF u
\* A picture with one slice.
LEMMA WrittenOne ==
  ASSUME NEW p, Timely(p), NEW idr \in BOOLEAN, NEW ref \in BOOLEAN,
         NEW structure \in {"frame", "top", "bottom"}, NEW n, NEW order \in Nat,
         Looks(p, idr, ref, structure, n, order), idr => order = 0
  PROVE  Written(p)
BY DEF Timely, Written

\* A session codes pictures.
LEMMA SessionCoding ==
  ASSUME NEW e, e.decInGop \in Nat, NEW f, NEW s, SessionCodes(s, e, f)
  PROVE  IsSeq(s) /\ \A i \in 1 .. Len(s) : Written(s[i])
<1>. DEFINE k == e.decInGop
<1>1. PICK n \in Nat : \E idr \in BOOLEAN : SessionGroup(s, e, f, n, idr)
  BY DEF SessionCodes
<1>2. PICK idr \in BOOLEAN : SessionGroup(s, e, f, n, idr)
  BY <1>1
<1>3. /\ IsSeq(s) /\ Len(s) = n + (IF idr THEN 1 ELSE 0)
      /\ Begins(s, k, n, e.nextRef)
      /\ idr => Looks(s[n + 1], TRUE, TRUE, "frame", 0, 0) /\ Timely(s[n + 1])
  BY <1>2 DEF SessionGroup
<1>4. ASSUME NEW i \in 1 .. Len(s)
      PROVE  Written(s[i])
  <2>1. CASE i = 1 /\ i <= n
    <3>. DEFINE o == 2 * (k + n - 1)
    <3>1. Looks(s[i], FALSE, TRUE, "frame", e.nextRef, o) /\ Timely(s[i])
      <4>1. 1 \in 1 .. n /\ n > 0
        BY <2>1
      <4>. HIDE DEF k
      <4>. QED
        BY <1>3, <2>1, <4>1 DEF Begins
    <3>2. o \in Nat
      BY <2>1
    <3>. HIDE DEF o
    <3>. QED
      BY <3>1, <3>2, WrittenOne
  <2>2. CASE i # 1 /\ i <= n
    <3>. DEFINE o == 2 * (k + i - 2)
    <3>0. i \in 2 .. n /\ i \in 1 .. n
      BY <2>2
    <3>1. (\E g : Looks(s[i], FALSE, FALSE, "frame", g, o)) /\ Timely(s[i])
      BY <1>3, <3>0 DEF Begins
    <3>2. o \in Nat
      BY <2>2
    <3>. HIDE DEF o
    <3>. QED
      BY <3>1, <3>2, WrittenOne
  <2>3. CASE ~ (i <= n)
    <3>1. idr /\ i = n + 1
      BY <1>3, <2>3
    <3>. QED
      BY <1>3, <3>1, WrittenOne
  <2>. QED
    BY <2>1, <2>2, <2>3
<1>. QED
  BY <1>3, <1>4

\* Two pictures that differ in a flag, the structure, frame_num or the count.
LEMMA Differing ==
  ASSUME NEW h, NEW p,
         \/ h.idr # p.idr \/ h.ref # p.ref \/ h.structure # p.structure
         \/ h.frameNum # p.frameNum \/ h.lsb # p.lsb
  PROVE  Boundary(h, p)
BY DEF Boundary

\* In a mini-GOP.
LEMMA BeginsApart ==
  ASSUME NEW s, NEW k \in Nat, NEW n \in Nat, NEW frameNum, Begins(s, k, n, frameNum),
         NEW i \in 1 .. n - 1
  PROVE  Boundary(s[i], s[i + 1])
<1>1. i \in 1 .. n /\ i + 1 \in 2 .. n /\ n > 0
  OBVIOUS
<1>. DEFINE m == 2 * (k + i - 2)
            o == 2 * (k + (i + 1) - 2)
<1>2. (\E g : Looks(s[i + 1], FALSE, FALSE, "frame", g, o)) /\ m \in Int /\ o = m + 2
  <2>1. \E g : Looks(s[i + 1], FALSE, FALSE, "frame", g, o)
    BY <1>1 DEF Begins
  <2>2. m \in Int /\ o = m + 2
    OBVIOUS
  <2>. HIDE DEF m, o
  <2>. QED
    BY <2>1, <2>2
<1>. HIDE DEF o
<1>3. CASE i = 1
  <2>1. s[i].ref = TRUE /\ s[i + 1].ref = FALSE
    BY <1>1, <1>2, <1>3 DEF Begins, Looks
  <2>. QED
    BY <2>1, Differing
<1>4. CASE i # 1
  <2>1. i \in 2 .. n
    BY <1>1, <1>4
  <2>2. \E g : Looks(s[i], FALSE, FALSE, "frame", g, m)
    BY <2>1 DEF Begins
  <2>. HIDE DEF m
  <2>3. s[i].lsb = m % MaxLsb /\ s[i + 1].lsb = (m + 2) % MaxLsb
    BY <1>2, <2>2 DEF Looks
  <2>. QED
    BY <1>2, <2>3, OrdersDiffer, Differing
<1>. QED
  BY <1>3, <1>4

\* Adjacent pictures of a session differ in frame_num, nal_ref_idc, order count or IDR.
LEMMA SessionSeparate ==
  ASSUME cfg.kind = "session", cfg.gop > 1, NEW e, e.decInGop \in Nat, NEW f, NEW s,
         SessionCodes(s, e, f), e.nextRef \in Nat
  PROVE  Separate(s, e, f)
<1>. DEFINE k == e.decInGop
            x == e.nextRef
<1>1. PICK n \in Nat : \E idr \in BOOLEAN :
        /\ SessionGroup(s, e, f, n, idr)
        /\ idr /\ n = 0 => e.decInGop # 1
  BY DEF SessionCodes
<1>2. PICK idr \in BOOLEAN :
        /\ SessionGroup(s, e, f, n, idr)
        /\ idr /\ n = 0 => e.decInGop # 1
  BY <1>1
<1>3. /\ IsSeq(s) /\ Len(s) = n + (IF idr THEN 1 ELSE 0)
      /\ Begins(s, k, n, x)
      /\ idr => Looks(s[n + 1], TRUE, TRUE, "frame", 0, 0)
      /\ f.decInGop = IF idr THEN 1 ELSE k + n
      /\ f.nextRef = IF idr THEN 1 % MaxFrameNum ELSE IF n = 0 THEN x ELSE (x + 1) % MaxFrameNum
  BY <1>2 DEF SessionGroup
<1>4. \A i \in 1 .. n : s[i].idr = FALSE
  <2>. SUFFICES ASSUME NEW i \in 1 .. n PROVE s[i].idr = FALSE
    OBVIOUS
  <2>1. CASE i = 1
    <3>1. n > 0
      OBVIOUS
    <3>. QED
      BY <1>3, <2>1, <3>1 DEF Begins, Looks
  <2>2. CASE i # 1
    <3>1. i \in 2 .. n
      BY <2>2
    <3>. QED
      BY <1>3, <3>1 DEF Begins, Looks
  <2>. QED
    BY <2>1, <2>2
<1>5. ASSUME NEW i \in 1 .. Len(s) - 1
      PROVE  Boundary(s[i], s[i + 1])
  <2>1. CASE i + 1 <= n
    <3>1. i \in 1 .. n - 1
      BY <1>3, <2>1
    <3>. HIDE DEF k, x
    <3>2. k \in Nat
      BY DEF k
    <3>. QED
      BY <1>3, <3>1, <3>2, BeginsApart
  <2>2. CASE ~ (i + 1 <= n)
    <3>1. idr /\ i = n /\ i \in 1 .. n
      BY <1>3, <2>2
    <3>2. s[i].idr = FALSE /\ s[i + 1].idr = TRUE
      BY <1>3, <1>4, <3>1 DEF Looks
    <3>. QED
      BY <3>2, Differing
  <2>. QED
    BY <2>1, <2>2
<1>6. ASSUME Len(s) > 0
      PROVE  LastOne(s[Len(s)], f)
  <2>1. CASE idr
    <3>1. /\ s[Len(s)].frameNum = 0 % MaxFrameNum
          /\ f.nextRef = (0 + 1) % MaxFrameNum /\ f.decInGop = 1
      BY <1>3, <2>1 DEF Looks
    <3>2. 0 \in Nat
      OBVIOUS
    <3>. QED
      BY <3>1, <3>2 DEF LastOne
  <2>2. CASE ~ idr
    <3>1. n > 0 /\ n \in 1 .. n /\ Len(s) = n
      BY <1>3, <1>6, <2>2
    <3>2. s[Len(s)].idr = FALSE /\ f.nextRef = (x + 1) % MaxFrameNum
      BY <1>3, <1>4, <2>2, <3>1
    <3>3. CASE n = 1
      <4>1. s[Len(s)].frameNum = x % MaxFrameNum
        BY <1>3, <3>1, <3>3 DEF Begins, Looks
      <4>. QED
        BY <3>2, <4>1 DEF LastOne
    <3>4. CASE n # 1
      <4>1. n \in 2 .. n
        BY <3>1, <3>4
      <4>2. s[Len(s)].ref = FALSE
        BY <1>3, <3>1, <4>1 DEF Begins, Looks
      <4>. QED
        BY <3>2, <4>2 DEF LastOne
    <3>. QED
      BY <3>3, <3>4
  <2>. QED
    BY <2>1, <2>2
<1>7. ASSUME Len(s) > 0, NEW h, LastOne(h, e)
      PROVE  Boundary(h, s[1])
  <2>1. CASE n > 0
    <3>1. s[1].ref = TRUE /\ s[1].frameNum = x % MaxFrameNum
      BY <1>3, <2>1 DEF Begins, Looks
    <3>2. CASE h.ref
      <4>1. PICK m \in Nat : h.frameNum = m % MaxFrameNum /\ x = (m + 1) % MaxFrameNum
        BY <1>7, <3>2 DEF LastOne
      <4>. DEFINE y == m + 1
      <4>2. y \in Int /\ x = y % MaxFrameNum /\ MaxFrameNum \in Nat \ {0}
        BY <4>1, EncoderStreamsAssumption
      <4>. HIDE DEF y
      <4>3. y % MaxFrameNum \in 0 .. MaxFrameNum - 1
        BY <4>2, ModFacts
      <4>4. x % MaxFrameNum = x
        <5>. HIDE DEF x
        <5>. QED
          BY <4>2, <4>3, ModSmall
      <4>5. m % MaxFrameNum # (m + 1) % MaxFrameNum
        BY NumbersDiffer
      <4>6. h.frameNum # s[1].frameNum
        <5>. HIDE DEF x
        <5>. QED
          BY <3>1, <4>1, <4>4, <4>5
      <4>. QED
        BY <4>6, Differing
    <3>3. CASE ~ h.ref
      BY <3>1, <3>3, Differing
    <3>. QED
      BY <3>2, <3>3
  <2>2. CASE ~ (n > 0)
    <3>1. idr /\ n = 0
      BY <1>3, <1>7, <2>2
    <3>2. s[1].idr = TRUE /\ ~ h.idr
      BY <1>2, <1>3, <1>7, <3>1 DEF Looks, LastOne
    <3>. QED
      BY <3>2, Differing
  <2>. QED
    BY <2>1, <2>2
<1>8. ASSUME Len(s) = 0, NEW h, LastOne(h, e)
      PROVE  LastOne(h, f)
  <2>1. ~ idr /\ n = 0
    <3>1. idr => Len(s) = n + 1
      BY <1>3
    <3>2. ~ idr => Len(s) = n
      BY <1>3
    <3>3. ~ idr
      BY <1>8, <3>1
    <3>. QED
      BY <1>8, <3>2, <3>3
  <2>2. f.decInGop = e.decInGop /\ f.nextRef = e.nextRef
    BY <1>3, <2>1
  <2>. QED
    BY <1>8, <2>2 DEF LastOne
<1>. QED
  BY <1>5, <1>6, <1>7, <1>8 DEF Separate

\* The counts of a session: an anchor leads the last by a mini-GOP at most.
LEMMA SessionOrdered ==
  ASSUME cfg.kind = "session", cfg.bFrames \in Nat, 4 * (cfg.bFrames + 1) <= MaxLsb,
         NEW e, e.decInGop \in Nat, NEW f, NEW s, SessionCodes(s, e, f)
  PROVE  Ordered(s, e, f)
<1>. DEFINE k == e.decInGop
<1>1. PICK n \in Nat : \E idr \in BOOLEAN :
        SessionGroup(s, e, f, n, idr) /\ (n > 0 => k > 0)
  BY DEF SessionCodes
<1>2. PICK idr \in BOOLEAN : SessionGroup(s, e, f, n, idr) /\ (n > 0 => k > 0)
  BY <1>1
<1>3. /\ n \in 0 .. cfg.bFrames + 1 /\ Begins(s, k, n, e.nextRef)
      /\ idr => Len(s) = n + 1 /\ Looks(s[n + 1], TRUE, TRUE, "frame", 0, 0) /\ f.decInGop = 1
      /\ ~ idr => Len(s) = n /\ f.decInGop = k + n
  <2>1. SessionGroup(s, e, f, n, idr)
    BY <1>2
  <2>2. idr => Len(s) = n + 1 /\ Looks(s[n + 1], TRUE, TRUE, "frame", 0, 0) /\ f.decInGop = 1
    BY <2>1 DEF SessionGroup
  <2>3. ~ idr => Len(s) = n + 0 /\ f.decInGop = k + n
    BY <2>1 DEF SessionGroup
  <2>4. n \in 0 .. cfg.bFrames + 1 /\ Begins(s, k, n, e.nextRef)
    BY <2>1 DEF SessionGroup
  <2>5. n + 0 = n
    OBVIOUS
  <2>. HIDE DEF k
  <2>. QED
    BY <2>2, <2>3, <2>4, <2>5
<1>4. /\ 2 * n <= Half /\ Half \in Nat \ {0}
  <2>1. MaxLsb = 2 * Half /\ Half \in Nat \ {0}
    BY LsbFacts
  <2>. QED
    BY <1>3, <2>1
<1>. SUFFICES ASSUME NEW a \in Int, LastOrder(a, e)
     PROVE  \E b \in Int : ChainTo(a, s, b) /\ LastOrder(b, f)
  BY DEF Ordered
<1>5. k > 0 => a = 2 * (k - 1)
  BY DEF LastOrder
<1>. DEFINE z == 2 * (k + n - 1)
            c == [i \in 0 .. Len(s) |-> IF i = 0 THEN a ELSE IF i <= n THEN z ELSE 0]
            b == c[Len(s)]
<1>6. Len(s) \in Nat /\ z \in Int /\ k \in Nat
  BY <1>3
<1>7. c \in [0 .. Len(s) -> Int] /\ c[0] = a /\ b \in Int
  <2>. HIDE DEF z, k
  <2>1. c \in [0 .. Len(s) -> Int] /\ 0 \in 0 .. Len(s) /\ Len(s) \in 0 .. Len(s)
    BY <1>6
  <2>. QED
    BY <2>1
<1>8. ASSUME NEW i \in 1 .. Len(s)
      PROVE  StepTo(c[i - 1], s[i], c[i])
  <2>0. i \in 0 .. Len(s) /\ i - 1 \in 0 .. Len(s) /\ i # 0
    BY <1>6
  <2>1. CASE i = 1 /\ i <= n
    <3>1. Looks(s[i], FALSE, TRUE, "frame", e.nextRef, z)
      <4>1. n > 0
        BY <2>1
      <4>. HIDE DEF k
      <4>. QED
        BY <1>3, <2>1, <4>1 DEF Begins
    <3>2. k > 0 /\ a = 2 * (k - 1)
      BY <1>2, <1>5, <2>1
    <3>3. z - a = 2 * n
      <4>0. ASSUME NEW x \in Nat
            PROVE  2 * (x + n - 1) = (2 * (x - 1)) + (2 * n)
        OBVIOUS
      <4>1. k \in Int /\ n \in Int /\ z = (2 * (k - 1)) + (2 * n)
        <5>1. k \in Nat
          BY <1>6
        <5>. HIDE DEF k
        <5>. QED
          BY <4>0, <5>1
      <4>2. 2 * (k - 1) \in Int /\ 2 * n \in Int
        BY <4>1
      <4>. HIDE DEF z, k
      <4>. QED
        BY <3>2, <4>1, <4>2
    <3>. HIDE DEF z, k
    <3>4. c[i - 1] = a /\ c[i] = z
      BY <2>0, <2>1
    <3>. HIDE DEF c
    <3>5. Within(a, z)
      BY <1>4, <3>3 DEF Within
    <3>. QED
      BY <3>1, <3>4, <3>5 DEF StepTo, Looks
  <2>2. CASE i # 1 /\ i <= n
    <3>. DEFINE o == 2 * (k + i - 2)
    <3>1. \E g : Looks(s[i], FALSE, FALSE, "frame", g, o)
      <4>1. i \in 2 .. n
        BY <2>2
      <4>. HIDE DEF k
      <4>. QED
        BY <1>3, <4>1 DEF Begins
    <3>2. o - z = 2 * (i - n - 1) /\ i \in 2 .. n
      BY <1>6, <2>2
    <3>. HIDE DEF z, k, o
    <3>3. c[i - 1] = z /\ c[i] = z
      <4>1. i - 1 # 0 /\ i - 1 <= n
        BY <2>2
      <4>. QED
        BY <2>0, <2>2, <4>1
    <3>. HIDE DEF c
    <3>4. Within(z, o)
      BY <1>4, <3>2 DEF Within
    <3>. QED
      BY <3>1, <3>3, <3>4 DEF StepTo, Looks
  <2>3. CASE ~ (i <= n)
    <3>1. idr /\ i = n + 1
      <4>1. idr => Len(s) = n + 1
        BY <1>3
      <4>2. ~ idr => Len(s) = n
        BY <1>3
      <4>3. idr
        BY <2>3, <4>2
      <4>. QED
        BY <2>3, <4>1, <4>3
    <3>. HIDE DEF z, k
    <3>2. c[i] = 0
      BY <2>0, <2>3
    <3>. HIDE DEF c
    <3>. QED
      BY <1>3, <3>1, <3>2 DEF StepTo, Looks
  <2>. QED
    BY <2>1, <2>2, <2>3
<1>9. ChainTo(a, s, b)
  <2>. HIDE DEF c
  <2>. QED
    BY <1>7, <1>8 DEF ChainTo
<1>10. LastOrder(b, f)
  <2>0. Len(s) \in 0 .. Len(s)
    BY <1>6
  <2>1. CASE idr
    <3>. HIDE DEF z, k
    <3>1. b = 0
      BY <1>3, <2>0, <2>1
    <3>. HIDE DEF b
    <3>. QED
      BY <1>3, <2>1, <3>1 DEF LastOrder
  <2>2. CASE ~ idr /\ n > 0
    <3>1. b = z
      <4>. HIDE DEF z, k
      <4>. QED
        BY <1>3, <2>0, <2>2
    <3>2. f.decInGop = k + n
      BY <1>3, <2>2
    <3>3. b = 2 * (f.decInGop - 1)
      BY <3>1, <3>2
    <3>. HIDE DEF b
    <3>. QED
      BY <3>3 DEF LastOrder
  <2>3. CASE ~ idr /\ n = 0
    <3>1. b = a
      <4>. HIDE DEF z, k
      <4>. QED
        BY <1>3, <2>0, <2>3
    <3>2. f.decInGop = k
      BY <1>3, <1>6, <2>3
    <3>. HIDE DEF b
    <3>. QED
      BY <1>5, <3>1, <3>2 DEF LastOrder
  <2>. QED
    BY <2>1, <2>2, <2>3
<1>. QED
  BY <1>7, <1>9, <1>10
-----------------------------------------------------------------------------
(* The other drivers. *)

\* A frame, or the fields of one, k frames after the IDR picture.
Plain(p) == p.delay = 0 /\ p.slices \in {<<<<0, FALSE>>>>, cfg.slices}

IsFrame(p, k) == Plain(p) /\ Looks(p, k = 0, TRUE, "frame", k, 2 * k)

IsTop(p, k) == Plain(p) /\ Looks(p, k = 0, TRUE, "top", k, 2 * k)

IsBottom(p, k) == Plain(p) /\ Looks(p, FALSE, TRUE, "bottom", k, 2 * k + 1)

\* A picture of one slice is a coded picture.
LEMMA WrittenPlain ==
  ASSUME NEW p, Plain(p), NEW idr \in BOOLEAN, NEW ref \in BOOLEAN,
         NEW structure \in {"frame", "top", "bottom"}, NEW n, NEW order \in Nat,
         Looks(p, idr, ref, structure, n, order), idr => order = 0
  PROVE  Written(p)
<1>1. p.delay = 0
  BY DEF Plain
<1>2. p.delay >= 0
  BY <1>1
<1>3. p.slices \in {<<<<0, FALSE>>>>, cfg.slices}
  BY DEF Plain
<1>. QED
  BY <1>2, <1>3 DEF Written

\* Frames, one after the other, are coded pictures.
LEMMA FramesWritten ==
  ASSUME NEW k \in Nat, NEW p
  PROVE  /\ IsFrame(p, k) => Written(p)
         /\ IsTop(p, k) => Written(p)
         /\ IsBottom(p, k) => Written(p)
<1>. DEFINE o == 2 * k
            u == 2 * k + 1
            i == k = 0
<1>1. o \in Nat /\ u \in Nat /\ i \in BOOLEAN /\ (i => o = 0)
  OBVIOUS
<1>2. /\ IsFrame(p, k) => Plain(p) /\ Looks(p, i, TRUE, "frame", k, o)
      /\ IsTop(p, k) => Plain(p) /\ Looks(p, i, TRUE, "top", k, o)
      /\ IsBottom(p, k) => Plain(p) /\ Looks(p, FALSE, TRUE, "bottom", k, u)
  BY DEF IsFrame, IsTop, IsBottom
<1>. HIDE DEF o, u, i
<1>3. IsFrame(p, k) => Written(p)
  BY <1>1, <1>2, WrittenPlain
<1>4. IsTop(p, k) => Written(p)
  BY <1>1, <1>2, WrittenPlain
<1>5. IsBottom(p, k) => Written(p)
  BY <1>1, <1>2, WrittenPlain
<1>. QED
  BY <1>3, <1>4, <1>5

\* Sequences of one and of two.
LEMMA OneIs ==
  ASSUME NEW p
  PROVE  IsSeq(<<p>>) /\ Len(<<p>>) = 1 /\ <<p>>[1] = p
BY DEF IsSeq

\* A sequence of two pictures.
LEMMA TwoIs ==
  ASSUME NEW p, NEW q
  PROVE  IsSeq(<<p, q>>) /\ Len(<<p, q>>) = 2 /\ <<p, q>>[1] = p /\ <<p, q>>[2] = q
BY DEF IsSeq

\* The range of counts holds four of them.
LEMMA HalfRange == Half \in Nat /\ Half >= 2
<1>1. MaxLsb = 2 * Half /\ Half \in Nat
  BY LsbFacts
<1>2. MaxLsb > 2
  BY EncoderStreamsAssumption
<1>. QED
  BY <1>1, <1>2

\* A reference picture with a count found from the one before it.
LEMMA StepToReference ==
  ASSUME NEW a, NEW p, NEW b, p.ref = TRUE, p.order = b, ~ p.idr => Within(a, b)
  PROVE  StepTo(a, p, b)
BY DEF StepTo

\* A turn that codes a frame, and one that codes a pair of fields.
LEMMA FrameTurn ==
  ASSUME cfg.kind \in {"multiref", "paff", "sequence"}, NEW e, NEW f, e.k \in Nat, f.k = e.k + 1,
         NEW p, IsFrame(p, e.k)
  PROVE  Coding(<<p>>, e, f) /\ Separate(<<p>>, e, f) /\ Ordered(<<p>>, e, f)
<1>. DEFINE k == e.k
            s == <<p>>
<1>0. k \in Nat /\ f.k = k + 1 /\ (f.k - 1) = k
  OBVIOUS
<1>1. IsSeq(s) /\ Len(s) = 1 /\ s[1] = p
  BY OneIs
<1>2. /\ p.idr = (k = 0) /\ p.ref = TRUE /\ p.structure = "frame"
      /\ p.frameNum = k % MaxFrameNum /\ p.order = 2 * k
  BY DEF IsFrame, Looks
<1>. HIDE DEF s, k
<1>3. Coding(s, e, f)
  <2>1. Written(p)
    BY <1>0, FramesWritten DEF k
  <2>2. \A i \in 1 .. 1 : i = 1
    OBVIOUS
  <2>3. EncInv(f)
    BY <1>0 DEF EncInv
  <2>. QED
    BY <1>1, <2>1, <2>2, <2>3 DEF Coding
<1>4. Separate(s, e, f)
  <2>1. LastOne(p, f)
    BY <1>0, <1>2 DEF LastOne
  <2>2. ASSUME NEW h, LastOne(h, e)
        PROVE  Boundary(h, p)
    <3>1. k > 0 /\ ((h.structure = "frame" /\ h.frameNum = (k - 1) % MaxFrameNum)
                    \/ h.structure = "bottom")
      BY <2>2 DEF LastOne, k
    <3>2. (k - 1) % MaxFrameNum # k % MaxFrameNum
      <4>1. k - 1 \in Int /\ (k - 1) + 1 = k
        BY <1>0
      <4>. QED
        BY <4>1, NumbersDiffer
    <3>3. h.frameNum # p.frameNum \/ h.structure # p.structure
      BY <1>2, <3>1, <3>2
    <3>. QED
      BY <3>3, Differing
  <2>3. \A i \in 1 .. 1 - 1 : FALSE
    OBVIOUS
  <2>. QED
    BY <1>1, <2>1, <2>2, <2>3 DEF Separate
<1>5. Ordered(s, e, f)
  <2>. SUFFICES ASSUME NEW a \in Int, LastOrder(a, e)
       PROVE  \E b \in Int : ChainTo(a, s, b) /\ LastOrder(b, f)
    BY DEF Ordered
  <2>. DEFINE b == 2 * k
  <2>1. b \in Int /\ b = 2 * f.k - 2
    BY <1>0
  <2>2. k > 0 => a \in {2 * k - 2, 2 * k - 1}
    BY DEF LastOrder, k
  <2>3. k > 0 => Within(a, b)
    BY <1>0, <2>2, HalfRange DEF Within
  <2>0. ~ p.idr => k > 0
    <3>1. k = 0 => p.idr
      BY <1>2, Zenon
    <3>. QED
      BY <1>0, <3>1
  <2>7. p.ref = TRUE /\ p.order = b
    BY <1>2
  <2>. HIDE DEF b
  <2>4. StepTo(a, p, b)
    BY <2>0, <2>3, <2>7, StepToReference
  <2>5. ChainTo(a, s, b)
    BY <2>1, <2>4, ChainOne DEF s
  <2>6. LastOrder(b, f)
    BY <2>1 DEF LastOrder
  <2>. QED
    BY <2>1, <2>5, <2>6
<1>. QED
  BY <1>3, <1>4, <1>5 DEF s

\* A turn that codes both fields of a frame.
LEMMA PairTurn ==
  ASSUME cfg.kind = "paff", NEW e, NEW f, e.k \in Nat, f.k = e.k + 1,
         NEW p, IsTop(p, e.k), NEW q, IsBottom(q, e.k)
  PROVE  Coding(<<p, q>>, e, f) /\ Separate(<<p, q>>, e, f) /\ Ordered(<<p, q>>, e, f)
<1>. DEFINE k == e.k
            s == <<p, q>>
<1>0. k \in Nat /\ f.k = k + 1 /\ (f.k - 1) = k
  OBVIOUS
<1>1. IsSeq(s) /\ Len(s) = 2 /\ s[1] = p /\ s[2] = q
  BY TwoIs
<1>2. /\ p.idr = (k = 0) /\ p.ref = TRUE /\ p.structure = "top" /\ p.order = 2 * k
      /\ q.idr = FALSE /\ q.ref = TRUE /\ q.structure = "bottom" /\ q.order = 2 * k + 1
  BY DEF IsTop, IsBottom, Looks
<1>. HIDE DEF s, k
<1>3. Coding(s, e, f)
  <2>1. Written(p) /\ Written(q)
    BY <1>0, FramesWritten DEF k
  <2>2. \A i \in 1 .. 2 : i = 1 \/ i = 2
    OBVIOUS
  <2>3. EncInv(f)
    BY <1>0 DEF EncInv
  <2>. QED
    BY <1>1, <2>1, <2>2, <2>3 DEF Coding
<1>4. Separate(s, e, f)
  <2>1. LastOne(q, f)
    BY <1>0, <1>2 DEF LastOne
  <2>2. ASSUME NEW h, LastOne(h, e)
        PROVE  Boundary(h, p)
    <3>1. h.structure # p.structure
      BY <1>2, <2>2 DEF LastOne
    <3>. QED
      BY <3>1, Differing
  <2>3. Boundary(p, q)
    BY <1>2, Differing
  <2>4. \A i \in 1 .. 2 - 1 : i = 1 /\ i + 1 = 2
    OBVIOUS
  <2>. QED
    BY <1>1, <2>1, <2>2, <2>3, <2>4 DEF Separate
<1>5. Ordered(s, e, f)
  <2>. SUFFICES ASSUME NEW a \in Int, LastOrder(a, e)
       PROVE  \E b \in Int : ChainTo(a, s, b) /\ LastOrder(b, f)
    BY DEF Ordered
  <2>. DEFINE b == 2 * k
              c == 2 * k + 1
  <2>1. b \in Int /\ c \in Int /\ c = 2 * f.k - 1
    <3>1. b \in Int /\ c \in Int /\ c = 2 * (k + 1) - 1
      BY <1>0
    <3>. QED
      BY <1>0, <3>1
  <2>2. k > 0 => a \in {2 * k - 2, 2 * k - 1}
    BY DEF LastOrder, k
  <2>3. (k > 0 => Within(a, b)) /\ Within(b, c)
    BY <1>0, <2>2, HalfRange DEF Within
  <2>0. ~ p.idr => k > 0
    <3>1. k = 0 => p.idr
      BY <1>2, Zenon
    <3>. QED
      BY <1>0, <3>1
  <2>7. p.ref = TRUE /\ p.order = b /\ q.ref = TRUE /\ q.order = c
    BY <1>2
  <2>. HIDE DEF b, c
  <2>4. StepTo(a, p, b) /\ StepTo(b, q, c)
    BY <2>0, <2>3, <2>7, StepToReference
  <2>5. ChainTo(a, s, c)
    BY <2>1, <2>4, ChainTwo DEF s
  <2>6. LastOrder(c, f)
    BY <2>1 DEF LastOrder
  <2>. QED
    BY <2>1, <2>5, <2>6
<1>. QED
  BY <1>3, <1>4, <1>5 DEF s

\* encode_multiref_sequence
LEMMA MultirefCodes ==
  ASSUME cfg.kind = "multiref", enc.k \in Nat, MultirefFrame
  PROVE  Coding(todo', enc, enc') /\ Separate(todo', enc, enc') /\ Ordered(todo', enc, enc')
<1>. DEFINE k     == enc.k
            first0 == {[id |-> coded, frameNum |-> 0, lt |-> IF cfg.longIdr THEN 0 ELSE None]}
            init  == InitList0(enc.dpb)
            moved == k = cfg.longFirstAt /\ Shorts(enc.dpb) # enc.dpb
            list  == IF moved THEN LongFirst(init) ELSE init
            n     == IF Len(list) < cfg.refs THEN Len(list) ELSE cfg.refs
            after == IF k = 0 THEN [mmco |-> <<>>, dpb |-> first0] ELSE Marked(enc.dpb, k)
            l     == Ids(SubSeq(list, 1, n))
            r     == IF moved THEN <<[op |-> "long", arg |-> list[1].lt]>> ELSE <<>>
            p     == [Predicted([Blank EXCEPT !.id = coded, !.display = k], l)
                        EXCEPT !.active = n, !.mmco = after.mmco, !.rplm = r]
            held  == {<<e.id, e.lt>> : e \in after.dpb}
            x     == [(IF k = 0 THEN MultirefIdr ELSE Numbered(p, k, 2 * k)) EXCEPT !.held = held]
<1>1. todo' = <<x>>
  BY DEF MultirefFrame, Code
<1>. HIDE DEF first0, init, moved, list, n, after, l, r, held
<1>3. enc'.k = enc.k + 1
  BY DEF MultirefFrame
<1>4. ASSUME k = 0
      PROVE  IsFrame(x, k)
  <2>1. x = [MultirefIdr EXCEPT !.held = held]
    BY <1>4
  <2>. HIDE DEF x, p
  <2>2. /\ x.delay = 0 /\ x.slices = <<<<0, FALSE>>>> /\ x.idr = TRUE /\ x.ref = TRUE
        /\ x.structure = "frame" /\ x.frameNum = 0 /\ x.order = 0 /\ x.lsb = 0
    BY <2>1 DEF MultirefIdr, Blank
  <2>3. 0 % MaxFrameNum = 0 /\ 0 % MaxLsb = 0 /\ 2 * 0 = 0
    BY EncoderStreamsAssumption
  <2>. QED
    BY <1>4, <2>2, <2>3 DEF IsFrame, Plain, Looks
<1>5. ASSUME k # 0
      PROVE  IsFrame(x, k)
  <2>. DEFINE y == Numbered(p, k, 2 * k)
  <2>1. /\ y.delay = 0 /\ y.slices = <<<<0, FALSE>>>> /\ y.idr = FALSE /\ y.ref = TRUE
        /\ y.structure = "frame" /\ y.frameNum = k % MaxFrameNum /\ y.order = 2 * k
        /\ y.lsb = (2 * k) % MaxLsb
    BY DEF Numbered, Predicted, Blank
  <2>2. x = [y EXCEPT !.held = held]
    BY <1>5
  <2>3. DOMAIN y = DOMAIN Blank
    BY DEF Numbered, Predicted
  <2>. HIDE DEF x, y
  <2>4. /\ x.delay = 0 /\ x.slices = <<<<0, FALSE>>>> /\ x.idr = FALSE /\ x.ref = TRUE
        /\ x.structure = "frame" /\ x.frameNum = k % MaxFrameNum /\ x.order = 2 * k
        /\ x.lsb = (2 * k) % MaxLsb
    BY <2>1, <2>2, <2>3 DEF Blank
  <2>. HIDE DEF k
  <2>. QED
    BY <1>5, <2>4 DEF IsFrame, Plain, Looks
<1>6. IsFrame(x, k)
  BY <1>4, <1>5
<1>. HIDE DEF x
<1>. QED
  BY <1>1, <1>3, <1>6, FrameTurn
\* SequenceFrame
LEMMA SequenceCodes ==
  ASSUME cfg.kind = "sequence", enc.k \in Nat, SequenceFrame
  PROVE  Coding(todo', enc, enc') /\ Separate(todo', enc, enc') /\ Ordered(todo', enc, enc')
<1>. DEFINE k    == enc.k
            i    == (k = 0)
            l    == <<<<coded - 1, "frame">>>>
            base == [Blank EXCEPT !.id = coded, !.display = k, !.idr = i, !.slices = cfg.slices]
            x    == Numbered(IF cfg.p /\ k > 0 THEN Predicted(base, l) ELSE base, k, 2 * k)
<1>1. todo' = <<x>>
  BY DEF SequenceFrame, Code
<1>2. enc'.k = enc.k + 1
  BY DEF SequenceFrame
<1>. HIDE DEF l, i
<1>3. /\ x.delay = 0 /\ x.slices = cfg.slices /\ x.idr = i /\ x.ref = TRUE
      /\ x.structure = "frame" /\ x.frameNum = k % MaxFrameNum /\ x.order = 2 * k
      /\ x.lsb = (2 * k) % MaxLsb
  <2>1. CASE cfg.p /\ k > 0
    <3>1. x = Numbered(Predicted(base, l), k, 2 * k)
      BY <2>1
    <3>. HIDE DEF x
    <3>. QED
      BY <3>1 DEF Numbered, Predicted, Blank
  <2>2. CASE ~ (cfg.p /\ k > 0)
    <3>1. x = Numbered(base, k, 2 * k)
      BY <2>2
    <3>. HIDE DEF x
    <3>. QED
      BY <3>1 DEF Numbered, Blank
  <2>. QED
    BY <2>1, <2>2
<1>. HIDE DEF x
<1>4. IsFrame(x, k)
  <2>. HIDE DEF k
  <2>. QED
    BY <1>3 DEF IsFrame, Plain, Looks, i
<1>. QED
  BY <1>1, <1>2, <1>4, FrameTurn

\* A field.
LEMMA FieldLooks ==
  ASSUME NEW id, NEW d, NEW parity, NEW frameNum, NEW idr, NEW refs
  PROVE  /\ Looks(Field(id, d, parity, frameNum, idr, refs), idr, TRUE, parity, frameNum,
                  2 * d + (IF parity = "bottom" THEN 1 ELSE 0))
         /\ Plain(Field(id, d, parity, frameNum, idr, refs))
         /\ DOMAIN Field(id, d, parity, frameNum, idr, refs) = DOMAIN Blank
<1>. DEFINE o    == 2 * d + (IF parity = "bottom" THEN 1 ELSE 0)
            base == [Blank EXCEPT !.id = id, !.display = d, !.structure = parity, !.idr = idr]
            x    == Field(id, d, parity, frameNum, idr, refs)
<1>1. x = IF refs = <<>> THEN Numbered(base, frameNum, o)
          ELSE Numbered(Predicted(base, refs), frameNum, o)
  BY DEF Field
<1>. HIDE DEF o, x
<1>2. ASSUME refs = <<>>
      PROVE  Looks(x, idr, TRUE, parity, frameNum, o) /\ Plain(x) /\ DOMAIN x = DOMAIN Blank
  BY <1>1, <1>2 DEF Numbered, Blank, Looks, Plain
<1>3. ASSUME refs # <<>>
      PROVE  Looks(x, idr, TRUE, parity, frameNum, o) /\ Plain(x) /\ DOMAIN x = DOMAIN Blank
  <2>1. x = Numbered(Predicted(base, refs), frameNum, o)
    BY <1>1, <1>3
  <2>2. Looks(x, idr, TRUE, parity, frameNum, o)
    BY <2>1 DEF Numbered, Predicted, Blank, Looks
  <2>3. Plain(x)
    BY <2>1 DEF Numbered, Predicted, Blank, Plain
  <2>4. DOMAIN x = DOMAIN Blank
    BY <2>1 DEF Numbered, Predicted
  <2>. QED
    BY <2>2, <2>3, <2>4
<1>. QED
  BY <1>2, <1>3 DEF o, x

\* A field with its list modification and marking commands.
LEMMA FieldWith ==
  ASSUME NEW x, DOMAIN x = DOMAIN Blank, Plain(x), NEW idr, NEW structure, NEW n, NEW order,
         Looks(x, idr, TRUE, structure, n, order), NEW r, NEW m
  PROVE  /\ Plain([x EXCEPT !.rplm = r, !.mmco = m])
         /\ Looks([x EXCEPT !.rplm = r, !.mmco = m], idr, TRUE, structure, n, order)
         /\ Plain([x EXCEPT !.rplm = r])
         /\ Looks([x EXCEPT !.rplm = r], idr, TRUE, structure, n, order)
BY DEF Plain, Looks, Blank

\* The fields of a frame of encode_paff_sequence.
LEMMA PaffFields ==
  ASSUME NEW k \in Nat
  PROVE  IsTop(PaffField(k, "top"), k) /\ IsBottom(PaffField(k, "bottom"), k)
<1>1. IsTop(PaffField(k, "top"), k)
  <2>. DEFINE i    == k = 0 /\ "top" = "top"
              refs == PaffRefs(k, "top")
              o    == 2 * k + (IF "top" = "bottom" THEN 1 ELSE 0)
              x    == Field(coded, k, "top", k, i, refs)
  <2>1. Plain(x) /\ Looks(x, i, TRUE, "top", k, o) /\ DOMAIN x = DOMAIN Blank
    <3>. HIDE DEF i, refs
    <3>. QED
      BY FieldLooks
  <2>. HIDE DEF x
  <2>. DEFINE y == [x EXCEPT !.rplm = PaffRplm(k, "top"), !.mmco = PaffMmco(k, "top")]
  <2>2. Plain(y) /\ Looks(y, i, TRUE, "top", k, o)
    <3>. HIDE DEF i, o
    <3>. QED
      BY <2>1, FieldWith
  <2>3. PaffField(k, "top") = y
    BY DEF PaffField, x
  <2>4. i = (k = 0) /\ o = 2 * k
    BY Z3
  <2>. QED
    BY <2>2, <2>3, <2>4 DEF IsTop
<1>2. IsBottom(PaffField(k, "bottom"), k)
  <2>. DEFINE i    == k = 0 /\ "bottom" = "top"
              refs == PaffRefs(k, "bottom")
              o    == 2 * k + (IF "bottom" = "bottom" THEN 1 ELSE 0)
              x    == Field(coded + 1, k, "bottom", k, i, refs)
  <2>1. Plain(x) /\ Looks(x, i, TRUE, "bottom", k, o) /\ DOMAIN x = DOMAIN Blank
    <3>. HIDE DEF i, refs
    <3>. QED
      BY FieldLooks
  <2>. HIDE DEF x
  <2>. DEFINE y == [x EXCEPT !.rplm = PaffRplm(k, "bottom"), !.mmco = PaffMmco(k, "bottom")]
  <2>2. Plain(y) /\ Looks(y, i, TRUE, "bottom", k, o)
    <3>. HIDE DEF i, o
    <3>. QED
      BY <2>1, FieldWith
  <2>3. PaffField(k, "bottom") = y
    BY DEF PaffField, x
  <2>4. i = FALSE /\ o = 2 * k + 1
    OBVIOUS
  <2>. QED
    BY <2>2, <2>3, <2>4 DEF IsBottom
<1>. QED
  BY <1>1, <1>2

\* encode_paff_sequence
LEMMA PaffCodes ==
  ASSUME cfg.kind = "paff", enc.k \in Nat, PaffFrame
  PROVE  Coding(todo', enc, enc') /\ Separate(todo', enc, enc') /\ Ordered(todo', enc, enc')
<1>. DEFINE k == enc.k
            p == PaffField(k, "top")
            q == PaffField(k, "bottom")
            x == PaffFramePicture(k)
<1>1. todo' = <<x>> \/ todo' = <<p, q>>
  <2>. HIDE DEF p, q, x
  <2>. QED
    BY DEF PaffFrame, Code, p, q, x, k
<1>2. enc'.k = enc.k + 1
  BY DEF PaffFrame
<1>3. IsTop(p, k) /\ IsBottom(q, k)
  <2>. HIDE DEF k
  <2>1. k \in Nat
    BY DEF k
  <2>. QED
    BY <2>1, PaffFields
<1>4. IsFrame(x, k)
  <2>. HIDE DEF k
  <2>. DEFINE i == (k = 0)
  <2>1. /\ x.delay = 0 /\ x.slices = <<<<0, FALSE>>>> /\ x.idr = i /\ x.ref = TRUE
        /\ x.structure = "frame" /\ x.frameNum = k % MaxFrameNum /\ x.order = 2 * k
        /\ x.lsb = (2 * k) % MaxLsb
    <3>. HIDE DEF i
    <3>. QED
      BY DEF PaffFramePicture, Numbered, Blank, i
  <2>. HIDE DEF x
  <2>. QED
    BY <2>1 DEF IsFrame, Plain, Looks
<1>. HIDE DEF p, q, x
<1>5. CASE todo' = <<x>>
  BY <1>2, <1>4, <1>5, FrameTurn
<1>6. CASE todo' = <<p, q>>
  BY <1>2, <1>3, <1>6, PairTurn
<1>. QED
  BY <1>1, <1>5, <1>6
\* A sequence of one and one of two sequences, flattened.
LEMMA FlattenOneOrTwo ==
  ASSUME NEW q, Len(q) \in 1 .. 2
  PROVE  FlattenSeq(q) = IF Len(q) = 1 THEN q[1] ELSE q[1] \o q[2]
<1>. DEFINE n == Len(q)
            Loop(h) == h = [i \in 1 .. n |-> IF i = 1 THEN q[i] ELSE h[i - 1] \o q[i]]
            g == [i \in 1 .. n |-> IF i = 1 THEN q[1] ELSE q[1] \o q[2]]
            f == CHOOSE h : Loop(h)
<1>1. n # 0 /\ n \in 1 .. 2
  OBVIOUS
<1>2. FlattenSeq(q) = f[n]
  <2>1. FlattenSeq(q) = IF n = 0 THEN q ELSE f[n]
    BY DEF FlattenSeq
  <2>. HIDE DEF n, f
  <2>. QED
    BY <1>1, <2>1
<1>. HIDE DEF n
<1>3. Loop(g)
  <2>1. g[1] = q[1]
    BY <1>1
  <2>2. \A i \in 1 .. n : g[i] = IF i = 1 THEN q[i] ELSE g[i - 1] \o q[i]
    <3>. SUFFICES ASSUME NEW i \in 1 .. n
         PROVE  g[i] = IF i = 1 THEN q[i] ELSE g[i - 1] \o q[i]
      OBVIOUS
    <3>1. CASE i = 1
      BY <2>1, <3>1
    <3>2. CASE i # 1
      <4>1. i = 2 /\ i - 1 = 1
        BY <1>1, <3>2
      <4>2. g[i] = q[1] \o q[2]
        BY <3>2
      <4>. HIDE DEF g
      <4>. QED
        BY <2>1, <4>1, <4>2
    <3>. QED
      BY <3>1, <3>2
  <2>3. g = [i \in 1 .. n |-> g[i]]
    OBVIOUS
  <2>. HIDE DEF g
  <2>. QED
    BY <2>2, <2>3
<1>4. Loop(f)
  <2>. HIDE DEF Loop, g
  <2>. QED
    BY <1>3
<1>5. \A i \in 1 .. n : f[i] = IF i = 1 THEN q[i] ELSE f[i - 1] \o q[i]
  <2>. HIDE DEF f
  <2>. QED
    BY <1>4
<1>. HIDE DEF f
<1>6. f[1] = q[1]
  BY <1>1, <1>5
<1>7. CASE n = 1
  BY <1>2, <1>6, <1>7 DEF n
<1>8. CASE n = 2
  <2>1. 2 \in 1 .. n /\ 2 - 1 = 1 /\ 2 # 1
    BY <1>8
  <2>2. f[2] = f[1] \o q[2]
    BY <1>5, <2>1
  <2>. QED
    BY <1>2, <1>6, <1>8, <2>2 DEF n
<1>9. n = 1 \/ n = 2
  BY <1>1
<1>. QED
  BY <1>7, <1>8, <1>9

-----------------------------------------------------------------------------
(* Pairs of fields with B pairs between them. *)

\* Both fields of the frame at display index d.
IsPair(s, idr, ref, d) ==
  /\ IsSeq(s) /\ Len(s) = 2 /\ Plain(s[1]) /\ Plain(s[2])
  /\ \E n : Looks(s[1], idr, ref, "top", n, 2 * d)
  /\ \E n : Looks(s[2], FALSE, ref, "bottom", n, 2 * d + 1)

\* Coded fields, of alternating parity.
Pairs(s) ==
  /\ IsSeq(s) /\ Len(s) > 0 /\ \A i \in 1 .. Len(s) : Written(s[i])
  /\ s[1].structure = "top" /\ s[Len(s)].structure = "bottom"
  /\ \A i \in 1 .. Len(s) - 1 : s[i].structure # s[i + 1].structure

\* One pair is pairs.
LEMMA PairIsPairs ==
  ASSUME NEW s, NEW idr \in BOOLEAN, NEW ref \in BOOLEAN, NEW d \in Nat, idr => d = 0,
         IsPair(s, idr, ref, d)
  PROVE  Pairs(s)
<1>. DEFINE x == 2 * d
            y == 2 * d + 1
<1>1. x \in Nat /\ y \in Nat /\ (idr => x = 0)
  OBVIOUS
<1>2. PICK n : Looks(s[1], idr, ref, "top", n, x)
  BY DEF IsPair
<1>3. PICK m : Looks(s[2], FALSE, ref, "bottom", m, y)
  BY DEF IsPair
<1>. HIDE DEF x, y
<1>4. IsSeq(s) /\ Len(s) = 2 /\ Plain(s[1]) /\ Plain(s[2])
  BY DEF IsPair
<1>5. Written(s[1]) /\ Written(s[2])
  BY <1>1, <1>2, <1>3, <1>4, WrittenPlain
<1>6. s[1].structure = "top" /\ s[2].structure = "bottom"
  BY <1>2, <1>3 DEF Looks
<1>7. (\A i \in 1 .. 2 : i = 1 \/ i = 2) /\ (\A i \in 1 .. 2 - 1 : i = 1 /\ i + 1 = 2)
  OBVIOUS
<1>. QED
  BY <1>4, <1>5, <1>6, <1>7 DEF Pairs

\* Pairs after pairs are pairs.
LEMMA PairsConcat ==
  ASSUME NEW s, Pairs(s), NEW t, Pairs(t)
  PROVE  Pairs(s \o t)
<1>. DEFINE m == Len(s)
            n == Len(t)
            u == s \o t
<1>0. IsSeq(s) /\ IsSeq(t) /\ m \in Nat /\ n \in Nat /\ m > 0 /\ n > 0
  BY DEF Pairs, IsSeq
<1>1. /\ IsSeq(u) /\ Len(u) = m + n
      /\ \A i \in 1 .. m : u[i] = s[i]
      /\ \A i \in 1 .. n : u[m + i] = t[i]
  BY <1>0, ConcatIs
<1>2. /\ \A i \in 1 .. m : Written(s[i])
      /\ \A i \in 1 .. n : Written(t[i])
      /\ s[1].structure = "top" /\ s[m].structure = "bottom"
      /\ t[1].structure = "top" /\ t[n].structure = "bottom"
      /\ \A i \in 1 .. m - 1 : s[i].structure # s[i + 1].structure
      /\ \A i \in 1 .. n - 1 : t[i].structure # t[i + 1].structure
  BY DEF Pairs
<1>. HIDE DEF m, n, u
<1>3. ASSUME NEW i \in 1 .. m + n
      PROVE  (i \in 1 .. m /\ u[i] = s[i])
               \/ (i - m \in 1 .. n /\ u[i] = t[i - m] /\ ~ (i \in 1 .. m))
  <2>1. CASE i <= m
    <3>1. i \in 1 .. m
      BY <1>0, <2>1
    <3>. QED
      BY <1>1, <3>1
  <2>2. CASE ~ (i <= m)
    <3>1. i - m \in 1 .. n /\ m + (i - m) = i /\ ~ (i \in 1 .. m)
      BY <1>0, <2>2
    <3>2. u[m + (i - m)] = t[i - m]
      BY <1>1, <3>1
    <3>. QED
      BY <3>1, <3>2
  <2>. QED
    BY <2>1, <2>2
<1>4. \A i \in 1 .. m + n : Written(u[i])
  BY <1>2, <1>3
<1>5. u[1].structure = "top"
  <2>1. 1 \in 1 .. m
    BY <1>0
  <2>. QED
    BY <1>1, <1>2, <2>1
<1>6. u[m + n].structure = "bottom"
  <2>1. n \in 1 .. n
    BY <1>0
  <2>. QED
    BY <1>1, <1>2, <2>1
<1>7. ASSUME NEW i \in 1 .. (m + n) - 1
      PROVE  u[i].structure # u[i + 1].structure
  <2>1. CASE i < m
    <3>1. i \in 1 .. m /\ i + 1 \in 1 .. m /\ i \in 1 .. m - 1
      BY <1>0, <2>1
    <3>. QED
      BY <1>1, <1>2, <3>1
  <2>2. CASE i = m
    <3>1. m \in 1 .. m /\ 1 \in 1 .. n
      BY <1>0
    <3>2. u[m] = s[m] /\ u[m + 1] = t[1]
      BY <1>1, <3>1
    <3>. QED
      BY <1>2, <2>2, <3>2
  <2>3. CASE i > m
    <3>. DEFINE j == i - m
    <3>1. j \in 1 .. n /\ j + 1 \in 1 .. n /\ j \in 1 .. n - 1 /\ i = m + j /\ i + 1 = m + (j + 1)
      BY <1>0, <2>3
    <3>. HIDE DEF j
    <3>2. u[i] = t[j] /\ u[i + 1] = t[j + 1]
      BY <1>1, <3>1
    <3>. QED
      BY <1>2, <3>1, <3>2
  <2>. QED
    BY <1>0, <2>1, <2>2, <2>3
<1>8. Pairs(u)
  BY <1>0, <1>1, <1>4, <1>5, <1>6, <1>7 DEF Pairs
<1>. QED
  BY <1>8 DEF u

\* The chain of counts through a pair of reference fields, and past a pair of
\* non-reference fields.
LEMMA PairChain ==
  ASSUME NEW s, NEW idr \in BOOLEAN, NEW d \in Int, IsPair(s, idr, TRUE, d), NEW a \in Int,
         ~ idr => Within(a, 2 * d)
  PROVE  ChainTo(a, s, 2 * d + 1)
<1>. DEFINE x == 2 * d
            y == 2 * d + 1
            p == s[1]
            q == s[2]
<1>1. x \in Int /\ y \in Int /\ Within(x, y)
  BY HalfRange DEF Within
<1>2. s = <<p, q>>
  <2>1. IsSeq(s) /\ Len(s) = 2
    BY DEF IsPair
  <2>2. s = [i \in 1 .. 2 |-> s[i]]
    BY <2>1 DEF IsSeq
  <2>. QED
    BY <2>2
<1>3. p.idr = idr /\ p.ref = TRUE /\ p.order = x /\ q.idr = FALSE /\ q.ref = TRUE /\ q.order = y
  BY DEF IsPair, Looks
<1>. HIDE DEF x, y, p, q
<1>4. StepTo(a, p, x)
  BY <1>3, StepToReference DEF x
<1>5. StepTo(x, q, y)
  BY <1>1, <1>3, StepToReference
<1>6. ChainTo(a, <<p, q>>, y)
  BY <1>1, <1>4, <1>5, ChainTwo
<1>. QED
  BY <1>2, <1>6 DEF y

\* The count of the last reference picture stays past a pair not used for reference.
LEMMA PairPast ==
  ASSUME NEW s, NEW d \in Int, IsPair(s, FALSE, FALSE, d), NEW a \in Int,
         Within(a, 2 * d), Within(a, 2 * d + 1)
  PROVE  ChainTo(a, s, a)
<1>. DEFINE p == s[1]
            q == s[2]
<1>2. s = <<p, q>>
  <2>1. IsSeq(s) /\ Len(s) = 2
    BY DEF IsPair
  <2>2. s = [i \in 1 .. 2 |-> s[i]]
    BY <2>1 DEF IsSeq
  <2>. QED
    BY <2>2
<1>3. p.ref = FALSE /\ p.order = 2 * d /\ q.ref = FALSE /\ q.order = 2 * d + 1
  BY DEF IsPair, Looks
<1>. HIDE DEF p, q
<1>4. StepTo(a, p, a) /\ StepTo(a, q, a)
  BY <1>3 DEF StepTo
<1>5. ChainTo(a, <<p, q>>, a)
  BY <1>4, ChainTwo
<1>. QED
  BY <1>2, <1>5
\* encode_anchor_pair
LEMMA AnchorPairCodes ==
  ASSUME NEW id, NEW d \in Nat, NEW fn, NEW prev, NEW r
  PROVE  IsPair(AnchorPair(id, d, fn, prev, r), d = 0, TRUE, d)
<1>. DEFINE F(parity, i) == Field(id + i, d, parity, fn, d = 0 /\ parity = "top",
                                  IF d = 0 THEN <<>> ELSE <<prev[parity]>>)
            x == F("top", 0)
            y == F("bottom", 1)
            p == [x EXCEPT !.rplm = r]
            q == [y EXCEPT !.rplm = r]
            s == AnchorPair(id, d, fn, prev, r)
            i == (d = 0)
            o == 2 * d
            u == 2 * d + 1
<1>1. s = <<p, q>>
  BY DEF AnchorPair
<1>2. Plain(x) /\ Looks(x, i, TRUE, "top", fn, o) /\ DOMAIN x = DOMAIN Blank
  <2>. DEFINE refs == IF d = 0 THEN <<>> ELSE <<prev["top"]>>
              v == 2 * d + (IF "top" = "bottom" THEN 1 ELSE 0)
              j == d = 0 /\ "top" = "top"
  <2>1. v = o
    BY Z3
  <2>2. j = i
    OBVIOUS
  <2>3. x = Field(id + 0, d, "top", fn, j, refs)
    OBVIOUS
  <2>. HIDE DEF x, refs, j
  <2>4. Plain(x) /\ Looks(x, j, TRUE, "top", fn, v) /\ DOMAIN x = DOMAIN Blank
    BY <2>3, FieldLooks
  <2>. QED
    BY <2>1, <2>2, <2>4
<1>3. Plain(y) /\ Looks(y, FALSE, TRUE, "bottom", fn, u) /\ DOMAIN y = DOMAIN Blank
  <2>. DEFINE refs == IF d = 0 THEN <<>> ELSE <<prev["bottom"]>>
              v == 2 * d + (IF "bottom" = "bottom" THEN 1 ELSE 0)
              j == d = 0 /\ "bottom" = "top"
  <2>1. v = u
    OBVIOUS
  <2>2. j = FALSE
    OBVIOUS
  <2>3. y = Field(id + 1, d, "bottom", fn, j, refs)
    OBVIOUS
  <2>. HIDE DEF y, refs, j
  <2>4. Plain(y) /\ Looks(y, j, TRUE, "bottom", fn, v) /\ DOMAIN y = DOMAIN Blank
    BY <2>3, FieldLooks
  <2>. QED
    BY <2>1, <2>2, <2>4
<1>. HIDE DEF x, y, i, o, u
<1>4. Plain(p) /\ Looks(p, i, TRUE, "top", fn, o)
  BY <1>2, FieldWith
<1>5. Plain(q) /\ Looks(q, FALSE, TRUE, "bottom", fn, u)
  BY <1>3, FieldWith
<1>. HIDE DEF p, q, s
<1>6. IsSeq(s) /\ Len(s) = 2 /\ s[1] = p /\ s[2] = q
  BY <1>1, TwoIs
<1>7. /\ \E n : Looks(s[1], i, TRUE, "top", n, o)
      /\ \E n : Looks(s[2], FALSE, TRUE, "bottom", n, u)
  BY <1>4, <1>5, <1>6
<1>8. IsPair(s, d = 0, TRUE, d)
  BY <1>4, <1>5, <1>6, <1>7 DEF IsPair, i, o, u
<1>. QED
  BY <1>8 DEF s

\* encode_b_pair
LEMMA BPairCodes ==
  ASSUME NEW id, NEW d \in Nat, NEW fn, NEW l0, NEW l1, NEW isRef \in BOOLEAN
  PROVE  IsPair(BPair(id, d, fn, l0, l1, isRef), FALSE, isRef, d)
<1>. DEFINE F(parity, i) ==
              Numbered(Bipredicted([Blank EXCEPT !.id = id + i, !.display = d, !.structure = parity,
                                                 !.ref = isRef],
                                   <<l0[parity]>>, <<l1[parity]>>), fn, 2 * d + i)
            p == F("top", 0)
            q == F("bottom", 1)
            s == BPair(id, d, fn, l0, l1, isRef)
            o == 2 * d
            u == 2 * d + 1
<1>1. s = <<p, q>>
  BY DEF BPair
<1>2. 2 * d + 0 = o
  OBVIOUS
<1>3. Looks(p, FALSE, isRef, "top", fn, 2 * d + 0) /\ Plain(p)
  BY DEF Numbered, Bipredicted, Blank, Looks, Plain
<1>4. Looks(q, FALSE, isRef, "bottom", fn, u) /\ Plain(q)
  BY DEF Numbered, Bipredicted, Blank, Looks, Plain
<1>. HIDE DEF p, q, s
<1>5. IsSeq(s) /\ Len(s) = 2 /\ s[1] = p /\ s[2] = q
  BY <1>1, TwoIs
<1>6. Looks(p, FALSE, isRef, "top", fn, o)
  BY <1>2, <1>3
<1>. HIDE DEF o, u
<1>7. /\ \E n : Looks(s[1], FALSE, isRef, "top", n, o)
      /\ \E n : Looks(s[2], FALSE, isRef, "bottom", n, u)
  BY <1>4, <1>5, <1>6
<1>8. IsPair(s, FALSE, isRef, d)
  BY <1>3, <1>4, <1>5, <1>7 DEF IsPair, o, u
<1>. QED
  BY <1>8 DEF s

\* A turn that codes pairs.
LEMMA PairsTurn ==
  ASSUME cfg.kind = "paff_b", NEW e, NEW f, f.d \in Nat, NEW s, Pairs(s)
  PROVE  Coding(s, e, f) /\ Separate(s, e, f)
<1>1. /\ IsSeq(s) /\ Len(s) > 0 /\ \A i \in 1 .. Len(s) : Written(s[i])
      /\ s[1].structure = "top" /\ s[Len(s)].structure = "bottom"
      /\ \A i \in 1 .. Len(s) - 1 : s[i].structure # s[i + 1].structure
  BY DEF Pairs
<1>2. Coding(s, e, f)
  BY <1>1 DEF Coding, EncInv
<1>3. \A i \in 1 .. Len(s) - 1 : Boundary(s[i], s[i + 1])
  BY <1>1, Differing
<1>4. ASSUME NEW h, LastOne(h, e)
      PROVE  Boundary(h, s[1])
  <2>1. h.structure = "bottom"
    BY <1>4 DEF LastOne
  <2>2. h.structure # s[1].structure
    BY <1>1, <2>1
  <2>. QED
    BY <2>2, Differing
<1>5. LastOne(s[Len(s)], f)
  BY <1>1 DEF LastOne
<1>6. Len(s) # 0
  BY <1>1 DEF IsSeq
<1>. QED
  BY <1>2, <1>3, <1>4, <1>5, <1>6 DEF Separate
\* The next anchor.
LEMMA NextAnchorNear ==
  ASSUME cfg.stride \in 2 .. 4, cfg.frames \in Nat, NEW d \in Nat, d < cfg.frames
  PROVE  NextAnchor(d) \in Nat /\ NextAnchor(d) - d \in 1 .. cfg.stride
<1>1. CASE d + cfg.stride < cfg.frames
  <2>1. NextAnchor(d) = d + cfg.stride
    BY <1>1 DEF NextAnchor
  <2>. QED
    BY <2>1
<1>2. CASE d + cfg.stride >= cfg.frames /\ cfg.stride = 2 /\ d < cfg.frames - 1
  <2>1. NextAnchor(d) = cfg.frames - 1
    BY <1>2 DEF NextAnchor
  <2>. QED
    BY <1>2, <2>1
<1>3. CASE d + cfg.stride >= cfg.frames /\ ~ (cfg.stride = 2 /\ d < cfg.frames - 1)
  <2>1. NextAnchor(d) = cfg.frames
    BY <1>3 DEF NextAnchor
  <2>. QED
    BY <1>3, <2>1
<1>. QED
  BY <1>1, <1>2, <1>3

\* Every stride frames from the IDR picture on.
LEMMA AtLeastStride ==
  ASSUME NEW S \in Nat \ {0}, NEW d \in Nat, d > 0, d % S = 0
  PROVE  d >= S
<1>. SUFFICES ASSUME d < S PROVE FALSE
  OBVIOUS
<1>1. d \in 0 .. S - 1
  OBVIOUS
<1>. QED
  BY <1>1, ModSmall

\* A group that is an anchor pair alone.
LEMMA AnchorAlone ==
  ASSUME NEW d \in Nat, NEW fn, NEW prev, NEW id, NEW r
  PROVE  /\ Pairs(AnchorPair(id, d, fn, prev, r))
         /\ \A a \in Int : (d > 0 => Within(a, 2 * d)) =>
              ChainTo(a, AnchorPair(id, d, fn, prev, r), 2 * d + 1)
<1>. DEFINE s == AnchorPair(id, d, fn, prev, r)
            i == (d = 0)
<1>1. IsPair(s, i, TRUE, d)
  BY AnchorPairCodes
<1>2. i \in BOOLEAN /\ (i => d = 0) /\ (~ i => d > 0)
  OBVIOUS
<1>. HIDE DEF s, i
<1>3. Pairs(s)
  BY <1>1, <1>2, PairIsPairs
<1>4. ASSUME NEW a \in Int, d > 0 => Within(a, 2 * d)
      PROVE  ChainTo(a, s, 2 * d + 1)
  <2>1. d \in Int /\ (~ i => Within(a, 2 * d))
    BY <1>2, <1>4
  <2>. QED
    BY <1>1, <1>2, <2>1, PairChain
<1>. QED
  BY <1>3, <1>4 DEF s

\* Non-reference B pairs close behind the anchor.
LEMMA BPairBehind ==
  ASSUME NEW d \in Nat, NEW j \in 1 .. 2, d >= j, NEW id, NEW fn, NEW l0, NEW l1
  PROVE  /\ Pairs(BPair(id, d - j, fn, l0, l1, FALSE))
         /\ Half >= 11 => ChainTo(2 * d + 1, BPair(id, d - j, fn, l0, l1, FALSE), 2 * d + 1)
<1>. DEFINE c == d - j
            s == BPair(id, c, fn, l0, l1, FALSE)
            a == 2 * d + 1
<1>1. c \in Nat /\ a \in Int
  OBVIOUS
<1>2. IsPair(s, FALSE, FALSE, c)
  <2>. HIDE DEF c
  <2>. QED
    BY <1>1, BPairCodes
<1>3. Half >= 11 => Within(a, 2 * c) /\ Within(a, 2 * c + 1)
  BY HalfRange DEF Within
<1>. HIDE DEF s, c, a
<1>4. Pairs(s)
  BY <1>1, <1>2, PairIsPairs
<1>5. ASSUME Half >= 11
      PROVE  ChainTo(a, s, a)
  <2>1. c \in Int /\ Within(a, 2 * c) /\ Within(a, 2 * c + 1)
    BY <1>1, <1>3, <1>5
  <2>. QED
    BY <1>1, <1>2, <2>1, PairPast
<1>. QED
  BY <1>4, <1>5 DEF s, c, a

\* Pairs that follow pairs, with their counts.
LEMMA PairsFollow ==
  ASSUME NEW s, Pairs(s), NEW t, Pairs(t), NEW a \in Int, NEW b \in Int, NEW c \in Int, NEW R,
         R => ChainTo(a, s, b), R => ChainTo(b, t, c)
  PROVE  Pairs(s \o t) /\ (R => ChainTo(a, s \o t, c))
<1>1. IsSeq(s) /\ IsSeq(t)
  BY DEF Pairs
<1>. QED
  BY <1>1, PairsConcat, ChainConcat

\* The anchor and the B pairs it encloses.
LEMMA StrideBCodes ==
  ASSUME cfg.stride \in 2 .. 3, NEW d \in Nat, d >= cfg.stride, NEW fn, NEW prev, NEW a \in Int,
         Half >= 11 => Within(a, 2 * d)
  PROVE  /\ Pairs(StrideB(d, fn, prev))
         /\ Half >= 11 => ChainTo(a, StrideB(d, fn, prev), 2 * d + 1)
<1>. DEFINE B(i) == BPair(coded + 2 * i, d - cfg.stride + i, fn + 1, prev, Pair(coded), FALSE)
            q == [i \in 1 .. cfg.stride - 1 |-> B(i)]
            s == AnchorPair(coded, d, fn + 1, prev, <<>>)
            t == FlattenSeq(q)
            b == 2 * d + 1
            R == Half >= 11
<1>1. StrideB(d, fn, prev) = s \o t
  BY DEF StrideB
<1>2. Pairs(s) /\ (R => ChainTo(a, s, b)) /\ b \in Int
  <2>1. Pairs(s) /\ (Within(a, 2 * d) => ChainTo(a, s, b))
    BY AnchorAlone
  <2>. QED
    BY <2>1
<1>3. ASSUME NEW i \in 1 .. cfg.stride - 1
      PROVE  Pairs(B(i)) /\ (R => ChainTo(b, B(i), b))
  <2>. DEFINE j == cfg.stride - i
              n == coded + 2 * i
  <2>1. j \in 1 .. 2 /\ d >= j /\ d - cfg.stride + i = d - j
    OBVIOUS
  <2>2. B(i) = BPair(n, d - j, fn + 1, prev, Pair(coded), FALSE)
    BY <2>1
  <2>. HIDE DEF j, n, B
  <2>3. /\ Pairs(BPair(n, d - j, fn + 1, prev, Pair(coded), FALSE))
        /\ R => ChainTo(b, BPair(n, d - j, fn + 1, prev, Pair(coded), FALSE), b)
    BY <2>1, BPairBehind
  <2>. QED
    BY <2>2, <2>3
<1>. HIDE DEF B, s, b, R
<1>4. Len(q) = cfg.stride - 1 /\ q[1] = B(1) /\ (cfg.stride = 3 => q[2] = B(2))
  OBVIOUS
<1>. HIDE DEF q
<1>5. t = IF Len(q) = 1 THEN q[1] ELSE q[1] \o q[2]
  <2>1. Len(q) \in 1 .. 2
    BY <1>4
  <2>2. FlattenSeq(q) = IF Len(q) = 1 THEN q[1] ELSE q[1] \o q[2]
    BY <2>1, FlattenOneOrTwo
  <2>. QED
    BY <2>2
<1>. HIDE DEF t
<1>6. Pairs(t) /\ (R => ChainTo(b, t, b))
  <2>1. CASE cfg.stride = 2
    <3>1. t = B(1) /\ 1 \in 1 .. cfg.stride - 1
      BY <1>4, <1>5, <2>1
    <3>. QED
      BY <1>3, <3>1
  <2>2. CASE cfg.stride = 3
    <3>1. t = B(1) \o B(2) /\ 1 \in 1 .. cfg.stride - 1 /\ 2 \in 1 .. cfg.stride - 1
      BY <1>4, <1>5, <2>2
    <3>2. Pairs(B(1)) /\ Pairs(B(2)) /\ (R => ChainTo(b, B(1), b)) /\ (R => ChainTo(b, B(2), b))
      BY <1>3, <3>1
    <3>3. Pairs(B(1) \o B(2)) /\ (R => ChainTo(b, B(1) \o B(2), b))
      BY <1>2, <3>2, PairsFollow
    <3>. QED
      BY <3>1, <3>3
  <2>. QED
    BY <2>1, <2>2
<1>7. Pairs(s \o t) /\ (R => ChainTo(a, s \o t, b))
  BY <1>2, <1>6, PairsFollow
<1>. QED
  BY <1>1, <1>7 DEF b, R

\* The group with a reference B pair.
LEMMA Stride4Codes ==
  ASSUME NEW d \in Nat, d >= 4, NEW fn, NEW prev, NEW a \in Int, Half >= 11 => Within(a, 2 * d)
  PROVE  /\ Pairs(Stride4(d, fn, prev))
         /\ Half >= 11 => ChainTo(a, Stride4(d, fn, prev), 2 * d - 3)
<1>. DEFINE R    == Half >= 11
            s    == AnchorPair(coded, d, fn + 1, prev, AnchorRplm(fn + 1))
            ref  == BPair(coded + 2, d - 2, fn + 2, prev, Pair(coded), TRUE)
            b1   == BPair(coded + 4, d - 3, fn + 2, prev, Pair(coded + 2), FALSE)
            b2   == BPair(coded + 6, d - 1, fn + 2, Pair(coded + 2), Pair(coded), FALSE)
            x    == 2 * d + 1
            c    == d - 2
            y    == 2 * d - 3
<1>1. Stride4(d, fn, prev) = ((s \o ref) \o b1) \o b2
  BY DEF Stride4
<1>2. x \in Int /\ y \in Int /\ c \in Nat /\ y = 2 * c + 1
  OBVIOUS
<1>3. R => Within(x, 2 * c) /\ Within(y, 2 * (d - 3)) /\ Within(y, 2 * (d - 3) + 1)
           /\ Within(y, 2 * (d - 1)) /\ Within(y, 2 * (d - 1) + 1)
  BY HalfRange DEF Within
<1>4. Pairs(s) /\ (R => ChainTo(a, s, x))
  <2>1. Pairs(s) /\ (Within(a, 2 * d) => ChainTo(a, s, x))
    BY AnchorAlone
  <2>. QED
    BY <2>1
<1>5. /\ IsPair(ref, FALSE, TRUE, c)
      /\ IsPair(b1, FALSE, FALSE, d - 3) /\ IsPair(b2, FALSE, FALSE, d - 1)
  <2>1. d - 2 \in Nat /\ d - 3 \in Nat /\ d - 1 \in Nat
    OBVIOUS
  <2>. QED
    BY <2>1, BPairCodes
<1>6. d - 3 \in Nat /\ d - 1 \in Nat
  OBVIOUS
<1>. HIDE DEF s, ref, b1, b2, R, x, y, c
<1>7. Pairs(ref) /\ Pairs(b1) /\ Pairs(b2)
  BY <1>2, <1>5, <1>6, PairIsPairs
<1>8. ASSUME R
      PROVE  ChainTo(x, ref, y)
  <2>1. c \in Int /\ FALSE \in BOOLEAN /\ (~ FALSE => Within(x, 2 * c))
    BY <1>2, <1>3, <1>8
  <2>2. ChainTo(x, ref, 2 * c + 1)
    BY <1>2, <1>5, <2>1, PairChain
  <2>. QED
    BY <1>2, <2>2
<1>9. ASSUME R
      PROVE  ChainTo(y, b1, y) /\ ChainTo(y, b2, y)
  <2>. DEFINE i == d - 3
              j == d - 1
  <2>1. i \in Int /\ j \in Int
    OBVIOUS
  <2>2. Within(y, 2 * i) /\ Within(y, 2 * i + 1) /\ Within(y, 2 * j) /\ Within(y, 2 * j + 1)
    BY <1>3, <1>9
  <2>3. IsPair(b1, FALSE, FALSE, i) /\ IsPair(b2, FALSE, FALSE, j)
    BY <1>5
  <2>. HIDE DEF i, j
  <2>. QED
    BY <1>2, <2>1, <2>2, <2>3, PairPast
<1>10. Pairs(s \o ref) /\ (R => ChainTo(a, s \o ref, y))
  BY <1>2, <1>4, <1>7, <1>8, PairsFollow
<1>11. Pairs((s \o ref) \o b1) /\ (R => ChainTo(a, (s \o ref) \o b1, y))
  BY <1>2, <1>7, <1>9, <1>10, PairsFollow
<1>12. Pairs(((s \o ref) \o b1) \o b2) /\ (R => ChainTo(a, ((s \o ref) \o b1) \o b2, y))
  BY <1>2, <1>7, <1>9, <1>11, PairsFollow
<1>. QED
  BY <1>1, <1>12 DEF R, y

\* encode_paff_b_sequence
LEMMA PaffBCodes ==
  ASSUME cfg \in Driver, cfg.kind = "paff_b", enc.d \in Nat, PaffBGroup
  PROVE  /\ Coding(todo', enc, enc') /\ Separate(todo', enc, enc')
         /\ 22 <= MaxLsb => Ordered(todo', enc, enc')
<1>. DEFINE d == enc.d
            R == Half >= 11
            S == cfg.stride
            s == todo'
<1>0. S \in 2 .. 4 /\ cfg.frames \in Nat \ {0} /\ d \in Nat
  BY DriverTyped
<1>1. d < cfg.frames /\ enc'.d = NextAnchor(d)
  BY DEF PaffBGroup
<1>2. enc'.d \in Nat /\ enc'.d - d \in 1 .. 4
  <2>1. NextAnchor(d) \in Nat /\ NextAnchor(d) - d \in 1 .. S
    BY <1>0, <1>1, NextAnchorNear
  <2>. HIDE DEF d
  <2>. QED
    BY <1>0, <1>1, <2>1
<1>3. \/ d = 0 /\ s = AnchorPair(coded, 0, 0, Pair(0), <<>>)
      \/ d > 0 /\ d % S # 0 /\ s = AnchorPair(coded, d, enc.fn + 1, enc.prev, <<>>)
      \/ d > 0 /\ d % S = 0 /\ S = 4 /\ s = Stride4(d, enc.fn, enc.prev)
      \/ d > 0 /\ d % S = 0 /\ S # 4 /\ s = StrideB(d, enc.fn, enc.prev)
  <2>1. s = CASE d = 0 -> AnchorPair(coded, 0, 0, Pair(0), <<>>)
              [] d > 0 /\ d % S # 0 -> AnchorPair(coded, d, enc.fn + 1, enc.prev, <<>>)
              [] d > 0 /\ d % S = 0 -> IF S = 4 THEN Stride4(d, enc.fn, enc.prev)
                                       ELSE StrideB(d, enc.fn, enc.prev)
    BY DEF PaffBGroup, Code
  <2>. HIDE DEF d, s
  <2>2. CASE d = 0
    BY <2>1, <2>2
  <2>3. CASE d > 0 /\ d % S # 0
    BY <2>1, <2>3
  <2>4. CASE d > 0 /\ d % S = 0
    BY <2>1, <2>4
  <2>. QED
    BY <1>0, <2>2, <2>3, <2>4
<1>4. Within(0, 0) /\ (R => \A a \in Int : 2 * d - a \in 1 .. 11 => Within(a, 2 * d))
  BY <1>0, HalfRange DEF Within
<1>. HIDE DEF d, s, S
<1>5. ASSUME NEW a \in Int, d > 0 /\ R => 2 * d - a \in 1 .. 11
      PROVE  /\ Pairs(s)
             /\ R => ChainTo(a, s, 2 * d + 1) \/ ChainTo(a, s, 2 * d - 3)
  <2>0. d > 0 /\ R => Within(a, 2 * d)
    BY <1>4, <1>5
  <2>1. CASE d = 0 /\ s = AnchorPair(coded, 0, 0, Pair(0), <<>>)
    <3>1. 0 \in Nat /\ ~ (0 > 0) /\ 2 * d + 1 = 2 * 0 + 1
      BY <2>1
    <3>2. Pairs(AnchorPair(coded, 0, 0, Pair(0), <<>>))
          /\ ChainTo(a, AnchorPair(coded, 0, 0, Pair(0), <<>>), 2 * 0 + 1)
      BY <3>1, AnchorAlone
    <3>. QED
      BY <2>1, <3>1, <3>2
  <2>2. CASE d > 0 /\ d % S # 0 /\ s = AnchorPair(coded, d, enc.fn + 1, enc.prev, <<>>)
    <3>1. /\ Pairs(AnchorPair(coded, d, enc.fn + 1, enc.prev, <<>>))
          /\ Within(a, 2 * d) =>
               ChainTo(a, AnchorPair(coded, d, enc.fn + 1, enc.prev, <<>>), 2 * d + 1)
      BY <1>0, AnchorAlone
    <3>. QED
      BY <2>0, <2>2, <3>1
  <2>3. CASE d > 0 /\ d % S = 0 /\ S = 4 /\ s = Stride4(d, enc.fn, enc.prev)
    <3>1. d >= 4
      BY <1>0, <2>3, AtLeastStride
    <3>2. Half >= 11 => Within(a, 2 * d)
      BY <2>0, <2>3
    <3>3. /\ Pairs(Stride4(d, enc.fn, enc.prev))
          /\ Half >= 11 => ChainTo(a, Stride4(d, enc.fn, enc.prev), 2 * d - 3)
      BY <1>0, <3>1, <3>2, Stride4Codes
    <3>. QED
      BY <2>3, <3>3
  <2>4. CASE d > 0 /\ d % S = 0 /\ S # 4 /\ s = StrideB(d, enc.fn, enc.prev)
    <3>1. d >= S
      BY <1>0, <2>4, AtLeastStride
    <3>2. Half >= 11 => Within(a, 2 * d)
      BY <2>0, <2>4
    <3>3. S \in 2 .. 3
      BY <1>0, <2>4
    <3>4. /\ Pairs(StrideB(d, enc.fn, enc.prev))
          /\ Half >= 11 => ChainTo(a, StrideB(d, enc.fn, enc.prev), 2 * d + 1)
      BY <1>0, <3>1, <3>2, <3>3, StrideBCodes DEF S
    <3>. QED
      BY <2>4, <3>4
  <2>. QED
    BY <1>3, <2>1, <2>2, <2>3, <2>4
<1>6. Pairs(s)
  <2>1. 2 * d - 1 \in Int /\ 2 * d - (2 * d - 1) \in 1 .. 11
    BY <1>0
  <2>. QED
    BY <1>5, <2>1
<1>7. Coding(s, enc, enc') /\ Separate(s, enc, enc')
  BY <1>2, <1>6, PairsTurn
<1>8. ASSUME 22 <= MaxLsb
      PROVE  Ordered(s, enc, enc')
  <2>1. R
    BY <1>8, LsbFacts
  <2>. SUFFICES ASSUME NEW a \in Int, LastOrder(a, enc)
       PROVE  \E b \in Int : ChainTo(a, s, b) /\ LastOrder(b, enc')
    BY DEF Ordered
  <2>2. d > 0 => 2 * d - a \in 1 .. 11
    BY DEF LastOrder, d
  <2>. HIDE DEF R
  <2>3. ChainTo(a, s, 2 * d + 1) \/ ChainTo(a, s, 2 * d - 3)
    BY <1>5, <2>1, <2>2
  <2>4. PICK b \in {2 * d + 1, 2 * d - 3} : ChainTo(a, s, b)
    BY <2>3
  <2>5. b \in Int /\ 2 * enc'.d - b \in 1 .. 11
    BY <1>0, <1>2
  <2>6. LastOrder(b, enc')
    BY <2>5 DEF LastOrder
  <2>. QED
    BY <2>4, <2>5, <2>6
<1>. QED
  BY <1>7, <1>8 DEF s
-----------------------------------------------------------------------------
(* Every driver, from turn to turn. *)

Encodes == SessionPush \/ SessionFinish \/ MultirefFrame \/ PaffFrame \/ PaffBGroup \/ SequenceFrame

\* Every driver codes in groups that follow on from each other.
LEMMA DriversCode ==
  ASSUME cfg \in Drivers, EncInv(enc), Encodes
  PROVE  /\ Coding(todo', enc, enc')
         /\ Spaced => Separate(todo', enc, enc')
         /\ Roomy => Ordered(todo', enc, enc')
<1>1. /\ cfg \in Driver /\ cfg.bFrames \in 0 .. 16
      /\ Spaced /\ cfg.kind = "session" => cfg.gop > 1
      /\ Roomy /\ cfg.kind = "session" => 4 * (cfg.bFrames + 1) <= MaxLsb
      /\ Roomy /\ cfg.kind = "paff_b" => 22 <= MaxLsb
  BY EncoderStreamsAssumption, DriverTyped DEF Spaced, Roomy
<1>2. CASE SessionPush \/ SessionFinish
  <2>1. cfg.kind = "session" /\ SessionInv(enc)
    BY <1>2 DEF SessionPush, SessionFinish, EncInv
  <2>2. SessionCodes(todo', enc, enc') /\ SessionInv(enc')
    BY <1>1, <1>2, <2>1, SessionPushes, SessionFinishes
  <2>3. enc.decInGop \in Nat /\ enc.nextRef \in Nat /\ cfg.bFrames \in Nat
    <3>1. enc \in SessionState
      BY <2>1 DEF SessionInv
    <3>2. enc.decInGop \in Nat /\ enc.nextRef \in Nat
      BY <3>1 DEF SessionState
    <3>. QED
      BY <1>1, <3>2
  <2>4. Coding(todo', enc, enc')
    <3>1. IsSeq(todo') /\ \A i \in 1 .. Len(todo') : Written(todo'[i])
      BY <2>2, <2>3, SessionCoding
    <3>2. EncInv(enc')
      BY <2>1, <2>2 DEF EncInv
    <3>. QED
      BY <3>1, <3>2 DEF Coding
  <2>5. ASSUME Spaced
        PROVE  Separate(todo', enc, enc')
    BY <1>1, <2>1, <2>2, <2>3, <2>5, SessionSeparate
  <2>6. ASSUME Roomy
        PROVE  Ordered(todo', enc, enc')
    BY <1>1, <2>1, <2>2, <2>3, <2>6, SessionOrdered
  <2>. QED
    BY <2>4, <2>5, <2>6
<1>3. CASE MultirefFrame
  <2>1. cfg.kind = "multiref" /\ enc.k \in Nat
    BY <1>3 DEF MultirefFrame, EncInv
  <2>. QED
    BY <1>3, <2>1, MultirefCodes
<1>4. CASE PaffFrame
  <2>1. cfg.kind = "paff" /\ enc.k \in Nat
    BY <1>4 DEF PaffFrame, EncInv
  <2>. QED
    BY <1>4, <2>1, PaffCodes
<1>5. CASE PaffBGroup
  <2>1. cfg.kind = "paff_b" /\ enc.d \in Nat
    BY <1>5 DEF PaffBGroup, EncInv
  <2>. QED
    BY <1>1, <1>5, <2>1, PaffBCodes
<1>6. CASE SequenceFrame
  <2>1. cfg.kind = "sequence" /\ enc.k \in Nat
    BY <1>6 DEF SequenceFrame, EncInv
  <2>. QED
    BY <1>6, <2>1, SequenceCodes
<1>. QED
  BY <1>2, <1>3, <1>4, <1>5, <1>6 DEF Encodes

\* A turn of a driver, and where it starts.
LEMMA EncodeTurns ==
  ASSUME Encode
  PROVE  Encodes /\ cfg' = cfg /\ todo = <<>> /\ UNCHANGED <<decoded, marking, output>>
<1>1. Encodes /\ UNCHANGED <<decoded, marking, output>>
  BY DEF Encode, Encodes
<1>2. cfg' = cfg /\ todo = <<>>
  <2>1. CASE SessionPush
    BY <2>1 DEF SessionPush, Code
  <2>2. CASE SessionFinish
    BY <2>2 DEF SessionFinish, Code
  <2>3. CASE MultirefFrame
    BY <2>3 DEF MultirefFrame, Code
  <2>4. CASE PaffFrame
    BY <2>4 DEF PaffFrame, Code
  <2>5. CASE PaffBGroup
    BY <2>5 DEF PaffBGroup, Code
  <2>6. CASE SequenceFrame
    BY <2>6 DEF SequenceFrame, Code
  <2>. QED
    BY <1>1, <2>1, <2>2, <2>3, <2>4, <2>5, <2>6 DEF Encodes
<1>. QED
  BY <1>1, <1>2

\* Before the first turn.
LEMMA EncoderStarts ==
  ASSUME EncoderInit
  PROVE  EncInv(enc) /\ cfg \in Drivers /\ todo = <<>>
<1>1. cfg \in Drivers /\ todo = <<>> /\ cfg.bFrames \in Nat /\ cfg.gop \in Nat \ {0}
  <2>1. cfg \in Drivers /\ todo = <<>>
    BY DEF EncoderInit
  <2>2. cfg \in Driver
    BY <2>1, EncoderStreamsAssumption
  <2>3. cfg.bFrames \in 0 .. 16 /\ cfg.gop \in Nat \ {0}
    BY <2>2, DriverTyped
  <2>. QED
    BY <2>1, <2>3
<1>2. cfg.kind = "session" => SessionInv(enc)
  <2>. SUFFICES ASSUME cfg.kind = "session"
       PROVE  SessionInv(enc)
    OBVIOUS
  <2>1. enc = [idx |-> 0, pending |-> <<>>, gopStart |-> 0, decInGop |-> 0, nextRef |-> 0,
               prev |-> None, id |-> 0]
    BY DEF EncoderInit
  <2>2. enc \in SessionState
    BY <2>1 DEF SessionState, None
  <2>3. Waits(enc, Len(enc.pending), enc.idx)
    BY <2>1 DEF Waits
  <2>4. 0 % cfg.gop = 0
    BY <1>1, ModSmall
  <2>. QED
    BY <1>1, <2>1, <2>2, <2>3, <2>4 DEF SessionInv
<1>3. cfg.kind \in {"multiref", "paff", "sequence"} => enc.k \in Nat
  BY DEF EncoderInit
<1>4. cfg.kind = "paff_b" => enc.d \in Nat
  BY DEF EncoderInit
<1>. QED
  BY <1>1, <1>2, <1>3, <1>4 DEF EncInv

\* What is said of the driver, when its variables keep their values.
LEMMA EncSame ==
  ASSUME cfg' = cfg
  PROVE  /\ EncInv(enc)' = EncInv(enc')
         /\ \A p : Written(p)' = Written(p)
BY DEF EncInv, SessionInv, Waits, SessionState, Written, Looks
-----------------------------------------------------------------------------
(* The steps of the decoder. *)

\* A slice is sent.
Sends ==
  /\ todo # <<>>
  /\ UNCHANGED <<cfg, enc, coded>>
  /\ SliceSent

\* Nothing is sent.
Stays == UNCHANGED <<encoder, sent, head, got, counts, pocState>>

\* OpenPicture: the decoder finds no gap in frame_num.
LEMMA OpenOpens ==
  ASSUME OpenPicture
  PROVE  /\ Sends /\ ~ Redundant /\ phase = "idle" /\ phase' = "open"
         /\ head' = Coming /\ got' = {<<Coming.id, Slice[1]>>}
         /\ counts' = Derived(Coming).counts /\ pocState' = Derived(Coming).st
BY DEF OpenPicture, Sends, D!OpenPicture, D!NeedsGapFill

\* NextSlice.
LEMMA NextSends ==
  ASSUME NextSlice
  PROVE  /\ Sends /\ ~ Redundant /\ ~ StartsNewPicture(Coming)
         /\ phase = "open" /\ phase' = phase /\ known' = known /\ head' = head
         /\ got' = got \cup {<<Coming.id, Slice[1]>>}
         /\ counts' = counts /\ pocState' = pocState
BY DEF NextSlice, Sends, marking

\* SkipRedundant.
LEMMA SkipSends ==
  ASSUME SkipRedundant
  PROVE  /\ Sends /\ Redundant /\ phase' = phase /\ known' = known /\ head' = head /\ got' = got
         /\ counts' = counts /\ pocState' = pocState
BY DEF SkipRedundant, Sends, marking

\* Every other step leaves the stream alone, and a picture is finalized only when it has ended.
LEMMA OtherStays ==
  ASSUME Next \/ UNCHANGED vars
  PROVE  \/ Encode
         \/ OpenPicture \/ NextSlice \/ SkipRedundant
         \/ /\ Stays /\ phase' \in {"idle", "mmco"}
            /\ phase = "mmco" \/ (phase = "open" /\ Ended)
         \/ Stays /\ phase' = phase /\ known' = known
<1>1. CASE Finalize
  <2>1. Stays /\ phase = "open" /\ Ended
    BY <1>1 DEF Finalize, Finished, Stays
  <2>2. phase' = "idle"
    <3>1. CASE D(1)!FinalizeNonReference
      BY <3>1 DEF D!FinalizeNonReference, D!Close
    <3>2. CASE D(1)!FinalizeIdr
      BY <3>2 DEF D!FinalizeIdr, D!StoreCurrent, D!Close
    <3>3. CASE \E refs \in {d.refs : d \in Drivers} :
                 refs = cfg.refs /\ D(refs)!FinalizeSlidingWindow
      BY <3>3 DEF D!FinalizeSlidingWindow, D!StoreCurrent, D!Close
    <3>. QED
      BY <1>1, <3>1, <3>2, <3>3 DEF Finalize
  <2>. QED
    BY <2>1, <2>2
<1>2. CASE BeginMarking
  BY <1>2 DEF BeginMarking, D!BeginAdaptiveMarking, Stays
<1>3. CASE ApplyMmco
  <2>1. Stays /\ known' = known
    BY <1>3 DEF ApplyMmco, Stays
  <2>2. phase' = phase
    BY <1>3 DEF ApplyMmco, D!Mmco1, D!Mmco2, D!Mmco3, D!Mmco4, D!Mmco6, D!MarkingStep
  <2>. QED
    BY <2>1, <2>2
<1>4. CASE EndMarking
  BY <1>4 DEF EndMarking, Finished, Stays, D!EndAdaptiveMarking, D!StoreCurrent, D!Close
<1>5. CASE OutputStep \/ Flush \/ UNCHANGED vars
  BY <1>5 DEF OutputStep, Flush, vars, Stays, decoded, marking
<1>. QED
  BY <1>1, <1>2, <1>3, <1>4, <1>5 DEF Next
-----------------------------------------------------------------------------
(* No picture is late. *)

\* What waits to be sent is what the drivers code.
Coded(s) == IsSeq(s) /\ \A i \in 1 .. Len(s) : Written(s[i])

CodesInv ==
  /\ cfg \in Drivers
  /\ EncInv(enc)
  /\ Coded(todo)

\* The first of the pictures to send, and the others.
LEMMA CodedTail ==
  ASSUME NEW s, Coded(s), s # <<>>
  PROVE  Coded(Tail(s)) /\ Written(s[1]) /\ Head(s) = s[1] /\ Len(s) \in Nat \ {0}
<1>. DEFINE n == Len(s)
<1>1. IsSeq(s) /\ n \in Nat
  BY DEF Coded, IsSeq
<1>2. /\ IsSeq(Tail(s)) /\ Len(Tail(s)) = n - 1 /\ Head(s) = s[1] /\ n > 0
      /\ \A i \in 1 .. n - 1 : Tail(s)[i] = s[i + 1]
  BY <1>1, TailIs
<1>3. \A i \in 1 .. n - 1 : i + 1 \in 1 .. n
  BY <1>1
<1>4. \A i \in 1 .. n : Written(s[i])
  BY DEF Coded
<1>. HIDE DEF n
<1>5. \A i \in 1 .. n - 1 : Written(Tail(s)[i])
  BY <1>2, <1>3, <1>4
<1>6. Coded(Tail(s))
  BY <1>2, <1>5 DEF Coded
<1>. QED
  BY <1>1, <1>2, <1>4, <1>6 DEF n

\* Nothing waits at first.
LEMMA CodesInit == Init => CodesInv
<1>. SUFFICES ASSUME Init PROVE CodesInv
  OBVIOUS
<1>1. EncInv(enc) /\ cfg \in Drivers /\ todo = <<>>
  BY EncoderStarts DEF Init
<1>2. Coded(<<>>)
  BY DEF Coded, IsSeq
<1>. QED
  BY <1>1, <1>2 DEF CodesInv

\* Every step leaves coded pictures to send.
LEMMA CodesNext == CodesInv /\ [Next]_vars => CodesInv'
<1>. SUFFICES ASSUME CodesInv, Next \/ UNCHANGED vars
     PROVE  CodesInv'
  OBVIOUS
<1>1. ASSUME cfg' = cfg, EncInv(enc'), Coded(todo')
      PROVE  CodesInv'
  <2>1. EncInv(enc)'
    BY <1>1, EncSame
  <2>2. Coded(todo)'
    BY <1>1, EncSame DEF Coded, IsSeq
  <2>. QED
    BY <1>1, <2>1, <2>2 DEF CodesInv
<1>2. CASE Encode
  <2>1. Coding(todo', enc, enc') /\ cfg' = cfg
    BY <1>2, EncodeTurns, DriversCode DEF CodesInv
  <2>. QED
    BY <1>1, <2>1 DEF Coding, Coded
<1>3. ASSUME UNCHANGED <<cfg, enc>>, todo' = todo \/ (todo # <<>> /\ todo' = Tail(todo))
      PROVE  CodesInv'
  <2>1. Coded(todo')
    BY <1>3, CodedTail DEF CodesInv
  <2>. QED
    BY <1>1, <1>3, <2>1 DEF CodesInv
<1>4. CASE OpenPicture \/ NextSlice \/ SkipRedundant
  <2>1. Sends
    BY <1>4, OpenOpens, NextSends, SkipSends
  <2>. QED
    BY <1>3, <2>1 DEF Sends, SliceSent
<1>5. CASE Stays
  BY <1>3, <1>5 DEF Stays, encoder
<1>. QED
  BY <1>2, <1>4, <1>5, OtherStays

\* No picture of any driver has to be put out before it is removed from the
\* coded picture buffer, in truncated mini-GOPs too (debug_assert in encode_au).
THEOREM NoPictureLateCorrect == Spec => []NoPictureLate
<1>1. Init => CodesInv
  BY CodesInit
<1>2. CodesInv /\ [Next]_vars => CodesInv'
  BY CodesNext
<1>3. CodesInv => NoPictureLate
  <2>. SUFFICES ASSUME CodesInv, NEW i \in DOMAIN todo
       PROVE  todo[i].delay >= 0
    BY DEF NoPictureLate
  <2>1. IsSeq(todo) /\ \A j \in 1 .. Len(todo) : Written(todo[j])
    BY DEF CodesInv, Coded
  <2>2. DOMAIN todo = 1 .. Len(todo)
    BY <2>1 DEF IsSeq
  <2>. QED
    BY <2>1, <2>2 DEF Written
<1>. QED
  BY <1>1, <1>2, <1>3, PTL DEF Spec
-----------------------------------------------------------------------------
(* Coded pictures are told apart. *)

\* The primary slices among the first n of a picture.
Own(p, n) == {<<p.id, p.slices[i][1]>> : i \in {j \in 1 .. n : ~ p.slices[j][2]}}

\* How many of head's slices have been sent: all, or some with more to come.
HeadSent == IF sent = 0 THEN Len(head.slices) ELSE sent

SendInv ==
  /\ sent \in Nat
  /\ phase \in {"idle", "open", "mmco"}
  /\ sent > 0 => phase = "open" /\ todo # <<>> /\ head = todo[1] /\ sent < Len(todo[1].slices)

ApartInv ==
  /\ \A i \in 1 .. Len(todo) - 1 : Boundary(todo[i], todo[i + 1])
  /\ todo # <<>> => LastOne(todo[Len(todo)], enc)
  /\ phase = "open" /\ sent = 0 =>
       IF todo = <<>> THEN LastOne(head, enc) ELSE Boundary(head, todo[1])

GotInv ==
  /\ Written(head)
  /\ got = {} \/ got = Own(head, HeadSent)
  /\ phase # "idle" \/ known # <<>> => got = Own(head, HeadSent)

KeptApart == CodesInv /\ SendInv /\ ApartInv /\ GotInv

\* A sequence of length 0.
LEMMA EmptyIs ==
  ASSUME NEW s, IsSeq(s)
  PROVE  Len(s) = 0 <=> s = <<>>
<1>. DEFINE S == {s[i] : i \in 1 .. Len(s)}
<1>1. s \in Seq(S)
  BY SeqIn
<1>. HIDE DEF S
<1>. QED
  BY <1>1

\* A picture has slices, and its first one is primary.
LEMMA SlicesWritten ==
  ASSUME cfg \in Drivers, NEW p, Written(p)
  PROVE  /\ Len(p.slices) \in Nat \ {0} /\ ~ p.slices[1][2]
         /\ DOMAIN p.slices = 1 .. Len(p.slices)
<1>1. CASE p.slices = <<<<0, FALSE>>>>
  BY <1>1
<1>2. CASE p.slices = cfg.slices
  <2>1. cfg.slices \in Seq(Nat \X BOOLEAN) /\ cfg.slices # <<>> /\ ~ cfg.slices[1][2]
    BY EncoderStreamsAssumption DEF Driver
  <2>. DEFINE s == cfg.slices
  <2>. HIDE DEF s
  <2>2. Len(s) \in Nat /\ DOMAIN s = 1 .. Len(s) /\ Len(s) # 0
    BY <2>1 DEF s
  <2>. QED
    BY <1>2, <2>1, <2>2 DEF s
<1>. QED
  BY <1>1, <1>2 DEF Written

\* One more slice.
LEMMA OwnNext ==
  ASSUME NEW p, NEW n \in Nat
  PROVE  /\ Own(p, 0) = {}
         /\ p.slices[n + 1][2] => Own(p, n + 1) = Own(p, n)
         /\ ~ p.slices[n + 1][2] => Own(p, n + 1) = Own(p, n) \cup {<<p.id, p.slices[n + 1][1]>>}
<1>1. 1 .. n + 1 = (1 .. n) \cup {n + 1}
  OBVIOUS
<1>2. 1 .. 0 = {}
  OBVIOUS
<1>. QED
  BY <1>1, <1>2, Zenon DEF Own

\* What sending a slice does to the picture it belongs to.
LEMMA Sending ==
  ASSUME CodesInv, SendInv, Sends, head' = Coming
  PROVE  /\ HeadSent' = sent + 1 /\ sent' \in Nat
         /\ sent' > 0 => todo' = todo /\ sent' < Len(todo[1].slices)
         /\ sent' = 0 => todo' = Tail(todo)
         /\ Coming = todo[1] /\ Written(todo[1])
<1>. DEFINE p == todo[1]
            n == Len(p.slices)
<1>1. Coming = p /\ Written(p) /\ todo # <<>>
  BY CodedTail DEF Sends, CodesInv, Coming
<1>2. n \in Nat \ {0}
  BY <1>1, SlicesWritten DEF CodesInv
<1>3. sent \in Nat /\ sent < n
  BY <1>2 DEF SendInv
<1>4. \/ sent + 1 = n /\ sent' = 0 /\ todo' = Tail(todo)
      \/ sent + 1 # n /\ sent' = sent + 1 /\ todo' = todo
  BY <1>1 DEF Sends, SliceSent
<1>5. HeadSent' = IF sent' = 0 THEN n ELSE sent'
  BY <1>1 DEF HeadSent
<1>. HIDE DEF p, n
<1>6. HeadSent' = sent + 1 /\ sent' \in Nat /\ (sent' > 0 => todo' = todo /\ sent' < n)
      /\ (sent' = 0 => todo' = Tail(todo))
  <2>1. CASE sent + 1 = n /\ sent' = 0 /\ todo' = Tail(todo)
    BY <1>2, <1>3, <1>5, <2>1
  <2>2. CASE sent + 1 # n /\ sent' = sent + 1 /\ todo' = todo
    <3>1. sent' \in Nat /\ sent' # 0 /\ sent' < n
      BY <1>2, <1>3, <2>2
    <3>. QED
      BY <1>5, <2>2, <3>1
  <2>. QED
    BY <1>4, <2>1, <2>2
<1>. QED
  BY <1>1, <1>6 DEF p, n

\* What is said of the last picture, when the configuration keeps its value.
LEMMA LastSame ==
  ASSUME cfg' = cfg
  PROVE  /\ LastOne(head, enc)' = LastOne(head', enc')
         /\ LastOne(todo[Len(todo)], enc)' = LastOne(todo'[Len(todo')], enc')
         /\ \A h, p : Boundary(h, p)' = Boundary(h, p)
BY DEF LastOne, Boundary

\* The next picture to send differs from the one just sent.
LEMMA SendingApart ==
  ASSUME CodesInv, SendInv, ApartInv, Sends, head' = Coming, phase' = "open"
  PROVE  ApartInv'
<1>. DEFINE n == Len(todo)
            t == Tail(todo)
<1>1. /\ sent' \in Nat
      /\ sent' > 0 => todo' = todo
      /\ sent' = 0 => todo' = t
      /\ head' = todo[1] /\ cfg' = cfg /\ enc' = enc /\ todo # <<>>
  BY Sending DEF Sends
<1>2. CASE sent' > 0
  <2>1. sent' # 0 /\ todo' = todo
    BY <1>1, <1>2
  <2>. QED
    BY <1>1, <2>1 DEF ApartInv, LastOne, Boundary
<1>3. CASE sent' = 0
  <2>0. IsSeq(todo)
    BY DEF CodesInv, Coded
  <2>1. /\ IsSeq(t) /\ Len(t) = n - 1 /\ n \in Nat \ {0}
        /\ \A i \in 1 .. n - 1 : t[i] = todo[i + 1]
    BY <1>1, <2>0, TailIs DEF IsSeq
  <2>2. t = <<>> <=> n = 1
    <3>1. t = <<>> <=> Len(t) = 0
      BY <2>1, EmptyIs
    <3>. QED
      BY <2>1, <3>1
  <2>3. /\ \A i \in 1 .. n - 1 : Boundary(todo[i], todo[i + 1])
        /\ LastOne(todo[n], enc)
    BY <1>1 DEF ApartInv
  <2>. HIDE DEF n, t
  <2>4. \A i \in 1 .. Len(t) - 1 : Boundary(t[i], t[i + 1])
    <3>. SUFFICES ASSUME NEW i \in 1 .. Len(t) - 1
         PROVE  Boundary(t[i], t[i + 1])
      OBVIOUS
    <3>1. i \in 1 .. n - 1 /\ i + 1 \in 1 .. n - 1
      BY <2>1
    <3>. QED
      BY <2>1, <2>3, <3>1
  <2>5. t # <<>> => LastOne(t[Len(t)], enc)
    <3>. SUFFICES ASSUME t # <<>>
         PROVE  LastOne(t[Len(t)], enc)
      OBVIOUS
    <3>1. n - 1 \in 1 .. n - 1 /\ (n - 1) + 1 = n
      BY <2>1, <2>2
    <3>. QED
      BY <2>1, <2>3, <3>1
  <2>6. IF t = <<>> THEN LastOne(todo[1], enc) ELSE Boundary(todo[1], t[1])
    <3>1. CASE t = <<>>
      BY <2>2, <2>3, <3>1
    <3>2. CASE t # <<>>
      <4>1. 1 \in 1 .. n - 1
        BY <2>1, <2>2, <3>2
      <4>. QED
        BY <2>1, <2>3, <3>2, <4>1
    <3>. QED
      BY <3>1, <3>2
  <2>7. todo' = t /\ head' = todo[1] /\ enc' = enc /\ cfg' = cfg
    BY <1>1, <1>3
  <2>. QED
    BY <2>4, <2>5, <2>6, <2>7 DEF ApartInv, LastOne, Boundary
<1>. QED
  BY <1>1, <1>2, <1>3
\* The slices sent so far are those assembled.
LEMMA KeptInit == Init => KeptApart
<1>. SUFFICES ASSUME Init PROVE KeptApart
  OBVIOUS
<1>1. CodesInv /\ todo = <<>>
  BY CodesInit, EncoderStarts DEF Init
<1>2. sent = 0 /\ head = Blank /\ got = {} /\ phase = "idle" /\ known = [k \in {} |-> 0]
  BY DEF Init, D!Init
<1>3. SendInv
  BY <1>2 DEF SendInv
<1>4. ApartInv
  BY <1>1, <1>2 DEF ApartInv
<1>5. Written(head)
  <2>1. 0 % MaxFrameNum = 0 /\ 0 % MaxLsb = 0
    BY EncoderStreamsAssumption, ModSmall
  <2>2. Looks(Blank, FALSE, TRUE, "frame", 0, 0)
    BY <2>1 DEF Looks, Blank
  <2>3. Blank.delay = 0 /\ Blank.slices = <<<<0, FALSE>>>>
    BY DEF Blank
  <2>4. Timely(Blank) /\ FALSE \in BOOLEAN /\ TRUE \in BOOLEAN /\ 0 \in Nat
        /\ "frame" \in {"frame", "top", "bottom"}
    BY <2>3 DEF Timely
  <2>5. Written(Blank)
    BY <2>2, <2>4, WrittenOne
  <2>. QED
    BY <1>2, <2>5
<1>6. known = <<>>
  BY <1>2
<1>. QED
  BY <1>1, <1>2, <1>3, <1>4, <1>5, <1>6 DEF KeptApart, GotInv

\* A slice of the picture it belongs to.
LEMMA SendingKeeps ==
  ASSUME KeptApart, CodesInv', Sends, head' = Coming, phase' = "open",
         \/ sent = 0 /\ ~ Redundant /\ got' = {<<Coming.id, Slice[1]>>}
         \/ sent > 0 /\ ~ Redundant /\ got' = got \cup {<<Coming.id, Slice[1]>>}
         \/ sent > 0 /\ Redundant /\ got' = got
  PROVE  KeptApart'
<1>. DEFINE p == todo[1]
            sl == p.slices[sent + 1]
<1>1. /\ HeadSent' = sent + 1 /\ sent' \in Nat
      /\ sent' > 0 => todo' = todo /\ sent' < Len(todo[1].slices)
      /\ Coming = p /\ Written(p) /\ cfg \in Drivers /\ cfg' = cfg
  BY Sending DEF KeptApart, CodesInv, Sends
<1>2. ApartInv'
  BY SendingApart DEF KeptApart
<1>3. SendInv'
  BY <1>1 DEF SendInv, Sends
<1>4. sent \in Nat /\ (sent > 0 => phase = "open" /\ head = p)
  BY DEF KeptApart, SendInv
<1>5. sent > 0 => got = Own(p, sent)
  BY <1>4 DEF KeptApart, GotInv, HeadSent
<1>6. Slice = sl /\ Redundant = sl[2]
  BY <1>1 DEF Slice, Redundant
<1>. HIDE DEF p
<1>7. got' = Own(p, sent + 1)
  <2>1. Own(p, 0) = {} /\ (sl[2] => Own(p, sent + 1) = Own(p, sent))
        /\ (~ sl[2] => Own(p, sent + 1) = Own(p, sent) \cup {<<p.id, sl[1]>>})
    BY <1>4, OwnNext
  <2>. HIDE DEF sl
  <2>2. CASE sent = 0
    <3>1. ~ sl[2] /\ got' = {<<p.id, sl[1]>>} /\ Own(p, sent) = {}
      BY <1>1, <1>6, <2>1, <2>2
    <3>. QED
      BY <2>1, <3>1
  <2>3. CASE sent > 0 /\ ~ Redundant
    BY <1>1, <1>5, <1>6, <2>1, <2>3
  <2>4. CASE sent > 0 /\ Redundant
    BY <1>1, <1>5, <1>6, <2>1, <2>4
  <2>. QED
    BY <1>4, <2>2, <2>3, <2>4
<1>8. Own(head, HeadSent)' = Own(p, sent + 1) /\ Written(head)'
  <2>1. head' = p
    BY <1>1
  <2>. HIDE DEF sl
  <2>2. Own(head, HeadSent)' = Own(head', HeadSent')
    BY DEF Own
  <2>3. Written(head)' = Written(head')
    BY <1>1 DEF Written, Looks
  <2>. QED
    BY <1>1, <2>1, <2>2, <2>3
<1>9. GotInv'
  BY <1>7, <1>8 DEF GotInv
<1>. QED
  BY <1>2, <1>3, <1>9 DEF KeptApart

\* The decoder's view kept.
LEMMA KeptStays ==
  ASSUME KeptApart, CodesInv', Stays,
         \/ phase' \in {"idle", "mmco"} /\ (phase = "mmco" \/ (phase = "open" /\ Ended))
         \/ phase' = phase /\ known' = known
  PROVE  KeptApart'
<1>1. /\ cfg' = cfg /\ enc' = enc /\ todo' = todo /\ sent' = sent /\ head' = head /\ got' = got
  BY DEF Stays, encoder
<1>2. Own(head, HeadSent)' = Own(head, HeadSent) /\ Written(head)' = Written(head)
      /\ LastOne(head, enc)' = LastOne(head, enc)
  BY <1>1 DEF Own, HeadSent, Written, Looks, LastOne
<1>3. ASSUME phase' = phase, known' = known
      PROVE  KeptApart'
  <2>1. SendInv'
    BY <1>1, <1>3 DEF KeptApart, SendInv
  <2>2. ApartInv'
    BY <1>1, <1>3 DEF KeptApart, ApartInv, Boundary, LastOne
  <2>3. GotInv'
    BY <1>1, <1>2, <1>3 DEF KeptApart, GotInv
  <2>. QED
    BY <2>1, <2>2, <2>3 DEF KeptApart
<1>4. ASSUME phase' \in {"idle", "mmco"}, phase = "mmco" \/ (phase = "open" /\ Ended)
      PROVE  KeptApart'
  <2>1. sent = 0
    <3>. SUFFICES ASSUME sent > 0 PROVE FALSE
      BY DEF KeptApart, SendInv
    <3>1. phase = "open" /\ todo # <<>> /\ head = todo[1]
      BY DEF KeptApart, SendInv
    <3>2. Coming = head
      BY <3>1, CodedTail DEF KeptApart, CodesInv, Coming
    <3>3. StartsNewPicture(Coming) \/ EncoderDone
      BY <1>4, <3>1 DEF Ended
    <3>. QED
      BY <3>1, <3>2, <3>3 DEF StartsNewPicture, EncoderDone
  <2>2. SendInv'
    BY <1>1, <1>4, <2>1 DEF KeptApart, SendInv
  <2>3. ApartInv'
    BY <1>1, <1>4 DEF KeptApart, ApartInv, Boundary, LastOne
  <2>4. GotInv'
    BY <1>1, <1>2, <1>4 DEF KeptApart, GotInv
  <2>. QED
    BY <2>2, <2>3, <2>4 DEF KeptApart
<1>. QED
  BY <1>3, <1>4

\* A turn of the driver.
LEMMA KeptEncodes ==
  ASSUME Spaced, KeptApart, CodesInv', Encode
  PROVE  KeptApart'
<1>1. /\ Encodes /\ cfg' = cfg /\ todo = <<>>
      /\ phase' = phase /\ known' = known /\ sent' = sent /\ head' = head /\ got' = got
  BY EncodeTurns DEF decoded, marking
<1>2. Separate(todo', enc, enc') /\ Coding(todo', enc, enc')
  BY <1>1, DriversCode DEF KeptApart, CodesInv
<1>3. sent = 0
  BY <1>1 DEF KeptApart, SendInv
<1>4. SendInv'
  BY <1>1, <1>3 DEF KeptApart, SendInv
<1>5. GotInv'
  BY <1>1 DEF KeptApart, GotInv, Own, HeadSent, Written, Looks
<1>6. ApartInv'
  <2>. DEFINE s == todo'
  <2>1. IsSeq(s)
    BY <1>2 DEF Coding
  <2>2. Len(s) \in Nat /\ (Len(s) = 0 <=> s = <<>>)
    BY <2>1, EmptyIs DEF IsSeq
  <2>3. /\ \A i \in 1 .. Len(s) - 1 : Boundary(s[i], s[i + 1])
        /\ s # <<>> => LastOne(s[Len(s)], enc') /\ \A h : LastOne(h, enc) => Boundary(h, s[1])
        /\ s = <<>> => \A h : LastOne(h, enc) => LastOne(h, enc')
    BY <1>2, <2>2 DEF Separate
  <2>4. phase = "open" => LastOne(head, enc)
    BY <1>1, <1>3 DEF KeptApart, ApartInv
  <2>5. phase = "open" => IF s = <<>> THEN LastOne(head, enc') ELSE Boundary(head, s[1])
    BY <2>3, <2>4
  <2>. QED
    BY <1>1, <2>3, <2>5 DEF ApartInv, Boundary, LastOne
<1>. QED
  BY <1>4, <1>5, <1>6 DEF KeptApart

\* Another slice, and a redundant one, are of the picture being sent.
LEMMA NextBelongs ==
  ASSUME KeptApart, Sends, phase = "open", ~ StartsNewPicture(Coming)
  PROVE  sent > 0 /\ head = Coming
<1>1. CodesInv /\ SendInv
  BY DEF KeptApart
<1>2. todo # <<>> /\ Coming = todo[1]
  BY <1>1, CodedTail DEF Sends, CodesInv, Coming
<1>3. sent > 0
  <2>. SUFFICES ASSUME sent = 0 PROVE FALSE
    BY <1>1 DEF SendInv
  <2>1. Boundary(head, Coming)
    BY <1>2 DEF KeptApart, ApartInv
  <2>. QED
    BY <2>1 DEF Boundary, StartsNewPicture
<1>. QED
  BY <1>1, <1>2, <1>3 DEF SendInv

\* A redundant slice belongs to the picture in progress.
LEMMA RedundantBelongs ==
  ASSUME KeptApart, Sends, Redundant
  PROVE  sent > 0 /\ head = Coming /\ phase = "open"
<1>1. CodesInv /\ SendInv
  BY DEF KeptApart
<1>2. todo # <<>> /\ Coming = todo[1] /\ Written(todo[1])
  BY <1>1, CodedTail DEF Sends, CodesInv, Coming
<1>3. sent > 0
  <2>. SUFFICES ASSUME sent = 0 PROVE FALSE
    BY <1>1 DEF SendInv
  <2>1. ~ todo[1].slices[1][2]
    BY <1>1, <1>2, SlicesWritten DEF CodesInv
  <2>. QED
    BY <1>2, <2>1 DEF Redundant, Slice
<1>. QED
  BY <1>1, <1>2, <1>3 DEF SendInv

\* Every step keeps the pictures apart.
LEMMA KeptNext == Spaced /\ KeptApart /\ [Next]_vars => KeptApart'
<1>. SUFFICES ASSUME Spaced, KeptApart, Next \/ UNCHANGED vars
     PROVE  KeptApart'
  OBVIOUS
<1>0. CodesInv'
  BY CodesNext DEF KeptApart
<1>a. CodesInv /\ SendInv
  BY DEF KeptApart
<1>1. CASE Encode
  BY <1>0, <1>1, KeptEncodes
<1>2. CASE OpenPicture
  <2>1. /\ Sends /\ ~ Redundant /\ phase = "idle" /\ phase' = "open"
        /\ head' = Coming /\ got' = {<<Coming.id, Slice[1]>>}
    BY <1>2, OpenOpens
  <2>2. sent = 0
    BY <1>a, <2>1 DEF SendInv
  <2>. QED
    BY <1>0, <2>1, <2>2, SendingKeeps
<1>3. CASE NextSlice
  <2>1. /\ Sends /\ ~ Redundant /\ ~ StartsNewPicture(Coming)
        /\ phase = "open" /\ phase' = phase /\ head' = head
        /\ got' = got \cup {<<Coming.id, Slice[1]>>}
    BY <1>3, NextSends
  <2>2. sent > 0 /\ head = Coming
    BY <2>1, NextBelongs
  <2>. QED
    BY <1>0, <2>1, <2>2, SendingKeeps
<1>4. CASE SkipRedundant
  <2>1. Sends /\ Redundant /\ phase' = phase /\ head' = head /\ got' = got
    BY <1>4, SkipSends
  <2>2. sent > 0 /\ head = Coming /\ phase = "open"
    BY <2>1, RedundantBelongs
  <2>. QED
    BY <1>0, <2>1, <2>2, SendingKeeps
<1>5. CASE Stays /\ phase' \in {"idle", "mmco"} /\ (phase = "mmco" \/ (phase = "open" /\ Ended))
  BY <1>0, <1>5, KeptStays
<1>6. CASE Stays /\ phase' = phase /\ known' = known
  BY <1>0, <1>6, KeptStays
<1>. QED
  BY <1>1, <1>2, <1>3, <1>4, <1>5, <1>6, OtherStays

\* A decoded picture is made of all slices of one coded picture and of nothing
\* else: every boundary between two pictures is found by the slice headers, when
\* sessions code pictures between their IDR pictures.
THEOREM PicturesKeptApartCorrect ==
  ASSUME Spaced
  PROVE  Spec => []PicturesKeptApart
<1>1. Init => KeptApart
  BY KeptInit
<1>2. KeptApart /\ [Next]_vars => KeptApart'
  BY KeptNext
<1>3. KeptApart => PicturesKeptApart
  <2>. SUFFICES ASSUME KeptApart
       PROVE  PicturesKeptApart
    OBVIOUS
  <2>. DEFINE n == Len(head.slices)
              own == {<<head.id, s[1]>> : s \in {t \in ToSet(head.slices) : ~ t[2]}}
  <2>1. Written(head) /\ cfg \in Drivers
    BY DEF KeptApart, GotInv, CodesInv
  <2>2. n \in Nat \ {0} /\ DOMAIN head.slices = 1 .. n
    BY <2>1, SlicesWritten
  <2>3. own = Own(head, n)
    BY <2>2, Zenon DEF Own, ToSet
  <2>4. HeadSent \in 0 .. n /\ (phase = "idle" => HeadSent = n)
    BY <2>2 DEF KeptApart, SendInv, HeadSent
  <2>. HIDE DEF n, own
  <2>5. Own(head, HeadSent) \subseteq Own(head, n)
    <3>1. 1 .. HeadSent \subseteq 1 .. n
      BY <2>2, <2>4
    <3>. QED
      BY <3>1 DEF Own
  <2>6. got \subseteq own /\ (phase = "idle" /\ known # <<>> => got = own)
    BY <2>3, <2>4, <2>5 DEF KeptApart, GotInv
  <2>. QED
    BY <2>6 DEF PicturesKeptApart, own
<1>. QED
  BY <1>1, <1>2, <1>3, PTL DEF Spec
-----------------------------------------------------------------------------
(* Order counts are recovered. *)

\* The pictures not begun.
Rest == IF sent = 0 THEN todo ELSE Tail(todo)

\* pocState once the count of the last reference picture is b.
Holds(st, b) ==
  \E f, o : st = [msb |-> b - (b % MaxLsb), lsb |-> b % MaxLsb, frameNum |-> f, offset |-> o]

OrderInv ==
  /\ \E b \in Int : /\ Holds(pocState, b)
                    /\ \E c \in Int : ChainTo(b, Rest, c) /\ LastOrder(c, enc)
  /\ phase = "open" => counts.poc = head.order

\* eq. 8-3 finds the count that is less than half the range away.
LEMMA MsbCorrect ==
  ASSUME NEW a \in Int, NEW b \in Int, Within(a, b)
  PROVE  P!Msb([msb |-> a - (a % MaxLsb), lsb |-> a % MaxLsb], b % MaxLsb) = b - (b % MaxLsb)
<1>. DEFINE r == a % MaxLsb
            s == b % MaxLsb
            p == a - r
            q == b - s
<1>1. MaxLsb = 2 * Half /\ Half \in Nat \ {0} /\ MaxLsb \div 2 = Half /\ MaxLsb \in Nat \ {0}
      /\ b - a \in -(Half - 1) .. Half
  BY LsbFacts DEF Within
<1>2. r \in 0 .. MaxLsb - 1 /\ s \in 0 .. MaxLsb - 1
  BY <1>1, ModFacts
<1>3. q = p \/ q = p + MaxLsb \/ q = p - MaxLsb
  <2>1. b - a < MaxLsb /\ a - b < MaxLsb /\ MaxLsb \in Nat \ {0}
    BY <1>1
  <2>. QED
    BY <2>1, Near
<1>4. P!Msb([msb |-> p, lsb |-> r], s) = IF r - s >= Half THEN p + MaxLsb
                                          ELSE IF s - r > Half THEN p - MaxLsb ELSE p
  <2>. HIDE DEF r, s, p
  <2>0. r - s >= Half => ~ (s - r > Half)
    BY <1>1, <1>2
  <2>. QED
    BY <1>1, <2>0 DEF P!Msb
<1>5. p + r = a /\ q + s = b /\ p \in Int /\ q \in Int
  BY <1>2
<1>. HIDE DEF r, s, p, q
<1>6. P!Msb([msb |-> p, lsb |-> r], s) = q
  BY <1>1, <1>2, <1>3, <1>4, <1>5
<1>. QED
  BY <1>6 DEF r, s, p, q

\* derive_poc, for a picture whose count follows from the one before.
LEMMA DerivedIs ==
  ASSUME NEW h, Written(h), NEW b \in Int, Holds(pocState, b), NEW m \in Int, StepTo(b, h, m)
  PROVE  Derived(h).counts.poc = h.order /\ Holds(Derived(h).st, m)
<1>. DEFINE a   == IF h.idr THEN 0 ELSE b
            n   == h.order
            arg == [idr |-> h.idr, ref |-> h.ref, lsb |-> h.lsb, structure |-> h.structure,
                    frameNum |-> h.frameNum, delta |-> <<0, 0>>]
            prev == [msb |-> a - (a % MaxLsb), lsb |-> a % MaxLsb]
            msb == P!Msb(prev, h.lsb)
            top == msb + h.lsb
<1>1. /\ h.idr \in BOOLEAN /\ h.ref \in BOOLEAN /\ h.structure \in {"frame", "top", "bottom"}
      /\ n \in Nat /\ h.lsb = n % MaxLsb /\ (h.idr => n = 0)
  BY DEF Written, Looks
<1>2. PICK f, o : pocState = [msb |-> b - (b % MaxLsb), lsb |-> b % MaxLsb, frameNum |-> f,
                              offset |-> o]
  BY DEF Holds
<1>3. a \in Int /\ Within(a, n)
  BY <1>1, HalfRange DEF StepTo, Within
<1>4. msb = n - (n % MaxLsb)
  <2>1. n \in Int
    BY <1>1
  <2>. QED
    BY <1>1, <1>3, <2>1, MsbCorrect
<1>5. P!PrevOrder(arg) = prev
  <2>1. CASE h.idr
    <3>1. 0 % MaxLsb = 0
      BY EncoderStreamsAssumption, ModSmall
    <3>2. prev = [msb |-> 0, lsb |-> 0]
      BY <2>1, <3>1
    <3>3. P!PrevOrder(arg) = [msb |-> 0, lsb |-> 0]
      BY <1>1, <2>1 DEF P!PrevOrder
    <3>. QED
      BY <3>2, <3>3
  <2>2. CASE ~ h.idr
    <3>1. prev = [msb |-> pocState.msb, lsb |-> pocState.lsb]
      BY <1>2, <2>2
    <3>2. P!PrevOrder(arg) = [msb |-> pocState.msb, lsb |-> pocState.lsb]
      BY <1>1, <2>2 DEF P!PrevOrder
    <3>. QED
      BY <3>1, <3>2
  <2>. QED
    BY <2>1, <2>2
<1>6. /\ Derived(h).counts = P!Counts(h.structure, top,
                                      IF h.structure = "frame" THEN top + 0 ELSE top)
      /\ Derived(h).st = IF h.ref THEN [pocState EXCEPT !.msb = msb, !.lsb = h.lsb,
                                                        !.frameNum = h.frameNum]
                         ELSE [pocState EXCEPT !.frameNum = h.frameNum]
  <2>1. arg.delta[1] = 0 /\ arg.structure = h.structure /\ arg.lsb = h.lsb /\ arg.ref = h.ref
        /\ arg.frameNum = h.frameNum
    OBVIOUS
  <2>2. Derived(h) = P!Type0(arg)
    BY DEF Derived
  <2>. HIDE DEF arg, prev
  <2>. QED
    BY <1>5, <2>1, <2>2 DEF P!Type0
<1>7. top = n
  <2>. DEFINE l == n % MaxLsb
  <2>0. MaxLsb \in Nat \ {0} /\ n \in Int
    BY <1>1, EncoderStreamsAssumption
  <2>1. l \in Int
    <3>. HIDE DEF n
    <3>1. l \in 0 .. MaxLsb - 1
      BY <2>0, ModFacts
    <3>. QED
      BY <2>0, <3>1
  <2>2. top = (n - l) + l
    BY <1>1, <1>4
  <2>. HIDE DEF l
  <2>. QED
    BY <2>0, <2>1, <2>2
<1>. HIDE DEF msb, a, prev, arg
<1>8. Derived(h).counts.poc = n
  <2>1. P!PicOrderCnt(h.structure, IF h.structure = "bottom" THEN 0 ELSE top,
                      IF h.structure = "top" THEN 0
                      ELSE IF h.structure = "frame" THEN top + 0 ELSE top) = top
    BY <1>1, <1>7 DEF P!PicOrderCnt, P!Lesser
  <2>. HIDE DEF top
  <2>. QED
    BY <1>6, <1>7, <2>1 DEF P!Counts
<1>9. Holds(Derived(h).st, m)
  <2>1. CASE h.ref
    <3>1. m = n
      BY <2>1 DEF StepTo
    <3>2. Derived(h).st = [msb |-> n - (n % MaxLsb), lsb |-> n % MaxLsb, frameNum |-> h.frameNum,
                           offset |-> o]
      BY <1>1, <1>2, <1>4, <1>6, <2>1
    <3>. QED
      BY <3>1, <3>2 DEF Holds
  <2>2. CASE ~ h.ref
    <3>1. m = b
      BY <2>2 DEF StepTo
    <3>2. Derived(h).st = [msb |-> b - (b % MaxLsb), lsb |-> b % MaxLsb, frameNum |-> h.frameNum,
                           offset |-> o]
      BY <1>2, <1>6, <2>2
    <3>. QED
      BY <3>1, <3>2 DEF Holds
  <2>. QED
    BY <1>1, <2>1, <2>2
<1>. QED
  BY <1>8, <1>9
\* No picture, and the first of some.
LEMMA ChainNil ==
  ASSUME NEW a, NEW b, ChainTo(a, <<>>, b)
  PROVE  a = b
BY DEF ChainTo

\* The count after the first of some pictures.
LEMMA ChainTail ==
  ASSUME NEW a \in Int, NEW s, IsSeq(s), s # <<>>, NEW b \in Int, ChainTo(a, s, b)
  PROVE  \E m \in Int : StepTo(a, s[1], m) /\ ChainTo(m, Tail(s), b)
<1>. DEFINE n == Len(s)
            t == Tail(s)
<1>1. /\ Len(t) = n - 1 /\ n \in Nat \ {0}
      /\ \A i \in 1 .. n - 1 : t[i] = s[i + 1]
  BY TailIs DEF IsSeq
<1>2. PICK c \in [0 .. n -> Int] :
        c[0] = a /\ c[n] = b /\ \A i \in 1 .. n : StepTo(c[i - 1], s[i], c[i])
  BY DEF ChainTo
<1>. DEFINE x == [i \in 0 .. n - 1 |-> c[i + 1]]
<1>. HIDE DEF n, t
<1>3. x \in [0 .. n - 1 -> Int]
  <2>1. \A i \in 0 .. n - 1 : i + 1 \in 0 .. n
    BY <1>1
  <2>. QED
    BY <1>2, <2>1
<1>4. \A i \in 0 .. n - 1 : x[i] = c[i + 1]
  OBVIOUS
<1>. HIDE DEF x
<1>5. x[0] = c[1] /\ x[n - 1] = b /\ c[1] \in Int
  <2>1. 0 \in 0 .. n - 1 /\ n - 1 \in 0 .. n - 1 /\ 0 + 1 = 1 /\ (n - 1) + 1 = n /\ 1 \in 0 .. n
    BY <1>1
  <2>. QED
    BY <1>2, <1>4, <2>1
<1>6. \A i \in 1 .. n - 1 : StepTo(x[i - 1], t[i], x[i])
  <2>. SUFFICES ASSUME NEW i \in 1 .. n - 1
       PROVE  StepTo(x[i - 1], t[i], x[i])
    OBVIOUS
  <2>1. i \in 0 .. n - 1 /\ i - 1 \in 0 .. n - 1 /\ (i - 1) + 1 = i /\ i + 1 \in 1 .. n
        /\ (i + 1) - 1 = i
    BY <1>1
  <2>2. x[i - 1] = c[i] /\ x[i] = c[i + 1] /\ t[i] = s[i + 1]
    BY <1>1, <1>4, <2>1
  <2>3. StepTo(c[(i + 1) - 1], s[i + 1], c[i + 1])
    BY <1>2, <2>1
  <2>. QED
    BY <2>1, <2>2, <2>3
<1>7. ChainTo(c[1], t, b)
  BY <1>1, <1>3, <1>5, <1>6 DEF ChainTo
<1>8. StepTo(a, s[1], c[1])
  <2>1. 1 \in 1 .. n /\ 1 - 1 = 0
    BY <1>1
  <2>. QED
    BY <1>2, <2>1
<1>. QED
  BY <1>5, <1>7, <1>8 DEF t

OrderKept == KeptApart /\ OrderInv

\* The counts start from 0.
LEMMA OrderInit == Init => OrderKept
<1>. SUFFICES ASSUME Init PROVE OrderKept
  OBVIOUS
<1>1. KeptApart /\ todo = <<>> /\ EncoderInit
  BY KeptInit, EncoderStarts DEF Init
<1>2. sent = 0 /\ phase = "idle" /\ pocState = P!NoState
  BY DEF Init, D!Init
<1>3. Holds(pocState, 0)
  <2>1. 0 % MaxLsb = 0
    BY EncoderStreamsAssumption, ModSmall
  <2>2. pocState = [msb |-> 0 - (0 % MaxLsb), lsb |-> 0 % MaxLsb, frameNum |-> 0, offset |-> 0]
    BY <1>2, <2>1 DEF P!NoState
  <2>. QED
    BY <2>2 DEF Holds
<1>4. LastOrder(0, enc)
  BY <1>1 DEF LastOrder, EncoderInit
<1>5. ChainTo(0, <<>>, 0)
  <2>. DEFINE c == [i \in 0 .. 0 |-> 0]
  <2>1. c \in [0 .. 0 -> Int] /\ c[0] = 0
    OBVIOUS
  <2>. HIDE DEF c
  <2>2. Len(<<>>) = 0 /\ \A i \in 1 .. 0 : StepTo(c[i - 1], <<>>[i], c[i])
    OBVIOUS
  <2>. QED
    BY <2>1, <2>2 DEF ChainTo
<1>6. OrderInv
  BY <1>1, <1>2, <1>3, <1>4, <1>5 DEF OrderInv, Rest
<1>. QED
  BY <1>1, <1>6 DEF OrderKept

\* Primed.
LEMMA OrderSame ==
  ASSUME cfg' = cfg, NEW b \in Int, NEW c \in Int, Holds(pocState', b), ChainTo(b, Rest', c),
         LastOrder(c, enc'), phase' = "open" => counts'.poc = head'.order
  PROVE  OrderInv'
<1>1. Holds(pocState, b)' /\ ChainTo(b, Rest, c)' /\ LastOrder(c, enc)'
  BY DEF Holds, ChainTo, StepTo, LastOrder
<1>2. (\E x \in Int : /\ Holds(pocState, x)
                      /\ \E y \in Int : ChainTo(x, Rest, y) /\ LastOrder(y, enc))'
  BY <1>1
<1>. QED
  BY <1>2 DEF OrderInv

\* Every step keeps the decoder on the counts of the encoder.
LEMMA OrderNext == Spaced /\ Roomy /\ OrderKept /\ [Next]_vars => OrderKept'
<1>. SUFFICES ASSUME Spaced, Roomy, OrderKept, Next \/ UNCHANGED vars
     PROVE  OrderKept'
  OBVIOUS
<1>0. KeptApart' /\ KeptApart /\ CodesInv /\ SendInv
  BY KeptNext DEF OrderKept, KeptApart
<1>1. SUFFICES OrderInv'
  BY <1>0 DEF OrderKept
<1>2. PICK b \in Int : Holds(pocState, b) /\ \E c \in Int : ChainTo(b, Rest, c) /\ LastOrder(c, enc)
  BY DEF OrderKept, OrderInv
<1>3. PICK c \in Int : ChainTo(b, Rest, c) /\ LastOrder(c, enc)
  BY <1>2
<1>4. phase = "open" => counts.poc = head.order
  BY DEF OrderKept, OrderInv
<1>5. CASE Encode
  <2>1. /\ Encodes /\ cfg' = cfg /\ todo = <<>>
        /\ phase' = phase /\ sent' = sent /\ head' = head
        /\ counts' = counts /\ pocState' = pocState
    BY <1>5, EncodeTurns DEF decoded, marking
  <2>2. Ordered(todo', enc, enc')
    BY <1>0, <2>1, DriversCode DEF CodesInv
  <2>3. sent = 0 /\ Rest = <<>> /\ Rest' = todo'
    BY <1>0, <2>1 DEF SendInv, Rest
  <2>4. b = c
    BY <1>3, <2>3, ChainNil
  <2>5. PICK d \in Int : ChainTo(b, todo', d) /\ LastOrder(d, enc')
    BY <1>3, <2>2, <2>4 DEF Ordered
  <2>. QED
    BY <1>2, <1>4, <2>1, <2>3, <2>5, OrderSame
<1>6. ASSUME Sends, sent > 0, head' = head, counts' = counts, pocState' = pocState, phase' = phase
      PROVE  OrderInv'
  <2>1. head' = Coming /\ cfg' = cfg /\ enc' = enc
    <3>1. head = todo[1] /\ todo # <<>>
      BY <1>0, <1>6 DEF SendInv
    <3>. QED
      BY <1>0, <1>6, <3>1, CodedTail DEF Sends, CodesInv, Coming
  <2>2. sent' \in Nat /\ (sent' > 0 => todo' = todo) /\ (sent' = 0 => todo' = Tail(todo))
    BY <1>0, <1>6, <2>1, Sending
  <2>3. Rest' = Rest
    <3>1. Rest = Tail(todo)
      BY <1>0, <1>6 DEF Rest, SendInv
    <3>2. Rest' = IF sent' = 0 THEN todo' ELSE Tail(todo')
      BY DEF Rest
    <3>3. CASE sent' = 0
      BY <2>2, <3>1, <3>2, <3>3
    <3>4. CASE sent' # 0
      <4>1. todo' = todo
        BY <2>2, <3>4
      <4>. QED
        BY <3>1, <3>2, <3>4, <4>1
    <3>. QED
      BY <3>3, <3>4
  <2>. QED
    BY <1>2, <1>3, <1>4, <1>6, <2>1, <2>3, OrderSame
<1>7. CASE OpenPicture
  <2>1. /\ Sends /\ phase = "idle" /\ phase' = "open" /\ head' = Coming
        /\ counts' = Derived(Coming).counts /\ pocState' = Derived(Coming).st
    BY <1>7, OpenOpens
  <2>2. /\ sent' \in Nat /\ (sent' > 0 => todo' = todo) /\ (sent' = 0 => todo' = Tail(todo))
        /\ Coming = todo[1] /\ Written(todo[1])
    BY <1>0, <2>1, Sending
  <2>3. sent = 0 /\ todo # <<>> /\ cfg' = cfg /\ enc' = enc /\ IsSeq(todo)
    BY <1>0, <2>1 DEF SendInv, Sends, CodesInv, Coded
  <2>4. ChainTo(b, todo, c)
    BY <1>3, <2>3 DEF Rest
  <2>5. PICK m \in Int : StepTo(b, todo[1], m) /\ ChainTo(m, Tail(todo), c)
    BY <2>3, <2>4, ChainTail
  <2>6. counts'.poc = head'.order /\ Holds(pocState', m)
    BY <1>2, <2>1, <2>2, <2>5, DerivedIs
  <2>7. Rest' = Tail(todo)
    <3>1. Rest' = IF sent' = 0 THEN todo' ELSE Tail(todo')
      BY DEF Rest
    <3>2. CASE sent' = 0
      BY <2>2, <3>1, <3>2
    <3>3. CASE sent' # 0
      <4>1. todo' = todo
        BY <2>2, <3>3
      <4>. QED
        BY <3>1, <3>3, <4>1
    <3>. QED
      BY <3>2, <3>3
  <2>. QED
    BY <1>3, <2>3, <2>5, <2>6, <2>7, OrderSame
<1>8. CASE NextSlice
  <2>1. /\ Sends /\ ~ StartsNewPicture(Coming)
        /\ phase = "open" /\ phase' = phase /\ head' = head
        /\ counts' = counts /\ pocState' = pocState
    BY <1>8, NextSends
  <2>2. sent > 0
    BY <1>0, <2>1, NextBelongs
  <2>. QED
    BY <1>6, <2>1, <2>2
<1>9. CASE SkipRedundant
  <2>1. /\ Sends /\ Redundant /\ phase' = phase /\ head' = head /\ counts' = counts
        /\ pocState' = pocState
    BY <1>9, SkipSends
  <2>2. sent > 0
    BY <1>0, <2>1, RedundantBelongs
  <2>. QED
    BY <1>6, <2>1, <2>2
<1>10. ASSUME Stays, phase' # "open" \/ phase' = phase
       PROVE  OrderInv'
  <2>1. /\ cfg' = cfg /\ enc' = enc /\ todo' = todo /\ sent' = sent /\ head' = head
        /\ counts' = counts /\ pocState' = pocState
    BY <1>10 DEF Stays, encoder
  <2>2. Rest' = Rest
    BY <2>1 DEF Rest
  <2>. QED
    BY <1>2, <1>3, <1>4, <1>10, <2>1, <2>2, OrderSame
<1>. QED
  <2>1. CASE Stays /\ phase' \in {"idle", "mmco"} /\ (phase = "mmco" \/ (phase = "open" /\ Ended))
    BY <1>10, <2>1
  <2>2. CASE Stays /\ phase' = phase /\ known' = known
    BY <1>10, <2>2
  <2>. QED
    BY <1>5, <1>7, <1>8, <1>9, <2>1, <2>2, OtherStays

\* The decoder recovers the order count of every picture from its transmitted
\* low-order part, when sessions code pictures between their IDR pictures and
\* the range of pic_order_cnt_lsb has room for what the drivers reorder.
THEOREM OrderRecoveredCorrect ==
  ASSUME Spaced, Roomy
  PROVE  Spec => []OrderRecovered
<1>1. Init => OrderKept
  BY OrderInit
<1>2. OrderKept /\ [Next]_vars => OrderKept'
  BY OrderNext
<1>3. OrderKept => OrderRecovered
  BY DEF OrderKept, OrderInv, OrderRecovered
<1>. QED
  BY <1>1, <1>2, <1>3, PTL DEF Spec
-----------------------------------------------------------------------------
(***************************************************************************)
(* The mirror of encode_multiref_sequence.  Both buffers are compared as   *)
(* sets of pairs of a picture's number and its LongTermFrameIdx, or None   *)
(* for a short-term picture.  The driver codes frames only, fewer than     *)
(* MaxFrameNum of them (an assertion), so that the number of a picture is  *)
(* its frame_num, its id and the key under which the decoder keeps it.     *)
(***************************************************************************)
\* What the driver asserts of its configuration, and that a short-term picture
\* is left to give up when there is no room (else it panics).
Accepted ==
  \A d \in Drivers : d.kind = "multiref" =>
    /\ d.frames < MaxFrameNum
    /\ d.longAt # 0
    /\ d.unmarkAt > 0 => d.longAt \in 1 .. d.unmarkAt
    /\ d.refs > (IF d.longIdr THEN 1 ELSE 0) + (IF d.longAt > 0 THEN 1 ELSE 0)

\* The index that longAt assigns.
LongIdx == IF cfg.longIdr THEN 1 ELSE 0

\* The buffer of the driver before it codes frame k.
MirrorEntry == [id : Nat, frameNum : Nat, lt : {None, 0, 1}]

MirrorOf(d, k) ==
  /\ d \subseteq MirrorEntry /\ IsFiniteSet(d) /\ Cardinality(d) <= cfg.refs
  /\ \A e \in d : e.frameNum = e.id /\ e.id < k
  /\ \A e, g \in d : e.id = g.id => e = g
  /\ \A e \in d : e.lt # None =>
       \/ cfg.longIdr /\ e.id = 0 /\ e.lt = 0
       \/ e.id = cfg.longAt /\ cfg.longAt > 0 /\ e.lt = LongIdx
  /\ cfg.longAt \in 1 .. k - 1 /\ ~ cfg.unmarkAt \in cfg.longAt + 1 .. k - 1 =>
       \E e \in d : e.lt = LongIdx

Held(d) == {<<e.id, e.lt>> : e \in d}

\* h slides to g to make room for a picture.
Oldest(h, x) == x \in h /\ x[2] = None /\ \A y \in h : y[2] = None => x[1] <= y[1]

Slides(h, g) ==
  IF Cardinality(h) >= cfg.refs THEN \E x \in h : Oldest(h, x) /\ g = h \ {x} ELSE g = h

\* An operation of picture k: what it leaves of the other pictures, and its own index.
IsOp(o) ==
  \/ o.op = 1 /\ o.diff \in Nat
  \/ o.op = 2 /\ o.num \in Nat
  \/ o.op = 4 /\ o.max \in Nat
  \/ o.op = 6 /\ o.idx \in Nat

Left(h, o, k) ==
  CASE o.op = 1 -> h \ {<<k - o.diff - 1, None>>}
    [] o.op = 2 -> {x \in h : x[2] # o.num}
    [] o.op = 4 -> {x \in h : x[2] < o.max}
    [] o.op = 6 -> {x \in h : x[2] # o.idx}

Index(i, o) == IF o.op = 6 THEN o.idx ELSE i

\* The operations that are left lead to what picture p leaves.
Leads0(h, i, p, k) == p.held = h \cup {<<k, i>>}

Leads1(h, i, a, p, k) == IsOp(a) /\ Leads0(Left(h, a, k), Index(i, a), p, k)

Leads2(h, i, a, b, p, k) == IsOp(a) /\ Leads1(Left(h, a, k), Index(i, a), b, p, k)

Leads3(h, i, a, b, c, p, k) == IsOp(a) /\ Leads2(Left(h, a, k), Index(i, a), b, c, p, k)

Leads(h, i, ops0, p, k) ==
  /\ IsSeq(ops0)
  /\ \/ Len(ops0) = 0 /\ Leads0(h, i, p, k)
     \/ Len(ops0) = 1 /\ Leads1(h, i, ops0[1], p, k)
     \/ Len(ops0) = 2 /\ Leads2(h, i, ops0[1], ops0[2], p, k)
     \/ Len(ops0) = 3 /\ Leads3(h, i, ops0[1], ops0[2], ops0[3], p, k)

\* p is picture k of the driver, coded when its buffer was h.
Turn(h, p, k) ==
  /\ p.frameNum = k /\ p.id = k /\ p.idr = (k = 0) /\ p.ref = TRUE /\ p.structure = "frame"
  /\ p.slices = <<<<0, FALSE>>>> /\ p.longTerm = (k = 0 /\ cfg.longIdr)
  /\ k = 0 => p.mmco = <<>> /\ p.held = {<<0, IF cfg.longIdr THEN 0 ELSE None>>}
  /\ k > 0 /\ p.mmco = <<>> => \E g \in SUBSET h : Slides(h, g) /\ p.held = g \cup {<<k, None>>}
  /\ k > 0 /\ p.mmco # <<>> => Leads(h, None, p.mmco, p, k)

\* Both fields of a frame marked the same.
Both(m) == [p \in {"top", "bottom"} |-> m]

\* An entry of the decoder's buffer: frame k.
FrameEntry(k, m, i) ==
  [frameNum |-> k, ltIdx |-> i, structure |-> "frame", marking |-> m,
   field |-> Both(m), frame |-> k]

\* d holds frames coded before frame k.
IsFrames(d, k) ==
  /\ DOMAIN d \subseteq 0 .. k - 1 /\ d = [j \in DOMAIN d |-> d[j]]
  /\ \A j \in DOMAIN d :
       \E m \in {"short", "long", "unused"}, i \in {d[j].ltIdx} :
         i \in Nat /\ d[j] = FrameEntry(j, m, i)

\* What the decoder's buffer holds.
LtOf(e) == IF e.marking = "long" THEN e.ltIdx ELSE None

HeldBy(d) == {<<j, LtOf(d[j])>> : j \in {i \in DOMAIN d : d[i].marking # "unused"}}

\* The pictures begun by the decoder, and what the last one left.
Begun == IF phase = "open" THEN nextKey + 1 ELSE nextKey

LastHeld == IF Begun = 0 THEN {} ELSE head.held

\* The driver's buffer, and the picture that waits to be sent.
MirrorSent ==
  /\ sent = 0 /\ coded = enc.k /\ enc.k <= cfg.frames
  /\ MirrorOf(enc.dpb, enc.k)
  /\ IF todo = <<>> THEN enc.k = Begun /\ Held(enc.dpb) = LastHeld
     ELSE /\ Len(todo) = 1 /\ enc.k = Begun + 1
          /\ Turn(LastHeld, todo[1], Begun) /\ Held(enc.dpb) = todo[1].held

\* The decoder's buffer, and the picture being decoded.
MirrorKept ==
  /\ nextKey \in Nat /\ phase \in {"idle", "open", "mmco"}
  /\ first = [structure |-> "frame", frameNum |-> 0, ref |-> FALSE, key |-> 0]
  /\ IsFrames(dpb, IF phase = "mmco" THEN nextKey - 1 ELSE nextKey)
  /\ \A k \in DOMAIN dpb : k \in DOMAIN known /\ known[k].id = k
  /\ nextKey = 0 => known = [k \in {} |-> 0]
  /\ phase # "mmco" => \A k \in DOMAIN dpb : dpb[k].marking # "unused"
  /\ phase = "idle" => HeldBy(dpb) = LastHeld
  /\ phase = "open" => pic = Header(head) /\ Turn(HeldBy(dpb), head, nextKey)
  /\ phase = "mmco" =>
       /\ nextKey > 0 /\ pic = Header(head) /\ head.id = nextKey - 1
       /\ head.structure = "frame" /\ mmco5 = FALSE
       /\ \E m \in {"short", "long"}, i \in {cur.ltIdx} :
            i \in Nat /\ cur = FrameEntry(nextKey - 1, m, i)
       /\ Leads(HeldBy(dpb), LtOf(cur), ops, head, nextKey - 1)

\* The invariant.
MirrorInv == cfg.kind = "multiref" => MirrorSent /\ MirrorKept

\* Both fields.
LEMMA BothAre == \A m, p : p \in {"top", "bottom"} => Both(m)[p] = m
BY DEF Both

\* What a frame is.
LEMMA FrameIs ==
  \A k, m, i :
    /\ FrameEntry(k, m, i).marking = m /\ FrameEntry(k, m, i).ltIdx = i
    /\ FrameEntry(k, m, i).frameNum = k /\ FrameEntry(k, m, i).structure = "frame"
    /\ FrameEntry(k, m, i).field = Both(m)
    /\ FrameEntry(k, m, i).frame = k
BY DEF FrameEntry

\* The markings of its fields.
LEMMA FrameFields ==
  ASSUME NEW r, NEW e, e.structure = "frame", NEW m, e.field = Both(m)
  PROVE  /\ ~ D(r)!IsField(e)
         /\ \A p \in {"top", "bottom"} : D(r)!HasField(e, p)
         /\ \A o : \A p \in {"top", "bottom"} : D(r)!HasFieldMarked(e, p, o) <=> m = o
         /\ \A o : D(r)!AnyFieldIs(e, o) <=> m = o
         /\ D(r)!IsAnyFieldRef(e) <=> m \in {"short", "long"}
<1>1. ~ D(r)!IsField(e)
  BY DEF D!IsField, D!Parity
<1>2. \A p \in {"top", "bottom"} : D(r)!HasField(e, p)
  BY DEF D!HasField
<1>3. \A p \in {"top", "bottom"} : e.field[p] = m
  BY BothAre
<1>4. \A o : \A p \in {"top", "bottom"} : D(r)!HasFieldMarked(e, p, o) <=> m = o
  BY <1>2, <1>3 DEF D!HasFieldMarked
<1>5. \A o : D(r)!AnyFieldIs(e, o) <=> m = o
  BY <1>4 DEF D!AnyFieldIs, D!Parity
<1>6. D(r)!IsAnyFieldRef(e) <=> m \in {"short", "long"}
  BY <1>5 DEF D!IsAnyFieldRef
<1>. QED
  BY <1>1, <1>2, <1>4, <1>5, <1>6

\* Marking a frame marks both of its fields.
LEMMA FrameMarked ==
  ASSUME NEW r, NEW k, NEW m, NEW n, NEW i
  PROVE  D(r)!MarkAll(FrameEntry(k, m, i), n) = FrameEntry(k, n, i)
<1>. DEFINE e == FrameEntry(k, m, i)
<1>1. \A p \in {"top", "bottom"} : D(r)!HasField(e, p)
  <2>1. e.structure = "frame" /\ e.field = Both(m)
    BY FrameIs
  <2>. HIDE DEF e
  <2>. QED
    BY <2>1, FrameFields
<1>2. D(r)!MarkAll(e, n) = [e EXCEPT !.marking = n, !.field = Both(n)]
  <2>. HIDE DEF e
  <2>1. [p \in D(r)!Parity |-> IF D(r)!HasField(e, p) THEN n ELSE "unused"] = Both(n)
    BY <1>1 DEF D!Parity, Both
  <2>. QED
    BY <2>1 DEF D!MarkAll
<1>. QED
  BY <1>2 DEF FrameEntry

\* The same, for all frames.
LEMMA FramesMarking ==
  ASSUME NEW r
  PROVE  \A k, m, n, i : D(r)!MarkAll(FrameEntry(k, m, i), n) = FrameEntry(k, n, i)
<1>. SUFFICES ASSUME NEW k, NEW m, NEW n, NEW i
     PROVE  D(r)!MarkAll(FrameEntry(k, m, i), n) = FrameEntry(k, n, i)
  OBVIOUS
<1>. QED
  BY FrameMarked

\* A new frame is a short-term one.
LEMMA FrameNew ==
  ASSUME NEW r, NEW k
  PROVE  D(r)!NewEntry(k, "frame", k) = FrameEntry(k, "short", 0)
<1>1. D(r)!NewEntry(k, "frame", k)
        = D(r)!MarkAll([frameNum |-> k, ltIdx |-> 0, structure |-> "frame", marking |-> "short",
                        field |-> Both("unused"), frame |-> k], "short")
  BY DEF D!NewEntry, D!Parity, Both
<1>. DEFINE e == [frameNum |-> k, ltIdx |-> 0, structure |-> "frame", marking |-> "short",
                  field |-> Both("unused"), frame |-> k]
<1>2. \A p \in {"top", "bottom"} : D(r)!HasField(e, p)
  <2>1. e.structure = "frame" /\ e.field = Both("unused")
    OBVIOUS
  <2>. HIDE DEF e
  <2>. QED
    BY <2>1, FrameFields
<1>3. D(r)!MarkAll(e, "short") = [e EXCEPT !.marking = "short", !.field = Both("short")]
  <2>. HIDE DEF e
  <2>1. [p \in D(r)!Parity |-> IF D(r)!HasField(e, p) THEN "short" ELSE "unused"] = Both("short")
    BY <1>2 DEF D!Parity, Both
  <2>. QED
    BY <2>1 DEF D!MarkAll
<1>. QED
  BY <1>1, <1>3 DEF FrameEntry

\* The entries of a buffer of frames.
LEMMA FramesAre ==
  ASSUME NEW n, NEW d, IsFrames(d, n)
  PROVE  \A k \in DOMAIN d :
           /\ d[k].marking \in {"short", "long", "unused"} /\ d[k].ltIdx \in Nat
           /\ d[k] = FrameEntry(k, d[k].marking, d[k].ltIdx)
           /\ d[k].frameNum = k /\ d[k].structure = "frame"
           /\ d[k].field = Both(d[k].marking)
<1>. SUFFICES ASSUME NEW k \in DOMAIN d
     PROVE  /\ d[k].marking \in {"short", "long", "unused"} /\ d[k].ltIdx \in Nat
            /\ d[k] = FrameEntry(k, d[k].marking, d[k].ltIdx)
            /\ d[k].frameNum = k /\ d[k].structure = "frame"
            /\ d[k].field = Both(d[k].marking)
  OBVIOUS
<1>1. PICK m \in {"short", "long", "unused"} :
        d[k].ltIdx \in Nat /\ d[k] = FrameEntry(k, m, d[k].ltIdx)
  BY DEF IsFrames
<1>2. d[k].marking = m
  BY <1>1, FrameIs
<1>. QED
  BY <1>1, <1>2, FrameIs

\* Its markings.
LEMMA FramesFields ==
  ASSUME NEW r, NEW n, NEW d, IsFrames(d, n), NEW k \in DOMAIN d
  PROVE  /\ ~ D(r)!IsField(d[k])
         /\ \A p \in {"top", "bottom"} : D(r)!HasField(d[k], p)
         /\ \A o : \A p \in {"top", "bottom"} : D(r)!HasFieldMarked(d[k], p, o) <=> d[k].marking = o
         /\ \A o : D(r)!AnyFieldIs(d[k], o) <=> d[k].marking = o
         /\ D(r)!IsAnyFieldRef(d[k]) <=> d[k].marking \in {"short", "long"}
<1>. DEFINE e == d[k]
            m == d[k].marking
<1>1. e.structure = "frame" /\ e.field = Both(m)
  BY FramesAre
<1>. HIDE DEF e, m
<1>2. /\ ~ D(r)!IsField(e)
      /\ \A p \in {"top", "bottom"} : D(r)!HasField(e, p)
      /\ \A o : \A p \in {"top", "bottom"} : D(r)!HasFieldMarked(e, p, o) <=> m = o
      /\ \A o : D(r)!AnyFieldIs(e, o) <=> m = o
      /\ D(r)!IsAnyFieldRef(e) <=> m \in {"short", "long"}
  BY <1>1, FrameFields
<1>. QED
  BY <1>2 DEF e, m

\* The frames of a buffer that are references.
LEMMA FrameRefs ==
  ASSUME NEW r, NEW n, NEW d, IsFrames(d, n)
  PROVE  D(r)!RefKeys(d) = {k \in DOMAIN d : d[k].marking # "unused"}
<1>1. ASSUME NEW k \in DOMAIN d
      PROVE  D(r)!IsAnyFieldRef(d[k]) <=> d[k].marking # "unused"
  <2>1. D(r)!IsAnyFieldRef(d[k]) <=> d[k].marking \in {"short", "long"}
    BY FramesFields
  <2>2. d[k].marking \in {"short", "long", "unused"}
    BY FramesAre
  <2>. QED
    BY <2>1, <2>2
<1>. QED
  BY <1>1 DEF D!RefKeys

\* A buffer whose frames have been marked: keys, types and what is held.
LEMMA FramesMarked ==
  ASSUME NEW n \in Nat, NEW d, IsFrames(d, n), NEW e, DOMAIN e = DOMAIN d,
         e = [k \in DOMAIN e |-> e[k]], NEW gone \in SUBSET DOMAIN d,
         \A k \in DOMAIN d : e[k] = IF k \in gone THEN FrameEntry(k, "unused", d[k].ltIdx) ELSE d[k]
  PROVE  /\ IsFrames(e, n)
         /\ HeldBy(e) = HeldBy(d) \ {<<k, LtOf(d[k])>> : k \in gone}
<1>1. \A k \in DOMAIN d : d[k].ltIdx \in Nat
  BY FramesAre
<1>2. \A k \in DOMAIN d : k \in gone => e[k].ltIdx = d[k].ltIdx /\ e[k].marking = "unused"
  BY FrameIs
<1>3. \A k \in DOMAIN d : k \notin gone => e[k] = d[k]
  OBVIOUS
<1>4. IsFrames(e, n)
  <2>1. ASSUME NEW k \in DOMAIN e
        PROVE  \E m \in {"short", "long", "unused"}, i \in {e[k].ltIdx} :
                 i \in Nat /\ e[k] = FrameEntry(k, m, i)
    <3>1. CASE k \in gone
      BY <1>1, <1>2, <3>1
    <3>2. CASE k \notin gone
      BY <1>3, <3>2 DEF IsFrames
    <3>. QED
      BY <3>1, <3>2
  <2>. QED
    BY <2>1 DEF IsFrames
<1>5. {i \in DOMAIN e : e[i].marking # "unused"} = {i \in DOMAIN d : d[i].marking # "unused"} \ gone
  BY <1>2, <1>3
<1>6. \A k \in DOMAIN d : k \notin gone => LtOf(e[k]) = LtOf(d[k])
  BY <1>3
<1>7. HeldBy(e) = HeldBy(d) \ {<<k, LtOf(d[k])>> : k \in gone}
  BY <1>5, <1>6 DEF HeldBy
<1>. QED
  BY <1>4, <1>7

\* MarkUnused of frames.
LEMMA FramesUnused ==
  ASSUME NEW r, NEW n \in Nat, NEW d, IsFrames(d, n), NEW gone \in SUBSET DOMAIN d
  PROVE  /\ DOMAIN D(r)!MarkUnused(d, gone) = DOMAIN d
         /\ IsFrames(D(r)!MarkUnused(d, gone), n)
         /\ HeldBy(D(r)!MarkUnused(d, gone)) = HeldBy(d) \ {<<k, LtOf(d[k])>> : k \in gone}
<1>. DEFINE e == [k \in DOMAIN d |-> IF k \in gone THEN D(r)!MarkAll(d[k], "unused") ELSE d[k]]
<1>1. D(r)!MarkUnused(d, gone) = e
  BY DEF D!MarkUnused
<1>2. ASSUME NEW k \in DOMAIN d
      PROVE  D(r)!MarkAll(d[k], "unused") = FrameEntry(k, "unused", d[k].ltIdx)
  <2>1. d[k] = FrameEntry(k, d[k].marking, d[k].ltIdx)
    BY FramesAre
  <2>2. D(r)!MarkAll(FrameEntry(k, d[k].marking, d[k].ltIdx), "unused")
          = FrameEntry(k, "unused", d[k].ltIdx)
    BY FramesMarking
  <2>. QED
    BY <2>1, <2>2
<1>3. /\ DOMAIN e = DOMAIN d /\ e = [k \in DOMAIN e |-> e[k]]
      /\ \A k \in DOMAIN d : e[k] = IF k \in gone THEN FrameEntry(k, "unused", d[k].ltIdx) ELSE d[k]
  BY <1>2
<1>. HIDE DEF e
<1>4. IsFrames(e, n) /\ HeldBy(e) = HeldBy(d) \ {<<k, LtOf(d[k])>> : k \in gone}
  BY <1>3, FramesMarked
<1>. QED
  BY <1>1, <1>3, <1>4

\* Frames marked by what they hold.
LEMMA HeldIs ==
  ASSUME NEW n, NEW d, IsFrames(d, n)
  PROVE  /\ \A k \in DOMAIN d : LtOf(d[k]) = IF d[k].marking = "long" THEN d[k].ltIdx ELSE None
         /\ \A k \in DOMAIN d : LtOf(d[k]) \in Nat \cup {None}
         /\ \A k \in DOMAIN d : LtOf(d[k]) = None <=> d[k].marking # "long"
         /\ \A x : x \in HeldBy(d) <=>
              \E k \in DOMAIN d : d[k].marking # "unused" /\ x = <<k, LtOf(d[k])>>
<1>1. \A k \in DOMAIN d : d[k].ltIdx \in Nat
  BY FramesAre
<1>. QED
  BY <1>1 DEF LtOf, None, HeldBy

\* What is left when the frames whose held pair fails a test are marked unused.
LEMMA HeldLeft ==
  ASSUME NEW n, NEW d, IsFrames(d, n), NEW gone \in SUBSET DOMAIN d, NEW left \in SUBSET HeldBy(d),
         \A k \in DOMAIN d :
           d[k].marking # "unused" => (k \in gone <=> <<k, LtOf(d[k])>> \notin left)
  PROVE  HeldBy(d) \ {<<k, LtOf(d[k])>> : k \in gone} = left
<1>1. ASSUME NEW x \in HeldBy(d)
      PROVE  x \in {<<k, LtOf(d[k])>> : k \in gone} <=> x \notin left
  <2>1. PICK k \in DOMAIN d : d[k].marking # "unused" /\ x = <<k, LtOf(d[k])>>
    BY HeldIs
  <2>2. x \in {<<j, LtOf(d[j])>> : j \in gone} <=> k \in gone
    BY <2>1
  <2>. QED
    BY <2>1, <2>2
<1>. QED
  BY <1>1

\* The current picture, frame k, and the buffer before it.
Marks(d, c, k) ==
  /\ k \in Nat /\ IsFrames(d, k)
  /\ \E m \in {"short", "long"}, i \in Nat : c = FrameEntry(k, m, i)

\* Its fields.
LEMMA CurrentIs ==
  ASSUME NEW d, NEW c, NEW k, Marks(d, c, k)
  PROVE  c.frameNum = k /\ c.structure = "frame"
<1>1. PICK m \in {"short", "long"}, i \in Nat : c = FrameEntry(k, m, i)
  BY DEF Marks
<1>. QED
  BY <1>1, FrameIs

\* Operation 1.
LEMMA Held1 ==
  ASSUME NEW d, NEW c, NEW k, Marks(d, c, k), NEW diff \in Nat
  PROVE  /\ IsFrames(D(1)!MarkShortTermUnused(d, c, diff), k)
         /\ DOMAIN D(1)!MarkShortTermUnused(d, c, diff) = DOMAIN d
         /\ HeldBy(D(1)!MarkShortTermUnused(d, c, diff)) = HeldBy(d) \ {<<k - diff - 1, None>>}
<1>. DEFINE gone == D(1)!ShortTermFramesAt(d, c, diff)
            left == HeldBy(d) \ {<<k - diff - 1, None>>}
<1>0. k \in Nat /\ IsFrames(d, k) /\ c.frameNum = k /\ c.structure = "frame"
  BY CurrentIs DEF Marks
<1>1. D(1)!MarkShortTermUnused(d, c, diff) = D(1)!MarkUnused(d, gone)
  BY <1>0 DEF D!MarkShortTermUnused, D!IsField, D!Parity
<1>2. ASSUME NEW j \in DOMAIN d
      PROVE  j \in gone <=> d[j].marking = "short" /\ j = k - diff - 1
  <2>1. j \in 0 .. k - 1 /\ d[j].frameNum = j
    BY <1>0, FramesAre DEF IsFrames
  <2>2. D(1)!FrameNumWrap(d[j].frameNum, c.frameNum) = j
    BY <1>0, <2>1 DEF D!FrameNumWrap
  <2>3. D(1)!PicNumX(c.frameNum, "frame", diff) = k - (diff + 1)
    BY <1>0 DEF D!PicNumX, D!CurrPicNum
  <2>. QED
    BY <1>0, <2>2, <2>3 DEF D!ShortTermFramesAt
<1>3. gone \in SUBSET DOMAIN d
  BY DEF D!ShortTermFramesAt
<1>. HIDE DEF gone
<1>4. ASSUME NEW j \in DOMAIN d, d[j].marking # "unused"
      PROVE  j \in gone <=> <<j, LtOf(d[j])>> \notin left
  <2>1. <<j, LtOf(d[j])>> \in HeldBy(d)
    BY <1>0, <1>4, HeldIs
  <2>2. /\ d[j].marking \in {"short", "long", "unused"}
        /\ LtOf(d[j]) = None <=> d[j].marking # "long"
    BY <1>0, HeldIs, FramesAre
  <2>3. <<j, LtOf(d[j])>> = <<k - diff - 1, None>> <=> j = k - diff - 1 /\ LtOf(d[j]) = None
    OBVIOUS
  <2>. QED
    BY <1>2, <1>4, <2>1, <2>2, <2>3
<1>5. HeldBy(d) \ {<<j, LtOf(d[j])>> : j \in gone} = left
  <2>. HIDE DEF left
  <2>1. left \in SUBSET HeldBy(d)
    BY DEF left
  <2>. QED
    BY <1>0, <1>3, <1>4, <2>1, HeldLeft
<1>. QED
  BY <1>0, <1>1, <1>3, <1>5, FramesUnused

\* Operation 2.
LEMMA Held2 ==
  ASSUME NEW d, NEW c, NEW k, Marks(d, c, k), NEW num \in Nat
  PROVE  /\ IsFrames(D(1)!MarkLongTermUnused(d, c, num), k)
         /\ DOMAIN D(1)!MarkLongTermUnused(d, c, num) = DOMAIN d
         /\ HeldBy(D(1)!MarkLongTermUnused(d, c, num)) = {x \in HeldBy(d) : x[2] # num}
<1>. DEFINE gone == D(1)!LongTermFramesAt(d, num)
            left == {x \in HeldBy(d) : x[2] # num}
<1>0. k \in Nat /\ IsFrames(d, k) /\ c.frameNum = k /\ c.structure = "frame"
  BY CurrentIs DEF Marks
<1>1. D(1)!MarkLongTermUnused(d, c, num) = D(1)!MarkUnused(d, gone)
  BY <1>0 DEF D!MarkLongTermUnused, D!IsField, D!Parity
<1>2. \A j \in DOMAIN d : j \in gone <=> d[j].marking = "long" /\ d[j].ltIdx = num
  BY DEF D!LongTermFramesAt
<1>3. gone \in SUBSET DOMAIN d
  BY DEF D!LongTermFramesAt
<1>. HIDE DEF gone
<1>4. ASSUME NEW j \in DOMAIN d, d[j].marking # "unused"
      PROVE  j \in gone <=> <<j, LtOf(d[j])>> \notin left
  <2>1. <<j, LtOf(d[j])>> \in HeldBy(d)
    BY <1>0, <1>4, HeldIs
  <2>2. LtOf(d[j]) = num <=> d[j].marking = "long" /\ d[j].ltIdx = num
    BY <1>0, HeldIs DEF None
  <2>. QED
    BY <1>2, <2>1, <2>2
<1>5. HeldBy(d) \ {<<j, LtOf(d[j])>> : j \in gone} = left
  <2>. HIDE DEF left
  <2>1. left \in SUBSET HeldBy(d)
    BY DEF left
  <2>. QED
    BY <1>0, <1>3, <1>4, <2>1, HeldLeft
<1>. QED
  BY <1>0, <1>1, <1>3, <1>5, FramesUnused

\* A frame whose field markings, then whose own, are set.
LEMMA FrameUnmarked ==
  ASSUME NEW j, NEW i
  PROVE  [FrameEntry(j, "long", i) EXCEPT !.field = Both("unused"), !.marking = "unused"]
           = FrameEntry(j, "unused", i)
<1>. DEFINE x == FrameEntry(j, "long", i)
            y == [x EXCEPT !.field = Both("unused")]
<1>1. y = [frameNum |-> j, ltIdx |-> i, structure |-> "frame", marking |-> "long",
           field |-> Both("unused"), frame |-> j]
  BY DEF FrameEntry
<1>2. [y EXCEPT !.marking = "unused"] = FrameEntry(j, "unused", i)
  <2>. HIDE DEF y
  <2>. QED
    BY <1>1 DEF FrameEntry
<1>3. [x EXCEPT !.field = Both("unused"), !.marking = "unused"] = [y EXCEPT !.marking = "unused"]
  OBVIOUS
<1>. QED
  BY <1>2, <1>3

\* Operation 4.
LEMMA Held4 ==
  ASSUME NEW d, NEW c, NEW k, Marks(d, c, k), NEW max \in Nat
  PROVE  /\ IsFrames(D(1)!SetMaxLongTermIdx(d, max), k)
         /\ DOMAIN D(1)!SetMaxLongTermIdx(d, max) = DOMAIN d
         /\ HeldBy(D(1)!SetMaxLongTermIdx(d, max)) = {x \in HeldBy(d) : x[2] < max}
<1>. DEFINE gone == {j \in DOMAIN d : d[j].marking = "long" /\ d[j].ltIdx >= max}
            left == {x \in HeldBy(d) : x[2] < max}
            v == D(1)!SetMaxLongTermIdx(d, max)
<1>0. k \in Nat /\ IsFrames(d, k)
  BY DEF Marks
<1>1. ASSUME NEW j \in DOMAIN d
      PROVE  /\ D(1)!AnyFieldIs(d[j], "long") <=> d[j].marking = "long"
             /\ d[j].marking = "long" => D(1)!UnmarkLong(d[j]) = FrameEntry(j, "unused", d[j].ltIdx)
  <2>1. D(1)!AnyFieldIs(d[j], "long") <=> d[j].marking = "long"
    BY <1>0, FramesFields
  <2>2. ASSUME d[j].marking = "long"
        PROVE  D(1)!UnmarkLong(d[j]) = FrameEntry(j, "unused", d[j].ltIdx)
    <3>. DEFINE x == d[j]
                f == [p \in D(1)!Parity |-> IF D(1)!HasFieldMarked(x, p, "long") THEN "unused"
                                            ELSE x.field[p]]
    <3>1. \A p \in {"top", "bottom"} : D(1)!HasFieldMarked(x, p, "long")
      BY <1>0, <2>2, FramesFields
    <3>2. x = FrameEntry(j, "long", x.ltIdx) /\ x.structure = "frame"
      BY <1>0, <2>2, FramesAre
    <3>. HIDE DEF x
    <3>3. f = Both("unused")
      BY <3>1 DEF D!Parity, Both
    <3>4. D(1)!UnitMarking(x.structure, Both("unused")) = "unused"
      BY <3>2, BothAre DEF D!UnitMarking, D!Parity
    <3>5. D(1)!UnmarkLong(x) = [x EXCEPT !.field = Both("unused"), !.marking = "unused"]
      BY <3>3, <3>4 DEF D!UnmarkLong
    <3>6. ASSUME NEW i
          PROVE  [FrameEntry(j, "long", i) EXCEPT !.field = Both("unused"), !.marking = "unused"]
                   = FrameEntry(j, "unused", i)
      BY FrameUnmarked
    <3>7. D(1)!UnmarkLong(x) = FrameEntry(j, "unused", x.ltIdx)
      BY <3>2, <3>5, <3>6
    <3>. QED
      BY <3>7 DEF x
  <2>. QED
    BY <2>1, <2>2
<1>2. /\ DOMAIN v = DOMAIN d /\ v = [j \in DOMAIN v |-> v[j]]
      /\ \A j \in DOMAIN d : v[j] = IF j \in gone THEN FrameEntry(j, "unused", d[j].ltIdx) ELSE d[j]
  <2>1. v = [j \in DOMAIN d |->
               IF D(1)!AnyFieldIs(d[j], "long") /\ d[j].ltIdx >= max
               THEN D(1)!UnmarkLong(d[j]) ELSE d[j]]
    BY DEF D!SetMaxLongTermIdx
  <2>2. \A j \in DOMAIN d : v[j] = IF j \in gone THEN FrameEntry(j, "unused", d[j].ltIdx) ELSE d[j]
    <3>. HIDE DEF v
    <3>. QED
      BY <1>1, <2>1
  <2>. QED
    BY <2>1, <2>2
<1>3. gone \in SUBSET DOMAIN d
  OBVIOUS
<1>4. ASSUME NEW j \in DOMAIN d, d[j].marking # "unused"
      PROVE  j \in gone <=> <<j, LtOf(d[j])>> \notin left
  <2>1. <<j, LtOf(d[j])>> \in HeldBy(d)
    BY <1>0, <1>4, HeldIs
  <2>2. LtOf(d[j]) = (IF d[j].marking = "long" THEN d[j].ltIdx ELSE None) /\ d[j].ltIdx \in Nat
    BY <1>0, HeldIs, FramesAre
  <2>. QED
    BY <2>1, <2>2 DEF None
<1>5. HeldBy(d) \ {<<j, LtOf(d[j])>> : j \in gone} = left
  <2>. HIDE DEF left, gone
  <2>1. left \in SUBSET HeldBy(d)
    BY DEF left
  <2>. QED
    BY <1>0, <1>3, <1>4, <2>1, HeldLeft
<1>6. gone \in SUBSET DOMAIN d
  OBVIOUS
<1>. HIDE DEF v, gone, left
<1>7. IsFrames(v, k) /\ HeldBy(v) = HeldBy(d) \ {<<j, LtOf(d[j])>> : j \in gone}
  BY <1>0, <1>2, <1>6, FramesMarked, SMTT(60)
<1>. QED
  BY <1>2, <1>5, <1>7 DEF v, left

\* Operation 6, on the buffer.
LEMMA Held6 ==
  ASSUME NEW d, NEW c, NEW k, Marks(d, c, k), NEW idx \in Nat
  PROVE  /\ IsFrames(D(1)!AssignCurrentLongTerm(d, c, idx), k)
         /\ DOMAIN D(1)!AssignCurrentLongTerm(d, c, idx) = DOMAIN d
         /\ HeldBy(D(1)!AssignCurrentLongTerm(d, c, idx)) = {x \in HeldBy(d) : x[2] # idx}
         /\ D(1)!CurrentLongTerm(c, idx) = FrameEntry(k, "long", idx)
<1>. DEFINE gone == {j \in DOMAIN d : d[j].marking = "long" /\ d[j].ltIdx = idx}
            left == {x \in HeldBy(d) : x[2] # idx}
            v == D(1)!EvictLongTermIdx(d, idx, {}, {})
<1>0. k \in Nat /\ IsFrames(d, k) /\ c.frameNum = k /\ c.structure = "frame"
  BY CurrentIs DEF Marks
<1>1. ASSUME NEW j \in DOMAIN d
      PROVE  /\ D(1)!AnyFieldIs(d[j], "long") <=> d[j].marking = "long"
             /\ d[j].marking = "long" =>
                  D(1)!EvictHolder(d[j], j, {}, {}) = FrameEntry(j, "unused", d[j].ltIdx)
  <2>1. D(1)!AnyFieldIs(d[j], "long") <=> d[j].marking = "long"
    BY <1>0, FramesFields
  <2>2. ASSUME d[j].marking = "long"
        PROVE  D(1)!EvictHolder(d[j], j, {}, {}) = FrameEntry(j, "unused", d[j].ltIdx)
    <3>. DEFINE x == d[j]
    <3>1. \A p \in {"top", "bottom"} : D(1)!HasFieldMarked(x, p, "long")
      BY <1>0, <2>2, FramesFields
    <3>2. x = FrameEntry(j, "long", x.ltIdx)
      BY <1>0, <2>2, FramesAre
    <3>. HIDE DEF x
    <3>3. D(1)!EvictHolder(x, j, {}, {}) = D(1)!MarkAll(x, "unused")
      BY <3>1 DEF D!EvictHolder, D!Parity
    <3>4. D(1)!MarkAll(FrameEntry(j, "long", x.ltIdx), "unused") = FrameEntry(j, "unused", x.ltIdx)
      BY FramesMarking
    <3>5. D(1)!EvictHolder(x, j, {}, {}) = FrameEntry(j, "unused", x.ltIdx)
      BY <3>2, <3>3, <3>4
    <3>. QED
      BY <3>5 DEF x
  <2>. QED
    BY <2>1, <2>2
<1>2. /\ DOMAIN v = DOMAIN d /\ v = [j \in DOMAIN v |-> v[j]]
      /\ \A j \in DOMAIN d : v[j] = IF j \in gone THEN FrameEntry(j, "unused", d[j].ltIdx) ELSE d[j]
  <2>1. v = [j \in DOMAIN d |->
               IF d[j].ltIdx = idx /\ D(1)!AnyFieldIs(d[j], "long")
               THEN D(1)!EvictHolder(d[j], j, {}, {}) ELSE d[j]]
    BY DEF D!EvictLongTermIdx
  <2>2. \A j \in DOMAIN d : v[j] = IF j \in gone THEN FrameEntry(j, "unused", d[j].ltIdx) ELSE d[j]
    <3>. HIDE DEF v
    <3>. QED
      BY <1>1, <2>1
  <2>. QED
    BY <2>1, <2>2
<1>3. D(1)!AssignCurrentLongTerm(d, c, idx) = v
  <2>1. ~ D(1)!IsField(c)
    BY <1>0 DEF D!IsField, D!Parity
  <2>2. D(1)!EvictLongTermIdx(d, idx, {}, IF D(1)!IsField(c) THEN {c.frameNum} ELSE {}) = v
    BY <2>1
  <2>3. D(1)!AssignCurrentLongTerm(d, c, idx) = [j \in DOMAIN d |-> v[j]]
    <3>. HIDE DEF v
    <3>. QED
      BY <2>1, <2>2 DEF D!AssignCurrentLongTerm, D!IsLongTermMate
  <2>. QED
    BY <1>2, <2>3
<1>4. ASSUME NEW j \in DOMAIN d, d[j].marking # "unused"
      PROVE  j \in gone <=> <<j, LtOf(d[j])>> \notin left
  <2>1. <<j, LtOf(d[j])>> \in HeldBy(d)
    BY <1>0, <1>4, HeldIs
  <2>2. LtOf(d[j]) = idx <=> d[j].marking = "long" /\ d[j].ltIdx = idx
    BY <1>0, HeldIs DEF None
  <2>. QED
    BY <2>1, <2>2
<1>5. HeldBy(d) \ {<<j, LtOf(d[j])>> : j \in gone} = left
  <2>. HIDE DEF left, gone
  <2>0. gone \in SUBSET DOMAIN d
    BY DEF gone
  <2>1. left \in SUBSET HeldBy(d)
    BY DEF left
  <2>. QED
    BY <1>0, <1>4, <2>0, <2>1, HeldLeft
<1>6. gone \in SUBSET DOMAIN d
  OBVIOUS
<1>. HIDE DEF v, gone
<1>7. IsFrames(v, k) /\ HeldBy(v) = HeldBy(d) \ {<<j, LtOf(d[j])>> : j \in gone}
  BY <1>0, <1>2, <1>6, FramesMarked, SMTT(60)
<1>8. D(1)!CurrentLongTerm(c, idx) = FrameEntry(k, "long", idx)
  <2>1. PICK m \in {"short", "long"}, i \in Nat : c = FrameEntry(k, m, i)
    BY DEF Marks
  <2>2. D(1)!MarkAll(c, "long") = FrameEntry(k, "long", i)
    BY <2>1, FramesMarking
  <2>. QED
    BY <2>2 DEF D!CurrentLongTerm, FrameEntry
<1>. QED
  BY <1>2, <1>3, <1>5, <1>7, <1>8

\* The buffer once the current picture c is stored.
Stored(r, d, n, c) ==
  [k \in (DOMAIN D(r)!Retained(d)) \cup {n} |-> IF k = n THEN c ELSE D(r)!Retained(d)[k]]

\* A frame is stored behind the references that are kept.
LEMMA FramesStored ==
  ASSUME NEW r, NEW n, NEW d, NEW c, Marks(d, c, n), NEW e, e = Stored(r, d, n, c)
  PROVE  /\ IsFrames(e, n + 1)
         /\ DOMAIN e \subseteq (DOMAIN d) \cup {n}
         /\ \A k \in DOMAIN e : e[k].marking # "unused"
         /\ HeldBy(e) = HeldBy(d) \cup {<<n, LtOf(c)>>}
<1>0. n \in Nat /\ IsFrames(d, n)
  BY DEF Marks
<1>. PICK m \in {"short", "long"}, i \in Nat : c = FrameEntry(n, m, i)
  BY DEF Marks
<1>. DEFINE R == {k \in DOMAIN d : d[k].marking # "unused"}
            x == FrameEntry(n, m, i)
<1>1. D(r)!Retained(d) = [k \in R |-> d[k]]
  BY <1>0, FrameRefs DEF D!Retained
<1>2. DOMAIN D(r)!Retained(d) = R /\ \A k \in R : D(r)!Retained(d)[k] = d[k]
  BY <1>1
<1>3. R \subseteq 0 .. n - 1 /\ n \notin R /\ n \notin DOMAIN d
  BY <1>0 DEF IsFrames
<1>. HIDE DEF R
<1>4. /\ DOMAIN e = R \cup {n} /\ e = [k \in DOMAIN e |-> e[k]]
      /\ e[n] = x /\ \A k \in R : e[k] = d[k]
  BY <1>2, <1>3 DEF Stored
<1>5. x.marking = m /\ x.ltIdx = i
  BY FrameIs
<1>. HIDE DEF x
<1>6. IsFrames(e, n + 1)
  <2>1. ASSUME NEW k \in DOMAIN e
        PROVE  \E o \in {"short", "long", "unused"}, j \in {e[k].ltIdx} :
                 j \in Nat /\ e[k] = FrameEntry(k, o, j)
    <3>1. CASE k = n
      BY <1>4, <1>5, <3>1 DEF x
    <3>2. CASE k \in R
      <4>1. k \in DOMAIN d /\ e[k] = d[k]
        BY <1>4, <3>2 DEF R
      <4>2. \E o \in {"short", "long", "unused"}, j \in {d[k].ltIdx} :
              j \in Nat /\ d[k] = FrameEntry(k, o, j)
        BY <1>0, <4>1 DEF IsFrames
      <4>. QED
        BY <4>1, <4>2
    <3>. QED
      BY <1>4, <3>1, <3>2
  <2>2. DOMAIN e \subseteq 0 .. (n + 1) - 1
    <3>1. 0 .. n - 1 \subseteq 0 .. (n + 1) - 1 /\ n \in 0 .. (n + 1) - 1
      BY <1>0
    <3>. QED
      BY <1>3, <1>4, <3>1
  <2>. QED
    BY <1>4, <2>1, <2>2 DEF IsFrames
<1>7. \A k \in DOMAIN e : e[k].marking # "unused"
  BY <1>4, <1>5 DEF R
<1>8. HeldBy(e) = HeldBy(d) \cup {<<n, LtOf(x)>>}
  <2>1. HeldBy(e) = {<<k, LtOf(e[k])>> : k \in DOMAIN e}
    BY <1>7 DEF HeldBy
  <2>2. HeldBy(d) = {<<k, LtOf(d[k])>> : k \in R}
    BY DEF HeldBy, R
  <2>3. \A y : y \in HeldBy(e) <=> y = <<n, LtOf(x)>> \/ y \in HeldBy(d)
    BY <1>4, <2>1, <2>2
  <2>. HIDE DEF x
  <2>. QED
    BY <2>3
<1>. QED
  BY <1>0, <1>3, <1>4, <1>6, <1>7, <1>8 DEF x, R

\* A buffer of frames, all of them references.
AllHeld(d, n) == n \in Nat /\ IsFrames(d, n) /\ \A k \in DOMAIN d : d[k].marking # "unused"

\* Each of them is a unit by itself.
LEMMA FrameUnits ==
  ASSUME NEW r, NEW n, NEW d, AllHeld(d, n)
  PROVE  /\ D(r)!RefUnits(d) = {{k} : k \in DOMAIN d}
         /\ \A m \in {"short", "long"} :
              D(r)!UnitsWith(d, m) = {{k} : k \in {j \in DOMAIN d : d[j].marking = m}}
<1>0. IsFrames(d, n) /\ \A k \in DOMAIN d : d[k].marking # "unused"
  BY DEF AllHeld
<1>1. D(r)!RefKeys(d) = DOMAIN d
  BY <1>0, FrameRefs
<1>2. ASSUME NEW k \in DOMAIN d
      PROVE  D(r)!Unit(d, k) = {k}
  <2>1. \A j : ~ D(r)!Paired(d, j, k)
    BY <1>0, FramesFields DEF D!Paired
  <2>. QED
    BY <1>1, <2>1 DEF D!Unit
<1>3. D(r)!RefUnits(d) = {{k} : k \in DOMAIN d}
  BY <1>1, <1>2 DEF D!RefUnits
<1>4. ASSUME NEW m \in {"short", "long"}
      PROVE  D(r)!UnitsWith(d, m) = {{k} : k \in {j \in DOMAIN d : d[j].marking = m}}
  <2>1. ASSUME NEW k \in DOMAIN d
        PROVE  D(r)!UnitHas(d, {k}, m) <=> d[k].marking = m
    <3>1. D(r)!AnyFieldIs(d[k], m) <=> d[k].marking = m
      BY <1>0, FramesFields
    <3>. QED
      BY <3>1 DEF D!UnitHas
  <2>. QED
    BY <1>3, <2>1 DEF D!UnitsWith
<1>. QED
  BY <1>3, <1>4

\* Two sets of singletons, or of pairs, have as many elements as what they are made of.
LEMMA CountPairs ==
  ASSUME NEW S, IsFiniteSet(S), NEW g, NEW T, T = {<<k, g[k]>> : k \in S}
  PROVE  IsFiniteSet(T) /\ Cardinality(T) = Cardinality(S)
<1>. DEFINE f == [k \in S |-> <<k, g[k]>>]
<1>1. f \in Bijection(S, T)
  <2>1. f \in [S -> T]
    OBVIOUS
  <2>2. \A a, b \in S : f[a] = f[b] => a = b
    OBVIOUS
  <2>3. \A t \in T : \E s \in S : f[s] = t
    OBVIOUS
  <2>. HIDE DEF f
  <2>. QED
    BY <2>1, <2>2, <2>3 DEF Bijection, Injection, Surjection, IsInjective
<1>. HIDE DEF f
<1>2. ExistsBijection(S, T)
  BY <1>1 DEF ExistsBijection
<1>. QED
  BY <1>2, FS_Bijection

\* A set and its singletons.
LEMMA CountSingletons ==
  ASSUME NEW S, IsFiniteSet(S), NEW T, T = {{k} : k \in S}
  PROVE  IsFiniteSet(T) /\ Cardinality(T) = Cardinality(S)
<1>. DEFINE f == [k \in S |-> {k}]
<1>1. f \in Bijection(S, T)
  <2>1. f \in [S -> T]
    OBVIOUS
  <2>2. \A a, b \in S : f[a] = f[b] => a = b
    OBVIOUS
  <2>3. \A t \in T : \E s \in S : f[s] = t
    OBVIOUS
  <2>. HIDE DEF f
  <2>. QED
    BY <2>1, <2>2, <2>3 DEF Bijection, Injection, Surjection, IsInjective
<1>. HIDE DEF f
<1>2. ExistsBijection(S, T)
  BY <1>1 DEF ExistsBijection
<1>. QED
  BY <1>2, FS_Bijection

\* Dpb's cardinality is that of sets.
LEMMA SameCardinality ==
  ASSUME NEW r, NEW S
  PROVE  D(r)!Cardinality(S) = Cardinality(S)
BY DEF D!Cardinality, Cardinality

\* The window is full when the buffer holds max_num_ref_frames frames.
LEMMA WindowCounts ==
  ASSUME NEW r \in Nat \ {0}, NEW n, NEW d, AllHeld(d, n)
  PROVE  /\ IsFiniteSet(HeldBy(d))
         /\ D(r)!WindowFull(d, r) <=> Cardinality(HeldBy(d)) >= r
<1>. DEFINE S == {j \in DOMAIN d : d[j].marking = "short"}
            Z == {j \in DOMAIN d : d[j].marking = "long"}
<1>0. n \in Nat /\ IsFrames(d, n) /\ \A k \in DOMAIN d : d[k].marking # "unused"
  BY DEF AllHeld
<1>1. IsFiniteSet(DOMAIN d)
  <2>1. DOMAIN d \in SUBSET (0 .. n - 1)
    BY <1>0 DEF IsFrames
  <2>2. IsFiniteSet(0 .. n - 1)
    <3>1. 0 \in Int /\ n - 1 \in Int
      BY <1>0
    <3>. QED
      BY <3>1, FS_Interval
  <2>. QED
    BY <2>1, <2>2, FS_Subset
<1>2. S \cup Z = DOMAIN d /\ S \cap Z = {}
  BY <1>0, FramesAre
<1>3. IsFiniteSet(S) /\ IsFiniteSet(Z)
  BY <1>1, FS_Subset
<1>4. D(r)!UnitsWith(d, "short") = {{k} : k \in S} /\ D(r)!UnitsWith(d, "long") = {{k} : k \in Z}
  BY FrameUnits
<1>. HIDE DEF S, Z
<1>5. /\ Cardinality(D(r)!UnitsWith(d, "short")) = Cardinality(S)
      /\ Cardinality(D(r)!UnitsWith(d, "long")) = Cardinality(Z)
  BY <1>3, <1>4, CountSingletons
<1>6. Cardinality(S) \in Nat /\ Cardinality(Z) \in Nat /\ Cardinality({}) = 0
  BY <1>3, FS_CardinalityType, FS_EmptySet
<1>7. Cardinality(DOMAIN d) = Cardinality(S) + Cardinality(Z)
  <2>1. Cardinality(S \cup Z) = Cardinality(S) + Cardinality(Z) - Cardinality(S \cap Z)
    BY <1>3, FS_Union
  <2>2. Cardinality(S \cap Z) = 0
    BY <1>2, <1>6
  <2>3. Cardinality(S \cup Z) = Cardinality(DOMAIN d)
    BY <1>2
  <2>. QED
    BY <1>6, <2>1, <2>2, <2>3
<1>8. IsFiniteSet(HeldBy(d)) /\ Cardinality(HeldBy(d)) = Cardinality(DOMAIN d)
  <2>. DEFINE g == [k \in DOMAIN d |-> LtOf(d[k])]
  <2>1. HeldBy(d) = {<<k, g[k]>> : k \in DOMAIN d}
    <3>1. {i \in DOMAIN d : d[i].marking # "unused"} = DOMAIN d
      BY <1>0
    <3>2. \A k \in DOMAIN d : g[k] = LtOf(d[k])
      OBVIOUS
    <3>. HIDE DEF g
    <3>. QED
      BY <3>1, <3>2 DEF HeldBy
  <2>. HIDE DEF g
  <2>. QED
    BY <1>1, <2>1, CountPairs
<1>9. D(r)!AtLeastOne(r) = r
  BY DEF D!AtLeastOne
<1>10. D(r)!WindowFull(d, r)
         <=> Cardinality(D(r)!UnitsWith(d, "short")) + Cardinality(D(r)!UnitsWith(d, "long")) >= r
  BY <1>9, SameCardinality DEF D!WindowFull
<1>. QED
  BY <1>5, <1>7, <1>8, <1>10

\* The least of a set with one element.
LEMMA MinOfOne ==
  ASSUME NEW r, NEW k \in Int
  PROVE  D(r)!Min({k}) = k
BY DEF D!Min

\* The window slides as the driver's buffer does.
LEMMA HeldSlides ==
  ASSUME NEW n, NEW d, AllHeld(d, n), cfg.refs \in Nat \ {0}, NEW g, Slides(HeldBy(d), g)
  PROVE  LET r == cfg.refs
             e == D(r)!SlidingWindow(d, r, n, "frame")
         IN  IsFrames(e, n) /\ DOMAIN e = DOMAIN d /\ HeldBy(e) = g
<1>. DEFINE r == cfg.refs
            e == D(r)!SlidingWindow(d, r, n, "frame")
            S == {j \in DOMAIN d : d[j].marking = "short"}
<1>0. /\ n \in Nat /\ IsFrames(d, n) /\ \A k \in DOMAIN d : d[k].marking # "unused"
      /\ r \in Nat \ {0}
  BY DEF AllHeld
<1>. HIDE DEF r
<1>1. ~ D(r)!SecondOfShortTermPair(d, n, "frame")
  BY DEF D!SecondOfShortTermPair, D!Parity
<1>2. D(r)!WindowFull(d, r) <=> Cardinality(HeldBy(d)) >= r
  BY <1>0, WindowCounts
<1>3. D(r)!UnitsWith(d, "short") = {{k} : k \in S}
  BY FrameUnits
<1>4. CASE ~ Cardinality(HeldBy(d)) >= r
  <2>1. e = d
    BY <1>1, <1>2, <1>4 DEF D!SlidingWindow
  <2>2. g = HeldBy(d)
    BY <1>4 DEF Slides, r
  <2>. HIDE DEF e
  <2>3. IsFrames(e, n) /\ DOMAIN e = DOMAIN d /\ HeldBy(e) = g
    BY <1>0, <2>1, <2>2
  <2>. QED
    BY <2>3 DEF e, r
<1>5. CASE Cardinality(HeldBy(d)) >= r
  <2>1. PICK x \in HeldBy(d) : Oldest(HeldBy(d), x) /\ g = HeldBy(d) \ {x}
    BY <1>5 DEF Slides, r, Oldest
  <2>2. PICK j \in DOMAIN d : d[j].marking # "unused" /\ x = <<j, LtOf(d[j])>>
    BY <1>0, HeldIs
  <2>3. j \in S
    <3>1. LtOf(d[j]) = None
      BY <2>1, <2>2 DEF Oldest
    <3>2. d[j].marking # "long"
      BY <1>0, <3>1, HeldIs
    <3>3. d[j].marking \in {"short", "long", "unused"}
      BY <1>0, FramesAre
    <3>. QED
      BY <2>2, <3>2, <3>3
  <2>4. ASSUME NEW k \in S
        PROVE  j <= k
    <3>1. <<k, LtOf(d[k])>> \in HeldBy(d) /\ LtOf(d[k]) = None
      BY <1>0, HeldIs
    <3>. QED
      BY <2>1, <2>2, <3>1 DEF Oldest
  <2>5. \A k \in DOMAIN d : k \in 0 .. n - 1 /\ D(r)!FrameNumWrap(d[k].frameNum, n) = k
    BY <1>0, FramesAre DEF D!FrameNumWrap, IsFrames
  <2>6. ASSUME NEW k \in DOMAIN d, NEW i \in DOMAIN d
        PROVE  D(r)!OlderUnit(d, n, {k}, {i}) <=> k <= i
    <3>1. D(r)!Min({k}) = k /\ D(r)!Min({i}) = i
      BY <2>5, MinOfOne
    <3>. QED
      BY <2>5, <3>1 DEF D!OlderUnit
  <2>7. D(r)!OldestShortTermUnit(d, n) = {j}
    <3>. DEFINE U == D(r)!UnitsWith(d, "short")
                Older(u, v) == D(r)!OlderUnit(d, n, u, v)
    <3>1. {j} \in U /\ \A v \in U : Older({j}, v)
      BY <1>3, <2>3, <2>4, <2>6
    <3>2. ASSUME NEW u \in U, \A v \in U : Older(u, v)
          PROVE  u = {j}
      <4>1. PICK k \in S : u = {k}
        BY <1>3
      <4>2. k <= j
        BY <2>3, <2>6, <3>1, <3>2, <4>1
      <4>3. j <= k
        BY <2>4
      <4>. QED
        BY <2>3, <2>5, <4>1, <4>2, <4>3
    <3>. HIDE DEF U, Older
    <3>3. (CHOOSE u \in U : \A v \in U : Older(u, v)) = {j}
      BY <3>1, <3>2
    <3>. QED
      BY <3>3 DEF U, Older, D!OldestShortTermUnit
  <2>8. D(r)!UnitsWith(d, "short") # {}
    BY <1>3, <2>3
  <2>9. e = D(r)!MarkUnused(d, {j})
    BY <1>1, <1>2, <1>5, <2>7, <2>8 DEF D!SlidingWindow
  <2>. DEFINE gone == {j}
  <2>10. gone \in SUBSET DOMAIN d /\ {<<k, LtOf(d[k])>> : k \in gone} = {x}
    BY <2>2
  <2>. HIDE DEF gone
  <2>11. /\ DOMAIN D(r)!MarkUnused(d, gone) = DOMAIN d
         /\ IsFrames(D(r)!MarkUnused(d, gone), n)
         /\ HeldBy(D(r)!MarkUnused(d, gone)) = HeldBy(d) \ {<<k, LtOf(d[k])>> : k \in gone}
    <3>1. n \in Nat /\ IsFrames(d, n)
      BY <1>0
    <3>2. gone \in SUBSET DOMAIN d
      BY <2>10
    <3>. HIDE DEF e, S, r
    <3>. QED
      BY <3>1, <3>2, FramesUnused
  <2>. HIDE DEF e
  <2>12. IsFrames(e, n) /\ DOMAIN e = DOMAIN d /\ HeldBy(e) = g
    BY <2>1, <2>9, <2>10, <2>11 DEF gone
  <2>. QED
    BY <2>12 DEF e, r
<1>. QED
  BY <1>4, <1>5
-----------------------------------------------------------------------------
(* What encode_multiref_sequence codes. *)

\* What an accepted configuration says.
Room ==
  /\ cfg.refs \in Nat \ {0} /\ cfg.longIdr \in BOOLEAN
  /\ cfg.longAt \in Int /\ cfg.unmarkAt \in Int
  /\ cfg.longAt # 0 /\ (cfg.unmarkAt > 0 => cfg.longAt \in 1 .. cfg.unmarkAt)
  /\ cfg.refs > (IF cfg.longIdr THEN 1 ELSE 0) + (IF cfg.longAt > 0 THEN 1 ELSE 0)
  /\ cfg.frames \in Nat /\ cfg.frames < MaxFrameNum

\* An accepted configuration has room.
LEMMA RoomIs ==
  ASSUME Accepted, cfg \in Drivers, cfg.kind = "multiref"
  PROVE  Room
<1>1. cfg \in Driver
  BY EncoderStreamsAssumption
<1>2. /\ cfg.refs \in Nat \ {0} /\ cfg.longIdr \in BOOLEAN
      /\ cfg.longAt \in Int /\ cfg.unmarkAt \in Int /\ cfg.frames \in Nat
  BY <1>1 DEF Driver
<1>. QED
  BY <1>2 DEF Room, Accepted

\* A nonempty set of naturals has a least element.
LEMMA LeastIs ==
  ASSUME NEW S \in SUBSET Nat, S # {}
  PROVE  \E m \in S : \A x \in S : m <= x
<1>1. IsWellFoundedOn({ss \in Nat \X Nat : ss[1] < ss[2]}, Nat)
  BY NatLessThanWellFounded, Zenon DEF OpToRel
<1>2. PICK k \in S : TRUE
  OBVIOUS
<1>3. PICK m \in S : \A j \in S : ~ (<<j, m>> \in {ss \in Nat \X Nat : ss[1] < ss[2]})
  BY <1>1, <1>2, WFMin
<1>4. \A j \in S : m <= j
  <2>. SUFFICES ASSUME NEW j \in S PROVE ~ (j < m)
    OBVIOUS
  <2>. QED
    BY <1>3
<1>. QED
  BY <1>4

\* A set of at most one element.
LEMMA AtMostOne ==
  ASSUME NEW S, \A x, y \in S : x = y
  PROVE  IsFiniteSet(S) /\ Cardinality(S) \in 0 .. 1 /\ (S = {} => Cardinality(S) = 0)
<1>1. CASE S = {}
  BY <1>1, FS_EmptySet
<1>2. CASE S # {}
  <2>1. PICK x \in S : TRUE
    BY <1>2
  <2>2. S = {x}
    BY <2>1
  <2>. QED
    BY <1>2, <2>2, FS_Singleton
<1>. QED
  BY <1>1, <1>2

\* The driver's entries.
LEMMA MirrorTyped ==
  ASSUME NEW k, NEW d, MirrorOf(d, k)
  PROVE  /\ IsFiniteSet(d) /\ Cardinality(d) \in Nat
         /\ \A e \in d : /\ e.id \in Nat /\ e.frameNum = e.id /\ e.id < k
                         /\ e.lt \in {None, 0, 1}
                         /\ e = [id |-> e.id, frameNum |-> e.frameNum, lt |-> e.lt]
         /\ \A e, g \in d : e.id = g.id => e = g
<1>1. IsFiniteSet(d) /\ d \subseteq MirrorEntry /\ (\A e \in d : e.frameNum = e.id /\ e.id < k)
      /\ \A e, g \in d : e.id = g.id => e = g
  BY DEF MirrorOf
<1>2. \A e \in d : /\ e.id \in Nat /\ e.lt \in {None, 0, 1}
                   /\ e = [id |-> e.id, frameNum |-> e.frameNum, lt |-> e.lt]
  BY <1>1 DEF MirrorEntry
<1>. QED
  BY <1>1, <1>2, FS_CardinalityType

\* When the buffer is full, a short-term picture is in it.
LEMMA ShortsLeft ==
  ASSUME Room, NEW k, NEW d, MirrorOf(d, k), Cardinality(d) >= cfg.refs
  PROVE  Shorts(d) # {}
<1>. SUFFICES ASSUME Shorts(d) = {} PROVE FALSE
  OBVIOUS
<1>. DEFINE A == {e \in d : cfg.longIdr /\ e.id = 0}
            B == {e \in d : cfg.longAt > 0 /\ e.id = cfg.longAt}
<1>1. d = A \cup B
  <2>1. \A e \in d : e.lt # None
    BY DEF Shorts, IsShort
  <2>. QED
    BY <2>1 DEF MirrorOf
<1>2. (\A x, y \in A : x = y) /\ (\A x, y \in B : x = y)
  BY MirrorTyped
<1>3. (~ cfg.longIdr => A = {}) /\ (~ cfg.longAt > 0 => B = {})
  OBVIOUS
<1>. HIDE DEF A, B
<1>4. /\ IsFiniteSet(A) /\ Cardinality(A) \in 0 .. 1 /\ (A = {} => Cardinality(A) = 0)
      /\ IsFiniteSet(B) /\ Cardinality(B) \in 0 .. 1 /\ (B = {} => Cardinality(B) = 0)
  BY <1>2, AtMostOne
<1>5. Cardinality(A \cup B) = Cardinality(A) + Cardinality(B) - Cardinality(A \cap B)
  BY <1>4, FS_Union
<1>6. Cardinality(A \cap B) \in Nat
  <2>1. IsFiniteSet(A \cap B)
    BY <1>4, FS_Subset
  <2>. QED
    BY <2>1, FS_CardinalityType
<1>7. Cardinality(d) <= Cardinality(A) + Cardinality(B)
  BY <1>1, <1>4, <1>5, <1>6
<1>8. cfg.refs \in Nat /\ Cardinality(d) \in Nat
  BY MirrorTyped DEF Room
<1>9. cfg.refs > (IF cfg.longIdr THEN 1 ELSE 0) + (IF cfg.longAt > 0 THEN 1 ELSE 0)
  BY DEF Room
<1>10. /\ Cardinality(A) <= (IF cfg.longIdr THEN 1 ELSE 0)
       /\ Cardinality(B) <= (IF cfg.longAt > 0 THEN 1 ELSE 0)
  BY <1>3, <1>4
<1>. QED
  BY <1>4, <1>7, <1>8, <1>9, <1>10

\* The oldest of them.
LEMMA OldestShortIs ==
  ASSUME NEW k, NEW d, MirrorOf(d, k), Shorts(d) # {}
  PROVE  /\ OldestShort(d) \in d /\ OldestShort(d).lt = None
         /\ \A g \in d : g.lt = None => OldestShort(d).id <= g.id
<1>. DEFINE N == {e.frameNum : e \in Shorts(d)}
<1>1. Shorts(d) = {e \in d : e.lt = None}
  BY DEF Shorts, IsShort
<1>2. N \in SUBSET Nat /\ N # {}
  BY <1>1, MirrorTyped
<1>3. PICK m \in N : \A x \in N : m <= x
  <2>. HIDE DEF N
  <2>. QED
    BY <1>2, LeastIs
<1>4. PICK e \in Shorts(d) : e.frameNum = m
  OBVIOUS
<1>5. \A g \in Shorts(d) : e.frameNum <= g.frameNum
  BY <1>3, <1>4
<1>6. /\ OldestShort(d) \in Shorts(d)
      /\ \A g \in Shorts(d) : OldestShort(d).frameNum <= g.frameNum
  <2>. HIDE DEF N
  <2>. QED
    BY <1>4, <1>5 DEF OldestShort
<1>. QED
  BY <1>1, <1>6, MirrorTyped

\* What the buffer holds, one pair for each picture.
LEMMA HeldCounts ==
  ASSUME NEW k, NEW d, MirrorOf(d, k)
  PROVE  Cardinality(Held(d)) = Cardinality(d)
<1>. DEFINE f == [e \in d |-> <<e.id, e.lt>>]
            T == Held(d)
<1>1. f \in [d -> T]
  BY DEF Held
<1>2. \A a, b \in d : f[a] = f[b] => a = b
  BY MirrorTyped
<1>3. \A t \in T : \E s \in d : f[s] = t
  BY DEF Held
<1>. HIDE DEF f, T
<1>4. ExistsBijection(d, T)
  BY <1>1, <1>2, <1>3 DEF ExistsBijection, Bijection, Injection, Surjection, IsInjective
<1>5. Cardinality(T) = Cardinality(d)
  BY <1>4, MirrorTyped, FS_Bijection
<1>. QED
  BY <1>5 DEF T

\* The buffer with room for one more picture.
Roomed(d) == IF Full(d) THEN WithoutOldest(d) ELSE d

\* The driver makes room for a picture as the window slides.
LEMMA MirrorSlides ==
  ASSUME Room, NEW k, NEW d, MirrorOf(d, k)
  PROVE  /\ Roomed(d) \subseteq d /\ Cardinality(Roomed(d)) + 1 <= cfg.refs
         /\ \A e \in d : e.lt # None => e \in Roomed(d)
         /\ Slides(Held(d), Held(Roomed(d)))
         /\ Full(d) => /\ OldestShort(d) \in d /\ OldestShort(d).lt = None
                       /\ Held(Roomed(d)) = Held(d) \ {<<OldestShort(d).id, None>>}
<1>1. Cardinality(d) \in Nat /\ IsFiniteSet(d) /\ cfg.refs \in Nat /\ Cardinality(d) <= cfg.refs
  BY MirrorTyped DEF Room, MirrorOf
<1>2. Cardinality(Held(d)) = Cardinality(d)
  BY HeldCounts
<1>3. CASE ~ Full(d)
  <2>1. Roomed(d) = d
    BY <1>3 DEF Roomed
  <2>2. ~ Cardinality(d) >= cfg.refs
    BY <1>3 DEF Full
  <2>. QED
    BY <1>1, <1>2, <1>3, <2>1, <2>2 DEF Slides
<1>4. CASE Full(d)
  <2>. DEFINE o == OldestShort(d)
              x == <<o.id, None>>
  <2>1. Cardinality(d) >= cfg.refs
    BY <1>4 DEF Full
  <2>2. o \in d /\ o.lt = None /\ \A g \in d : g.lt = None => o.id <= g.id
    BY <2>1, ShortsLeft, OldestShortIs
  <2>3. Roomed(d) = d \ {o}
    BY <1>4 DEF Roomed, WithoutOldest
  <2>. HIDE DEF o
  <2>4. Cardinality(d \ {o}) = Cardinality(d) - 1
    BY <1>1, <2>2, FS_RemoveElement
  <2>5. Held(d \ {o}) = Held(d) \ {x}
    <3>1. \A e \in d : <<e.id, e.lt>> = x <=> e = o
      BY <2>2, MirrorTyped
    <3>. HIDE DEF x
    <3>. QED
      BY <2>2, <3>1 DEF Held
  <2>6. Oldest(Held(d), x)
    <3>1. x \in Held(d) /\ x[2] = None
      BY <2>2 DEF Held
    <3>2. \A y \in Held(d) : y[2] = None => x[1] <= y[1]
      BY <2>2 DEF Held
    <3>. HIDE DEF x
    <3>. QED
      BY <3>1, <3>2 DEF Oldest
  <2>7. x \in Held(d)
    BY <2>2 DEF Held
  <2>. HIDE DEF x
  <2>8. Slides(Held(d), Held(Roomed(d)))
    BY <1>2, <2>1, <2>3, <2>5, <2>6, <2>7 DEF Slides
  <2>9. Roomed(d) \subseteq d /\ Cardinality(Roomed(d)) + 1 <= cfg.refs
    BY <1>1, <2>3, <2>4
  <2>10. \A e \in d : e.lt # None => e \in Roomed(d)
    BY <2>2, <2>3
  <2>11. /\ OldestShort(d) \in d /\ OldestShort(d).lt = None
         /\ Held(Roomed(d)) = Held(d) \ {<<OldestShort(d).id, None>>}
    BY <2>2, <2>3, <2>5 DEF x, o
  <2>. QED
    BY <2>8, <2>9, <2>10, <2>11
<1>. QED
  BY <1>3, <1>4

\* The picture coded in, and the buffer as a picture more.
Entered(i) == [id |-> coded, frameNum |-> coded, lt |-> i]

\* A picture enters the driver's buffer.
LEMMA MirrorEnters ==
  ASSUME Room, coded \in Nat, NEW d, MirrorOf(d, coded), NEW g \in SUBSET d,
         Cardinality(g) + 1 <= cfg.refs, NEW i \in {None, 0, 1}, coded > 0,
         i # None => coded = cfg.longAt /\ cfg.longAt > 0 /\ i = LongIdx,
         cfg.longAt \in 1 .. coded /\ ~ cfg.unmarkAt \in cfg.longAt + 1 .. coded =>
           i = LongIdx \/ \E e \in g : e.lt = LongIdx
  PROVE  /\ MirrorOf(g \cup {Entered(i)}, coded + 1)
         /\ Held(g \cup {Entered(i)}) = Held(g) \cup {<<coded, i>>}
<1>. DEFINE x == Entered(i)
            f == g \cup {x}
<1>1. x.id = coded /\ x.frameNum = coded /\ x.lt = i /\ x \in MirrorEntry
  BY DEF Entered, MirrorEntry
<1>. HIDE DEF x
<1>2. IsFiniteSet(g) /\ Cardinality(g) \in Nat /\ cfg.refs \in Nat
  BY MirrorTyped, FS_Subset, FS_CardinalityType DEF Room
<1>3. /\ d \subseteq MirrorEntry
      /\ \A e \in d : e.frameNum = e.id /\ e.id < coded /\ e.id \in Nat
      /\ \A e, h \in d : e.id = h.id => e = h
      /\ \A e \in d : e.lt # None =>
           \/ cfg.longIdr /\ e.id = 0 /\ e.lt = 0
           \/ e.id = cfg.longAt /\ cfg.longAt > 0 /\ e.lt = LongIdx
  BY MirrorTyped DEF MirrorOf
<1>4. x \notin g
  BY <1>1, <1>3
<1>5. IsFiniteSet(f) /\ Cardinality(f) <= cfg.refs
  <2>1. IsFiniteSet(g)
    BY <1>2
  <2>2. /\ IsFiniteSet(g \cup {x})
        /\ Cardinality(g \cup {x}) =
             IF x \in g THEN Cardinality(g) ELSE Cardinality(g) + 1
    BY ONLY <2>1, FS_AddElement
  <2>3. Cardinality(f) = Cardinality(g) + 1
    BY ONLY <2>2, <1>4
  <2>4. Cardinality(g) + 1 <= cfg.refs
    OBVIOUS
  <2>. QED
    BY ONLY <2>2, <2>3, <2>4
<1>6. f \subseteq MirrorEntry /\ \A e \in f : e.frameNum = e.id /\ e.id < coded + 1
  BY <1>1, <1>3
<1>7. \A e, h \in f : e.id = h.id => e = h
  BY <1>1, <1>3
<1>8. \A e \in f : e.lt # None =>
        \/ cfg.longIdr /\ e.id = 0 /\ e.lt = 0
        \/ e.id = cfg.longAt /\ cfg.longAt > 0 /\ e.lt = LongIdx
  BY <1>1, <1>3
<1>9. cfg.longAt \in 1 .. (coded + 1) - 1 /\ ~ cfg.unmarkAt \in cfg.longAt + 1 .. (coded + 1) - 1 =>
        \E e \in f : e.lt = LongIdx
  <2>1. (coded + 1) - 1 = coded
    OBVIOUS
  <2>. QED
    BY <1>1, <2>1
<1>10. MirrorOf(f, coded + 1)
  <2>. HIDE DEF f
  <2>. QED
    BY <1>5, <1>6, <1>7, <1>8, <1>9 DEF MirrorOf
<1>11. Held(f) = Held(g) \cup {<<coded, i>>}
  BY <1>1 DEF Held
<1>. QED
  BY <1>10, <1>11 DEF x

\* The IDR picture enters it.
LEMMA MirrorBegins ==
  ASSUME Room, NEW i, i = (IF cfg.longIdr THEN 0 ELSE None), coded = 0
  PROVE  /\ MirrorOf({[id |-> coded, frameNum |-> 0, lt |-> i]}, 1)
         /\ Held({[id |-> coded, frameNum |-> 0, lt |-> i]}) = {<<0, i>>}
<1>. DEFINE x == [id |-> coded, frameNum |-> 0, lt |-> i]
            f == {x}
<1>1. x.id = 0 /\ x.frameNum = 0 /\ x.lt = i /\ x \in MirrorEntry
  BY DEF MirrorEntry
<1>. HIDE DEF x
<1>2. IsFiniteSet(f) /\ Cardinality(f) <= cfg.refs
  <2>1. IsFiniteSet(f) /\ Cardinality(f) = 1
    BY FS_Singleton
  <2>. HIDE DEF f
  <2>. QED
    BY <2>1 DEF Room
<1>3. \A e \in f : e.lt # None => cfg.longIdr /\ e.id = 0 /\ e.lt = 0
  BY <1>1
<1>4. ~ cfg.longAt \in 1 .. 1 - 1
  BY DEF Room
<1>5. MirrorOf(f, 1)
  <2>1. f \subseteq MirrorEntry /\ \A e \in f : e.frameNum = e.id /\ e.id < 1
    BY <1>1
  <2>2. \A e, g \in f : e.id = g.id => e = g
    OBVIOUS
  <2>. HIDE DEF f
  <2>. QED
    BY <1>2, <1>3, <1>4, <2>1, <2>2 DEF MirrorOf
<1>6. Held(f) = {<<0, i>>}
  BY <1>1 DEF Held
<1>. QED
  BY <1>5, <1>6 DEF x

\* A picture that only slides the window.
LEMMA PlainTurn ==
  ASSUME Room, coded \in Nat \ {0}, NEW d, MirrorOf(d, coded),
         coded \notin {cfg.longAt, cfg.unmarkAt}
  PROVE  /\ Marked(d, coded).mmco = <<>>
         /\ MirrorOf(Marked(d, coded).dpb, coded + 1)
         /\ Slides(Held(d), Held(Roomed(d))) /\ Held(Roomed(d)) \subseteq Held(d)
         /\ Held(Marked(d, coded).dpb) = Held(Roomed(d)) \cup {<<coded, None>>}
<1>1. Marked(d, coded) = [mmco |-> <<>>, dpb |-> Roomed(d) \cup {Entered(None)}]
  <2>1. coded # cfg.longAt /\ coded # cfg.unmarkAt
    OBVIOUS
  <2>. QED
    BY <2>1 DEF Marked, Roomed, Entered
<1>2. /\ Roomed(d) \subseteq d /\ Cardinality(Roomed(d)) + 1 <= cfg.refs
      /\ \A e \in d : e.lt # None => e \in Roomed(d)
      /\ Slides(Held(d), Held(Roomed(d)))
  BY MirrorSlides
<1>3. ASSUME cfg.longAt \in 1 .. coded, ~ cfg.unmarkAt \in cfg.longAt + 1 .. coded
      PROVE  \E e \in Roomed(d) : e.lt = LongIdx
  <2>1. cfg.longAt \in 1 .. coded - 1 /\ ~ cfg.unmarkAt \in cfg.longAt + 1 .. coded - 1
    BY <1>3
  <2>2. PICK e \in d : e.lt = LongIdx
    BY <2>1 DEF MirrorOf
  <2>. QED
    BY <1>2, <2>2 DEF LongIdx, None
<1>4. /\ MirrorOf(Roomed(d) \cup {Entered(None)}, coded + 1)
      /\ Held(Roomed(d) \cup {Entered(None)}) = Held(Roomed(d)) \cup {<<coded, None>>}
  <2>. DEFINE g == Roomed(d)
              i == None
  <2>1. g \in SUBSET d /\ Cardinality(g) + 1 <= cfg.refs /\ i \in {None, 0, 1} /\ i = None
    BY <1>2
  <2>2. cfg.longAt \in 1 .. coded /\ ~ cfg.unmarkAt \in cfg.longAt + 1 .. coded =>
          i = LongIdx \/ \E e \in g : e.lt = LongIdx
    BY <1>3
  <2>3. coded \in Nat /\ coded > 0
    OBVIOUS
  <2>. HIDE DEF g, i
  <2>4. i # None => coded = cfg.longAt /\ cfg.longAt > 0 /\ i = LongIdx
    BY <2>1
  <2>5. /\ MirrorOf(g \cup {Entered(i)}, coded + 1)
        /\ Held(g \cup {Entered(i)}) = Held(g) \cup {<<coded, i>>}
    BY <2>1, <2>2, <2>3, <2>4, MirrorEnters
  <2>. QED
    BY <2>5 DEF g, i
<1>5. Held(Roomed(d)) \subseteq Held(d)
  BY <1>2 DEF Held
<1>6. Marked(d, coded).mmco = <<>> /\ Marked(d, coded).dpb = Roomed(d) \cup {Entered(None)}
  BY <1>1
<1>. QED
  BY <1>2, <1>4, <1>5, <1>6

\* The operations that the driver codes.
Op1(n) == [op |-> 1, diff |-> n]
Op2(n) == [op |-> 2, num |-> n]
Op4(n) == [op |-> 4, max |-> n]
Op6(n) == [op |-> 6, idx |-> n]

\* What they do to what is held.
LEMMA Does1 ==
  ASSUME NEW h, NEW i, NEW k, NEW n \in Nat, NEW x, x = <<k - n - 1, None>>
  PROVE  IsOp(Op1(n)) /\ Left(h, Op1(n), k) = h \ {x} /\ Index(i, Op1(n)) = i
BY DEF IsOp, Left, Index, Op1

\* Operation 4 that takes no index away.
LEMMA Does4 ==
  ASSUME NEW h, NEW i, NEW k, NEW n \in Nat, \A x \in h : x[2] < n
  PROVE  IsOp(Op4(n)) /\ Left(h, Op4(n), k) = h /\ Index(i, Op4(n)) = i
BY DEF IsOp, Left, Index, Op4

\* Operation 6 when no other picture has the index.
LEMMA Does6 ==
  ASSUME NEW h, NEW i, NEW k, NEW n \in Nat, \A x \in h : x[2] # n
  PROVE  IsOp(Op6(n)) /\ Left(h, Op6(n), k) = h /\ Index(i, Op6(n)) = n
BY DEF IsOp, Left, Index, Op6

\* The operations of the picture that takes the index.
LEMMA LongOps ==
  ASSUME NEW h, NEW k \in Nat, NEW n \in Nat, \A x \in h : x[2] < n + 1 /\ x[2] # n,
         NEW p, p.held = h \cup {<<k, n>>}
  PROVE  Leads2(h, None, Op4(n + 1), Op6(n), p, k)
<1>1. IsOp(Op4(n + 1)) /\ Left(h, Op4(n + 1), k) = h /\ Index(None, Op4(n + 1)) = None
  <2>. DEFINE m == n + 1
  <2>1. m \in Nat /\ \A x \in h : x[2] < m
    OBVIOUS
  <2>. HIDE DEF m
  <2>2. IsOp(Op4(m)) /\ Left(h, Op4(m), k) = h /\ Index(None, Op4(m)) = None
    BY <2>1, Does4
  <2>. QED
    BY <2>2 DEF m
<1>2. IsOp(Op6(n)) /\ Left(h, Op6(n), k) = h /\ Index(None, Op6(n)) = n
  BY Does6
<1>3. Leads0(h, n, p, k)
  BY DEF Leads0
<1>4. Leads1(h, None, Op6(n), p, k)
  BY <1>2, <1>3 DEF Leads1
<1>. QED
  BY <1>1, <1>4 DEF Leads2

\* One operation before two others, or none before some.
LEMMA OneAndTwo ==
  ASSUME NEW u, IsSeq(u), NEW v, IsSeq(v)
  PROVE  Len(u) = 1 /\ Len(v) = 2 =>
           /\ IsSeq(u \o v) /\ Len(u \o v) = 3
           /\ (u \o v)[1] = u[1] /\ (u \o v)[2] = v[1] /\ (u \o v)[3] = v[2]
<1>. DEFINE s == u \o v
<1>1. /\ IsSeq(s) /\ Len(s) = Len(u) + Len(v)
      /\ \A i \in 1 .. Len(u) : s[i] = u[i]
      /\ \A i \in 1 .. Len(v) : s[Len(u) + i] = v[i]
  BY ConcatIs
<1>. HIDE DEF s
<1>2. ASSUME Len(u) = 1, Len(v) = 2
      PROVE  IsSeq(s) /\ Len(s) = 3 /\ s[1] = u[1] /\ s[2] = v[1] /\ s[3] = v[2]
  <2>1. Len(s) = 3 /\ s[1] = u[1]
    BY <1>1, <1>2
  <2>2. \A i \in 1 .. 2, n \in Nat : n = 1 + i => s[n] = v[i]
    BY <1>1, <1>2
  <2>3. s[2] = v[1]
    BY <2>2
  <2>4. s[3] = v[2]
    BY <2>2
  <2>. QED
    BY <1>1, <2>1, <2>3, <2>4
<1>. QED
  BY <1>2 DEF s

\* Nothing before or behind operations.
LEMMA NoneAndSome ==
  ASSUME NEW a, NEW b
  PROVE  <<>> \o <<a, b>> = <<a, b>> /\ <<a>> \o <<>> = <<a>>
OBVIOUS

\* The picture that takes the long-term index.
LEMMA LongTurn ==
  ASSUME Room, coded \in Nat \ {0}, NEW d, MirrorOf(d, coded), coded = cfg.longAt
  PROVE  /\ Marked(d, coded).mmco # <<>>
         /\ MirrorOf(Marked(d, coded).dpb, coded + 1)
         /\ \A p : p.held = Held(Marked(d, coded).dpb) =>
              Leads(Held(d), None, Marked(d, coded).mmco, p, coded)
<1>. DEFINE o == OldestShort(d)
            a == Op1(coded - o.frameNum - 1)
            b == Op4(LongIdx + 1)
            c == Op6(LongIdx)
            g == Roomed(d)
            f == g \cup {Entered(LongIdx)}
            s == (IF Full(d) THEN <<a>> ELSE <<>>) \o <<b, c>>
<1>1. Marked(d, coded) = [mmco |-> s, dpb |-> f]
  BY DEF Marked, Roomed, Entered, LongIdx, EvictOldest, Op1, Op4, Op6
<1>2. /\ g \subseteq d /\ Cardinality(g) + 1 <= cfg.refs
      /\ Full(d) => /\ o \in d /\ o.lt = None
                    /\ Held(g) = Held(d) \ {<<o.id, None>>}
  BY MirrorSlides
<1>3. LongIdx \in {0, 1} /\ LongIdx \in Nat /\ coded > 0
  BY DEF LongIdx
<1>4. MirrorOf(f, coded + 1) /\ Held(f) = Held(g) \cup {<<coded, LongIdx>>}
  <2>. DEFINE i == LongIdx
  <2>1. coded \in Nat /\ i \in {None, 0, 1} /\ i = LongIdx /\ g \in SUBSET d
    BY <1>2, <1>3
  <2>2. i # None => coded = cfg.longAt /\ cfg.longAt > 0 /\ i = LongIdx
    BY <1>3
  <2>. HIDE DEF i, g
  <2>3. /\ MirrorOf(g \cup {Entered(i)}, coded + 1)
        /\ Held(g \cup {Entered(i)}) = Held(g) \cup {<<coded, i>>}
    BY <1>2, <1>3, <2>1, <2>2, MirrorEnters
  <2>. QED
    BY <2>3 DEF i, g
<1>5. \A x \in Held(d) : x[2] < LongIdx + 1 /\ x[2] # LongIdx
  <2>1. ASSUME NEW e \in d
        PROVE  e.lt < LongIdx + 1 /\ e.lt # LongIdx
    <3>1. e.id # cfg.longAt /\ e.lt \in {None, 0, 1}
      BY MirrorTyped
    <3>2. e.lt # None => cfg.longIdr /\ e.lt = 0
      BY <3>1 DEF MirrorOf
    <3>. QED
      BY <3>1, <3>2 DEF LongIdx, None
  <2>. QED
    BY <2>1 DEF Held
<1>6. \A x \in Held(g) : x[2] < LongIdx + 1 /\ x[2] # LongIdx
  BY <1>2, <1>5 DEF Held
<1>7. /\ Full(d) => IsSeq(s) /\ Len(s) = 3 /\ s[1] = a /\ s[2] = b /\ s[3] = c
      /\ ~ Full(d) => IsSeq(s) /\ Len(s) = 2 /\ s[1] = b /\ s[2] = c
  <2>. HIDE DEF a, b, c
  <2>1. CASE Full(d)
    <3>. DEFINE u == <<a>>
                v == <<b, c>>
    <3>1. s = u \o v
      BY <2>1
    <3>2. /\ IsSeq(u) /\ Len(u) = 1 /\ u[1] = a
          /\ IsSeq(v) /\ Len(v) = 2 /\ v[1] = b /\ v[2] = c
      BY DEF IsSeq
    <3>. HIDE DEF s, u, v
    <3>3. /\ IsSeq(u \o v) /\ Len(u \o v) = 3
          /\ (u \o v)[1] = u[1] /\ (u \o v)[2] = v[1] /\ (u \o v)[3] = v[2]
      BY <3>2, OneAndTwo
    <3>. QED
      BY <2>1, <3>1, <3>2, <3>3
  <2>2. CASE ~ Full(d)
    <3>1. s = <<b, c>>
      BY <2>2, NoneAndSome
    <3>. HIDE DEF s
    <3>. QED
      BY <2>2, <3>1 DEF IsSeq
  <2>. QED
    BY <2>1, <2>2
<1>8. s # <<>>
  <2>. HIDE DEF s
  <2>. QED
    BY <1>7
<1>9. ASSUME NEW p, p.held = Held(f)
      PROVE  Leads(Held(d), None, s, p, coded)
  <2>1. Leads2(Held(g), None, b, c, p, coded)
    <3>. DEFINE h == Held(g)
                n == LongIdx
    <3>1. (\A x \in h : x[2] < n + 1 /\ x[2] # n) /\ p.held = h \cup {<<coded, n>>} /\ n \in Nat
          /\ coded \in Nat
      BY <1>3, <1>4, <1>6, <1>9
    <3>. HIDE DEF h, n, f, g, s, o
    <3>2. Leads2(h, None, Op4(n + 1), Op6(n), p, coded)
      BY <3>1, LongOps
    <3>. QED
      BY <3>2 DEF h, n
  <2>2. CASE Full(d)
    <3>1. o.frameNum = o.id /\ o.id \in Nat /\ o.id < coded
      BY <1>2, <2>2, MirrorTyped
    <3>2. coded - o.frameNum - 1 \in Nat /\ coded - (coded - o.frameNum - 1) - 1 = o.id
      BY <3>1
    <3>3. /\ IsOp(a) /\ Index(None, a) = None
          /\ Left(Held(d), a, coded) = Held(d) \ {<<coded - (coded - o.frameNum - 1) - 1, None>>}
      <4>. DEFINE n == coded - o.frameNum - 1
                  h == Held(d)
      <4>1. n \in Nat
        BY <3>2
      <4>. DEFINE x == <<coded - n - 1, None>>
      <4>3. x = <<coded - n - 1, None>>
        OBVIOUS
      <4>. HIDE DEF n, f, g, s, o, h, x
      <4>2. IsOp(Op1(n)) /\ Left(h, Op1(n), coded) = h \ {x} /\ Index(None, Op1(n)) = None
        BY <4>1, <4>3, Does1
      <4>. QED
        BY <4>2 DEF n, h, x
    <3>4. Left(Held(d), a, coded) = Held(g)
      BY <1>2, <2>2, <3>2, <3>3
    <3>. HIDE DEF a, b, c, f, g, s, o
    <3>5. Leads3(Held(d), None, a, b, c, p, coded)
      BY <2>1, <3>3, <3>4 DEF Leads3
    <3>6. IsSeq(s) /\ Len(s) = 3 /\ s[1] = a /\ s[2] = b /\ s[3] = c
      BY <1>7, <2>2
    <3>. QED
      BY <3>5, <3>6 DEF Leads
  <2>3. CASE ~ Full(d)
    <3>1. g = d
      BY <2>3 DEF Roomed
    <3>. HIDE DEF a, b, c, f, g, s, o
    <3>2. IsSeq(s) /\ Len(s) = 2 /\ s[1] = b /\ s[2] = c
      BY <1>7, <2>3
    <3>. QED
      BY <2>1, <3>1, <3>2 DEF Leads
  <2>. QED
    BY <2>2, <2>3
<1>. HIDE DEF s, f
<1>10. Marked(d, coded).mmco = s /\ Marked(d, coded).dpb = f
  BY <1>1
<1>. QED
  BY <1>4, <1>8, <1>9, <1>10

\* The picture that takes the index away.
LEMMA UnmarkTurn ==
  ASSUME Room, coded \in Nat \ {0}, NEW d, MirrorOf(d, coded), coded = cfg.unmarkAt,
         coded # cfg.longAt
  PROVE  /\ Marked(d, coded).mmco # <<>>
         /\ MirrorOf(Marked(d, coded).dpb, coded + 1)
         /\ \A p : p.held = Held(Marked(d, coded).dpb) =>
              Leads(Held(d), None, Marked(d, coded).mmco, p, coded)
<1>. DEFINE g == {e \in d : e.lt # LongIdx}
            f == g \cup {Entered(None)}
            a == Op2(LongIdx)
            s == <<a>>
<1>. HIDE DEF g, f, s, a
<1>1. Cardinality(d) \in Nat /\ IsFiniteSet(d) /\ Cardinality(d) <= cfg.refs /\ cfg.refs \in Nat
  <2>1. Cardinality(d) \in Nat /\ IsFiniteSet(d)
    BY MirrorTyped
  <2>2. Cardinality(d) <= cfg.refs
    BY DEF MirrorOf
  <2>3. cfg.refs \in Nat
    BY DEF Room
  <2>. QED
    BY <2>1, <2>2, <2>3
<1>2. ~ Overfull(d)
  BY <1>1 DEF Overfull
<1>3. Marked(d, coded) = [mmco |-> s, dpb |-> f]
  <2>. DEFINE b == <<a>> \o <<>>
  <2>1. b = s
    BY NoneAndSome DEF s
  <2>2. Marked(d, coded) = [mmco |-> b, dpb |-> f]
    BY <1>2 DEF Marked, Entered, LongIdx, Op2, a, f, g
  <2>. HIDE DEF b, s, f
  <2>. QED
    BY <2>1, <2>2
<1>4. cfg.longAt \in 1 .. coded - 1
  <2>1. cfg.longAt \in 1 .. cfg.unmarkAt
    BY DEF Room
  <2>. QED
    BY <2>1
<1>5. PICK e \in d : e.lt = LongIdx
  <2>1. ~ cfg.unmarkAt \in cfg.longAt + 1 .. coded - 1
    OBVIOUS
  <2>. QED
    BY <1>4, <2>1 DEF MirrorOf
<1>6. g \in SUBSET d /\ Cardinality(g) + 1 <= cfg.refs
  <2>1. g \in SUBSET (d \ {e})
    BY <1>5 DEF g
  <2>2. IsFiniteSet(d \ {e}) /\ Cardinality(d \ {e}) = Cardinality(d) - 1
    BY <1>1, <1>5, FS_RemoveElement
  <2>3. IsFiniteSet(g) /\ Cardinality(g) <= Cardinality(d \ {e}) /\ Cardinality(g) \in Nat
    <3>. HIDE DEF g
    <3>. QED
      BY <2>1, <2>2, FS_Subset, FS_CardinalityType
  <2>. QED
    BY <1>1, <2>1, <2>2, <2>3
<1>7. MirrorOf(f, coded + 1) /\ Held(f) = Held(g) \cup {<<coded, None>>}
  <2>. DEFINE i == None
  <2>1. coded \in Nat /\ coded > 0 /\ i \in {None, 0, 1} /\ i = None
    OBVIOUS
  <2>2. ~ (cfg.longAt \in 1 .. coded /\ ~ cfg.unmarkAt \in cfg.longAt + 1 .. coded)
    BY <1>4
  <2>3. i # None => coded = cfg.longAt /\ cfg.longAt > 0 /\ i = LongIdx
    OBVIOUS
  <2>. HIDE DEF i, g
  <2>4. /\ MirrorOf(g \cup {Entered(i)}, coded + 1)
        /\ Held(g \cup {Entered(i)}) = Held(g) \cup {<<coded, i>>}
    BY <1>6, <2>1, <2>2, <2>3, MirrorEnters
  <2>. QED
    BY <2>4 DEF i, f
<1>8. IsOp(a) /\ Left(Held(d), a, coded) = Held(g) /\ Index(None, a) = None
  <2>. DEFINE h == Held(d)
              l == Held(g)
              n == LongIdx
  <2>1. l = {x \in h : x[2] # n}
    BY DEF Held, g
  <2>2. n \in Nat
    BY DEF LongIdx
  <2>. HIDE DEF h, l, n
  <2>3. IsOp(Op2(n)) /\ Left(h, Op2(n), coded) = l /\ Index(None, Op2(n)) = None
    <3>1. IsOp(Op2(n))
      BY <2>2 DEF IsOp, Op2
    <3>2. Left(h, Op2(n), coded) = {x \in h : x[2] # n}
      BY DEF Left, Op2
    <3>3. Index(None, Op2(n)) = None
      BY DEF Index, Op2
    <3>. QED
      BY <2>1, <3>1, <3>2, <3>3
  <2>. QED
    BY <2>3 DEF h, l, n, a
<1>9. IsSeq(s) /\ Len(s) = 1 /\ s[1] = a /\ s # <<>>
  BY DEF IsSeq, s
<1>10. ASSUME NEW p, p.held = Held(f)
       PROVE  Leads(Held(d), None, s, p, coded)
  <2>1. Leads0(Held(g), None, p, coded)
    BY <1>7, <1>10 DEF Leads0
  <2>2. Leads1(Held(d), None, a, p, coded)
    BY <1>8, <2>1 DEF Leads1
  <2>. QED
    BY <1>9, <2>2 DEF Leads
<1>11. Marked(d, coded).mmco = s /\ Marked(d, coded).dpb = f
  BY <1>3
<1>. QED
  BY <1>7, <1>9, <1>10, <1>11

\* A turn of the driver.
LEMMA MultirefTurn ==
  ASSUME Room, cfg.kind = "multiref", enc.k \in Nat, coded = enc.k, MirrorOf(enc.dpb, enc.k),
         MultirefFrame
  PROVE  /\ IsSeq(todo') /\ Len(todo') = 1 /\ Turn(Held(enc.dpb), todo'[1], enc.k)
         /\ enc'.k = enc.k + 1 /\ coded' = coded + 1 /\ enc.k < cfg.frames
         /\ MirrorOf(enc'.dpb, enc.k + 1) /\ Held(enc'.dpb) = todo'[1].held
<1>. DEFINE k     == enc.k
            h     == Held(enc.dpb)
            i0    == IF cfg.longIdr THEN 0 ELSE None
            first0 == {[id |-> coded, frameNum |-> 0, lt |-> i0]}
            init  == InitList0(enc.dpb)
            moved == k = cfg.longFirstAt /\ Shorts(enc.dpb) # enc.dpb
            list  == IF moved THEN LongFirst(init) ELSE init
            n     == IF Len(list) < cfg.refs THEN Len(list) ELSE cfg.refs
            after == IF k = 0 THEN [mmco |-> <<>>, dpb |-> first0] ELSE Marked(enc.dpb, k)
            l     == Ids(SubSeq(list, 1, n))
            r     == IF moved THEN <<[op |-> "long", arg |-> list[1].lt]>> ELSE <<>>
            p     == [Predicted([Blank EXCEPT !.id = coded, !.display = k], l)
                        EXCEPT !.active = n, !.mmco = after.mmco, !.rplm = r]
            held  == Held(after.dpb)
            x     == [(IF k = 0 THEN MultirefIdr ELSE Numbered(p, k, 2 * k)) EXCEPT !.held = held]
<1>1. todo' = <<x>> /\ coded' = coded + Len(<<x>>) /\ enc' = [k |-> k + 1, dpb |-> after.dpb]
      /\ enc.k < cfg.frames
  BY DEF MultirefFrame, Code, Held
<1>. HIDE DEF first0, init, moved, list, n, after, l, r, held, h, i0
<1>2. k \in Nat /\ k < MaxFrameNum
  BY <1>1, EncoderStreamsAssumption DEF Room
<1>3. ASSUME k = 0
      PROVE  Turn(h, x, k) /\ MirrorOf(after.dpb, k + 1)
  <2>1. x = [MultirefIdr EXCEPT !.held = held]
    BY <1>3
  <2>2. after.mmco = <<>> /\ after.dpb = first0
    BY <1>3 DEF after
  <2>3. MirrorOf(first0, 1) /\ Held(first0) = {<<0, i0>>}
    <3>1. i0 = (IF cfg.longIdr THEN 0 ELSE None) /\ coded = 0
      BY <1>3 DEF i0
    <3>2. /\ MirrorOf({[id |-> coded, frameNum |-> 0, lt |-> i0]}, 1)
          /\ Held({[id |-> coded, frameNum |-> 0, lt |-> i0]}) = {<<0, i0>>}
      BY <3>1, MirrorBegins
    <3>. QED
      BY <3>2 DEF first0
  <2>. HIDE DEF x, p
  <2>4. /\ x.frameNum = 0 /\ x.id = coded /\ x.idr = TRUE /\ x.ref = TRUE /\ x.structure = "frame"
        /\ x.slices = <<<<0, FALSE>>>> /\ x.longTerm = cfg.longIdr /\ x.mmco = <<>> /\ x.held = held
    BY <2>1 DEF MultirefIdr, Blank
  <2>5. held = {<<0, i0>>}
    BY <2>2, <2>3 DEF held
  <2>6. k + 1 = 1 /\ cfg.longIdr \in BOOLEAN
    BY <1>3 DEF Room
  <2>7. Turn(h, x, k)
    <3>1. x.idr = (k = 0) /\ x.longTerm = (k = 0 /\ cfg.longIdr)
      BY <1>3, <2>4, <2>6
    <3>2. x.frameNum = k /\ x.id = k /\ ~ k > 0
      BY <1>3, <2>4
    <3>3. x.held = {<<0, IF cfg.longIdr THEN 0 ELSE None>>}
      BY <2>4, <2>5 DEF i0
    <3>. HIDE DEF k
    <3>. QED
      BY <2>4, <3>1, <3>2, <3>3 DEF Turn
  <2>. QED
    BY <2>2, <2>3, <2>6, <2>7
<1>4. ASSUME k # 0
      PROVE  Turn(h, x, k) /\ MirrorOf(after.dpb, k + 1)
  <2>. DEFINE y == Numbered(p, k, 2 * k)
  <2>1. /\ y.id = coded /\ y.slices = <<<<0, FALSE>>>> /\ y.idr = FALSE /\ y.ref = TRUE
        /\ y.structure = "frame" /\ y.frameNum = k % MaxFrameNum /\ y.longTerm = FALSE
        /\ y.mmco = after.mmco
    BY DEF Numbered, Predicted, Blank
  <2>2. x = [y EXCEPT !.held = held]
    BY <1>4
  <2>3. DOMAIN y = DOMAIN Blank
    BY DEF Numbered, Predicted
  <2>4. k % MaxFrameNum = k
    BY <1>2, ModSmall, EncoderStreamsAssumption
  <2>. HIDE DEF x, y
  <2>5. /\ x.frameNum = k /\ x.id = k /\ x.idr = FALSE /\ x.ref = TRUE /\ x.structure = "frame"
        /\ x.slices = <<<<0, FALSE>>>> /\ x.longTerm = FALSE /\ x.mmco = after.mmco /\ x.held = held
    BY <2>1, <2>2, <2>3, <2>4 DEF Blank
  <2>6. /\ after = Marked(enc.dpb, coded) /\ coded \in Nat \ {0} /\ coded = k
        /\ MirrorOf(enc.dpb, coded)
    BY <1>2, <1>4 DEF after
  <2>. DEFINE m == Marked(enc.dpb, coded)
  <2>7. /\ MirrorOf(m.dpb, coded + 1)
        /\ m.mmco = <<>> =>
             \E g \in SUBSET h : Slides(h, g) /\ Held(m.dpb) = g \cup {<<coded, None>>}
        /\ m.mmco # <<>> => \A q : q.held = Held(m.dpb) => Leads(h, None, m.mmco, q, coded)
    <3>1. CASE coded \notin {cfg.longAt, cfg.unmarkAt}
      <4>. DEFINE g == Held(Roomed(enc.dpb))
      <4>1. /\ m.mmco = <<>> /\ MirrorOf(m.dpb, coded + 1)
            /\ Slides(h, g) /\ g \subseteq h /\ Held(m.dpb) = g \cup {<<coded, None>>}
        BY <2>6, <3>1, PlainTurn DEF h
      <4>. HIDE DEF g, m
      <4>. QED
        BY <4>1
    <3>2. CASE coded = cfg.longAt
      BY <2>6, <3>2, LongTurn DEF h
    <3>3. CASE coded = cfg.unmarkAt /\ coded # cfg.longAt
      BY <2>6, <3>3, UnmarkTurn DEF h
    <3>. QED
      BY <3>1, <3>2, <3>3
  <2>. HIDE DEF m
  <2>8. held = Held(m.dpb) /\ after = m
    BY <2>6 DEF held, m
  <2>9. Turn(h, x, k)
    <3>1. x.idr = (k = 0) /\ x.longTerm = (k = 0 /\ cfg.longIdr)
      BY <1>4, <2>5
    <3>2. k > 0 /\ x.mmco = <<>> =>
            \E g \in SUBSET h : Slides(h, g) /\ x.held = g \cup {<<k, None>>}
      BY <2>5, <2>6, <2>7, <2>8
    <3>3. k > 0 /\ x.mmco # <<>> => Leads(h, None, x.mmco, x, k)
      BY <2>5, <2>6, <2>7, <2>8
    <3>. HIDE DEF k
    <3>. QED
      BY <1>4, <2>5, <3>1, <3>2, <3>3 DEF Turn
  <2>. QED
    BY <2>6, <2>7, <2>8, <2>9
<1>5. Turn(h, x, k) /\ MirrorOf(after.dpb, k + 1)
  BY <1>3, <1>4
<1>6. x.held = held
  BY DEF Numbered, Predicted, MultirefIdr, Blank
<1>. HIDE DEF x
<1>7. IsSeq(todo') /\ Len(todo') = 1 /\ todo'[1] = x /\ coded' = coded + 1
  BY <1>1 DEF IsSeq
<1>8. enc'.k = k + 1 /\ enc'.dpb = after.dpb
  BY <1>1
<1>. QED
  BY <1>1, <1>5, <1>6, <1>7, <1>8 DEF h, held

\* No operation is left.
LEMMA LeadsEnd ==
  ASSUME NEW h, NEW i, NEW p, NEW k, Leads(h, i, <<>>, p, k)
  PROVE  p.held = h \cup {<<k, i>>}
BY DEF Leads, Leads0

\* The next operation.
LEMMA LeadsOn ==
  ASSUME NEW h, NEW i, NEW s, NEW p, NEW k, Leads(h, i, s, p, k), s # <<>>
  PROVE  /\ IsOp(Head(s))
         /\ Leads(Left(h, Head(s), k), Index(i, Head(s)), Tail(s), p, k)
<1>. DEFINE t == Tail(s)
            a == Head(s)
            n == Len(s)
<1>1. IsSeq(s)
  BY DEF Leads
<1>2. /\ IsSeq(t) /\ Len(t) = n - 1 /\ a = s[1] /\ n > 0
      /\ \A j \in 1 .. n - 1 : t[j] = s[j + 1]
  BY <1>1, TailIs
<1>3. /\ n \in {1, 2, 3}
      /\ n = 1 => Leads1(h, i, s[1], p, k)
      /\ n = 2 => Leads2(h, i, s[1], s[2], p, k)
      /\ n = 3 => Leads3(h, i, s[1], s[2], s[3], p, k)
  <2>1. n # 0
    BY <1>2
  <2>. QED
    BY <2>1 DEF Leads
<1>. HIDE DEF t, a, n
<1>. DEFINE g == Left(h, a, k)
            x == Index(i, a)
<1>4. CASE n = 1
  <2>1. IsOp(a) /\ Leads0(g, x, p, k)
    BY <1>2, <1>3, <1>4 DEF Leads1
  <2>2. Len(t) = 0
    BY <1>2, <1>4
  <2>. HIDE DEF g, x
  <2>3. Leads(g, x, t, p, k)
    BY <1>2, <2>1, <2>2 DEF Leads
  <2>. QED
    BY <2>1, <2>3 DEF a, t, g, x
<1>5. CASE n = 2
  <2>1. IsOp(a) /\ Leads1(g, x, s[2], p, k)
    BY <1>2, <1>3, <1>5 DEF Leads2
  <2>2. Len(t) = 1 /\ t[1] = s[2]
    BY <1>2, <1>5
  <2>. HIDE DEF g, x
  <2>3. Leads(g, x, t, p, k)
    BY <1>2, <2>1, <2>2 DEF Leads
  <2>. QED
    BY <2>1, <2>3 DEF a, t, g, x
<1>6. CASE n = 3
  <2>1. IsOp(a) /\ Leads2(g, x, s[2], s[3], p, k)
    BY <1>2, <1>3, <1>6 DEF Leads3
  <2>2. Len(t) = 2 /\ t[1] = s[2] /\ t[2] = s[3]
    BY <1>2, <1>6
  <2>. HIDE DEF g, x
  <2>3. Leads(g, x, t, p, k)
    BY <1>2, <2>1, <2>2 DEF Leads
  <2>. QED
    BY <2>1, <2>3 DEF a, t, g, x
<1>. QED
  BY <1>3, <1>4, <1>5, <1>6

\* Where the driver and the decoder are, and the last picture begun.
LEMMA SentThen ==
  ASSUME cfg' = cfg, NEW b, NEW h, Begun' = b, LastHeld' = h,
         sent' = 0, coded' = enc'.k, enc'.k <= cfg.frames, MirrorOf(enc'.dpb, enc'.k),
         todo' = <<>> => enc'.k = b /\ Held(enc'.dpb) = h,
         todo' # <<>> => /\ Len(todo') = 1 /\ enc'.k = b + 1
                         /\ Turn(h, todo'[1], b) /\ Held(enc'.dpb) = todo'[1].held
  PROVE  MirrorSent'
<1>1. MirrorOf(enc.dpb, enc.k)' = MirrorOf(enc'.dpb, enc'.k)
  BY DEF MirrorOf, LongIdx
<1>2. Turn(LastHeld, todo[1], Begun)' = Turn(h, todo'[1], b)
  BY DEF Turn, Slides
<1>. QED
  BY <1>1, <1>2 DEF MirrorSent

\* A step that sends nothing and begins no picture.
LEMMA SentStays ==
  ASSUME MirrorSent, UNCHANGED <<encoder, sent, head>>, Begun' = Begun
  PROVE  MirrorSent'
<1>1. LastHeld' = LastHeld
  BY DEF LastHeld
<1>2. UNCHANGED <<cfg, enc, coded, todo, sent>>
  BY DEF encoder
<1>3. /\ sent = 0 /\ coded = enc.k /\ enc.k <= cfg.frames /\ MirrorOf(enc.dpb, enc.k)
      /\ todo = <<>> => enc.k = Begun /\ Held(enc.dpb) = LastHeld
      /\ todo # <<>> => /\ Len(todo) = 1 /\ enc.k = Begun + 1
                        /\ Turn(LastHeld, todo[1], Begun) /\ Held(enc.dpb) = todo[1].held
  BY DEF MirrorSent
<1>. QED
  BY <1>1, <1>2, <1>3, SentThen

\* No first field waits for its second.
NoFirst == [structure |-> "frame", frameNum |-> 0, ref |-> FALSE, key |-> 0]

\* The picture that is open.
LEMMA OpenIs ==
  ASSUME MirrorKept, phase = "open"
  PROVE  /\ pic.idr = (nextKey = 0) /\ pic.ref = TRUE /\ pic.frameNum = nextKey
         /\ pic.structure = "frame" /\ pic.longTermFlag = (nextKey = 0 /\ cfg.longIdr)
         /\ pic.adaptive = (head.mmco # <<>>)
         /\ head.id = nextKey /\ AllHeld(dpb, nextKey) /\ first = NoFirst
<1>1. pic = Header(head) /\ Turn(HeldBy(dpb), head, nextKey)
  BY DEF MirrorKept
<1>2. AllHeld(dpb, nextKey) /\ first = NoFirst
  BY DEF MirrorKept, AllHeld, NoFirst
<1>3. /\ head.frameNum = nextKey /\ head.id = nextKey /\ head.idr = (nextKey = 0)
      /\ head.ref = TRUE /\ head.structure = "frame"
      /\ head.longTerm = (nextKey = 0 /\ cfg.longIdr)
  BY <1>1 DEF Turn
<1>. QED
  BY <1>1, <1>2, <1>3 DEF Header

\* The current picture joins what is left of the buffer.
LEMMA StoreIs ==
  ASSUME NEW r, NEW n, NEW d, NEW c, Marks(d, c, n), pic.structure = "frame",
         D(r)!StoreCurrent(d, c, n, n)
  PROVE  /\ IsFrames(dpb', n + 1) /\ DOMAIN dpb' \subseteq (DOMAIN d) \cup {n}
         /\ \A k \in DOMAIN dpb' : dpb'[k].marking # "unused"
         /\ HeldBy(dpb') = HeldBy(d) \cup {<<n, LtOf(c)>>}
         /\ first' = NoFirst /\ phase' = "idle"
<1>. DEFINE e == Stored(r, d, n, c)
<1>1. [c EXCEPT !.frameNum = n] = c
  <2>1. PICK m \in {"short", "long"}, i \in Nat : c = FrameEntry(n, m, i)
    BY DEF Marks
  <2>. QED
    BY <2>1 DEF FrameEntry
<1>2. dpb' = e
  BY <1>1 DEF D!StoreCurrent, Stored
<1>3. first' = NoFirst /\ phase' = "idle"
  BY DEF D!StoreCurrent, D!AwaitsSecond, D!Parity, D!NoField, D!Close, NoFirst
<1>. HIDE DEF e
<1>4. e = Stored(r, d, n, c)
  BY DEF e
<1>5. /\ IsFrames(e, n + 1) /\ DOMAIN e \subseteq (DOMAIN d) \cup {n}
      /\ \A k \in DOMAIN e : e[k].marking # "unused"
      /\ HeldBy(e) = HeldBy(d) \cup {<<n, LtOf(c)>>}
  BY <1>4, FramesStored
<1>. QED
  BY <1>2, <1>3, <1>5

\* Between pictures: every frame held is known by its number.
LEMMA KeptIdle ==
  ASSUME MirrorKept, NEW n \in Nat, NEW x, NEW y,
         known' = [k \in (DOMAIN known) \cup {n} |->
                     IF k = n THEN [foc |-> x, id |-> y] ELSE known[k]],
         y = n, nextKey' = n + 1, phase' = "idle", first' = NoFirst, head' = head,
         IsFrames(dpb', n + 1), DOMAIN dpb' \subseteq (DOMAIN dpb) \cup {n},
         \A k \in DOMAIN dpb' : dpb'[k].marking # "unused",
         HeldBy(dpb') = head.held
  PROVE  MirrorKept' /\ Begun' = n + 1
<1>1. \A k \in DOMAIN dpb : k \in DOMAIN known /\ known[k].id = k
  BY DEF MirrorKept
<1>2. \A k \in DOMAIN dpb' : k \in DOMAIN known' /\ known'[k].id = k
  BY <1>1
<1>3. Begun' = n + 1 /\ nextKey' # 0 /\ nextKey' \in Nat
  BY DEF Begun
<1>4. LastHeld' = head.held
  <2>1. Begun' # 0
    BY <1>3
  <2>. QED
    BY <2>1 DEF LastHeld
<1>5. (IF phase' = "mmco" THEN nextKey' - 1 ELSE nextKey') = n + 1
  OBVIOUS
<1>. QED
  BY <1>2, <1>3, <1>4, <1>5 DEF MirrorKept, NoFirst

\* finalize_in_progress_picture, of an IDR picture.
LEMMA MirrorIdr ==
  ASSUME Room, MirrorSent, MirrorKept, phase = "open", D(1)!FinalizeIdr, Finished(nextKey)
  PROVE  MirrorSent' /\ MirrorKept'
<1>1. /\ pic.idr = (nextKey = 0) /\ pic.frameNum = nextKey /\ pic.structure = "frame"
      /\ pic.longTermFlag = (nextKey = 0 /\ cfg.longIdr)
      /\ head.id = nextKey /\ AllHeld(dpb, nextKey) /\ first = NoFirst
  BY OpenIs
<1>2. nextKey = 0 /\ 0 \in Nat
  BY <1>1 DEF D!FinalizeIdr
<1>. DEFINE m == IF cfg.longIdr THEN "long" ELSE "short"
            c == D(1)!NewEntry(pic.frameNum, pic.structure, D(1)!FrameKey(pic, nextKey))
            f == IF pic.longTermFlag THEN D(1)!MarkAll(c, "long") ELSE c
            d == D(1)!MarkAllUnused(dpb)
<1>3. D(1)!StoreCurrent(d, f, 0, 0) /\ nextKey' = 1
  BY <1>1, <1>2 DEF D!FinalizeIdr
<1>4. f = FrameEntry(0, m, 0)
  <2>1. c = FrameEntry(0, "short", 0)
    <3>1. D(1)!FrameKey(pic, nextKey) = 0
      BY <1>1, <1>2 DEF D!FrameKey, D!IsSecondField, D!NoField, NoFirst
    <3>2. D(1)!NewEntry(0, "frame", 0) = FrameEntry(0, "short", 0)
      BY FrameNew
    <3>. QED
      BY <1>1, <1>2, <3>1, <3>2
  <2>. HIDE DEF c
  <2>2. D(1)!MarkAll(FrameEntry(0, "short", 0), "long") = FrameEntry(0, "long", 0)
    BY FramesMarking
  <2>. QED
    BY <1>1, <1>2, <2>1, <2>2 DEF Room
<1>5. IsFrames(d, 0) /\ DOMAIN d = {} /\ HeldBy(d) = {}
  <2>1. IsFrames(dpb, 0) /\ DOMAIN dpb = {}
    <3>1. IsFrames(dpb, 0)
      BY <1>1, <1>2 DEF AllHeld
    <3>. QED
      BY <3>1 DEF IsFrames
  <2>2. d = D(1)!MarkUnused(dpb, DOMAIN dpb) /\ DOMAIN dpb \in SUBSET DOMAIN dpb
    BY DEF D!MarkAllUnused
  <2>3. DOMAIN d = DOMAIN dpb /\ IsFrames(d, 0)
    <3>. DEFINE all == DOMAIN dpb
    <3>. HIDE DEF d, all
    <3>. QED
      BY <1>2, <2>1, <2>2, FramesUnused DEF all
  <2>. HIDE DEF d
  <2>4. HeldBy(d) = {}
    BY <2>1, <2>3 DEF HeldBy
  <2>. QED
    BY <2>1, <2>3, <2>4
<1>. HIDE DEF c, f, d
<1>6. /\ IsFrames(dpb', 1) /\ DOMAIN dpb' \subseteq {0}
      /\ \A k \in DOMAIN dpb' : dpb'[k].marking # "unused"
      /\ HeldBy(dpb') = {<<0, LtOf(f)>>} /\ first' = NoFirst /\ phase' = "idle"
  <2>1. m \in {"short", "long"} /\ 0 + 1 = 1
    OBVIOUS
  <2>. HIDE DEF m
  <2>2. /\ IsFrames(dpb', 0 + 1) /\ DOMAIN dpb' \subseteq (DOMAIN d) \cup {0}
        /\ \A k \in DOMAIN dpb' : dpb'[k].marking # "unused"
        /\ HeldBy(dpb') = HeldBy(d) \cup {<<0, LtOf(f)>>} /\ first' = NoFirst /\ phase' = "idle"
    <3>1. Marks(d, f, 0) /\ pic.structure = "frame"
      BY <1>1, <1>4, <1>5, <2>1 DEF Marks
    <3>. QED
      BY <1>3, <3>1, StoreIs
  <2>. QED
    BY <1>5, <2>1, <2>2
<1>7. LtOf(f) = IF cfg.longIdr THEN 0 ELSE None
  <2>1. f.marking = m /\ f.ltIdx = 0
    BY <1>4, FrameIs
  <2>. QED
    BY <2>1 DEF LtOf
<1>8. head.held = {<<0, IF cfg.longIdr THEN 0 ELSE None>>}
  BY <1>2 DEF MirrorKept, Turn
<1>9. /\ known' = [k \in (DOMAIN known) \cup {0} |->
                     IF k = 0 THEN [foc |-> [top |-> counts.top, bottom |-> counts.bottom],
                                    id |-> head.id] ELSE known[k]]
      /\ UNCHANGED <<encoder, sent, head>>
  BY <1>2 DEF Finished
<1>. DEFINE foc == [top |-> counts.top, bottom |-> counts.bottom]
<1>10. MirrorKept' /\ Begun' = 0 + 1
  <2>1. nextKey' = 0 + 1 /\ IsFrames(dpb', 0 + 1) /\ DOMAIN dpb' \subseteq (DOMAIN dpb) \cup {0}
    BY <1>3, <1>6
  <2>2. HeldBy(dpb') = head.held /\ head.id = 0 /\ head' = head
    BY <1>1, <1>2, <1>6, <1>7, <1>8, <1>9
  <2>3. known' = [k \in (DOMAIN known) \cup {0} |->
                    IF k = 0 THEN [foc |-> foc, id |-> head.id] ELSE known[k]]
    BY <1>9
  <2>. HIDE DEF foc
  <2>. QED
    BY <1>2, <1>6, <2>1, <2>2, <2>3, KeptIdle
<1>. QED
  <2>1. Begun' = Begun
    BY <1>2, <1>10 DEF Begun
  <2>. QED
    BY <1>9, <1>10, <2>1, SentStays

\* finalize_in_progress_picture, of a picture without operations.
LEMMA MirrorWindow ==
  ASSUME Room, MirrorSent, MirrorKept, phase = "open", NEW r, r = cfg.refs,
         D(r)!FinalizeSlidingWindow, Finished(nextKey)
  PROVE  MirrorSent' /\ MirrorKept'
<1>. DEFINE n == nextKey
            c == D(r)!NewEntry(pic.frameNum, pic.structure, D(r)!FrameKey(pic, n))
            d == D(r)!SlidingWindow(dpb, r, n, "frame")
<1>1. /\ pic.idr = (n = 0) /\ pic.frameNum = n /\ pic.structure = "frame"
      /\ pic.adaptive = (head.mmco # <<>>)
      /\ head.id = n /\ AllHeld(dpb, n) /\ first = NoFirst
  BY OpenIs
<1>2. n > 0 /\ n \in Nat /\ head.mmco = <<>>
  <2>1. ~ pic.idr /\ ~ pic.adaptive
    BY DEF D!FinalizeSlidingWindow
  <2>2. n # 0 /\ head.mmco = <<>>
    <3>. HIDE DEF n
    <3>. QED
      BY <1>1, <2>1, Zenon
  <2>3. n \in Nat
    BY <1>1 DEF AllHeld
  <2>. HIDE DEF n
  <2>. QED
    BY <2>2, <2>3
<1>3. D(r)!StoreCurrent(d, c, n, n) /\ nextKey' = n + 1
  BY <1>1 DEF D!FinalizeSlidingWindow
<1>4. c = FrameEntry(n, "short", 0)
  <2>1. D(r)!FrameKey(pic, n) = n
    BY <1>1 DEF D!FrameKey, D!IsSecondField, D!NoField, NoFirst
  <2>2. D(r)!NewEntry(n, "frame", n) = FrameEntry(n, "short", 0)
    BY FrameNew
  <2>. QED
    BY <1>1, <2>1, <2>2
<1>5. PICK g \in SUBSET HeldBy(dpb) : Slides(HeldBy(dpb), g) /\ head.held = g \cup {<<n, None>>}
  BY <1>2 DEF MirrorKept, Turn
<1>6. IsFrames(d, n) /\ DOMAIN d = DOMAIN dpb /\ HeldBy(d) = g
  <2>1. cfg.refs \in Nat \ {0} /\ Slides(HeldBy(dpb), g)
    BY <1>5 DEF Room
  <2>. HIDE DEF n
  <2>. QED
    BY <1>1, <2>1, HeldSlides
<1>. HIDE DEF c, d
<1>7. Marks(d, c, n) /\ LtOf(c) = None
  <2>1. \E m \in {"short", "long"}, i \in Nat : c = FrameEntry(n, m, i)
    BY <1>4
  <2>2. c.marking = "short"
    BY <1>4, FrameIs
  <2>. QED
    BY <1>2, <1>6, <2>1, <2>2 DEF Marks, LtOf
<1>8. /\ IsFrames(dpb', n + 1) /\ DOMAIN dpb' \subseteq (DOMAIN d) \cup {n}
      /\ \A k \in DOMAIN dpb' : dpb'[k].marking # "unused"
      /\ HeldBy(dpb') = HeldBy(d) \cup {<<n, LtOf(c)>>} /\ first' = NoFirst /\ phase' = "idle"
  BY <1>1, <1>3, <1>7, StoreIs
<1>. DEFINE foc == [top |-> counts.top, bottom |-> counts.bottom]
<1>9. /\ known' = [k \in (DOMAIN known) \cup {n} |->
                     IF k = n THEN [foc |-> foc, id |-> head.id] ELSE known[k]]
      /\ UNCHANGED <<encoder, sent, head>>
  BY DEF Finished
<1>. HIDE DEF foc
<1>10. MirrorKept' /\ Begun' = n + 1
  <2>1. DOMAIN dpb' \subseteq (DOMAIN dpb) \cup {n} /\ HeldBy(dpb') = head.held /\ head' = head
    BY <1>5, <1>6, <1>7, <1>8, <1>9
  <2>. HIDE DEF n
  <2>. QED
    BY <1>1, <1>2, <1>3, <1>8, <1>9, <2>1, KeptIdle
<1>. QED
  <2>1. Begun' = Begun
    BY <1>10 DEF Begun
  <2>. QED
    BY <1>9, <1>10, <2>1, SentStays

\* Among the operations of a picture.
LEMMA KeptMarking ==
  ASSUME MirrorKept, NEW n \in Nat, nextKey' = n + 1, phase' = "mmco", first' = NoFirst,
         DOMAIN dpb' = DOMAIN dpb, known' = known, head' = head, pic' = Header(head), head.id = n,
         head.structure = "frame", mmco5' = FALSE, Marks(dpb', cur', n),
         Leads(HeldBy(dpb'), LtOf(cur'), ops', head, n)
  PROVE  MirrorKept' /\ Begun' = n + 1
<1>1. \A k \in DOMAIN dpb' : k \in DOMAIN known' /\ known'[k].id = k
  BY DEF MirrorKept
<1>2. nextKey' # 0 /\ nextKey' > 0 /\ nextKey' \in Nat /\ nextKey' - 1 = n /\ Begun' = n + 1
  BY DEF Begun
<1>3. IsFrames(dpb', n)
  BY DEF Marks
<1>4. \E m \in {"short", "long"}, i \in {cur'.ltIdx} : i \in Nat /\ cur' = FrameEntry(n, m, i)
  <2>1. PICK m \in {"short", "long"}, i \in Nat : cur' = FrameEntry(n, m, i)
    BY DEF Marks
  <2>2. cur'.ltIdx = i
    BY <2>1, FrameIs
  <2>. QED
    BY <2>1, <2>2
<1>5. Leads(HeldBy(dpb), LtOf(cur), ops, head, nextKey - 1)'
  BY <1>2
<1>. QED
  BY <1>1, <1>2, <1>3, <1>4, <1>5 DEF MirrorKept, NoFirst

\* What is known among the operations.
LEMMA MarkingIs ==
  ASSUME MirrorKept, phase = "mmco", NEW n, n = nextKey - 1
  PROVE  /\ n \in Nat /\ nextKey = n + 1 /\ first = NoFirst /\ pic = Header(head) /\ head.id = n
         /\ head.structure = "frame" /\ mmco5 = FALSE /\ Marks(dpb, cur, n)
         /\ Leads(HeldBy(dpb), LtOf(cur), ops, head, n)
<1>1. nextKey \in Nat /\ nextKey > 0 /\ IsFrames(dpb, nextKey - 1)
  BY DEF MirrorKept
<1>2. \E m \in {"short", "long"}, i \in Nat : cur = FrameEntry(n, m, i)
  BY DEF MirrorKept
<1>. QED
  BY <1>1, <1>2 DEF MirrorKept, Marks, NoFirst

\* The operations of a picture begin.
LEMMA MirrorBeginsMarking ==
  ASSUME Room, MirrorSent, MirrorKept, BeginMarking
  PROVE  MirrorSent' /\ MirrorKept'
<1>. DEFINE n == nextKey
<1>0. phase = "open" /\ D(1)!BeginAdaptiveMarking /\ ops' = head.mmco
      /\ UNCHANGED <<encoder, sent, head, known>>
  BY DEF BeginMarking
<1>1. /\ pic.frameNum = n /\ pic.structure = "frame" /\ pic.adaptive = (head.mmco # <<>>)
      /\ head.id = n /\ AllHeld(dpb, n) /\ first = NoFirst
  BY <1>0, OpenIs
<1>2. /\ pic.adaptive /\ phase' = "mmco" /\ nextKey' = n + 1 /\ mmco5' = FALSE
      /\ cur' = D(1)!NewEntry(pic.frameNum, pic.structure, D(1)!FrameKey(pic, n))
      /\ UNCHANGED <<dpb, pic, first>>
  BY <1>0 DEF D!BeginAdaptiveMarking
<1>3. cur' = FrameEntry(n, "short", 0)
  <2>1. D(1)!FrameKey(pic, n) = n
    BY <1>1 DEF D!FrameKey, D!IsSecondField, D!NoField, NoFirst
  <2>2. D(1)!NewEntry(n, "frame", n) = FrameEntry(n, "short", 0)
    BY FrameNew
  <2>. QED
    BY <1>1, <1>2, <2>1, <2>2
<1>4. Marks(dpb', cur', n) /\ LtOf(cur') = None /\ n \in Nat
  <2>1. \E m \in {"short", "long"}, i \in Nat : cur' = FrameEntry(n, m, i)
    BY <1>3
  <2>2. cur'.marking = "short"
    BY <1>3, FrameIs
  <2>3. IsFrames(dpb', n) /\ n \in Nat
    BY <1>1, <1>2 DEF AllHeld
  <2>. QED
    BY <2>1, <2>2, <2>3 DEF Marks, LtOf
<1>5. Leads(HeldBy(dpb'), LtOf(cur'), ops', head, n) /\ pic' = Header(head)
      /\ head.structure = "frame"
  <2>1. pic = Header(head) /\ Turn(HeldBy(dpb), head, n)
    BY <1>0 DEF MirrorKept
  <2>2. n > 0 /\ head.mmco # <<>>
    <3>1. head.mmco # <<>>
      BY <1>1, <1>2, Zenon
    <3>2. n # 0
      BY <2>1, <3>1 DEF Turn
    <3>. QED
      BY <1>4, <3>1, <3>2
  <2>3. Leads(HeldBy(dpb), None, head.mmco, head, n)
    BY <2>1, <2>2 DEF Turn
  <2>4. head.structure = "frame"
    BY <2>1 DEF Turn
  <2>. QED
    BY <1>0, <1>2, <1>4, <2>1, <2>3, <2>4
<1>6. MirrorKept' /\ Begun' = n + 1
  <2>1. DOMAIN dpb' = DOMAIN dpb /\ first' = NoFirst /\ known' = known /\ head' = head
    BY <1>0, <1>1, <1>2
  <2>. HIDE DEF n
  <2>. QED
    BY <1>1, <1>2, <1>4, <1>5, <2>1, KeptMarking
<1>. QED
  <2>1. Begun' = Begun
    BY <1>0, <1>6 DEF Begun
  <2>. QED
    BY <1>0, <1>6, <2>1, SentStays

\* What an operation leaves, by its number.
LEMMA LeftIs ==
  ASSUME NEW h, NEW i, NEW k, NEW o, IsOp(o)
  PROVE  /\ o.op \in {1, 2, 4, 6}
         /\ o.op = 1 => /\ o.diff \in Nat /\ Index(i, o) = i
                        /\ Left(h, o, k) = h \ {<<k - o.diff - 1, None>>}
         /\ o.op = 2 => /\ o.num \in Nat /\ Index(i, o) = i
                        /\ Left(h, o, k) = {x \in h : x[2] # o.num}
         /\ o.op = 4 => /\ o.max \in Nat /\ Index(i, o) = i
                        /\ Left(h, o, k) = {x \in h : x[2] < o.max}
         /\ o.op = 6 => /\ o.idx \in Nat /\ Index(i, o) = o.idx
                        /\ Left(h, o, k) = {x \in h : x[2] # o.idx}
BY DEF IsOp, Left, Index

\* A step that applies the next operation.
LEMMA MirrorApplies ==
  ASSUME Room, MirrorSent, MirrorKept, ApplyMmco
  PROVE  MirrorSent' /\ MirrorKept'
<1>. DEFINE n == nextKey - 1
            o == Head(ops)
            h == HeldBy(dpb)
            i == LtOf(cur)
            t == Tail(ops)
<1>0. /\ phase = "mmco" /\ ops # <<>> /\ ops' = t
      /\ \/ o.op = 1 /\ D(1)!Mmco1(o.diff)
         \/ o.op = 2 /\ D(1)!Mmco2(o.num)
         \/ o.op = 3 /\ D(1)!Mmco3(o.diff, o.idx)
         \/ o.op = 4 /\ D(1)!Mmco4(o.max)
         \/ o.op = 6 /\ D(1)!Mmco6(o.idx)
      /\ UNCHANGED <<encoder, sent, head, known>>
  BY DEF ApplyMmco
<1>1. /\ n \in Nat /\ nextKey = n + 1 /\ first = NoFirst /\ pic = Header(head) /\ head.id = n
      /\ head.structure = "frame" /\ mmco5 = FALSE
      /\ Marks(dpb, cur, n) /\ Leads(h, i, ops, head, n)
  BY <1>0, MarkingIs
<1>2. IsOp(o) /\ Leads(Left(h, o, n), Index(i, o), t, head, n)
  <2>. HIDE DEF n, h, i
  <2>. QED
    BY <1>0, <1>1, LeadsOn
<1>3. \E m \in {"short", "long"}, j \in Nat : cur = FrameEntry(n, m, j)
  BY <1>1 DEF Marks
<1>4. /\ o.op \in {1, 2, 4, 6}
      /\ o.op = 1 => /\ o.diff \in Nat /\ Index(i, o) = i
                     /\ Left(h, o, n) = h \ {<<n - o.diff - 1, None>>}
      /\ o.op = 2 => /\ o.num \in Nat /\ Index(i, o) = i
                     /\ Left(h, o, n) = {x \in h : x[2] # o.num}
      /\ o.op = 4 => /\ o.max \in Nat /\ Index(i, o) = i
                     /\ Left(h, o, n) = {x \in h : x[2] < o.max}
      /\ o.op = 6 => /\ o.idx \in Nat /\ Index(i, o) = o.idx
                     /\ Left(h, o, n) = {x \in h : x[2] # o.idx}
  <2>. HIDE DEF n, o, h, i
  <2>. QED
    BY <1>2, LeftIs
<1>5. /\ UNCHANGED <<nextKey, phase, pic, first, mmco5>>
      /\ DOMAIN dpb' = DOMAIN dpb /\ IsFrames(dpb', n) /\ HeldBy(dpb') = Left(h, o, n)
      /\ LtOf(cur') = Index(i, o)
      /\ \E m \in {"short", "long"}, j \in Nat : cur' = FrameEntry(n, m, j)
  <2>1. CASE o.op = 1
    <3>1. /\ dpb' = D(1)!MarkShortTermUnused(dpb, cur, o.diff)
          /\ UNCHANGED <<nextKey, phase, pic, first, mmco5, cur>>
      BY <1>0, <2>1 DEF D!Mmco1, D!MarkingStep
    <3>. DEFINE diff == o.diff
    <3>2. diff \in Nat
      BY <1>4, <2>1
    <3>. HIDE DEF diff, n, h, i
    <3>3. /\ IsFrames(D(1)!MarkShortTermUnused(dpb, cur, diff), n)
          /\ DOMAIN D(1)!MarkShortTermUnused(dpb, cur, diff) = DOMAIN dpb
          /\ HeldBy(D(1)!MarkShortTermUnused(dpb, cur, diff))
               = HeldBy(dpb) \ {<<n - diff - 1, None>>}
      BY <1>1, <3>2, Held1
    <3>. HIDE DEF o
    <3>. QED
      BY <1>3, <1>4, <2>1, <3>1, <3>3 DEF h, i, diff
  <2>2. CASE o.op = 2
    <3>1. /\ dpb' = D(1)!MarkLongTermUnused(dpb, cur, o.num)
          /\ UNCHANGED <<nextKey, phase, pic, first, mmco5, cur>>
      BY <1>0, <2>2 DEF D!Mmco2, D!MarkingStep
    <3>. DEFINE num == o.num
    <3>2. num \in Nat
      BY <1>4, <2>2
    <3>. HIDE DEF num, n, h, i
    <3>3. /\ IsFrames(D(1)!MarkLongTermUnused(dpb, cur, num), n)
          /\ DOMAIN D(1)!MarkLongTermUnused(dpb, cur, num) = DOMAIN dpb
          /\ HeldBy(D(1)!MarkLongTermUnused(dpb, cur, num)) = {x \in HeldBy(dpb) : x[2] # num}
      BY <1>1, <3>2, Held2
    <3>. HIDE DEF o
    <3>. QED
      BY <1>3, <1>4, <2>2, <3>1, <3>3 DEF h, i, num
  <2>3. CASE o.op = 4
    <3>1. /\ dpb' = D(1)!SetMaxLongTermIdx(dpb, o.max)
          /\ UNCHANGED <<nextKey, phase, pic, first, mmco5, cur>>
      BY <1>0, <2>3 DEF D!Mmco4, D!MarkingStep
    <3>. DEFINE max == o.max
    <3>2. max \in Nat
      BY <1>4, <2>3
    <3>. HIDE DEF max, n, h, i
    <3>3. /\ IsFrames(D(1)!SetMaxLongTermIdx(dpb, max), n)
          /\ DOMAIN D(1)!SetMaxLongTermIdx(dpb, max) = DOMAIN dpb
          /\ HeldBy(D(1)!SetMaxLongTermIdx(dpb, max)) = {x \in HeldBy(dpb) : x[2] < max}
      BY <1>1, <3>2, Held4
    <3>. HIDE DEF o
    <3>. QED
      BY <1>3, <1>4, <2>3, <3>1, <3>3 DEF h, i, max
  <2>4. CASE o.op = 6
    <3>1. /\ dpb' = D(1)!AssignCurrentLongTerm(dpb, cur, o.idx)
          /\ cur' = D(1)!CurrentLongTerm(cur, o.idx)
          /\ UNCHANGED <<nextKey, phase, pic, first, mmco5>>
      BY <1>0, <2>4 DEF D!Mmco6, D!MarkingStep
    <3>. DEFINE idx == o.idx
    <3>2. idx \in Nat
      BY <1>4, <2>4
    <3>. HIDE DEF idx, n, h, i
    <3>3. /\ IsFrames(D(1)!AssignCurrentLongTerm(dpb, cur, idx), n)
          /\ DOMAIN D(1)!AssignCurrentLongTerm(dpb, cur, idx) = DOMAIN dpb
          /\ HeldBy(D(1)!AssignCurrentLongTerm(dpb, cur, idx)) = {x \in HeldBy(dpb) : x[2] # idx}
          /\ D(1)!CurrentLongTerm(cur, idx) = FrameEntry(n, "long", idx)
      BY <1>1, <3>2, Held6
    <3>4. LtOf(FrameEntry(n, "long", idx)) = idx
      BY FrameIs DEF LtOf
    <3>. HIDE DEF o
    <3>5. cur' = FrameEntry(n, "long", idx)
      BY <3>1, <3>3 DEF idx
    <3>6. \E m \in {"short", "long"}, j \in Nat : cur' = FrameEntry(n, m, j)
      BY <3>2, <3>5
    <3>. QED
      BY <1>4, <2>4, <3>1, <3>3, <3>4, <3>5, <3>6 DEF h, idx
  <2>. HIDE DEF o
  <2>. QED
    BY <1>4, <2>1, <2>2, <2>3, <2>4
<1>. HIDE DEF o, h, i, t
<1>6. MirrorKept' /\ Begun' = n + 1
  <2>1. Marks(dpb', cur', n)
    BY <1>1, <1>5 DEF Marks
  <2>2. Leads(HeldBy(dpb'), LtOf(cur'), ops', head, n)
    BY <1>0, <1>2, <1>5
  <2>3. /\ nextKey' = n + 1 /\ phase' = "mmco" /\ first' = NoFirst /\ known' = known /\ head' = head
        /\ pic' = Header(head) /\ mmco5' = FALSE /\ DOMAIN dpb' = DOMAIN dpb
    BY <1>0, <1>1, <1>5
  <2>. HIDE DEF n
  <2>. QED
    BY <1>1, <2>1, <2>2, <2>3, KeptMarking
<1>. QED
  <2>1. Begun' = Begun
    BY <1>0, <1>1, <1>6 DEF Begun
  <2>. QED
    BY <1>0, <1>6, <2>1, SentStays

\* The marked picture is stored.
LEMMA MirrorEndsMarking ==
  ASSUME Room, MirrorSent, MirrorKept, EndMarking
  PROVE  MirrorSent' /\ MirrorKept'
<1>. DEFINE n == nextKey - 1
            c == D(1)!MarkedCurrent(cur)
<1>0. phase = "mmco" /\ ops = <<>> /\ D(1)!EndAdaptiveMarking /\ Finished(n)
  BY DEF EndMarking
<1>1. /\ n \in Nat /\ nextKey = n + 1 /\ first = NoFirst /\ pic = Header(head) /\ head.id = n
      /\ head.structure = "frame" /\ mmco5 = FALSE
      /\ Marks(dpb, cur, n) /\ Leads(HeldBy(dpb), LtOf(cur), ops, head, n)
  BY <1>0, MarkingIs
<1>2. PICK m \in {"short", "long"}, i \in Nat : cur = FrameEntry(n, m, i)
  BY <1>1 DEF Marks
<1>3. c = cur /\ cur.frameNum = n
  <2>1. cur.marking = m /\ cur.frameNum = n
    BY <1>2, FrameIs
  <2>2. c = D(1)!MarkAll(cur, m)
    BY <2>1 DEF D!MarkedCurrent
  <2>3. D(1)!MarkAll(FrameEntry(n, m, i), m) = FrameEntry(n, m, i)
    BY FramesMarking
  <2>. HIDE DEF c, n
  <2>. QED
    BY <1>2, <2>1, <2>2, <2>3
<1>4. pic.structure = "frame"
  BY <1>1 DEF Header
<1>5. D(1)!StoreCurrent(dpb, cur, n, n) /\ nextKey' = nextKey
  BY <1>0, <1>1, <1>3 DEF D!EndAdaptiveMarking
<1>. HIDE DEF n, c
<1>6. /\ IsFrames(dpb', n + 1) /\ DOMAIN dpb' \subseteq (DOMAIN dpb) \cup {n}
      /\ \A k \in DOMAIN dpb' : dpb'[k].marking # "unused"
      /\ HeldBy(dpb') = HeldBy(dpb) \cup {<<n, LtOf(cur)>>} /\ first' = NoFirst /\ phase' = "idle"
  BY <1>1, <1>4, <1>5, StoreIs
<1>7. head.held = HeldBy(dpb) \cup {<<n, LtOf(cur)>>}
  <2>. DEFINE h == HeldBy(dpb)
              i0 == LtOf(cur)
  <2>1. Leads(h, i0, <<>>, head, n)
    BY <1>0, <1>1
  <2>. HIDE DEF h, i0
  <2>2. head.held = h \cup {<<n, i0>>}
    BY <2>1, LeadsEnd
  <2>. QED
    BY <2>2 DEF h, i0
<1>. DEFINE foc == [top |-> counts.top, bottom |-> counts.bottom]
<1>8. /\ known' = [k \in (DOMAIN known) \cup {n} |->
                     IF k = n THEN [foc |-> foc, id |-> head.id] ELSE known[k]]
      /\ UNCHANGED <<encoder, sent, head>>
  BY <1>0 DEF Finished
<1>. HIDE DEF foc
<1>9. MirrorKept' /\ Begun' = n + 1
  <2>1. nextKey' = n + 1 /\ HeldBy(dpb') = head.held /\ head' = head
    BY <1>1, <1>5, <1>6, <1>7, <1>8
  <2>. QED
    BY <1>1, <1>6, <1>8, <2>1, KeptIdle
<1>. QED
  <2>1. Begun' = Begun
    BY <1>0, <1>1, <1>9 DEF Begun
  <2>. QED
    BY <1>8, <1>9, <2>1, SentStays

\* Both buffers are empty at first.
LEMMA MirrorStarts == Init => MirrorInv
<1>. SUFFICES ASSUME Init, cfg.kind = "multiref" PROVE MirrorSent /\ MirrorKept
  BY DEF MirrorInv
<1>1. /\ sent = 0 /\ coded = 0 /\ todo = <<>> /\ enc = [k |-> 0, dpb |-> {}] /\ cfg \in Drivers
  BY DEF Init, EncoderInit
<1>2. /\ known = [k \in {} |-> 0] /\ dpb = [k \in {} |-> 0] /\ nextKey = 0 /\ phase = "idle"
      /\ first = NoFirst
  BY DEF Init, D!Init, D!NoField, NoFirst
<1>3. Begun = 0 /\ LastHeld = {}
  BY <1>2 DEF Begun, LastHeld
<1>4. cfg.refs \in Nat /\ cfg.frames \in Nat /\ cfg.longAt \in Int
  <2>1. cfg \in Driver
    BY <1>1, EncoderStreamsAssumption
  <2>. QED
    BY <2>1 DEF Driver
<1>5. MirrorOf({}, 0)
  <2>1. IsFiniteSet({}) /\ Cardinality({}) = 0
    BY FS_EmptySet
  <2>2. ~ cfg.longAt \in 1 .. 0 - 1
    BY <1>4
  <2>. QED
    BY <1>4, <2>1, <2>2 DEF MirrorOf
<1>6. MirrorSent
  <2>1. Held({}) = {}
    BY DEF Held
  <2>. QED
    BY <1>1, <1>3, <1>4, <1>5, <2>1 DEF MirrorSent
<1>7. IsFrames(dpb, 0) /\ HeldBy(dpb) = {}
  BY <1>2 DEF IsFrames, HeldBy
<1>8. MirrorKept
  BY <1>2, <1>3, <1>7 DEF MirrorKept, NoFirst
<1>. QED
  BY <1>6, <1>8

\* A step that leaves the decoder's marking alone.
LEMMA MarkingStays ==
  ASSUME MirrorKept, cfg' = cfg, UNCHANGED <<head, ops, known>>, UNCHANGED marking
  PROVE  MirrorKept' /\ Begun' = Begun
<1>1. UNCHANGED <<dpb, nextKey, phase, pic, cur, mmco5, first>>
  BY DEF marking
<1>2. Begun' = Begun /\ LastHeld' = LastHeld
  BY <1>1 DEF Begun, LastHeld
<1>3. Turn(HeldBy(dpb), head, nextKey)' <=> Turn(HeldBy(dpb), head, nextKey)
  BY <1>1 DEF Turn, Slides
<1>4. Header(head)' = Header(head)
  BY DEF Header
<1>. QED
  BY <1>1, <1>2, <1>3, <1>4 DEF MirrorKept

\* The driver codes the next picture.
LEMMA MirrorEncodes ==
  ASSUME Accepted, CodesInv, cfg.kind = "multiref", MirrorSent, MirrorKept, Encode
  PROVE  MirrorSent' /\ MirrorKept'
<1>1. /\ MultirefFrame /\ cfg' = cfg /\ todo = <<>>
      /\ UNCHANGED <<head, ops, known, sent>> /\ UNCHANGED marking
  <2>1. Encodes /\ cfg' = cfg /\ todo = <<>> /\ UNCHANGED <<decoded, marking, output>>
    BY EncodeTurns
  <2>2. MultirefFrame
    BY <2>1 DEF Encodes, SessionPush, SessionFinish, PaffFrame, PaffBGroup, SequenceFrame
  <2>. QED
    BY <2>1, <2>2 DEF decoded
<1>2. MirrorKept' /\ Begun' = Begun
  BY <1>1, MarkingStays
<1>3. Room /\ enc.k \in Nat
  BY RoomIs DEF CodesInv, EncInv
<1>4. /\ sent = 0 /\ coded = enc.k /\ MirrorOf(enc.dpb, enc.k)
      /\ enc.k = Begun /\ Held(enc.dpb) = LastHeld
  BY <1>1 DEF MirrorSent
<1>5. /\ IsSeq(todo') /\ Len(todo') = 1 /\ Turn(Held(enc.dpb), todo'[1], enc.k)
      /\ enc'.k = enc.k + 1 /\ coded' = coded + 1 /\ enc.k < cfg.frames
      /\ MirrorOf(enc'.dpb, enc.k + 1) /\ Held(enc'.dpb) = todo'[1].held
  BY <1>1, <1>3, <1>4, MultirefTurn
<1>6. LastHeld' = LastHeld
  BY <1>1, <1>2 DEF LastHeld
<1>7. MirrorSent'
  <2>1. enc'.k <= cfg.frames
    BY <1>3, <1>5 DEF Room
  <2>2. sent' = 0 /\ coded' = enc'.k /\ MirrorOf(enc'.dpb, enc'.k)
    BY <1>1, <1>4, <1>5
  <2>3. todo' # <<>>
    <3>1. Len(<<>>) = 0 /\ Len(todo') = 1
      BY <1>5
    <3>2. todo' = <<>> => Len(todo') = Len(<<>>)
      OBVIOUS
    <3>. QED
      BY <3>1, <3>2
  <2>4. /\ Len(todo') = 1 /\ enc'.k = Begun + 1
        /\ Turn(LastHeld, todo'[1], Begun) /\ Held(enc'.dpb) = todo'[1].held
    BY <1>4, <1>5
  <2>. QED
    BY <1>1, <1>2, <1>6, <2>1, <2>2, <2>3, <2>4, SentThen
<1>. QED
  BY <1>2, <1>7

\* The picture that waits to be sent.
LEMMA WaitingIs ==
  ASSUME CodesInv, MirrorSent, todo # <<>>
  PROVE  /\ Coming = todo[1] /\ Turn(LastHeld, todo[1], Begun) /\ Tail(todo) = <<>>
         /\ sent = 0 /\ coded = enc.k /\ enc.k <= cfg.frames /\ MirrorOf(enc.dpb, enc.k)
         /\ enc.k = Begun + 1 /\ Held(enc.dpb) = todo[1].held
         /\ Len(Coming.slices) = 1 /\ ~ Redundant /\ Coming.frameNum = Begun
<1>1. /\ Turn(LastHeld, todo[1], Begun) /\ Len(todo) = 1
      /\ sent = 0 /\ coded = enc.k /\ enc.k <= cfg.frames /\ MirrorOf(enc.dpb, enc.k)
      /\ enc.k = Begun + 1 /\ Held(enc.dpb) = todo[1].held
  BY DEF MirrorSent
<1>2. IsSeq(todo)
  BY DEF CodesInv, Coded
<1>3. Head(todo) = todo[1] /\ IsSeq(Tail(todo)) /\ Len(Tail(todo)) = Len(todo) - 1
  BY <1>2, TailIs
<1>4. Tail(todo) = <<>>
  <2>1. Len(Tail(todo)) = 0
    BY <1>1, <1>3
  <2>. DEFINE t == Tail(todo)
  <2>. HIDE DEF t
  <2>2. IsSeq(t) /\ Len(t) = 0
    BY <1>3, <2>1 DEF t
  <2>3. t = <<>>
    BY <2>2, EmptyIs
  <2>. QED
    BY <2>3 DEF t
<1>5. Coming = todo[1]
  BY <1>3 DEF Coming
<1>6. Coming.slices = <<<<0, FALSE>>>> /\ Coming.frameNum = Begun
  BY <1>1, <1>5 DEF Turn
<1>7. Len(Coming.slices) = 1 /\ ~ Redundant
  BY <1>1, <1>6 DEF Redundant, Slice
<1>. QED
  BY <1>1, <1>4, <1>5, <1>6, <1>7

\* The decoder begins the picture.
LEMMA MirrorOpens ==
  ASSUME CodesInv, MirrorSent, MirrorKept, OpenPicture
  PROVE  MirrorSent' /\ MirrorKept'
<1>. DEFINE p == todo[1]
<1>0. /\ todo # <<>> /\ UNCHANGED <<cfg, enc, coded>> /\ SliceSent
      /\ phase = "idle" /\ phase' = "open" /\ head' = Coming
  BY OpenOpens DEF Sends
<1>1. /\ D(1)!OpenPicture(Header(Coming)) /\ UNCHANGED <<ops, known>>
  BY DEF OpenPicture
<1>2. pic' = Header(Coming) /\ UNCHANGED <<dpb, nextKey, cur, mmco5, first>>
  BY <1>1 DEF D!OpenPicture
<1>3. /\ Coming = p /\ Turn(LastHeld, p, Begun) /\ Tail(todo) = <<>>
      /\ sent = 0 /\ coded = enc.k /\ enc.k <= cfg.frames /\ MirrorOf(enc.dpb, enc.k)
      /\ enc.k = Begun + 1 /\ Held(enc.dpb) = p.held
      /\ Len(Coming.slices) = 1
  BY <1>0, WaitingIs
<1>4. sent' = 0 /\ todo' = <<>>
  <2>1. sent + 1 = Len(Coming.slices)
    BY <1>3
  <2>2. sent' = 0 /\ todo' = Tail(todo)
    BY <1>0, <2>1 DEF SliceSent
  <2>. QED
    BY <1>3, <2>2
<1>5. Begun = nextKey /\ nextKey \in Nat /\ HeldBy(dpb) = LastHeld
  BY <1>0 DEF Begun, MirrorKept
<1>6. Begun' = nextKey + 1
  BY <1>0, <1>2 DEF Begun
<1>7. LastHeld' = p.held
  <2>1. Begun' # 0
    BY <1>5, <1>6
  <2>. QED
    BY <1>0, <1>3, <2>1 DEF LastHeld
<1>. HIDE DEF p
<1>8. MirrorSent'
  <2>1. sent' = 0 /\ coded' = enc'.k /\ enc'.k <= cfg.frames /\ MirrorOf(enc'.dpb, enc'.k)
    BY <1>0, <1>3, <1>4
  <2>2. enc'.k = nextKey + 1 /\ Held(enc'.dpb) = p.held
    BY <1>0, <1>3, <1>5
  <2>. QED
    BY <1>0, <1>4, <1>6, <1>7, <2>1, <2>2, SentThen
<1>9. MirrorKept'
  <2>1. Turn(HeldBy(dpb), p, nextKey)
    BY <1>3, <1>5
  <2>2. Turn(HeldBy(dpb), head, nextKey)'
    <3>1. Turn(HeldBy(dpb), head, nextKey)' = Turn(HeldBy(dpb'), head', nextKey')
      BY <1>0 DEF Turn, Slides
    <3>. QED
      BY <1>0, <1>2, <1>3, <2>1, <3>1
  <2>3. (pic = Header(head))'
    BY <1>0, <1>2
  <2>4. /\ first' = [structure |-> "frame", frameNum |-> 0, ref |-> FALSE, key |-> 0]
        /\ IsFrames(dpb', nextKey') /\ nextKey' \in Nat
        /\ \A k \in DOMAIN dpb' : k \in DOMAIN known' /\ known'[k].id = k
        /\ nextKey' = 0 => known' = [k \in {} |-> 0]
        /\ \A k \in DOMAIN dpb' : dpb'[k].marking # "unused"
    BY <1>0, <1>1, <1>2 DEF MirrorKept
  <2>5. phase' = "open"
    BY <1>0
  <2>. QED
    BY <2>2, <2>3, <2>4, <2>5 DEF MirrorKept
<1>. QED
  BY <1>8, <1>9

\* A picture has one slice.
LEMMA NoMoreSlices ==
  ASSUME CodesInv, MirrorSent, MirrorKept
  PROVE  ~ NextSlice /\ ~ SkipRedundant
<1>1. ASSUME NextSlice PROVE FALSE
  <2>1. todo # <<>> /\ ~ StartsNewPicture(Coming) /\ phase = "open"
    BY <1>1, NextSends DEF Sends
  <2>2. Coming.frameNum = nextKey + 1
    BY <2>1, WaitingIs DEF Begun
  <2>3. head.frameNum = nextKey /\ nextKey \in Nat
    BY <2>1 DEF MirrorKept, Turn
  <2>4. head["frameNum"] = Coming["frameNum"]
    BY <2>1 DEF StartsNewPicture
  <2>. QED
    BY <2>2, <2>3, <2>4
<1>2. ASSUME SkipRedundant PROVE FALSE
  <2>1. todo # <<>> /\ Redundant
    BY <1>2, SkipSends DEF Sends
  <2>. QED
    BY <2>1, WaitingIs
<1>. QED
  BY <1>1, <1>2

\* The driver's buffer and the decoder's stay the same.
LEMMA MirrorNext == Accepted /\ CodesInv /\ MirrorInv /\ [Next]_vars => MirrorInv'
<1>. SUFFICES ASSUME Accepted, CodesInv, MirrorInv, Next \/ UNCHANGED vars, cfg'.kind = "multiref"
     PROVE  MirrorSent' /\ MirrorKept'
  BY DEF MirrorInv
<1>1. cfg' = cfg
  <2>1. CASE Encode
    BY <2>1, EncodeTurns
  <2>2. CASE OpenPicture \/ NextSlice \/ SkipRedundant
    BY <2>2, OpenOpens, NextSends, SkipSends DEF Sends
  <2>3. CASE Stays
    BY <2>3 DEF Stays, encoder
  <2>. QED
    BY <2>1, <2>2, <2>3, OtherStays
<1>2. MirrorSent /\ MirrorKept /\ cfg.kind = "multiref"
  BY <1>1 DEF MirrorInv
<1>3. Room
  BY <1>2, RoomIs DEF CodesInv
<1>4. CASE Encode
  BY <1>2, <1>4, MirrorEncodes
<1>5. CASE OpenPicture
  BY <1>2, <1>5, MirrorOpens
<1>6. CASE NextSlice \/ SkipRedundant
  BY <1>2, <1>6, NoMoreSlices
<1>7. CASE Finalize
  <2>0. phase = "open" /\ Finished(nextKey)
    BY <1>7 DEF Finalize
  <2>1. CASE D(1)!FinalizeNonReference
    <3>1. ~ pic.ref
      BY <2>1 DEF D!FinalizeNonReference
    <3>. QED
      BY <1>2, <2>0, <3>1, OpenIs
  <2>2. CASE D(1)!FinalizeIdr
    BY <1>2, <1>3, <2>0, <2>2, MirrorIdr
  <2>3. CASE \E refs \in {d.refs : d \in Drivers} : refs = cfg.refs /\ D(refs)!FinalizeSlidingWindow
    <3>1. PICK refs \in {d.refs : d \in Drivers} : refs = cfg.refs /\ D(refs)!FinalizeSlidingWindow
      BY <2>3
    <3>. QED
      BY <1>2, <1>3, <2>0, <3>1, MirrorWindow
  <2>. QED
    BY <1>7, <2>1, <2>2, <2>3 DEF Finalize
<1>8. CASE BeginMarking
  BY <1>2, <1>3, <1>8, MirrorBeginsMarking
<1>9. CASE ApplyMmco
  BY <1>2, <1>3, <1>9, MirrorApplies
<1>10. CASE EndMarking
  BY <1>2, <1>3, <1>10, MirrorEndsMarking
<1>11. CASE OutputStep \/ Flush \/ UNCHANGED vars
  <2>1. UNCHANGED <<encoder, head, ops, known, sent>> /\ UNCHANGED marking
    BY <1>11 DEF OutputStep, Flush, vars, decoded
  <2>2. MirrorKept' /\ Begun' = Begun
    BY <1>1, <1>2, <2>1, MarkingStays
  <2>. QED
    BY <1>2, <2>1, <2>2, SentStays
<1>. QED
  BY <1>4, <1>5, <1>6, <1>7, <1>8, <1>9, <1>10, <1>11 DEF Next

\* The driver's mirror of the reference buffer is the decoder's buffer after
\* every picture, for every accepted configuration: any max_num_ref_frames, any
\* picture given and taken a long-term index, and any length of the stream
\* (encode_multiref_sequence, multiref.rs DpbEntry).
THEOREM MirrorAgreesCorrect ==
  ASSUME Accepted
  PROVE  Spec => []MirrorAgrees
<1>1. Init => CodesInv /\ MirrorInv
  BY CodesInit, MirrorStarts
<1>2. CodesInv /\ MirrorInv /\ [Next]_vars => (CodesInv /\ MirrorInv)'
  BY CodesNext, MirrorNext
<1>3. MirrorInv => MirrorAgrees
  <2>. SUFFICES ASSUME MirrorInv, cfg.kind = "multiref", phase = "idle", known # <<>>
       PROVE  {<<known[k].id, IF dpb[k].marking = "long" THEN dpb[k].ltIdx ELSE None>> :
                 k \in DOMAIN dpb} = head.held
    BY DEF MirrorAgrees
  <2>1. /\ nextKey = 0 => known = [k \in {} |-> 0]
        /\ \A k \in DOMAIN dpb : dpb[k].marking # "unused" /\ known[k].id = k
        /\ HeldBy(dpb) = LastHeld
    BY DEF MirrorInv, MirrorKept
  <2>2. nextKey # 0
    BY <2>1
  <2>3. LastHeld = head.held
    BY <2>2 DEF LastHeld, Begun
  <2>4. HeldBy(dpb) = {<<known[k].id, IF dpb[k].marking = "long" THEN dpb[k].ltIdx ELSE None>> :
                         k \in DOMAIN dpb}
    BY <2>1 DEF HeldBy, LtOf
  <2>. QED
    BY <2>1, <2>3, <2>4
<1>. QED
  BY <1>1, <1>2, <1>3, PTL DEF Spec
=============================================================================
