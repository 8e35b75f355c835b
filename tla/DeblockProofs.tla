----------------------------- MODULE DeblockProofs -----------------------------
(* The comparison of motion that Deblock makes at an edge is the one meant:     *)
(* whether two blocks are predicted from the same pictures with vectors that    *)
(* are near each other, whichever list and index either block names them by.    *)
EXTENDS Deblock, TLAPS

\* Two blocks are predicted alike: the lists of one can be matched with those of
\* the other so that matched lists are both used or both not, and the used ones
\* stand for the same picture and have vectors near each other.
PredictedAlike(p, b, q, c) ==
  \E swap \in BOOLEAN : \A l \in {0, 1} :
    LET m == IF swap THEN 1 - l ELSE l
    IN /\ Uses(p, b, l) <=> Uses(q, c, m)
       /\ Uses(p, b, l) => Key(p, b, l) = Key(q, c, m) /\ Near(p.mv[l][b], q.mv[m][c])

\* The matching spelled out: straight or crosswise.
LEMMA AlikeEitherWay ==
  ASSUME NEW p, NEW b, NEW q, NEW c
  PROVE  PredictedAlike(p, b, q, c) <=>
           \/ /\ Uses(p, b, 0) <=> Uses(q, c, 0)
              /\ Uses(p, b, 1) <=> Uses(q, c, 1)
              /\ Uses(p, b, 0) => Key(p, b, 0) = Key(q, c, 0) /\ Near(p.mv[0][b], q.mv[0][c])
              /\ Uses(p, b, 1) => Key(p, b, 1) = Key(q, c, 1) /\ Near(p.mv[1][b], q.mv[1][c])
           \/ /\ Uses(p, b, 0) <=> Uses(q, c, 1)
              /\ Uses(p, b, 1) <=> Uses(q, c, 0)
              /\ Uses(p, b, 0) => Key(p, b, 0) = Key(q, c, 1) /\ Near(p.mv[0][b], q.mv[1][c])
              /\ Uses(p, b, 1) => Key(p, b, 1) = Key(q, c, 0) /\ Near(p.mv[1][b], q.mv[0][c])
<1> DEFINE Matched(l, m) ==
      /\ Uses(p, b, l) <=> Uses(q, c, m)
      /\ Uses(p, b, l) => Key(p, b, l) = Key(q, c, m) /\ Near(p.mv[l][b], q.mv[m][c])
<1>1. PredictedAlike(p, b, q, c) <=>
        \/ \A l \in {0, 1} : Matched(l, IF TRUE THEN 1 - l ELSE l)
        \/ \A l \in {0, 1} : Matched(l, IF FALSE THEN 1 - l ELSE l)
  BY DEF PredictedAlike
<1>2. (\A l \in {0, 1} : Matched(l, IF TRUE THEN 1 - l ELSE l)) <=> Matched(0, 1) /\ Matched(1, 0)
  <2>1. 1 - 0 = 1 /\ 1 - 1 = 0
    OBVIOUS
  <2> HIDE DEF Matched
  <2> QED
    BY <2>1
<1>3. (\A l \in {0, 1} : Matched(l, IF FALSE THEN 1 - l ELSE l)) <=> Matched(0, 0) /\ Matched(1, 1)
  <2> HIDE DEF Matched
  <2> QED
    OBVIOUS
<1> QED
  BY <1>1, <1>2, <1>3

\* different_ref_or_mv_luma (reconstruct.rs) tells two blocks apart exactly when
\* they are not predicted alike: its cases by the number of vectors, and for two
\* vectors by which pictures repeat, leave nothing out and never compare a vector
\* with one of another picture.
THEOREM DifferentRefOrMvCorrect ==
  ASSUME NEW p, NEW b, NEW q, NEW c
  PROVE  DifferentRefOrMv(p, b, q, c) <=> ~ PredictedAlike(p, b, q, c)
<1> QED
  BY AlikeEitherWay DEF DifferentRefOrMv

\* Two grids that use the same lists with the same vectors, and in which the same
\* used entries stand for one picture, give every edge the same answer: it matters
\* neither what the pictures are called (the encoder numbers them by list in B
\* slices, the decoder takes their counts) nor what an unused list still holds.
THEOREM NamesDoNotMatter ==
  ASSUME NEW p, NEW b, NEW q, NEW c, NEW p2, NEW q2,
         \A l \in {0, 1} :
           /\ Uses(p2, b, l) <=> Uses(p, b, l)
           /\ Uses(q2, c, l) <=> Uses(q, c, l)
           /\ Uses(p, b, l) => p2.mv[l][b] = p.mv[l][b]
           /\ Uses(q, c, l) => q2.mv[l][c] = q.mv[l][c],
         \A l, m \in {0, 1} :
           Uses(p, b, l) /\ Uses(q, c, m) =>
             (Key(p2, b, l) = Key(q2, c, m) <=> Key(p, b, l) = Key(q, c, m))
  PROVE  DifferentRefOrMv(p2, b, q2, c) <=> DifferentRefOrMv(p, b, q, c)
<1>1. PredictedAlike(p2, b, q2, c) <=> PredictedAlike(p, b, q, c)
  <2>1. \A l, m \in {0, 1} :
          (/\ Uses(p2, b, l) <=> Uses(q2, c, m)
           /\ Uses(p2, b, l) => Key(p2, b, l) = Key(q2, c, m) /\ Near(p2.mv[l][b], q2.mv[m][c]))
          <=>
          (/\ Uses(p, b, l) <=> Uses(q, c, m)
           /\ Uses(p, b, l) => Key(p, b, l) = Key(q, c, m) /\ Near(p.mv[l][b], q.mv[m][c]))
    <3> TAKE l, m \in {0, 1}
    <3>1. CASE Uses(p, b, l) /\ Uses(q, c, m)
      <4>1. p2.mv[l][b] = p.mv[l][b] /\ q2.mv[m][c] = q.mv[m][c]
        BY <3>1
      <4>2. Uses(p2, b, l) /\ Uses(q2, c, m)
        BY <3>1
      <4>3. Key(p2, b, l) = Key(q2, c, m) <=> Key(p, b, l) = Key(q, c, m)
        BY <3>1
      <4> QED
        BY <3>1, <4>1, <4>2, <4>3
    <3>2. CASE ~ (Uses(p, b, l) /\ Uses(q, c, m))
      <4>1. ~ (Uses(p2, b, l) /\ Uses(q2, c, m))
        BY <3>2
      <4>2. (Uses(p2, b, l) <=> Uses(p, b, l)) /\ (Uses(q2, c, m) <=> Uses(q, c, m))
        OBVIOUS
      <4> QED
        BY <3>2, <4>1, <4>2
    <3> QED
      BY <3>1, <3>2
  <2> QED
    BY <2>1, AlikeEitherWay
<1> QED
  BY <1>1, DifferentRefOrMvCorrect
================================================================================
