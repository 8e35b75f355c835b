---------------------------------- MODULE MCCodec ----------------------------------
(* Instances of Codec for TLC: every driver of the encoder. *)
EXTENDS Codec

Base == [kind |-> "sequence", frames |-> 10, refs |-> 1, mbs |-> 99, gop |-> 1, bFrames |-> 0,
         longIdr |-> FALSE, longAt |-> None, unmarkAt |-> None, longFirstAt |-> None,
         p |-> TRUE, axis |-> "none", framePics |-> {}, stride |-> 2,
         slices |-> <<<<0, FALSE>>>>]

\* Mini-GOPs whole and cut short by the next IDR picture or the end.
Sessions ==
  {[Base EXCEPT !.kind = "session", !.gop = g, !.bFrames = b, !.mbs = 396,
                !.refs = IF b = 0 THEN 1 ELSE 2, !.frames = n] :
     g \in {2, 3, 5, 10}, b \in 0 .. 3, n \in {11, 12}}

\* Long-term pictures made, unmarked and moved to the front, with room for a
\* short-term one.
Multirefs ==
  {c \in {[Base EXCEPT !.kind = "multiref", !.refs = r, !.longIdr = l, !.longAt = a, !.unmarkAt = u,
                       !.longFirstAt = f, !.frames = 7, !.mbs = 99] :
            r \in 1 .. 4, l \in BOOLEAN, a \in {None, 1, 3}, u \in {None, 2, 4, 5},
            f \in {None, 3, 5}} :
     /\ c.unmarkAt # None => c.longAt # None /\ c.unmarkAt > c.longAt
     /\ c.refs > (IF c.longIdr THEN 1 ELSE 0) + (IF c.longAt # None THEN 1 ELSE 0)}

Paffs ==
  {c \in {[Base EXCEPT !.kind = "paff", !.refs = 2, !.p = p, !.axis = a, !.framePics = f] :
            p \in BOOLEAN, a \in {"none", "cross", "idr_frame", "long_term_anchor", "unpair_first_top"},
            f \in {{}, {1}, {2, 3}}} :
     /\ c.p => c.framePics = {}
     /\ c.axis # "none" => c.p}

PaffBs ==
  {[Base EXCEPT !.kind = "paff_b", !.stride = t[1], !.frames = t[2], !.refs = IF t[1] = 4 THEN 4 ELSE 2] :
     t \in {<<2, 2>>, <<2, 9>>, <<2, 10>>, <<3, 10>>, <<4, 13>>}}

Sequences ==
  {[Base EXCEPT !.p = p, !.slices = s] :
     p \in BOOLEAN,
     s \in {<<<<0, FALSE>>>>,
            <<<<0, FALSE>>, <<1, FALSE>>>>,
            <<<<1, FALSE>>, <<0, FALSE>>>>,                                 \* arbitrary slice order
            <<<<1, FALSE>>, <<0, FALSE>>, <<0, TRUE>>, <<1, TRUE>>>>}}      \* redundant copies

AllDrivers == Sessions \cup Multirefs \cup Paffs \cup PaffBs \cup Sequences
AllIntra   == {[Base EXCEPT !.kind = "session", !.gop = 1, !.frames = 3]}
LargeB     == {[Base EXCEPT !.kind = "paff_b", !.stride = 4, !.frames = 5, !.refs = 4, !.mbs = 396]}
=============================================================================
