--------------------------------- MODULE MCDpb ---------------------------------
(* Small instances of Dpb for TLC. *)
EXTENDS Dpb

OneIdx      == {0}
SomeDiffs   == 0 .. 7
NoDiffs     == {}
FramesOnly  == {"frame"}
FieldsOnly  == {"top", "bottom"}
Mixed       == {"frame", "top", "bottom"}
Sliding     == {FALSE}
BothModes   == {TRUE, FALSE}
=============================================================================
