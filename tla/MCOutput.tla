-------------------------------- MODULE MCOutput --------------------------------
(* Small instances of Output for TLC. *)
EXTENDS Output

TwoCap      == {2}
TwoCaps     == {1, 2}
FourPocs    == {0, 4, 8, 12}
OnePoc      == {0}
OneNum      == {0}
TwoNums     == {0, 1}
FramesOnly  == {"frame"}
Mixed       == {"frame", "top", "bottom"}
=============================================================================
