------------------------------- MODULE MCAssembly -------------------------------
(* Small instances of Assembly for TLC. *)
EXTENDS Assembly

Base == [frameNum |-> 0, pps |-> 0, structure |-> "top", ref |-> TRUE, order |-> 0,
         idr |-> FALSE, idrId |-> 0]

\* Headers that differ from Base, or from one another, in one element.
EachElement ==
  {Base,
   [Base EXCEPT !.frameNum = 1],
   [Base EXCEPT !.pps = 1],
   [Base EXCEPT !.structure = "bottom"],
   [Base EXCEPT !.ref = FALSE],
   [Base EXCEPT !.order = 1],
   [Base EXCEPT !.idr = TRUE],
   [Base EXCEPT !.idr = TRUE, !.idrId = 1]}

TwoFields == {Base, [Base EXCEPT !.structure = "bottom"]}
FieldsAndIdr == {Base, [Base EXCEPT !.structure = "bottom"], [Base EXCEPT !.idr = TRUE]}
=============================================================================
