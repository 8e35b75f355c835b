---------------------------------- MODULE MCParts ----------------------------------
(* Four parts of the decoder, each on its own: "counts" is Poc under the        *)
(* constants of the configuration, "lists" RefLists, "sets" ParamSets and       *)
(* "planes" ColourPlanes.  The parts that are not running keep a fixed state.   *)
EXTENDS MCPoc

VARIABLES
  part,                                                          \* the part running
  slice, dpb, cur, listPhase, built, list, x, pred, named,       \* RefLists
  spsById, subsetById, ppsById, active, framing, setPhase, events, pendingDp, inProgress,
  sent, open, opened, nals, decoded,                             \* ParamSets
  subs, queues, ready, pts, begun, left, order, flushed          \* ColourPlanes

\* Frames and pairs, as short-term, long-term and half-marked references.
Whole == {<<"frame", "short", "short">>, <<"frame", "long", "long">>,
          <<"pair", "short", "short">>, <<"frame", "short", "unused">>}

SliceOf(type, structure, frameNum, length, commands, slots, contents) ==
  [type |-> type, structure |-> structure, frameNum |-> frameNum, active |-> length,
   commands |-> commands, slots |-> slots, contents |-> contents]

\* What a field slice may meet: every content a slot of RefLists may have.
Anything ==
  Whole \cup
  {<<"none", "unused", "unused">>, <<"frame", "unused", "short">>, <<"frame", "short", "long">>,
   <<"pair", "long", "long">>, <<"pair", "short", "unused">>, <<"pair", "long", "short">>,
   <<"top", "short", "unused">>, <<"bottom", "unused", "short">>}

\* frame_num 0 and 1 make the frame_nums of the DPB wrap; lists shorter and
\* longer than the DPB; one and two commands in P slices, one per list in B.
SomeSlices ==
  {SliceOf("B", "frame", 1, 2, 0, 3, Whole),
   SliceOf("P", "frame", 1, 2, 0, 3, Whole),
   SliceOf("P", "frame", 0, 2, 0, 2, Anything),
   SliceOf("B", "top", 0, 2, 0, 2, Anything),
   SliceOf("B", "bottom", 2, 2, 0, 2, Anything),
   SliceOf("P", "bottom", 0, 2, 0, 3, Anything),
   SliceOf("P", "frame", 1, 1, 2, 2, Whole),
   SliceOf("P", "frame", 1, 3, 2, 3, Whole),
   SliceOf("P", "top", 1, 2, 2, 2, Whole),
   SliceOf("B", "frame", 0, 2, 1, 2, Whole \ {<<"frame", "short", "unused">>})}

Lists == INSTANCE RefLists WITH Slices <- SomeSlices, MaxFrameNum <- 5, phase <- listPhase

Sets == INSTANCE ParamSets WITH Ids <- {0}, Formats <- {1, 3}, MaxNals <- 6, phase <- setPhase

Planes == INSTANCE ColourPlanes WITH
  Cap <- 2, OrderCounts <- {0, 2, 4, 6}, SlicesEach <- 2, QueueCap <- 64, Faulty <- FALSE,
  MaxPictures <- 4, sent <- begun

ASSUME Lists!RefListsAssumption

\* What the theorem about RecoversOrder asks of the streams.
ASSUME Recoverable

countVars == vars
listVars  == <<slice, dpb, cur, listPhase, built, list, x, pred, named>>
setVars   == <<spsById, subsetById, ppsById, active, framing, setPhase, events, pendingDp,
               inProgress, sent, open, opened, nals, decoded>>
planeVars == <<subs, queues, ready, pts, begun, left, order, flushed>>

ListsIdle ==
  /\ slice = 0 /\ dpb = 0 /\ cur = 0 /\ listPhase = "idle" /\ built = 0 /\ list = 0
  /\ x = 0 /\ pred = 0 /\ named = 0

InitCounts ==
  /\ part = "counts" /\ Init
  /\ ListsIdle
  /\ Sets!Init /\ Planes!Init

InitLists ==
  /\ part = "lists" /\ sps = Counting /\ Init
  /\ Lists!Init
  /\ Sets!Init /\ Planes!Init

InitOthers ==
  /\ part \in {"sets", "planes"} /\ sps = Counting /\ Init
  /\ ListsIdle
  /\ Sets!Init /\ Planes!Init

InitParts == InitCounts \/ InitLists \/ InitOthers

CountsStep == part = "counts" /\ Next /\ UNCHANGED <<part, listVars, setVars, planeVars>>
ListsStep == part = "lists" /\ Lists!Next /\ UNCHANGED <<part, countVars, setVars, planeVars>>
SetsStep == part = "sets" /\ Sets!Next /\ UNCHANGED <<part, countVars, listVars, planeVars>>
PlanesStep == part = "planes" /\ Planes!Next /\ UNCHANGED <<part, countVars, listVars, setVars>>

NextParts == CountsStep \/ ListsStep \/ SetsStep \/ PlanesStep

SpecParts == InitParts /\ [][NextParts]_<<part, countVars, listVars, setVars, planeVars>>

\* The properties of RefLists, where it runs: each reference is in the initial
\* lists once, the fields of both parities in turn, P lists newest first;
InitialListsOrdered ==
  part = "lists" => Lists!EveryReferenceOnce /\ Lists!FieldsAlternate /\ Lists!NewestFirst

\* and what modification commands name comes in front, every short-term
\* reference within reach of one command.
CommandsReachFront == part = "lists" => Lists!CommandedFirst /\ Lists!AllNameable

\* OwnSets of ParamSets and PlanesMatched of ColourPlanes hold of their first
\* states too: every slice and picture is decoded with its own parameter sets,
OwnSets == Sets!OwnSets

\* and every frame is made of planes of one picture.
PlanesMatched == Planes!PlanesMatched
=============================================================================
