------------------------------ MODULE OutputProofs ------------------------------
(***************************************************************************)
(* Proofs about Output, for every capacity, frame_num and POC alphabet and *)
(* every stream and caller, conforming or not: the bumping queue never     *)
(* exceeds its capacity between calls, coded video sequences are handed    *)
(* out one after the other, and each picture is in one place, no frame     *)
(* being handed out twice.                                                 *)
(*                                                                         *)
(* The argument: a non-empty finite queue has a lowest entry (its order is *)
(* total), so that a push into a full queue replaces one entry; and        *)
(* between drains all entries and the pending field are of the current     *)
(* coded video sequence.  Pictures and pushed frames are numbered; a       *)
(* push gives the next number to the pictures that waited, and the moves   *)
(* between queue, ready and shown keep what they hold (OnceInv).           *)
(***************************************************************************)
EXTENDS Output, FiniteSetTheorems, WellFoundedInduction, TLAPS

\* The frames the queue holds, typed.
Entry == [poc : Int, frameNum : Nat, n : Nat, sources : SUBSET [n : Nat, frame : Int], cvs : Nat]

-----------------------------------------------------------------------------
(* The order of the queue. *)

\* Any two entries are comparable, so bump_lowest has a lowest one to find.
LEMMA PrecedesTotal ==
  ASSUME NEW e \in Entry, NEW g \in Entry
  PROVE  Precedes(e, e) /\ (Precedes(e, g) \/ Precedes(g, e))
BY DEF Precedes, Entry

\* The order (pic_order_cnt, frame_num, insertion) is transitive.
LEMMA PrecedesTransitive ==
  ASSUME NEW e \in Entry, NEW g \in Entry, NEW h \in Entry, Precedes(e, g), Precedes(g, h)
  PROVE  Precedes(e, h)
BY DEF Precedes, Entry

HasLowest(q) == \E e \in q : \A g \in q : Precedes(e, g)

\* Every non-empty finite set of entries has a lowest one: otherwise there is
\* a least size of a set that has none, and removing an element of it leaves
\* a smaller set that has none.
LEMMA LowestExists ==
  ASSUME NEW q \in SUBSET Entry, IsFiniteSet(q), q # {}
  PROVE  HasLowest(q)
<1>. DEFINE Without == {m \in Nat : \E s \in SUBSET Entry :
                          IsFiniteSet(s) /\ s # {} /\ Cardinality(s) = m /\ ~ HasLowest(s)}
<1>. SUFFICES ASSUME ~ HasLowest(q)
              PROVE  FALSE
  OBVIOUS
<1>1. Cardinality(q) \in Without
  BY FS_CardinalityType
<1>2. IsWellFoundedOn({ss \in Nat \X Nat : ss[1] < ss[2]}, Nat)
  BY NatLessThanWellFounded, Zenon DEF OpToRel
<1>3. PICK m \in Without : \A k \in Without : ~ (<<k, m>> \in {ss \in Nat \X Nat : ss[1] < ss[2]})
  <2>1. Without \subseteq Nat
    OBVIOUS
  <2>. HIDE DEF Without
  <2>. QED
    BY <1>1, <1>2, <2>1, WFMin
<1>4. \A k \in Without : m <= k
  <2>. SUFFICES ASSUME NEW k \in Without PROVE ~ (k < m)
    OBVIOUS
  <2>. QED
    BY <1>3
<1>5. PICK s \in SUBSET Entry : IsFiniteSet(s) /\ s # {} /\ Cardinality(s) = m /\ ~ HasLowest(s)
  OBVIOUS
<1>6. PICK x \in s : TRUE
  BY <1>5
<1>7. IsFiniteSet(s \ {x}) /\ Cardinality(s \ {x}) = m - 1 /\ s \ {x} \in SUBSET Entry
  BY <1>5, <1>6, FS_RemoveElement
<1>8. CASE s \ {x} = {}
  <2>1. s = {x}
    BY <1>6, <1>8
  <2>. QED
    BY <1>5, <2>1, PrecedesTotal DEF HasLowest
<1>9. CASE s \ {x} # {}
  <2>1. m - 1 \notin Without
    BY <1>4
  <2>2. m - 1 \in Nat
    BY <1>7, FS_CardinalityType
  <2>3. HasLowest(s \ {x})
    BY <1>7, <1>9, <2>1, <2>2
  <2>4. PICK y \in s \ {x} : \A g \in s \ {x} : Precedes(y, g)
    BY <2>3 DEF HasLowest
  <2>5. CASE Precedes(y, x)
    BY <1>5, <2>4, <2>5 DEF HasLowest
  <2>6. CASE Precedes(x, y)
    <3>1. \A g \in s : Precedes(x, g)
      BY <1>5, <2>4, <2>6, PrecedesTransitive, PrecedesTotal
    <3>. QED
      BY <1>5, <1>6, <3>1 DEF HasLowest
  <2>. QED
    BY <1>5, <1>6, <2>4, <2>5, <2>6, PrecedesTotal
<1>. QED
  BY <1>8, <1>9

\* Lowest, bump_lowest, returns an entry of the queue.
LEMMA LowestIn ==
  ASSUME NEW q \in SUBSET Entry, IsFiniteSet(q), q # {}
  PROVE  Lowest(q) \in q /\ \A g \in q : Precedes(Lowest(q), g)
BY LowestExists DEF HasLowest, Lowest

-----------------------------------------------------------------------------
(* The inductive invariant. *)

Pic == [structure : {"frame", "top", "bottom"}, frameNum : Nat, poc : Int, idr : BOOLEAN,
        mmco5 : BOOLEAN, cap : Nat \ {0}, n : Nat, frame : Int, cvs : Nat]

Typed ==
  /\ queue \in SUBSET Entry /\ IsFiniteSet(queue)
  /\ cap \in Nat \ {0}
  /\ ready \in Seq(Entry) /\ shown \in Seq(Entry)
  /\ pending \in Pic /\ pic \in Pic /\ first \in Pic
  /\ pics \in Nat /\ pushed \in Nat /\ cvs \in Nat
  /\ phase \in {"idle", "drain", "place", "fetch"}

\* A push is made only after a resize, so the bound holds in every phase.
Bounded == Cardinality(queue) <= cap

\* receive_frame drains the queue only when there is something to hand out.
FetchHasFrame == phase = "fetch" => queue # {} \/ ready # <<>>

\* The coded video sequence the entries of the queue belong to.
Level == IF phase = "drain" THEN cvs - 1 ELSE cvs

\* s and r are in the order of their sequences, s before r, none past level,
\* and all of q is at it.
Ordered(s, r, q, level) ==
  /\ \A i, j \in DOMAIN s : i < j => s[i].cvs <= s[j].cvs
  /\ \A i, j \in DOMAIN r : i < j => r[i].cvs <= r[j].cvs
  /\ \A i \in DOMAIN s, j \in DOMAIN r : s[i].cvs <= r[j].cvs
  /\ \A i \in DOMAIN s : s[i].cvs <= level
  /\ \A i \in DOMAIN r : r[i].cvs <= level
  /\ \A e \in q : e.cvs = level

OneSequence ==
  /\ Ordered(shown, ready, queue, Level)
  /\ pending # None => pending.cvs = Level
  /\ phase = "drain" => pending = None
  /\ phase \in {"drain", "place"} => pic.cvs = cvs

Inv == Typed /\ Bounded /\ FetchHasFrame /\ OneSequence

-----------------------------------------------------------------------------
(* The steps Push and Bump. *)

\* No picture is a picture of this type, too.
LEMMA NonePic == None \in Pic
BY DEF None, Pic

\* An entry made of one picture is well typed.
LEMMA AloneType ==
  ASSUME NEW p \in Pic, pushed \in Nat
  PROVE  Alone(p) \in Entry /\ Alone(p).cvs = p.cvs
BY DEF Alone, Entry, Pic, OutputPoc

\* An entry made of a pair of fields is well typed.
LEMMA PairType ==
  ASSUME NEW p \in Pic, NEW q \in Pic, pushed \in Nat
  PROVE  Pair(p, q) \in Entry /\ Pair(p, q).cvs = q.cvs
<1>1. /\ Alone(p) \in Entry /\ Alone(q) \in Entry
      /\ Alone(q).cvs = q.cvs
  BY AloneType
<1>2. Lesser(OutputPoc(p), OutputPoc(q)) \in Int
  BY DEF Lesser, OutputPoc, Pic
<1>. QED
  BY <1>1, <1>2 DEF Pair, Entry

\* A bump keeps the types, shrinks the queue by one, and bumps an entry of it.
LEMMA BumpTypes ==
  ASSUME Typed, queue # {}, Bump
  PROVE  /\ queue' \in SUBSET Entry /\ IsFiniteSet(queue') /\ ready' \in Seq(Entry)
         /\ queue' \subseteq queue
         /\ Cardinality(queue') = Cardinality(queue) - 1
         /\ Lowest(queue) \in queue /\ ready' = Append(ready, Lowest(queue))
         /\ ready' # <<>>
<1>1. Lowest(queue) \in queue
  BY LowestIn DEF Typed
<1>2. queue' = queue \ {Lowest(queue)} /\ ready' = Append(ready, Lowest(queue))
  BY DEF Bump
<1>. QED
  BY <1>1, <1>2, FS_RemoveElement DEF Typed

\* One element more makes a finite set at most one larger.
LEMMA AddCard ==
  ASSUME NEW S, IsFiniteSet(S), NEW x
  PROVE  /\ IsFiniteSet(S \cup {x}) /\ Cardinality(S \cup {x}) \in Nat
         /\ Cardinality(S \cup {x}) <= Cardinality(S) + 1
<1>1. Cardinality(S) \in Nat
  BY FS_CardinalityType
<1>2. CASE x \in S
  <2>. DEFINE T == S \cup {x}
  <2>1. T = S
    BY <1>2
  <2>. HIDE DEF T
  <2>2. IsFiniteSet(T) /\ Cardinality(T) \in Nat /\ Cardinality(T) <= Cardinality(S) + 1
    BY <1>1, <2>1
  <2>. QED
    BY <2>2 DEF T
<1>3. CASE x \notin S
  <2>1. IsFiniteSet(S \cup {x}) /\ Cardinality(S \cup {x}) = Cardinality(S) + 1
    BY <1>3, FS_AddElement
  <2>. QED
    BY <1>1, <2>1
<1>. QED
  BY <1>2, <1>3

\* A push of e into a queue that is within capacity c leaves it within c.
LEMMA PushTypes ==
  ASSUME Typed, NEW e \in Entry, NEW c \in Nat \ {0}, Cardinality(queue) <= c, Push(e, c)
  PROVE  /\ queue' \in SUBSET Entry /\ IsFiniteSet(queue') /\ ready' \in Seq(Entry)
         /\ pushed' \in Nat
         /\ Cardinality(queue') <= c
         /\ queue' \subseteq queue \cup {e}
         /\ ready' = ready \/ \E g \in queue : ready' = Append(ready, g)
<1>0. Cardinality(queue) \in Nat /\ IsFiniteSet(queue)
  BY FS_CardinalityType DEF Typed
<1>1. CASE Full(queue, c)
  <2>1. queue # {}
    BY <1>0, <1>1, FS_EmptySet DEF Full
  <2>2. Lowest(queue) \in queue
    BY <2>1, LowestIn DEF Typed
  <2>3. queue' = (queue \ {Lowest(queue)}) \cup {e} /\ ready' = Append(ready, Lowest(queue))
    BY <1>1 DEF Push
  <2>4. /\ IsFiniteSet(queue \ {Lowest(queue)})
        /\ Cardinality(queue \ {Lowest(queue)}) = Cardinality(queue) - 1
    BY <1>0, <2>2, FS_RemoveElement
  <2>5. /\ IsFiniteSet((queue \ {Lowest(queue)}) \cup {e})
        /\ Cardinality((queue \ {Lowest(queue)}) \cup {e}) \in Nat
        /\ Cardinality((queue \ {Lowest(queue)}) \cup {e}) <= Cardinality(queue)
    <3>. DEFINE rest == queue \ {Lowest(queue)}
    <3>. HIDE DEF rest
    <3>1. IsFiniteSet(rest) /\ Cardinality(rest) = Cardinality(queue) - 1
      BY <2>4 DEF rest
    <3>2. /\ IsFiniteSet(rest \cup {e}) /\ Cardinality(rest \cup {e}) \in Nat
          /\ Cardinality(rest \cup {e}) <= Cardinality(rest) + 1
      BY <3>1, AddCard
    <3>3. Cardinality(rest \cup {e}) <= Cardinality(queue)
      BY <1>0, <3>1, <3>2
    <3>. QED
      BY <3>2, <3>3 DEF rest
  <2>6. Cardinality(queue') <= c
    BY <1>0, <2>3, <2>5
  <2>7. ready' \in Seq(Entry) /\ \E g \in queue : ready' = Append(ready, g)
    BY <2>2, <2>3 DEF Typed
  <2>8. pushed' \in Nat
    BY DEF Typed, Push
  <2>9. queue' \in SUBSET Entry /\ IsFiniteSet(queue') /\ queue' \subseteq queue \cup {e}
    BY <2>3, <2>5 DEF Typed
  <2>. QED
    BY <2>6, <2>7, <2>8, <2>9
<1>2. CASE ~ Full(queue, c)
  <2>1. queue' = queue \cup {e} /\ ready' = ready
    BY <1>2 DEF Push
  <2>2. /\ IsFiniteSet(queue \cup {e})
        /\ Cardinality(queue \cup {e}) <= Cardinality(queue) + 1
    BY <1>0, AddCard
  <2>3. Cardinality(queue) + 1 <= c
    BY <1>0, <1>2 DEF Full
  <2>4. Cardinality(queue \cup {e}) \in Nat
    BY <2>2, FS_CardinalityType
  <2>. QED
    BY <1>0, <2>1, <2>2, <2>3, <2>4 DEF Typed, Push
<1>. QED
  BY <1>1, <1>2

\* Appending a frame of the latest sequence keeps the frames in order.
LEMMA AppendOrdered ==
  ASSUME NEW s \in Seq(Entry), NEW r \in Seq(Entry), NEW q \in SUBSET Entry, NEW level \in Int,
         Ordered(s, r, q, level), NEW e \in q
  PROVE  Ordered(s, Append(r, e), q, level)
<1>1. /\ DOMAIN Append(r, e) = 1 .. Len(r) + 1 /\ DOMAIN r = 1 .. Len(r) /\ Len(r) \in Nat
      /\ \A i \in 1 .. Len(r) : Append(r, e)[i] = r[i]
      /\ Append(r, e)[Len(r) + 1] = e
  OBVIOUS
<1>2. e.cvs = level
  BY DEF Ordered
<1>3. ASSUME NEW i \in DOMAIN Append(r, e)
      PROVE  /\ Append(r, e)[i].cvs <= level
             /\ \A j \in DOMAIN s : s[j].cvs <= Append(r, e)[i].cvs
             /\ \A j \in DOMAIN Append(r, e) : i < j => Append(r, e)[i].cvs <= Append(r, e)[j].cvs
  <2>1. CASE i = Len(r) + 1
    BY <1>1, <1>2, <2>1 DEF Ordered
  <2>2. CASE i \in 1 .. Len(r)
    BY <1>1, <1>2, <2>2 DEF Ordered
  <2>. QED
    BY <1>1, <2>1, <2>2
<1>. QED
  BY <1>3 DEF Ordered

\* Bumping any entry of the queue keeps the frames in order.
LEMMA QueueOrdered ==
  ASSUME NEW s, NEW r, NEW q, NEW level, Ordered(s, r, q, level),
         NEW h, \A e \in h : e.cvs = level
  PROVE  Ordered(s, r, h, level)
BY DEF Ordered

\* Handing out the front of ready.
LEMMA HandOutOrdered ==
  ASSUME NEW s \in Seq(Entry), NEW r \in Seq(Entry), r # <<>>, NEW q, NEW level \in Int,
         Ordered(s, r, q, level)
  PROVE  Ordered(Append(s, Head(r)), Tail(r), q, level)
<1>1. /\ DOMAIN s = 1 .. Len(s) /\ Len(s) \in Nat /\ DOMAIN r = 1 .. Len(r) /\ Len(r) \in Nat \ {0}
      /\ DOMAIN Append(s, Head(r)) = 1 .. Len(s) + 1
      /\ \A i \in 1 .. Len(s) : Append(s, Head(r))[i] = s[i]
      /\ Append(s, Head(r))[Len(s) + 1] = r[1]
      /\ DOMAIN Tail(r) = 1 .. Len(r) - 1
      /\ \A i \in 1 .. Len(r) - 1 : Tail(r)[i] = r[i + 1]
  OBVIOUS
<1>2. 1 \in DOMAIN r
  BY <1>1
<1>3. r[1].cvs \in Int /\ r[1].cvs <= level
  <2>1. r[1] \in Entry
    BY <1>2
  <2>2. r[1].cvs <= level
    BY <1>2 DEF Ordered
  <2>. QED
    BY <2>1, <2>2 DEF Entry
<1>4. ASSUME NEW i \in DOMAIN Append(s, Head(r))
      PROVE  /\ Append(s, Head(r))[i].cvs <= level
             /\ \A j \in DOMAIN Tail(r) : Append(s, Head(r))[i].cvs <= Tail(r)[j].cvs
             /\ \A j \in DOMAIN Append(s, Head(r)) :
                  i < j => Append(s, Head(r))[i].cvs <= Append(s, Head(r))[j].cvs
  <2>1. CASE i = Len(s) + 1
    BY <1>1, <1>2, <1>3, <2>1 DEF Ordered
  <2>2. CASE i \in 1 .. Len(s)
    BY <1>1, <1>2, <1>3, <2>2 DEF Ordered
  <2>. QED
    BY <1>1, <2>1, <2>2
<1>5. \A i, j \in DOMAIN Tail(r) : i < j => Tail(r)[i].cvs <= Tail(r)[j].cvs
  BY <1>1 DEF Ordered
<1>6. \A i \in DOMAIN Tail(r) : Tail(r)[i].cvs <= level
  BY <1>1 DEF Ordered
<1>. QED
  BY <1>4, <1>5, <1>6 DEF Ordered

\* Once the queue is empty, the next sequence may begin.
LEMMA RaiseLevel ==
  ASSUME NEW s \in Seq(Entry), NEW r \in Seq(Entry), NEW level \in Int,
         Ordered(s, r, {}, level - 1)
  PROVE  Ordered(s, r, {}, level)
<1>1. ASSUME NEW t \in Seq(Entry), NEW i \in DOMAIN t, t[i].cvs <= level - 1
      PROVE  t[i].cvs <= level
  <2>1. t[i] \in Entry
    OBVIOUS
  <2>2. t[i].cvs \in Int
    BY <2>1 DEF Entry
  <2>. QED
    BY <1>1, <2>2
<1>2. \A i \in DOMAIN s : s[i].cvs <= level
  BY <1>1 DEF Ordered
<1>3. \A i \in DOMAIN r : r[i].cvs <= level
  BY <1>1 DEF Ordered
<1>. QED
  BY <1>2, <1>3 DEF Ordered

\* A push of an entry of the queue's own sequence.
LEMMA PushInv ==
  ASSUME Typed, Ordered(shown, ready, queue, cvs), NEW e \in Entry, e.cvs = cvs,
         NEW c \in Nat \ {0}, Cardinality(queue) <= c, Push(e, c)
  PROVE  /\ queue' \in SUBSET Entry /\ IsFiniteSet(queue') /\ ready' \in Seq(Entry)
         /\ pushed' \in Nat
         /\ Cardinality(queue') <= c
         /\ Ordered(shown, ready', queue', cvs)
<1>1. /\ queue' \in SUBSET Entry /\ IsFiniteSet(queue') /\ ready' \in Seq(Entry)
      /\ pushed' \in Nat
      /\ Cardinality(queue') <= c
      /\ queue' \subseteq queue \cup {e}
      /\ ready' = ready \/ \E g \in queue : ready' = Append(ready, g)
  BY PushTypes
<1>2. \A g \in queue' : g.cvs = cvs
  BY <1>1 DEF Ordered
<1>3. Ordered(shown, ready', queue, cvs)
  <2>1. shown \in Seq(Entry) /\ ready \in Seq(Entry) /\ queue \in SUBSET Entry /\ cvs \in Int
    BY DEF Typed
  <2>2. ASSUME NEW g \in queue, ready' = Append(ready, g) PROVE Ordered(shown, ready', queue, cvs)
    <3>1. Ordered(shown, Append(ready, g), queue, cvs)
      BY <2>1, <2>2, AppendOrdered
    <3>. QED
      BY <2>2, <3>1
  <2>3. CASE ready' = ready
    BY <2>3
  <2>. QED
    BY <1>1, <2>2, <2>3
<1>4. Ordered(shown, ready', queue', cvs)
  BY <1>2, <1>3, QueueOrdered
<1>. QED
  BY <1>1, <1>4

\* What the stream codes is a picture of the current or the next sequence.
LEMMA HeaderPic ==
  ASSUME Typed, NEW p \in Headers
  PROVE  /\ p \in Pic
         /\ p.cvs = IF StartsSequence(p) THEN cvs + 1 ELSE cvs
         /\ first.poc \in Int
<1>1. /\ p.structure \in Structures /\ p.frameNum \in FrameNums
      /\ p.poc \in StreamPocs(TRUE) \cup Pocs
      /\ p.idr \in BOOLEAN /\ p.mmco5 \in BOOLEAN /\ p.cap \in Caps
      /\ p.n \in {pics} /\ p.frame \in {pics, first.frame} /\ p.cvs \in {cvs, cvs + 1}
      /\ p = [structure |-> p.structure, frameNum |-> p.frameNum, poc |-> p.poc, idr |-> p.idr,
              mmco5 |-> p.mmco5, cap |-> p.cap, n |-> p.n, frame |-> p.frame, cvs |-> p.cvs]
  BY DEF Headers
<1>2. p.cvs = IF StartsSequence(p) THEN cvs + 1 ELSE cvs
  BY DEF Headers
<1>3. first.poc \in Int /\ first.frame \in Int /\ pics \in Nat /\ cvs \in Nat
  BY DEF Typed, Pic
<1>4. p.poc \in Int
  <2>1. StreamPocs(TRUE) = {first.poc - 1, first.poc + 1}
    BY DEF StreamPocs
  <2>2. p.poc \in {first.poc - 1, first.poc + 1} \/ p.poc \in Pocs
    BY <1>1, <2>1
  <2>3. Pocs \subseteq Int
    BY OutputAssumption
  <2>4. first.poc - 1 \in Int /\ first.poc + 1 \in Int
    BY <1>3
  <2>. QED
    BY <2>2, <2>3, <2>4
<1>5. p.structure \in {"frame", "top", "bottom"} /\ p.frameNum \in Nat /\ p.cap \in Nat \ {0}
  BY <1>1, OutputAssumption
<1>6. p.n \in Nat /\ p.frame \in Int /\ p.cvs \in Nat
  BY <1>1, <1>3
<1>. QED
  BY <1>1, <1>2, <1>3, <1>4, <1>5, <1>6 DEF Pic

\* flush_pending_field keeps the invariant.
LEMMA FlushPendingFieldInv ==
  ASSUME Inv, phase = "idle", FlushPendingField
  PROVE  /\ queue' \in SUBSET Entry /\ IsFiniteSet(queue') /\ ready' \in Seq(Entry)
         /\ pushed' \in Nat
         /\ Cardinality(queue') <= cap
         /\ Ordered(shown, ready', queue', cvs)
         /\ pending' = None
<1>1. Typed /\ Cardinality(queue) <= cap /\ Ordered(shown, ready, queue, cvs)
      /\ (pending # None => pending.cvs = cvs) /\ cap \in Nat \ {0}
  BY DEF Inv, Typed, Bounded, OneSequence, Level
<1>2. CASE pending = None
  BY <1>1, <1>2 DEF FlushPendingField, NoPush, Typed
<1>3. CASE pending # None
  <2>1. Alone(pending) \in Entry /\ Alone(pending).cvs = cvs
    BY <1>1, <1>3, AloneType DEF Typed
  <2>2. Push(Alone(pending), cap) /\ pending' = None
    BY <1>3 DEF FlushPendingField
  <2>. QED
    BY <1>1, <2>1, <2>2, PushInv
<1>. QED
  BY <1>2, <1>3

\* Beginning the output half of a picture keeps the invariant.
LEMMA BeginOutputInv ==
  ASSUME Inv, NEW p \in Headers, BeginOutput(p)
  PROVE  Inv'
<1>1. Typed /\ phase = "idle" /\ cvs \in Nat /\ pics \in Nat /\ Cardinality(queue) <= cap
      /\ Ordered(shown, ready, queue, cvs) /\ (pending # None => pending.cvs = cvs)
      /\ shown \in Seq(Entry)
  BY DEF Inv, Typed, Bounded, OneSequence, Level, BeginOutput
<1>2. /\ p \in Pic /\ p.cvs = IF StartsSequence(p) THEN cvs + 1 ELSE cvs
  BY <1>1, HeaderPic
<1>3. /\ pic' = p /\ pics' = pics + 1 /\ cvs' = p.cvs
      /\ UNCHANGED <<cap, eof, shown>>
  BY DEF BeginOutput
<1>4. first' \in Pic
  BY <1>2, NonePic DEF BeginOutput
<1>5. cvs' \in Nat
  BY <1>2, <1>3 DEF Pic
<1>6. CASE StartsSequence(p)
  <2>1. FlushPendingField /\ phase' = "drain"
    BY <1>6 DEF BeginOutput, DrainsPrior, StartsSequence
  <2>2. /\ queue' \in SUBSET Entry /\ IsFiniteSet(queue') /\ ready' \in Seq(Entry)
        /\ pushed' \in Nat
        /\ Cardinality(queue') <= cap
        /\ Ordered(shown, ready', queue', cvs)
        /\ pending' = None
    BY <1>1, <2>1, FlushPendingFieldInv
  <2>3. Typed'
    BY <1>1, <1>2, <1>3, <1>4, <1>5, <2>1, <2>2, NonePic DEF Typed
  <2>4. Level' = cvs
    BY <1>1, <1>2, <1>3, <1>6, <2>1 DEF Level
  <2>5. OneSequence'
    BY <1>2, <1>3, <2>1, <2>2, <2>4 DEF OneSequence
  <2>. QED
    BY <1>3, <2>1, <2>2, <2>3, <2>5 DEF Inv, Bounded, FetchHasFrame
<1>7. CASE ~ StartsSequence(p)
  <2>1. phase' = "place" /\ UNCHANGED <<queue, ready, pushed, pending>>
    BY <1>7 DEF BeginOutput, DrainsPrior, StartsSequence, NoPush
  <2>2. Typed'
    BY <1>1, <1>2, <1>3, <1>4, <1>5, <2>1 DEF Typed
  <2>3. Level' = cvs /\ cvs' = cvs
    BY <1>2, <1>3, <1>7, <2>1 DEF Level
  <2>4. OneSequence'
    BY <1>1, <1>2, <1>3, <2>1, <2>3 DEF OneSequence
  <2>. QED
    BY <1>1, <1>3, <2>1, <2>2, <2>4 DEF Inv, Bounded, FetchHasFrame
<1>. QED
  BY <1>6, <1>7

\* A drained frame keeps the invariant.
LEMMA DrainInv ==
  ASSUME Inv, Drain
  PROVE  Inv'
<1>1. /\ Typed /\ queue # {} /\ phase = "drain" /\ cvs \in Nat /\ cap \in Nat
      /\ Cardinality(queue) <= cap
      /\ Ordered(shown, ready, queue, cvs - 1) /\ pending = None /\ pic.cvs = cvs
  BY DEF Inv, Typed, Bounded, OneSequence, Level, Drain
<1>2. UNCHANGED <<cap, pending, phase, pic, pics, pushed, cvs, first, shown>> /\ Bump
  BY DEF Drain
<1>3. /\ queue' \in SUBSET Entry /\ IsFiniteSet(queue') /\ ready' \in Seq(Entry)
      /\ queue' \subseteq queue
      /\ Cardinality(queue') = Cardinality(queue) - 1
      /\ Lowest(queue) \in queue /\ ready' = Append(ready, Lowest(queue))
  BY <1>1, <1>2, BumpTypes
<1>4. Cardinality(queue') <= cap
  BY <1>1, <1>3, FS_CardinalityType DEF Typed
<1>5. Ordered(shown, ready', queue', cvs - 1)
  <2>1. Ordered(shown, Append(ready, Lowest(queue)), queue, cvs - 1)
    BY <1>1, <1>3, AppendOrdered DEF Typed
  <2>2. \A e \in queue' : e.cvs = cvs - 1
    BY <1>1, <1>3 DEF Ordered
  <2>. QED
    BY <1>3, <2>1, <2>2, QueueOrdered
<1>6. Typed'
  BY <1>1, <1>2, <1>3 DEF Typed
<1>7. OneSequence'
  BY <1>1, <1>2, <1>5 DEF OneSequence, Level
<1>. QED
  BY <1>1, <1>2, <1>4, <1>6, <1>7 DEF Inv, Bounded, FetchHasFrame

\* The end of a drain keeps the invariant.
LEMMA DrainedInv ==
  ASSUME Inv, Drained
  PROVE  Inv'
<1>1. /\ phase = "drain" /\ queue = {} /\ cvs \in Nat
      /\ Ordered(shown, ready, queue, cvs - 1) /\ pending = None /\ pic.cvs = cvs
      /\ shown \in Seq(Entry) /\ ready \in Seq(Entry)
  BY DEF Inv, Typed, OneSequence, Level, Drained
<1>2. /\ phase' = "place"
      /\ UNCHANGED <<queue, cap, ready, pending, eof, pic, pics, pushed, cvs, coded, first, shown>>
  BY DEF Drained
<1>3. Ordered(shown, ready, queue, cvs)
  BY <1>1, RaiseLevel
<1>4. OneSequence'
  BY <1>1, <1>2, <1>3 DEF OneSequence, Level
<1>. QED
  BY <1>2, <1>4 DEF Inv, Typed, Bounded, FetchHasFrame

\* Resizing keeps the invariant.
LEMMA ShrinkInv ==
  ASSUME Inv, Shrink
  PROVE  Inv'
<1>1. /\ Typed /\ phase = "place" /\ cvs \in Nat /\ cap \in Nat /\ pic.cap \in Nat \ {0}
      /\ Cardinality(queue) <= cap /\ Cardinality(queue) \in Nat
      /\ Ordered(shown, ready, queue, cvs) /\ (pending # None => pending.cvs = cvs)
      /\ pic.cvs = cvs
  BY FS_CardinalityType DEF Inv, Typed, Bounded, OneSequence, Level, Shrink, Pic
<1>2. UNCHANGED <<cap, pending, phase, pic, pics, pushed, cvs, first, shown>> /\ Bump
  BY DEF Shrink
<1>3. queue # {}
  BY <1>1, FS_EmptySet DEF Shrink, Overfull
<1>4. /\ queue' \in SUBSET Entry /\ IsFiniteSet(queue') /\ ready' \in Seq(Entry)
      /\ queue' \subseteq queue
      /\ Cardinality(queue') = Cardinality(queue) - 1
      /\ Lowest(queue) \in queue /\ ready' = Append(ready, Lowest(queue))
  BY <1>1, <1>2, <1>3, BumpTypes
<1>5. Cardinality(queue') <= cap
  BY <1>1, <1>4
<1>6. Ordered(shown, ready', queue', cvs)
  <2>1. Ordered(shown, Append(ready, Lowest(queue)), queue, cvs)
    BY <1>1, <1>4, AppendOrdered DEF Typed
  <2>2. \A e \in queue' : e.cvs = cvs
    BY <1>1, <1>4 DEF Ordered
  <2>. QED
    BY <1>4, <2>1, <2>2, QueueOrdered
<1>7. Typed'
  BY <1>1, <1>2, <1>4 DEF Typed
<1>8. OneSequence'
  BY <1>1, <1>2, <1>6 DEF OneSequence, Level
<1>. QED
  BY <1>1, <1>2, <1>5, <1>7, <1>8 DEF Inv, Bounded, FetchHasFrame

\* Placing a frame or field keeps the invariant.
LEMMA PlaceInv ==
  ASSUME Inv, Place
  PROVE  Inv'
<1>1. /\ Typed /\ phase = "place" /\ cvs \in Nat /\ pic.cap \in Nat \ {0}
      /\ Cardinality(queue) \in Nat
      /\ Ordered(shown, ready, queue, cvs) /\ (pending # None => pending.cvs = cvs)
      /\ pic.cvs = cvs /\ pic \in Pic /\ pending \in Pic /\ pushed \in Nat
  BY FS_CardinalityType DEF Inv, Typed, OneSequence, Level, Place, Pic
<1>2. /\ cap' = pic.cap /\ phase' = "idle" /\ pic' = None
      /\ UNCHANGED <<pics, cvs, first, shown>>
  BY DEF Place
<1>3. Cardinality(queue) <= pic.cap
  BY <1>1 DEF Place, Overfull
<1>4. /\ Alone(pic) \in Entry /\ Alone(pic).cvs = cvs
      /\ pending # None => Alone(pending) \in Entry /\ Alone(pending).cvs = cvs
      /\ Pair(pending, pic) \in Entry /\ Pair(pending, pic).cvs = cvs
  BY <1>1, AloneType, PairType
<1>5. /\ \/ NoPush
         \/ Push(Alone(pic), pic.cap)
         \/ pending # None /\ Push(Alone(pending), pic.cap)
         \/ Push(Pair(pending, pic), pic.cap)
      /\ pending' \in {None, pic, pending}
  BY DEF Place, PlaceField
<1>6. /\ queue' \in SUBSET Entry /\ IsFiniteSet(queue') /\ ready' \in Seq(Entry)
      /\ pushed' \in Nat
      /\ Cardinality(queue') <= pic.cap
      /\ Ordered(shown, ready', queue', cvs)
  <2>1. CASE NoPush
    BY <1>1, <1>3, <2>1 DEF NoPush, Typed
  <2>2. CASE Push(Alone(pic), pic.cap)
    BY <1>1, <1>3, <1>4, <2>2, PushInv
  <2>3. CASE pending # None /\ Push(Alone(pending), pic.cap)
    BY <1>1, <1>3, <1>4, <2>3, PushInv
  <2>4. CASE Push(Pair(pending, pic), pic.cap)
    BY <1>1, <1>3, <1>4, <2>4, PushInv
  <2>. QED
    BY <1>5, <2>1, <2>2, <2>3, <2>4
<1>7. pending' \in Pic /\ (pending' # None => pending'.cvs = cvs)
  BY <1>1, <1>5, NonePic
<1>8. Typed'
  BY <1>1, <1>2, <1>6, <1>7, NonePic DEF Typed
<1>9. OneSequence'
  BY <1>2, <1>6, <1>7 DEF OneSequence, Level
<1>. QED
  BY <1>2, <1>6, <1>8, <1>9 DEF Inv, Bounded, FetchHasFrame

\* receive_frame keeps the invariant.
LEMMA ReceiveFrameInv ==
  ASSUME Inv, ReceiveFrame
  PROVE  Inv'
<1>1. /\ Typed /\ phase = "idle" /\ cvs \in Nat /\ cap \in Nat
      /\ Cardinality(queue) <= cap /\ Cardinality(queue) \in Nat
      /\ Ordered(shown, ready, queue, cvs) /\ (pending # None => pending.cvs = cvs)
      /\ shown \in Seq(Entry) /\ ready \in Seq(Entry)
  BY FS_CardinalityType DEF Inv, Typed, Bounded, OneSequence, Level, ReceiveFrame
<1>2. ready # <<>>
  BY <1>1 DEF ReceiveFrame, Overfull
<1>3. /\ ready' = Tail(ready) /\ shown' = Append(shown, Head(ready))
      /\ UNCHANGED <<queue, cap, pending, phase, pic, pics, pushed, cvs, first>>
  BY <1>2 DEF ReceiveFrame
<1>4. ready' \in Seq(Entry) /\ shown' \in Seq(Entry)
  BY <1>1, <1>2, <1>3
<1>5. Ordered(shown', ready', queue', cvs)
  BY <1>1, <1>2, <1>3, HandOutOrdered
<1>6. Typed'
  BY <1>1, <1>3, <1>4 DEF Typed
<1>7. OneSequence'
  BY <1>1, <1>3, <1>5 DEF OneSequence, Level
<1>. QED
  BY <1>1, <1>3, <1>6, <1>7 DEF Inv, Bounded, FetchHasFrame

\* receive_frame at EOF keeps the invariant.
LEMMA ReceiveAtEofInv ==
  ASSUME Inv, ReceiveAtEof
  PROVE  Inv'
BY DEF Inv, Typed, Bounded, FetchHasFrame, OneSequence, Level, ReceiveAtEof

\* The drain at EOF keeps the invariant.
LEMMA FetchStepInv ==
  ASSUME Inv, FetchStep
  PROVE  Inv'
<1>1. /\ Typed /\ phase = "fetch" /\ cvs \in Nat /\ cap \in Nat
      /\ Cardinality(queue) <= cap /\ Cardinality(queue) \in Nat
      /\ Ordered(shown, ready, queue, cvs) /\ (pending # None => pending.cvs = cvs)
      /\ shown \in Seq(Entry) /\ ready \in Seq(Entry) /\ (queue # {} \/ ready # <<>>)
      /\ UNCHANGED <<cap, pending, eof, pic, pics, pushed, cvs, coded, first>>
  BY FS_CardinalityType
     DEF Inv, Typed, Bounded, OneSequence, Level, FetchStep, FetchHasFrame
<1>2. CASE queue # {}
  <2>1. UNCHANGED <<phase, shown>> /\ Bump
    BY <1>2 DEF FetchStep
  <2>2. /\ queue' \in SUBSET Entry /\ IsFiniteSet(queue') /\ ready' \in Seq(Entry)
        /\ queue' \subseteq queue
        /\ Cardinality(queue') = Cardinality(queue) - 1
        /\ Lowest(queue) \in queue /\ ready' = Append(ready, Lowest(queue)) /\ ready' # <<>>
    BY <1>1, <1>2, <2>1, BumpTypes
  <2>3. Cardinality(queue') <= cap
    BY <1>1, <2>2
  <2>4. Ordered(shown, ready', queue', cvs)
    <3>1. Ordered(shown, Append(ready, Lowest(queue)), queue, cvs)
      BY <1>1, <2>2, AppendOrdered DEF Typed
    <3>2. \A e \in queue' : e.cvs = cvs
      BY <1>1, <2>2 DEF Ordered
    <3>. QED
      BY <2>2, <3>1, <3>2, QueueOrdered
  <2>5. Typed'
    BY <1>1, <2>1, <2>2 DEF Typed
  <2>6. OneSequence'
    BY <1>1, <2>1, <2>4 DEF OneSequence, Level
  <2>. QED
    BY <1>1, <2>2, <2>3, <2>5, <2>6 DEF Inv, Bounded, FetchHasFrame
<1>3. CASE queue = {}
  <2>1. /\ phase' = "idle" /\ ready' = Tail(ready) /\ shown' = Append(shown, Head(ready))
        /\ UNCHANGED queue
    BY <1>3 DEF FetchStep
  <2>2. ready' \in Seq(Entry) /\ shown' \in Seq(Entry)
    BY <1>1, <1>3, <2>1
  <2>3. Ordered(shown', ready', queue', cvs)
    BY <1>1, <1>3, <2>1, HandOutOrdered
  <2>4. Typed'
    BY <1>1, <2>1, <2>2 DEF Typed
  <2>5. OneSequence'
    BY <1>1, <2>1, <2>3 DEF OneSequence, Level
  <2>. QED
    BY <1>1, <2>1, <2>4, <2>5 DEF Inv, Bounded, FetchHasFrame
<1>. QED
  BY <1>2, <1>3

\* flush keeps the invariant.
LEMMA FlushInv ==
  ASSUME Inv, Flush
  PROVE  Inv'
<1>1. /\ Typed /\ phase = "idle" /\ cvs \in Nat /\ shown \in Seq(Entry)
  BY DEF Inv, Typed, Flush
<1>2. UNCHANGED <<cap, phase, pic, pics, cvs, coded, shown>> /\ first' = None /\ FlushPendingField
  BY DEF Flush
<1>3. /\ queue' \in SUBSET Entry /\ IsFiniteSet(queue') /\ ready' \in Seq(Entry)
      /\ pushed' \in Nat
      /\ Cardinality(queue') <= cap
      /\ Ordered(shown, ready', queue', cvs)
      /\ pending' = None
  BY <1>1, <1>2, FlushPendingFieldInv
<1>4. Typed'
  BY <1>1, <1>2, <1>3, NonePic DEF Typed
<1>5. OneSequence'
  BY <1>1, <1>2, <1>3 DEF OneSequence, Level
<1>. QED
  BY <1>1, <1>2, <1>3, <1>4, <1>5 DEF Inv, Bounded, FetchHasFrame

\* The state without frames, after reset and at the start.
LEMMA NothingHeld ==
  Ordered(<<>>, <<>>, {}, 0) /\ <<>> \in Seq(Entry) /\ IsFiniteSet({}) /\ Cardinality({}) = 0
BY FS_EmptySet DEF Ordered

\* reset keeps the invariant.
LEMMA ResetInv ==
  ASSUME Inv, Reset
  PROVE  Inv'
<1>1. Typed /\ cap \in Nat
  BY DEF Inv, Typed
<1>2. /\ queue' = {} /\ ready' = <<>> /\ shown' = <<>> /\ pending' = None /\ first' = None
      /\ pics' = 0 /\ pushed' = 0 /\ cvs' = 0 /\ phase' = "idle"
      /\ UNCHANGED <<cap, pic>>
  BY DEF Reset
<1>3. Typed'
  BY <1>1, <1>2, NothingHeld, NonePic DEF Typed
<1>4. OneSequence'
  BY <1>2, NothingHeld DEF OneSequence, Level
<1>. QED
  BY <1>1, <1>2, <1>3, <1>4, NothingHeld DEF Inv, Bounded, FetchHasFrame

\* The decoder starts in the invariant.
LEMMA InitInv == Init => Inv
<1>. SUFFICES ASSUME Init PROVE Inv
  OBVIOUS
<1>1. Typed
  BY NothingHeld, NonePic DEF Init, Typed
<1>2. OneSequence
  BY NothingHeld DEF Init, OneSequence, Level
<1>. QED
  BY <1>1, <1>2, NothingHeld DEF Init, Inv, Bounded, FetchHasFrame

\* A step that changes nothing keeps the invariant.
LEMMA StutterInv ==
  ASSUME Inv, UNCHANGED vars
  PROVE  Inv'
BY DEF vars, Inv, Typed, Bounded, FetchHasFrame, OneSequence, Level

-----------------------------------------------------------------------------
\* The invariant holds for every stream and every caller.
THEOREM Invariance == Spec => []Inv
<1>1. Inv /\ Next => Inv'
  BY BeginOutputInv, DrainInv, DrainedInv, ShrinkInv, PlaceInv, ReceiveFrameInv,
     ReceiveAtEofInv, FetchStepInv, FlushInv, ResetInv DEF Next
<1>2. Inv /\ [Next]_vars => Inv'
  BY <1>1, StutterInv
<1>. QED
  BY <1>2, InitInv, PTL DEF Spec

\* pop_ready never has anything to yield: the queue is within its capacity
\* between calls, through resizing to any other capacity.
THEOREM QueueStaysBounded == Spec => []QueueBounded
<1>1. Inv => QueueBounded
  <2>. SUFFICES ASSUME Inv PROVE ~ (Cardinality(queue) > cap)
    BY DEF QueueBounded, Overfull
  <2>1. Cardinality(queue) \in Nat /\ cap \in Nat /\ Cardinality(queue) <= cap
    BY FS_CardinalityType DEF Inv, Typed, Bounded
  <2>. QED
    BY <2>1
<1>. QED
  BY <1>1, Invariance, PTL

\* A coded video sequence is handed out completely before the next one.
THEOREM SequencesHandedOutInOrder == Spec => []SequencesInOrder
<1>1. ASSUME Inv PROVE SequencesInOrder
  <2>. DEFINE out == shown \o ready
  <2>1. /\ shown \in Seq(Entry) /\ ready \in Seq(Entry)
        /\ Len(shown) \in Nat /\ Len(ready) \in Nat
        /\ DOMAIN out = 1 .. Len(shown) + Len(ready)
        /\ DOMAIN shown = 1 .. Len(shown) /\ DOMAIN ready = 1 .. Len(ready)
    BY <1>1 DEF Inv, Typed
  <2>2. /\ \A i \in 1 .. Len(shown) : out[i] = shown[i]
        /\ \A i \in Len(shown) + 1 .. Len(shown) + Len(ready) :
             out[i] = ready[i - Len(shown)] /\ i - Len(shown) \in 1 .. Len(ready)
    BY <2>1
  <2>3. Ordered(shown, ready, queue, Level)
    BY <1>1 DEF Inv, OneSequence
  <2>. HIDE DEF out
  <2>4. ASSUME NEW i \in DOMAIN out, NEW j \in DOMAIN out, i < j
        PROVE  out[i].cvs <= out[j].cvs
    <3>1. CASE i \in 1 .. Len(shown) /\ j \in 1 .. Len(shown)
      BY <2>1, <2>2, <2>3, <2>4, <3>1 DEF Ordered
    <3>2. CASE i \in 1 .. Len(shown) /\ j \notin 1 .. Len(shown)
      <4>1. /\ i \in DOMAIN shown /\ j - Len(shown) \in DOMAIN ready
            /\ out[i] = shown[i] /\ out[j] = ready[j - Len(shown)]
        BY <2>1, <2>2, <3>2
      <4>. QED
        BY <2>3, <4>1 DEF Ordered
    <3>3. CASE i \notin 1 .. Len(shown)
      <4>1. /\ i - Len(shown) \in DOMAIN ready /\ j - Len(shown) \in DOMAIN ready
            /\ i - Len(shown) < j - Len(shown)
            /\ out[i] = ready[i - Len(shown)] /\ out[j] = ready[j - Len(shown)]
        BY <2>1, <2>2, <2>4, <3>3
      <4>. QED
        BY <2>3, <4>1 DEF Ordered
    <3>. QED
      BY <3>1, <3>2, <3>3
  <2>5. ASSUME NEW i \in DOMAIN out, NEW e \in queue
        PROVE  out[i].cvs <= e.cvs
    <3>1. e.cvs = Level
      BY <2>3 DEF Ordered
    <3>2. CASE i \in 1 .. Len(shown)
      BY <2>1, <2>2, <2>3, <3>1, <3>2 DEF Ordered
    <3>3. CASE i \notin 1 .. Len(shown)
      <4>1. i - Len(shown) \in DOMAIN ready /\ out[i] = ready[i - Len(shown)]
        BY <2>1, <2>2, <3>3
      <4>. QED
        BY <2>3, <3>1, <4>1 DEF Ordered
    <3>. QED
      BY <3>2, <3>3
  <2>. QED
    BY <2>4, <2>5 DEF SequencesInOrder, out
<1>. QED
  BY <1>1, Invariance, PTL

-----------------------------------------------------------------------------
(* Each picture is in one place. *)

\* The elements of a sequence.
Elements(s) == {s[i] : i \in DOMAIN s}

\* No frame is in two places of the queue, the bumped and the shown frames.
Distinct(q, r, s) ==
  /\ \A i, j \in DOMAIN r : r[i] = r[j] => i = j
  /\ \A i, j \in DOMAIN s : s[i] = s[j] => i = j
  /\ \A i \in DOMAIN r : r[i] \notin q /\ r[i] \notin Elements(s)
  /\ \A i \in DOMAIN s : s[i] \notin q

\* Entry e holds picture number i.
Holds(e, i) == \E s \in e.sources : s.n = i

Holders(P, i) == {e \in P : Holds(e, i)}
Waiters(W, i) == {p \in W : p.n = i}

\* Each of the first k pictures is in one entry of P or waits in W.
Once(P, W, k) ==
  \A i \in 0 .. k - 1 :
    \/ (\E e \in P : Holders(P, i) = {e}) /\ Waiters(W, i) = {}
    \/ Holders(P, i) = {} /\ \E p \in W : Waiters(W, i) = {p}

\* No picture after the first k is there yet.
Below(P, W, k) ==
  /\ \A e \in P : \A s \in e.sources : s.n \in 0 .. k - 1
  /\ \A p \in W : p.n \in 0 .. k - 1

Numbered(P, k) == \A e \in P : e.n \in 0 .. k - 1

\* pic is the picture being finalized, and is not None for lack of a number.
InProgress ==
  /\ phase \in {"idle", "fetch"} => pic = None
  /\ phase \in {"drain", "place"} => pic # None /\ (pending # None => pending # pic)
  /\ first # None => first.frame \in Nat

OnceInv ==
  /\ Distinct(queue, ready, shown)
  /\ Numbered(Pushed, pushed)
  /\ Below(Pushed, Waiting, pics)
  /\ Once(Pushed, Waiting, pics)
  /\ InProgress
\* The elements of a longer sequence.
LEMMA AppendElements ==
  ASSUME NEW S, NEW s \in Seq(S), NEW e \in S
  PROVE  Elements(Append(s, e)) = Elements(s) \cup {e}
<1>1. /\ DOMAIN Append(s, e) = 1 .. Len(s) + 1 /\ DOMAIN s = 1 .. Len(s) /\ Len(s) \in Nat
      /\ \A i \in 1 .. Len(s) : Append(s, e)[i] = s[i]
      /\ Append(s, e)[Len(s) + 1] = e
  OBVIOUS
<1>. DEFINE t == Append(s, e)
<1>. HIDE DEF t
<1>2. ASSUME NEW x \in Elements(t) PROVE x \in Elements(s) \cup {e}
  <2>1. PICK i \in DOMAIN t : x = t[i]
    BY DEF Elements
  <2>. QED
    BY <1>1, <2>1 DEF Elements, t
<1>3. ASSUME NEW x \in Elements(s) PROVE x \in Elements(t)
  <2>1. PICK i \in DOMAIN s : x = s[i]
    BY DEF Elements
  <2>2. i \in DOMAIN t /\ t[i] = x
    BY <1>1, <2>1 DEF t
  <2>. QED
    BY <2>2 DEF Elements
<1>4. e \in Elements(t)
  <2>1. Len(s) + 1 \in DOMAIN t /\ t[Len(s) + 1] = e
    BY <1>1 DEF t
  <2>. QED
    BY <2>1 DEF Elements
<1>5. Elements(t) = Elements(s) \cup {e}
  BY <1>2, <1>3, <1>4
<1>. QED
  BY <1>5 DEF t

\* What is handed out was bumped.
LEMMA TailElements ==
  ASSUME NEW S, NEW r \in Seq(S), r # <<>>
  PROVE  Elements(r) = Elements(Tail(r)) \cup {Head(r)}
<1>1. /\ DOMAIN r = 1 .. Len(r) /\ Len(r) \in Nat \ {0}
      /\ DOMAIN Tail(r) = 1 .. Len(r) - 1 /\ Head(r) = r[1]
      /\ \A i \in 1 .. Len(r) - 1 : Tail(r)[i] = r[i + 1]
  OBVIOUS
<1>. DEFINE t == Tail(r)
<1>. HIDE DEF t
<1>2. ASSUME NEW x \in Elements(r) PROVE x \in Elements(t) \cup {Head(r)}
  <2>1. PICK i \in DOMAIN r : x = r[i]
    BY DEF Elements
  <2>2. CASE i = 1
    BY <1>1, <2>1, <2>2
  <2>3. CASE i # 1
    <3>1. i - 1 \in DOMAIN t /\ t[i - 1] = x
      BY <1>1, <2>1, <2>3 DEF t
    <3>. QED
      BY <3>1 DEF Elements
  <2>. QED
    BY <2>2, <2>3
<1>3. ASSUME NEW x \in Elements(t) PROVE x \in Elements(r)
  <2>1. PICK i \in DOMAIN t : x = t[i]
    BY DEF Elements
  <2>2. i + 1 \in DOMAIN r /\ r[i + 1] = x
    BY <1>1, <2>1 DEF t
  <2>. QED
    BY <2>2 DEF Elements
<1>4. Head(r) \in Elements(r)
  BY <1>1 DEF Elements
<1>5. Elements(r) = Elements(t) \cup {Head(r)}
  BY <1>2, <1>3, <1>4
<1>. QED
  BY <1>5 DEF t

\* A sequence without repetition has as many elements as its length.
LEMMA ElementsCard ==
  ASSUME NEW S, NEW s \in Seq(S), \A i, j \in DOMAIN s : s[i] = s[j] => i = j
  PROVE  IsFiniteSet(Elements(s)) /\ Cardinality(Elements(s)) = Len(s)
<1>1. s \in [1 .. Len(s) -> Elements(s)] /\ Len(s) \in Nat /\ DOMAIN s = 1 .. Len(s)
  BY DEF Elements
<1>2. s \in Injection(1 .. Len(s), Elements(s))
  BY <1>1 DEF Injection, IsInjective
<1>3. s \in Surjection(1 .. Len(s), Elements(s))
  BY <1>1 DEF Surjection, Elements
<1>4. ExistsBijection(1 .. Len(s), Elements(s))
  BY <1>2, <1>3 DEF ExistsBijection, Bijection
<1>5. IsFiniteSet(Elements(s))
  BY <1>1, <1>4, FS_NatBijection
<1>6. Cardinality(Elements(s)) = Len(s)
  BY <1>1, <1>4, FS_CountingElements
<1>. QED
  BY <1>5, <1>6

\* Bumping a queued frame.
LEMMA BumpDistinct ==
  ASSUME NEW q, NEW r \in Seq(Entry), NEW s, Distinct(q, r, s), NEW e \in q, e \in Entry
  PROVE  Distinct(q \ {e}, Append(r, e), s)
<1>1. /\ DOMAIN Append(r, e) = 1 .. Len(r) + 1 /\ DOMAIN r = 1 .. Len(r) /\ Len(r) \in Nat
      /\ \A i \in 1 .. Len(r) : Append(r, e)[i] = r[i]
      /\ Append(r, e)[Len(r) + 1] = e
  OBVIOUS
<1>. DEFINE t == Append(r, e)
<1>. HIDE DEF t
<1>2. \A i \in 1 .. Len(r) : t[i] = r[i] /\ t[i] \notin q /\ t[i] # e
  BY <1>1 DEF t, Distinct
<1>3. e \notin Elements(s)
  BY DEF Distinct, Elements
<1>4. \A i, j \in DOMAIN t : t[i] = t[j] => i = j
  <2>. SUFFICES ASSUME NEW i \in 1 .. Len(r) + 1, NEW j \in 1 .. Len(r) + 1, t[i] = t[j]
       PROVE  i = j
    BY <1>1 DEF t
  <2>1. t[Len(r) + 1] = e
    BY <1>1 DEF t
  <2>2. CASE i \in 1 .. Len(r) /\ j \in 1 .. Len(r)
    BY <1>1, <1>2, <2>2 DEF Distinct
  <2>3. CASE i = Len(r) + 1 \/ j = Len(r) + 1
    BY <1>1, <1>2, <2>1, <2>3
  <2>. QED
    BY <1>1, <2>2, <2>3
<1>5. \A i \in DOMAIN t : t[i] \notin q \ {e} /\ t[i] \notin Elements(s)
  <2>. SUFFICES ASSUME NEW i \in 1 .. Len(r) + 1
       PROVE  t[i] \notin q \ {e} /\ t[i] \notin Elements(s)
    BY <1>1 DEF t
  <2>1. CASE i \in 1 .. Len(r)
    BY <1>1, <1>2, <2>1 DEF Distinct
  <2>2. CASE i = Len(r) + 1
    BY <1>1, <1>3, <2>2 DEF t
  <2>. QED
    BY <1>1, <2>1, <2>2
<1>6. Distinct(q \ {e}, t, s)
  BY <1>4, <1>5 DEF Distinct
<1>. QED
  BY <1>6 DEF t

\* Queueing a frame that is nowhere yet.
LEMMA AddDistinct ==
  ASSUME NEW q, NEW r, NEW s, Distinct(q, r, s), NEW e,
         e \notin Elements(r), e \notin Elements(s)
  PROVE  Distinct(q \cup {e}, r, s)
BY DEF Distinct, Elements

\* Handing out the front of ready.
LEMMA HandOutDistinct ==
  ASSUME NEW q, NEW r \in Seq(Entry), NEW s \in Seq(Entry), r # <<>>, Distinct(q, r, s)
  PROVE  Distinct(q, Tail(r), Append(s, Head(r)))
<1>1. /\ DOMAIN s = 1 .. Len(s) /\ Len(s) \in Nat /\ DOMAIN r = 1 .. Len(r) /\ Len(r) \in Nat \ {0}
      /\ DOMAIN Append(s, Head(r)) = 1 .. Len(s) + 1
      /\ \A i \in 1 .. Len(s) : Append(s, Head(r))[i] = s[i]
      /\ Append(s, Head(r))[Len(s) + 1] = r[1]
      /\ DOMAIN Tail(r) = 1 .. Len(r) - 1
      /\ \A i \in 1 .. Len(r) - 1 : Tail(r)[i] = r[i + 1]
      /\ Head(r) = r[1] /\ Head(r) \in Entry
  OBVIOUS
<1>2. 1 \in DOMAIN r
  BY <1>1
<1>3. r[1] \notin q /\ r[1] \notin Elements(s)
  BY <1>2 DEF Distinct
<1>4. \A i \in 1 .. Len(r) - 1 : Tail(r)[i] # r[1] /\ Tail(r)[i] \notin q /\ Tail(r)[i] \notin Elements(s)
  <2>. SUFFICES ASSUME NEW i \in 1 .. Len(r) - 1
       PROVE  Tail(r)[i] # r[1] /\ Tail(r)[i] \notin q /\ Tail(r)[i] \notin Elements(s)
    OBVIOUS
  <2>1. i + 1 \in DOMAIN r /\ i + 1 # 1 /\ Tail(r)[i] = r[i + 1]
    BY <1>1
  <2>. QED
    BY <1>2, <2>1 DEF Distinct
<1>. DEFINE t == Tail(r)
            u == Append(s, Head(r))
<1>5. Elements(u) = Elements(s) \cup {r[1]}
  BY <1>1, AppendElements
<1>6. \A i, j \in DOMAIN t : t[i] = t[j] => i = j
  <2>. SUFFICES ASSUME NEW i \in 1 .. Len(r) - 1, NEW j \in 1 .. Len(r) - 1, t[i] = t[j]
       PROVE  i = j
    BY <1>1
  <2>1. i + 1 \in DOMAIN r /\ j + 1 \in DOMAIN r /\ r[i + 1] = r[j + 1]
    BY <1>1
  <2>2. i + 1 = j + 1
    BY <2>1 DEF Distinct
  <2>. QED
    BY <2>2
<1>7. \A i, j \in DOMAIN u : u[i] = u[j] => i = j
  <2>. SUFFICES ASSUME NEW i \in 1 .. Len(s) + 1, NEW j \in 1 .. Len(s) + 1, u[i] = u[j]
       PROVE  i = j
    BY <1>1
  <2>1. \A k \in 1 .. Len(s) : s[k] # r[1]
    BY <1>1, <1>3 DEF Elements
  <2>2. CASE i \in 1 .. Len(s) /\ j \in 1 .. Len(s)
    <3>1. s[i] = s[j]
      BY <1>1, <2>2
    <3>. QED
      BY <1>1, <2>2, <3>1 DEF Distinct
  <2>3. CASE i = Len(s) + 1 \/ j = Len(s) + 1
    BY <1>1, <2>1, <2>3
  <2>. QED
    BY <1>1, <2>2, <2>3
<1>8. \A i \in DOMAIN u : u[i] \notin q
  <2>. SUFFICES ASSUME NEW i \in 1 .. Len(s) + 1
       PROVE  u[i] \notin q
    BY <1>1
  <2>1. CASE i \in 1 .. Len(s)
    BY <1>1, <2>1 DEF Distinct
  <2>2. CASE i = Len(s) + 1
    BY <1>1, <1>3, <2>2
  <2>. QED
    BY <1>1, <2>1, <2>2
<1>9. \A i \in DOMAIN t : t[i] \notin q /\ t[i] \notin Elements(u)
  BY <1>1, <1>4, <1>5
<1>. HIDE DEF t, u
<1>10. Distinct(q, t, u)
  BY <1>6, <1>7, <1>8, <1>9 DEF Distinct
<1>. QED
  BY <1>10 DEF t, u

\* A picture, or a pair of fields, becomes a frame.
LEMMA MoveOnce ==
  ASSUME NEW P, NEW W, NEW k, Once(P, W, k), NEW Q \in SUBSET W, NEW e,
         \A i : Holds(e, i) <=> \E p \in Q : p.n = i
  PROVE  Once(P \cup {e}, W \ Q, k)
<1>. SUFFICES ASSUME NEW i \in 0 .. k - 1
     PROVE  \/ (\E f \in P \cup {e} : Holders(P \cup {e}, i) = {f}) /\ Waiters(W \ Q, i) = {}
            \/ /\ Holders(P \cup {e}, i) = {}
               /\ \E p \in W \ Q : Waiters(W \ Q, i) = {p}
  BY DEF Once
<1>1. \/ (\E f \in P : Holders(P, i) = {f}) /\ Waiters(W, i) = {}
      \/ Holders(P, i) = {} /\ \E p \in W : Waiters(W, i) = {p}
  BY DEF Once
<1>2. CASE \E p \in Q : p.n = i
  <2>1. Holds(e, i) /\ Waiters(W, i) # {}
    BY <1>2 DEF Waiters
  <2>2. PICK p \in W : Waiters(W, i) = {p} /\ Holders(P, i) = {}
    BY <1>1, <2>1
  <2>3. Waiters(W \ Q, i) = {}
    BY <1>2, <2>2 DEF Waiters
  <2>4. Holders(P \cup {e}, i) = {e}
    BY <2>1, <2>2 DEF Holders
  <2>. QED
    BY <2>3, <2>4
<1>3. CASE ~ \E p \in Q : p.n = i
  <2>1. ~ Holds(e, i)
    BY <1>3
  <2>2. Holders(P \cup {e}, i) = Holders(P, i) /\ Waiters(W \ Q, i) = Waiters(W, i)
    BY <1>3, <2>1 DEF Holders, Waiters
  <2>3. \A p : Waiters(W, i) = {p} => p \in W \ Q
    BY <1>3 DEF Waiters
  <2>. QED
    BY <1>1, <2>2, <2>3
<1>. QED
  BY <1>2, <1>3

\* The next picture of the stream.
LEMMA ComeOnce ==
  ASSUME NEW P, NEW W, NEW k \in Nat, Once(P, W, k), Below(P, W, k), NEW p, p.n = k
  PROVE  Once(P, W \cup {p}, k + 1)
<1>0. 0 .. (k + 1) - 1 = 0 .. k
  OBVIOUS
<1>. SUFFICES ASSUME NEW i \in 0 .. k
     PROVE  \/ (\E f \in P : Holders(P, i) = {f}) /\ Waiters(W \cup {p}, i) = {}
            \/ /\ Holders(P, i) = {}
               /\ \E g \in W \cup {p} : Waiters(W \cup {p}, i) = {g}
  BY <1>0 DEF Once
<1>1. CASE i = k
  <2>1. Waiters(W \cup {p}, i) = {p}
    BY <1>1 DEF Waiters, Below
  <2>2. Holders(P, i) = {}
    BY <1>1 DEF Holders, Holds, Below
  <2>. QED
    BY <2>1, <2>2
<1>2. CASE i # k
  <2>1. i \in 0 .. k - 1
    BY <1>2
  <2>2. Waiters(W \cup {p}, i) = Waiters(W, i)
    BY <1>2 DEF Waiters
  <2>. QED
    BY <2>1, <2>2 DEF Once
<1>. QED
  BY <1>1, <1>2

\* A queued frame made of one picture holds that one.
LEMMA HoldsAlone ==
  ASSUME NEW p, NEW i
  PROVE  Alone(p).n = pushed /\ (Holds(Alone(p), i) <=> p.n = i)
<1>1. Alone(p).sources = {[n |-> p.n, frame |-> p.frame]} /\ Alone(p).n = pushed
  BY DEF Alone
<1>. QED
  BY <1>1 DEF Holds

\* One made of a pair of fields holds both.
LEMMA HoldsPair ==
  ASSUME NEW p, NEW q, NEW i
  PROVE  Pair(p, q).n = pushed /\ (Holds(Pair(p, q), i) <=> p.n = i \/ q.n = i)
<1>1. /\ Pair(p, q).sources = {[n |-> q.n, frame |-> q.frame]} \cup {[n |-> p.n, frame |-> p.frame]}
      /\ Pair(p, q).n = pushed
  BY DEF Alone, Pair
<1>. QED
  BY <1>1 DEF Holds

\* Every queued, bumped or shown frame is an entry.
LEMMA PushedEntries ==
  ASSUME Typed
  PROVE  Pushed \subseteq Entry
BY DEF Typed, Pushed, Emitted

\* A bump only moves a frame.
LEMMA BumpOnce ==
  ASSUME Typed, Distinct(queue, ready, shown), queue # {}, Bump, shown' = shown
  PROVE  Pushed' = Pushed /\ Distinct(queue', ready', shown')
<1>1. /\ Lowest(queue) \in queue /\ Lowest(queue) \in Entry
      /\ ready \in Seq(Entry)
      /\ queue' = queue \ {Lowest(queue)} /\ ready' = Append(ready, Lowest(queue))
  BY BumpTypes DEF Typed, Bump
<1>2. Distinct(queue', ready', shown')
  BY <1>1, BumpDistinct
<1>3. Elements(ready') = Elements(ready) \cup {Lowest(queue)}
  BY <1>1, AppendElements
<1>4. /\ Pushed = queue \cup (Elements(ready) \cup Elements(shown))
      /\ Pushed' = queue' \cup (Elements(ready') \cup Elements(shown'))
  BY DEF Pushed, Emitted, Elements
<1>. QED
  BY <1>1, <1>2, <1>3, <1>4

\* A push adds its frame, and bumps at most one.
LEMMA PushOnce ==
  ASSUME Typed, Distinct(queue, ready, shown), Numbered(Pushed, pushed),
         NEW e \in Entry, e.n = pushed, NEW c \in Nat \ {0}, Push(e, c), shown' = shown
  PROVE  /\ Pushed' = Pushed \cup {e} /\ Distinct(queue', ready', shown')
         /\ Numbered(Pushed', pushed')
<1>0. pushed \in Nat /\ pushed' = pushed + 1 /\ IsFiniteSet(queue) /\ Cardinality(queue) \in Nat
  BY FS_CardinalityType DEF Typed, Push
<1>1. e \notin Pushed
  BY <1>0 DEF Numbered
<1>2. /\ Pushed = queue \cup (Elements(ready) \cup Elements(shown))
      /\ Pushed' = queue' \cup (Elements(ready') \cup Elements(shown'))
  BY DEF Pushed, Emitted, Elements
<1>3. Pushed' = Pushed \cup {e} /\ Distinct(queue', ready', shown')
  <2>1. CASE Full(queue, c)
    <3>1. queue # {}
      BY <1>0, <2>1, FS_EmptySet DEF Full
    <3>. DEFINE l == Lowest(queue)
    <3>2. l \in queue /\ l \in Entry /\ ready \in Seq(Entry)
      BY <3>1, LowestIn DEF Typed
    <3>3. queue' = (queue \ {l}) \cup {e} /\ ready' = Append(ready, l)
      BY <2>1 DEF Push
    <3>. HIDE DEF l
    <3>4. Elements(ready') = Elements(ready) \cup {l}
      BY <3>2, <3>3, AppendElements
    <3>5. Distinct(queue \ {l}, ready', shown)
      BY <3>2, <3>3, BumpDistinct
    <3>6. e \notin Elements(ready') /\ e \notin Elements(shown)
      BY <1>1, <1>2, <3>2, <3>4
    <3>7. Distinct(queue', ready', shown')
      BY <3>3, <3>5, <3>6, AddDistinct
    <3>. QED
      BY <1>2, <3>2, <3>3, <3>4, <3>7
  <2>2. CASE ~ Full(queue, c)
    <3>1. queue' = queue \cup {e} /\ ready' = ready
      BY <2>2 DEF Push
    <3>2. e \notin Elements(ready) /\ e \notin Elements(shown)
      BY <1>1, <1>2
    <3>3. Distinct(queue', ready', shown')
      BY <3>1, <3>2, AddDistinct
    <3>. QED
      BY <1>2, <3>1, <3>3
  <2>. QED
    BY <2>1, <2>2
<1>4. Numbered(Pushed', pushed')
  <2>1. \A g \in Pushed \cup {e} : g.n \in 0 .. pushed
    BY <1>0 DEF Numbered
  <2>. QED
    BY <1>0, <1>3, <2>1 DEF Numbered
<1>. QED
  BY <1>3, <1>4

\* A push of the pictures Q that waited.
LEMMA PushMoves ==
  ASSUME Typed, Distinct(queue, ready, shown), Numbered(Pushed, pushed),
         NEW W, NEW k \in Nat, Below(Pushed, W, k), Once(Pushed, W, k),
         NEW Q \in SUBSET W, NEW e \in Entry, e.n = pushed,
         \A i : Holds(e, i) <=> \E p \in Q : p.n = i,
         NEW c \in Nat \ {0}, Push(e, c), shown' = shown
  PROVE  /\ Distinct(queue', ready', shown') /\ Numbered(Pushed', pushed')
         /\ Below(Pushed', W \ Q, k) /\ Once(Pushed', W \ Q, k)
<1>1. /\ Pushed' = Pushed \cup {e} /\ Distinct(queue', ready', shown')
      /\ Numbered(Pushed', pushed')
  BY PushOnce
<1>2. Once(Pushed \cup {e}, W \ Q, k)
  BY MoveOnce
<1>3. Below(Pushed \cup {e}, W \ Q, k)
  <2>1. \A s \in e.sources : s.n \in 0 .. k - 1
    <3>. SUFFICES ASSUME NEW s \in e.sources PROVE s.n \in 0 .. k - 1
      OBVIOUS
    <3>1. Holds(e, s.n)
      BY DEF Holds
    <3>2. PICK p \in Q : p.n = s.n
      BY <3>1
    <3>. QED
      BY <3>2 DEF Below
  <2>. QED
    BY <2>1 DEF Below
<1>. QED
  BY <1>1, <1>2, <1>3

-----------------------------------------------------------------------------
(* Every step keeps each picture in one place. *)

\* The pictures that wait are the pending field and the one being placed.
LEMMA WaitingIs ==
  Waiting = ({pending} \cup {pic}) \ {None}
BY DEF Waiting

\* The flush of the pending field, before a drain or at the end of the stream.
LEMMA FlushPendingFieldOnce ==
  ASSUME Typed, Bounded, OnceInv, pic = None, FlushPendingField, shown' = shown
  PROVE  /\ pending' = None
         /\ Distinct(queue', ready', shown') /\ Numbered(Pushed', pushed')
         /\ Below(Pushed', {}, pics) /\ Once(Pushed', {}, pics)
<1>1. /\ Typed /\ Distinct(queue, ready, shown) /\ Numbered(Pushed, pushed)
      /\ pics \in Nat /\ Below(Pushed, Waiting, pics) /\ Once(Pushed, Waiting, pics)
      /\ cap \in Nat \ {0} /\ Cardinality(queue) <= cap
  BY DEF Typed, Bounded, OnceInv
<1>2. CASE pending = None
  <2>1. Waiting = {} /\ pending' = None /\ UNCHANGED <<queue, ready, pushed>>
    BY <1>2 DEF FlushPendingField, NoPush, Waiting
  <2>2. Pushed' = Pushed
    BY <2>1 DEF Pushed, Emitted
  <2>. QED
    BY <1>1, <2>1, <2>2
<1>3. CASE pending # None
  <2>1. Waiting = {pending} /\ pending' = None /\ Push(Alone(pending), cap)
    BY <1>3 DEF FlushPendingField, Waiting
  <2>2. Alone(pending) \in Entry /\ Alone(pending).n = pushed
    BY AloneType, HoldsAlone DEF Typed
  <2>3. \A i : Holds(Alone(pending), i) <=> \E p \in {pending} : p.n = i
    BY HoldsAlone
  <2>. DEFINE W == {pending}
              e == Alone(pending)
  <2>. HIDE DEF W, e
  <2>4. /\ W \in SUBSET W /\ e \in Entry /\ e.n = pushed /\ Push(e, cap)
        /\ \A i : Holds(e, i) <=> \E p \in W : p.n = i
        /\ Waiting = W
    BY <2>1, <2>2, <2>3 DEF W, e
  <2>5. /\ Distinct(queue', ready', shown') /\ Numbered(Pushed', pushed')
        /\ Below(Pushed', W \ W, pics) /\ Once(Pushed', W \ W, pics)
    BY <1>1, <2>4, PushMoves
  <2>6. W \ W = {}
    OBVIOUS
  <2>. QED
    BY <2>1, <2>5, <2>6
<1>. QED
  BY <1>2, <1>3

\* A picture reaching the output half waits to be placed.
LEMMA BeginOutputOnce ==
  ASSUME Inv, OnceInv, NEW p \in Headers, BeginOutput(p)
  PROVE  OnceInv'
<1>1. /\ Typed /\ Bounded /\ phase = "idle" /\ pic = None /\ pics \in Nat /\ pushed \in Nat
  BY DEF Inv, Typed, OnceInv, InProgress, BeginOutput
<1>2. /\ pic' = p /\ pics' = pics + 1 /\ shown' = shown
      /\ first' = IF p.structure # "frame" /\ ~ IsSecondField(p) THEN p ELSE None
  BY DEF BeginOutput
<1>3. p.n = pics /\ p.frame \in Nat
  <2>1. p.n = pics /\ p.frame = IF IsSecondField(p) THEN first.frame ELSE pics
    BY DEF Headers
  <2>2. IsSecondField(p) => first.frame \in Nat
    BY DEF OnceInv, InProgress, IsSecondField
  <2>. QED
    BY <1>1, <2>1, <2>2
<1>4. p # None
  BY <1>3 DEF None
<1>5. first' # None => first'.frame \in Nat
  BY <1>2, <1>3
<1>6. CASE DrainsPrior(p)
  <2>1. FlushPendingField /\ phase' = "drain"
    BY <1>6 DEF BeginOutput
  <2>2. /\ pending' = None
        /\ Distinct(queue', ready', shown') /\ Numbered(Pushed', pushed')
        /\ Below(Pushed', {}, pics) /\ Once(Pushed', {}, pics)
    BY <1>1, <1>2, <2>1, FlushPendingFieldOnce
  <2>3. Once(Pushed', {} \cup {p}, pics + 1)
    BY <1>1, <1>3, <2>2, ComeOnce
  <2>4. Waiting' = {} \cup {p}
    BY <1>2, <1>4, <2>2 DEF Waiting
  <2>5. Below(Pushed', {} \cup {p}, pics + 1)
    BY <1>1, <1>3, <2>2 DEF Below
  <2>6. InProgress'
    BY <1>2, <1>4, <1>5, <2>1, <2>2 DEF InProgress
  <2>. QED
    BY <1>2, <2>2, <2>3, <2>4, <2>5, <2>6 DEF OnceInv
<1>7. CASE ~ DrainsPrior(p)
  <2>1. phase' = "place" /\ UNCHANGED <<queue, ready, pushed, pending>>
    BY <1>7 DEF BeginOutput, NoPush
  <2>2. Pushed' = Pushed /\ Distinct(queue', ready', shown') /\ Numbered(Pushed', pushed')
    BY <1>2, <2>1 DEF Pushed, Emitted, OnceInv
  <2>3. Waiting' = Waiting \cup {p}
    BY <1>1, <1>2, <1>4, <2>1 DEF Waiting
  <2>4. Once(Pushed, Waiting \cup {p}, pics + 1)
    BY <1>1, <1>3, ComeOnce DEF OnceInv
  <2>5. Below(Pushed, Waiting \cup {p}, pics + 1)
    BY <1>1, <1>3 DEF Below, OnceInv
  <2>6. pending # None => pending # p
    <3>1. pending # None => pending.n \in 0 .. pics - 1
      BY DEF OnceInv, Below, Waiting
    <3>. QED
      BY <1>1, <1>3, <3>1
  <2>7. InProgress'
    BY <1>2, <1>4, <1>5, <2>1, <2>6 DEF InProgress
  <2>. QED
    BY <1>2, <2>2, <2>3, <2>4, <2>5, <2>7 DEF OnceInv
<1>. QED
  BY <1>6, <1>7

\* A bump while finalizing or fetching.
LEMMA BumpingOnce ==
  ASSUME Inv, OnceInv, queue # {}, Bump,
         UNCHANGED <<pending, phase, pic, pics, pushed, first, shown>>
  PROVE  OnceInv'
<1>1. Pushed' = Pushed /\ Distinct(queue', ready', shown')
  BY BumpOnce DEF Inv, OnceInv
<1>2. Waiting' = Waiting
  BY DEF Waiting
<1>. QED
  BY <1>1, <1>2 DEF OnceInv, InProgress

\* Steps that move no frame.
LEMMA StillOnce ==
  ASSUME OnceInv, UNCHANGED <<queue, ready, pending, pic, pics, pushed, shown>>,
         first' \in {first, None}, phase' \in {"idle", "fetch"} <=> phase \in {"idle", "fetch"},
         phase' \in {"drain", "place"} <=> phase \in {"drain", "place"}
  PROVE  OnceInv'
<1>1. Pushed' = Pushed /\ Waiting' = Waiting /\ Distinct(queue', ready', shown')
  BY DEF Pushed, Emitted, Waiting, OnceInv
<1>. QED
  BY <1>1 DEF OnceInv, InProgress

\* Placing a picture, the end of its finalization.
LEMMA PlaceOnce ==
  ASSUME Inv, OnceInv, Place
  PROVE  OnceInv'
<1>1. /\ Typed /\ phase = "place" /\ pic \in Pic /\ pending \in Pic /\ pushed \in Nat
      /\ pic.cap \in Nat \ {0} /\ pics \in Nat
      /\ pic # None /\ (pending # None => pending # pic)
      /\ Distinct(queue, ready, shown) /\ Numbered(Pushed, pushed)
      /\ Below(Pushed, Waiting, pics) /\ Once(Pushed, Waiting, pics)
  BY DEF Inv, Typed, Place, OnceInv, InProgress, Pic
<1>2. phase' = "idle" /\ pic' = None /\ UNCHANGED <<pics, first, shown>>
  BY DEF Place
<1>3. InProgress'
  BY <1>2 DEF InProgress, OnceInv
<1>4. Alone(pic) \in Entry /\ Alone(pending) \in Entry /\ Pair(pending, pic) \in Entry
  BY <1>1, AloneType, PairType
<1>5. ASSUME NEW Q \in SUBSET Waiting, NEW e \in Entry, e.n = pushed,
             \A i : Holds(e, i) <=> \E p \in Q : p.n = i,
             Push(e, pic.cap), Waiting' = Waiting \ Q
      PROVE  OnceInv'
  <2>1. /\ Distinct(queue', ready', shown') /\ Numbered(Pushed', pushed')
        /\ Below(Pushed', Waiting \ Q, pics) /\ Once(Pushed', Waiting \ Q, pics)
    BY <1>1, <1>2, <1>5, PushMoves
  <2>. QED
    BY <1>2, <1>3, <1>5, <2>1 DEF OnceInv
<1>6. CASE pic.structure = "frame"
  <2>1. Push(Alone(pic), pic.cap) /\ pending' = pending
    BY <1>6 DEF Place
  <2>2. {pic} \in SUBSET Waiting /\ Waiting' = Waiting \ {pic}
    BY <1>1, <1>2, <2>1 DEF Waiting
  <2>3. Alone(pic).n = pushed /\ \A i : Holds(Alone(pic), i) <=> \E p \in {pic} : p.n = i
    BY HoldsAlone
  <2>. QED
    BY <1>4, <1>5, <2>1, <2>2, <2>3
<1>7. CASE pic.structure # "frame" /\ pending # None /\ Complementary(pending, pic)
  <2>1. Push(Pair(pending, pic), pic.cap) /\ pending' = None
    BY <1>7 DEF Place, PlaceField
  <2>2. {pending, pic} \in SUBSET Waiting /\ Waiting' = Waiting \ {pending, pic}
    BY <1>1, <1>2, <1>7, <2>1 DEF Waiting
  <2>3. /\ Pair(pending, pic).n = pushed
        /\ \A i : Holds(Pair(pending, pic), i) <=> \E p \in {pending, pic} : p.n = i
    BY HoldsPair
  <2>. QED
    BY <1>4, <1>5, <2>1, <2>2, <2>3
<1>8. CASE pic.structure # "frame" /\ pending # None /\ ~ Complementary(pending, pic)
  <2>1. Push(Alone(pending), pic.cap) /\ pending' = pic
    BY <1>8 DEF Place, PlaceField
  <2>2. {pending} \in SUBSET Waiting /\ Waiting' = Waiting \ {pending}
    BY <1>1, <1>2, <1>8, <2>1 DEF Waiting
  <2>3. /\ Alone(pending).n = pushed
        /\ \A i : Holds(Alone(pending), i) <=> \E p \in {pending} : p.n = i
    BY HoldsAlone
  <2>. QED
    BY <1>4, <1>5, <2>1, <2>2, <2>3
<1>9. CASE pic.structure # "frame" /\ pending = None
  <2>1. UNCHANGED <<queue, ready, pushed>> /\ pending' = pic
    BY <1>9 DEF Place, PlaceField, NoPush
  <2>2. Waiting' = Waiting /\ Pushed' = Pushed
    BY <1>1, <1>2, <1>9, <2>1 DEF Waiting, Pushed, Emitted
  <2>. QED
    BY <1>1, <1>2, <1>3, <2>1, <2>2 DEF OnceInv
<1>. QED
  BY <1>6, <1>7, <1>8, <1>9

\* Handing out the front of ready.
LEMMA HandingOutOnce ==
  ASSUME Inv, OnceInv, ready # <<>>, ready' = Tail(ready), shown' = Append(shown, Head(ready)),
         UNCHANGED <<queue, pending, pic, pics, pushed, first>>,
         phase \in {"idle", "fetch"}, phase' \in {"idle", "fetch"}
  PROVE  OnceInv'
<1>1. ready \in Seq(Entry) /\ shown \in Seq(Entry)
  BY DEF Inv, Typed
<1>2. Head(ready) \in Entry
  BY <1>1
<1>3. Distinct(queue', ready', shown')
  BY <1>1, HandOutDistinct DEF OnceInv
<1>4. Elements(ready) = Elements(ready') \cup {Head(ready)}
  BY <1>1, TailElements
<1>5. Elements(shown') = Elements(shown) \cup {Head(ready)}
  BY <1>1, <1>2, AppendElements
<1>6. /\ Pushed = queue \cup (Elements(ready) \cup Elements(shown))
      /\ Pushed' = queue' \cup (Elements(ready') \cup Elements(shown'))
  BY DEF Pushed, Emitted, Elements
<1>7. Pushed' = Pushed /\ Waiting' = Waiting
  BY <1>4, <1>5, <1>6 DEF Waiting
<1>. QED
  BY <1>3, <1>7 DEF OnceInv, InProgress

\* flush and reset.
LEMMA FlushOnce ==
  ASSUME Inv, OnceInv, Flush
  PROVE  OnceInv'
<1>1. /\ Typed /\ Bounded /\ phase = "idle" /\ pic = None
      /\ UNCHANGED <<phase, pic, pics, shown>> /\ first' = None /\ FlushPendingField
  BY DEF Inv, OnceInv, InProgress, Flush
<1>2. /\ pending' = None
      /\ Distinct(queue', ready', shown') /\ Numbered(Pushed', pushed')
      /\ Below(Pushed', {}, pics) /\ Once(Pushed', {}, pics)
  BY <1>1, FlushPendingFieldOnce
<1>3. Waiting' = {}
  BY <1>1, <1>2 DEF Waiting
<1>4. InProgress'
  BY <1>1 DEF InProgress
<1>. QED
  BY <1>1, <1>2, <1>3, <1>4 DEF OnceInv

\* Nothing decoded yet, everything in its place.
LEMMA NothingOnce ==
  ASSUME queue = {}, ready = <<>>, shown = <<>>, pending = None, pic = None, pics = 0,
         first = None, phase = "idle"
  PROVE  OnceInv
<1>1. Pushed = {} /\ Waiting = {}
  BY DEF Pushed, Emitted, Waiting
<1>. QED
  BY <1>1 DEF OnceInv, Distinct, Elements, Numbered, Below, Once, InProgress

\* The same of the state reset leaves.
LEMMA ResetOnce ==
  ASSUME OnceInv, Reset
  PROVE  OnceInv'
<1>1. /\ queue' = {} /\ ready' = <<>> /\ shown' = <<>> /\ pending' = None /\ pics' = 0
      /\ first' = None /\ phase' = "idle" /\ pic' = None
  BY DEF Reset, OnceInv, InProgress
<1>2. Pushed' = {} /\ Waiting' = {}
  BY <1>1 DEF Pushed, Emitted, Waiting
<1>. QED
  BY <1>1, <1>2 DEF OnceInv, Distinct, Elements, Numbered, Below, Once, InProgress

\* The invariant that keeps each picture in one place.
LEMMA OnceInvariance == Spec => []OnceInv
<1>1. Init => OnceInv
  BY NothingOnce DEF Init
<1>2. ASSUME Inv, OnceInv, [Next]_vars
      PROVE  OnceInv'
  <2>1. CASE \E p \in Headers : StreamMayCode(p) /\ BeginOutput(p)
    BY <1>2, <2>1, BeginOutputOnce
  <2>2. CASE Drain
    BY <1>2, <2>2, BumpingOnce DEF Drain
  <2>3. CASE Drained
    BY <1>2, <2>3, StillOnce DEF Drained
  <2>4. CASE Shrink
    <3>1. queue # {}
      <4>1. Cardinality(queue) > pic.cap /\ pic.cap \in Nat
        BY <1>2, <2>4 DEF Shrink, Overfull, Inv, Typed, Pic
      <4>. QED
        BY <4>1, FS_EmptySet
    <3>. QED
      BY <1>2, <2>4, <3>1, BumpingOnce DEF Shrink
  <2>5. CASE Place
    BY <1>2, <2>5, PlaceOnce
  <2>6. CASE ReceiveFrame
    <3>1. Cardinality(queue) \in Nat /\ cap \in Nat /\ Cardinality(queue) <= cap
      BY <1>2, FS_CardinalityType DEF Inv, Typed, Bounded
    <3>2. ready # <<>> /\ phase = "idle"
      BY <2>6, <3>1 DEF ReceiveFrame, Overfull
    <3>. QED
      BY <1>2, <2>6, <3>2, HandingOutOnce DEF ReceiveFrame
  <2>7. CASE ReceiveAtEof
    BY <1>2, <2>7, StillOnce DEF ReceiveAtEof
  <2>8. CASE FetchStep
    <3>1. CASE queue # {}
      BY <1>2, <2>8, <3>1, BumpingOnce DEF FetchStep
    <3>2. CASE queue = {}
      <4>1. ready # <<>> /\ phase = "fetch"
        BY <1>2, <2>8, <3>2 DEF Inv, FetchHasFrame, FetchStep
      <4>. QED
        BY <1>2, <2>8, <3>2, <4>1, HandingOutOnce DEF FetchStep
    <3>. QED
      BY <3>1, <3>2
  <2>9. CASE Flush
    BY <1>2, <2>9, FlushOnce
  <2>10. CASE Reset
    BY <1>2, <2>10, ResetOnce
  <2>11. CASE UNCHANGED vars
    BY <1>2, <2>11, StillOnce DEF vars
  <2>. QED
    BY <1>2, <2>1, <2>2, <2>3, <2>4, <2>5, <2>6, <2>7, <2>8, <2>9, <2>10, <2>11 DEF Next
<1>. QED
  BY <1>1, <1>2, Invariance, PTL DEF Spec

\* The size of a union of disjoint finite sets.
LEMMA DisjointCard ==
  ASSUME NEW S, NEW T, IsFiniteSet(S), IsFiniteSet(T), S \cap T = {}
  PROVE  IsFiniteSet(S \cup T) /\ Cardinality(S \cup T) = Cardinality(S) + Cardinality(T)
<1>1. /\ IsFiniteSet(S \cup T)
      /\ Cardinality(S \cup T) = Cardinality(S) + Cardinality(T) - Cardinality(S \cap T)
  BY FS_Union
<1>2. Cardinality(S \cap T) = 0 /\ Cardinality(S) \in Nat /\ Cardinality(T) \in Nat
  BY FS_EmptySet, FS_CardinalityType
<1>. QED
  BY <1>1, <1>2

\* Every picture finalized since the last reset is in exactly one place, and
\* no frame is handed out twice.
THEOREM EachFrameOnceCorrect == Spec => []EachFrameOnce
<1>1. ASSUME Inv, OnceInv PROVE EachFrameOnce
  <2>1. ASSUME NEW i \in 0 .. pics - 1
        PROVE  Cardinality(Holders(Pushed, i)) + Cardinality(Waiters(Waiting, i)) = 1
    <3>1. \/ (\E e \in Pushed : Holders(Pushed, i) = {e}) /\ Waiters(Waiting, i) = {}
          \/ Holders(Pushed, i) = {} /\ \E p \in Waiting : Waiters(Waiting, i) = {p}
      BY <1>1 DEF OnceInv, Once
    <3>. DEFINE H == Holders(Pushed, i)
                W == Waiters(Waiting, i)
    <3>. HIDE DEF H, W
    <3>2. (\E e : H = {e} /\ W = {}) \/ (\E p : H = {} /\ W = {p})
      BY <3>1 DEF H, W
    <3>3. Cardinality({}) = 0 /\ \A x : Cardinality({x}) = 1
      BY FS_EmptySet, FS_Singleton
    <3>4. \/ Cardinality(H) = 1 /\ Cardinality(W) = 0
          \/ Cardinality(H) = 0 /\ Cardinality(W) = 1
      BY <3>2, <3>3, Zenon
    <3>5. Cardinality(H) + Cardinality(W) = 1
      BY <3>4
    <3>. QED
      BY <3>5 DEF H, W
  <2>2. Cardinality(Pushed) = Cardinality(queue) + Len(ready) + Len(shown)
    <3>1. /\ ready \in Seq(Entry) /\ shown \in Seq(Entry) /\ IsFiniteSet(queue)
          /\ Len(ready) \in Nat /\ Len(shown) \in Nat /\ Distinct(queue, ready, shown)
      BY <1>1 DEF Inv, Typed, OnceInv
    <3>2. /\ IsFiniteSet(Elements(ready)) /\ Cardinality(Elements(ready)) = Len(ready)
          /\ IsFiniteSet(Elements(shown)) /\ Cardinality(Elements(shown)) = Len(shown)
      BY <3>1, ElementsCard DEF Distinct
    <3>. DEFINE R == Elements(ready)
                S == Elements(shown)
    <3>3. R \cap S = {} /\ queue \cap (R \cup S) = {}
      BY <3>1 DEF Distinct, Elements
    <3>4. Pushed = queue \cup (R \cup S)
      BY DEF Pushed, Emitted, Elements
    <3>. HIDE DEF R, S
    <3>5. IsFiniteSet(R) /\ IsFiniteSet(S) /\ Cardinality(R) = Len(ready) /\ Cardinality(S) = Len(shown)
      BY <3>2 DEF R, S
    <3>6. IsFiniteSet(R \cup S) /\ Cardinality(R \cup S) = Len(ready) + Len(shown)
      <4>1. IsFiniteSet(R) /\ IsFiniteSet(S) /\ R \cap S = {}
        BY <3>3, <3>5
      <4>2. /\ IsFiniteSet(R \cup S)
            /\ Cardinality(R \cup S) = Cardinality(R) + Cardinality(S)
        BY <4>1, DisjointCard
      <4>. QED
        BY <3>5, <4>2
    <3>7. Cardinality(queue) \in Nat
      BY <3>1, FS_CardinalityType
    <3>8. Cardinality(queue \cup (R \cup S)) = Cardinality(queue) + (Len(ready) + Len(shown))
      BY <3>1, <3>3, <3>6, DisjointCard
    <3>. QED
      BY <3>1, <3>4, <3>8, <3>7
  <2>. QED
    BY <2>1, <2>2 DEF EachFrameOnce, Holders, Holds, Waiters
<1>. QED
  BY <1>1, Invariance, OnceInvariance, PTL
=============================================================================
