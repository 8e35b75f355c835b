------------------------------ MODULE DisplayProofs ------------------------------
(***************************************************************************)
(* The output side implements DisplayOrder, and its frames are made of the *)
(* fields coded for them, for every capacity, frame_num and POC alphabet   *)
(* and every stream that conforms.                                         *)
(*                                                                         *)
(* The argument: a conforming stream codes a picture only when less than a *)
(* queue-full of the POCs of its sequence follow it.  So when the queue is *)
(* full its lowest frame precedes the pushed one, and a queue-full follow  *)
(* the frame it gives up; nothing coded later can then come before that    *)
(* frame.  The stream is counted by the POCs it coded, the queue by its    *)
(* entries, which is why the invariant relates the two (Reordered), with   *)
(* the pending field and the picture being placed in between.              *)
(***************************************************************************)
EXTENDS OutputProofs

\* A stream that conforms, reorders by less than the capacity of the queue,
\* and codes no frame after an unpaired field but to begin a sequence.
OrderedStream == Conforming /\ Reorder <= 0 /\ ~ LoneFields

-----------------------------------------------------------------------------
(* Display order, for a stream that conforms. *)

\* The members of S past x.
After(S, x) == {q \in S : q > x}

\* The frames of s come before those of r, and these before those of q.
Ascending(s, r, q) ==
  /\ \A i, j \in DOMAIN s : i < j => Order!Earlier(s[i], s[j])
  /\ \A i, j \in DOMAIN r : i < j => Order!Earlier(r[i], r[j])
  /\ \A i \in DOMAIN s, j \in DOMAIN r : Order!Earlier(s[i], r[j])
  /\ \A i \in DOMAIN s, e \in q : Order!Earlier(s[i], e)
  /\ \A i \in DOMAIN r, e \in q : Order!Earlier(r[i], e)

\* The capacity that counts: the coming one while a picture is finalized.
Room == IF phase \in {"drain", "place"} THEN pic.cap ELSE cap

\* pic completes the frame of the pending field.
Completes ==
  phase = "place" /\ pic.structure # "frame" /\ pending # None /\ Complementary(pending, pic)

\* What a conforming stream brings, and how the pending field follows it.
Conforms ==
  /\ coded \subseteq Int /\ IsFiniteSet(coded)
  /\ \A x \in Waiting : OutputPoc(x) = x.poc
  /\ pending # None => pending.structure # "frame"
  /\ phase \in {"idle", "fetch"} => first = pending
  /\ phase = "fetch" => eof
  /\ eof => phase \in {"idle", "fetch"} /\ pending = None
  /\ phase = "drain" => coded = {pic.poc}
  /\ phase \in {"drain", "place"} =>
       /\ pic.structure = "frame" => pending = None /\ first = None
       /\ pic.structure # "frame" => first = IF Completes THEN None ELSE pic
  /\ phase = "place" => Cardinality(queue) <= pic.cap

\* The POCs of the current sequence.
Counts ==
  /\ \A e, g \in queue : e.poc = g.poc => e = g
  /\ phase # "drain" => \A e \in queue : e.poc \in coded
  /\ phase # "drain" => \A e \in queue, x \in Waiting : e.poc # x.poc
  /\ phase # "drain" =>
       \A g \in Emitted : g.cvs = cvs =>
         g.poc \in coded /\ \A x \in Waiting : g.poc < x.poc
  /\ pending # None /\ pic # None => pending.poc # pic.poc

\* Of the frames of the current sequence no more than a queue-full follow one
\* that is still to be pushed, and no less one that has been bumped.
Reordered ==
  /\ ~ eof /\ phase # "drain" =>
       \A g \in Emitted : g.cvs = cvs => Room <= Cardinality(After(coded, g.poc))
  /\ pending # None /\ pic = None =>
       pending.poc \in coded /\ Cardinality(After(coded, pending.poc)) < Room
  /\ phase = "place" /\ ~ Completes =>
       pic.poc \in coded /\ Cardinality(After(coded, pic.poc)) < Room
  /\ phase = "place" /\ pending # None /\ ~ Completes =>
       pending.poc \in coded /\ Cardinality(After(coded \ {pic.poc}, pending.poc)) < Room
  /\ Completes =>
       /\ Lesser(pending.poc, pic.poc) \in coded
       /\ Cardinality(After(coded, Lesser(pending.poc, pic.poc))) < Room

OrderInv == Conforms /\ Ascending(shown, ready, queue) /\ Counts /\ Reordered

-----------------------------------------------------------------------------
(* Counting the frames of a sequence. *)

PocsOf(q) == {e.poc : e \in q}

\* Entries with different POCs are as many as their POCs.
LEMMA PocsCard ==
  ASSUME NEW q, IsFiniteSet(q), \A e, g \in q : e.poc = g.poc => e = g
  PROVE  IsFiniteSet(PocsOf(q)) /\ Cardinality(PocsOf(q)) = Cardinality(q)
<1>. DEFINE f == [e \in q |-> e.poc]
<1>1. f \in [q -> PocsOf(q)]
  BY DEF PocsOf
<1>2. f \in Surjection(q, PocsOf(q))
  <2>1. \A y \in PocsOf(q) : \E e \in q : f[e] = y
    BY DEF PocsOf
  <2>. QED
    BY <1>1, <2>1 DEF Surjection
<1>3. f \in Injection(q, PocsOf(q))
  BY <1>1 DEF Injection, IsInjective
<1>4. f \in Bijection(q, PocsOf(q))
  BY <1>2, <1>3 DEF Bijection
<1>5. ExistsBijection(q, PocsOf(q))
  BY <1>4 DEF ExistsBijection
<1>. QED
  BY <1>5, FS_Bijection

\* What follows x is a finite set.
LEMMA AfterType ==
  ASSUME NEW S, IsFiniteSet(S), NEW x
  PROVE  IsFiniteSet(After(S, x)) /\ Cardinality(After(S, x)) \in Nat
<1>1. After(S, x) \subseteq S
  BY DEF After
<1>. QED
  BY <1>1, FS_Subset, FS_CardinalityType

\* Fewer things follow x, counted in a smaller set.
LEMMA AfterSubset ==
  ASSUME NEW S, NEW T, IsFiniteSet(T), NEW x, After(S, x) \subseteq After(T, x)
  PROVE  /\ Cardinality(After(S, x)) \in Nat /\ Cardinality(After(T, x)) \in Nat
         /\ Cardinality(After(S, x)) <= Cardinality(After(T, x))
<1>1. IsFiniteSet(After(T, x)) /\ Cardinality(After(T, x)) \in Nat
  BY AfterType
<1>2. IsFiniteSet(After(S, x)) /\ Cardinality(After(S, x)) <= Cardinality(After(T, x))
  BY <1>1, FS_Subset
<1>. QED
  BY <1>1, <1>2, FS_CardinalityType

\* In a queue of one sequence the lowest entry is the earliest.
LEMMA LowestEarliest ==
  ASSUME NEW q \in SUBSET Entry, IsFiniteSet(q), q # {}, NEW level,
         \A e \in q : e.cvs = level, \A e, g \in q : e.poc = g.poc => e = g
  PROVE  /\ Lowest(q) \in q
         /\ \A g \in q \ {Lowest(q)} :
              Lowest(q).poc < g.poc /\ Order!Earlier(Lowest(q), g)
<1>. DEFINE l == Lowest(q)
<1>1. l \in q /\ \A g \in q : Precedes(l, g)
  BY LowestIn
<1>. HIDE DEF l
<1>2. ASSUME NEW g \in q \ {l} PROVE l.poc < g.poc /\ Order!Earlier(l, g)
  <2>1. l.poc # g.poc /\ Precedes(l, g) /\ l.poc \in Int /\ g.poc \in Int
    BY <1>1 DEF Entry
  <2>2. l.poc < g.poc
    BY <2>1 DEF Precedes
  <2>3. l.cvs = g.cvs
    BY <1>1
  <2>. QED
    BY <2>2, <2>3 DEF Order!Earlier
<1>. QED
  BY <1>1, <1>2 DEF l

\* A frame that fewer than a queue-full follow comes after the lowest one.
LEMMA LowestBelow ==
  ASSUME NEW q \in SUBSET Entry, IsFiniteSet(q), q # {},
         \A e, g \in q : e.poc = g.poc => e = g,
         NEW S, IsFiniteSet(S), PocsOf(q) \subseteq S, NEW x \in Int, x \notin PocsOf(q),
         NEW c \in Nat, Cardinality(After(S, x)) < c, c <= Cardinality(q)
  PROVE  Lowest(q).poc < x
<1>. DEFINE l == Lowest(q)
<1>1. l \in q /\ \A g \in q : Precedes(l, g)
  BY LowestIn
<1>. HIDE DEF l
<1>2. l.poc \in Int /\ l.poc # x
  BY <1>1 DEF Entry, PocsOf
<1>3. ASSUME x < l.poc PROVE FALSE
  <2>1. \A g \in q : g.poc > x
    <3>. SUFFICES ASSUME NEW g \in q PROVE g.poc > x
      OBVIOUS
    <3>1. Precedes(l, g) /\ g.poc \in Int
      BY <1>1 DEF Entry
    <3>2. l.poc <= g.poc
      BY <1>2, <3>1 DEF Precedes
    <3>. QED
      BY <1>2, <1>3, <3>1, <3>2
  <2>2. PocsOf(q) \subseteq After(S, x)
    BY <2>1 DEF PocsOf, After
  <2>3. IsFiniteSet(After(S, x)) /\ Cardinality(After(S, x)) \in Nat
    BY AfterType
  <2>4. Cardinality(PocsOf(q)) <= Cardinality(After(S, x))
    BY <2>2, <2>3, FS_Subset
  <2>5. Cardinality(PocsOf(q)) = Cardinality(q) /\ Cardinality(q) \in Nat
    BY PocsCard, FS_CardinalityType
  <2>. QED
    BY <2>3, <2>4, <2>5
<1>. QED
  BY <1>2, <1>3 DEF l

\* When a full queue gives up its lowest frame for a later one, a queue-full of
\* frames follows the one given up.
LEMMA StillLater ==
  ASSUME NEW q \in SUBSET Entry, IsFiniteSet(q), q # {}, NEW level,
         \A e \in q : e.cvs = level, \A e, g \in q : e.poc = g.poc => e = g,
         NEW S, IsFiniteSet(S), PocsOf(q) \subseteq S, NEW x \in S, x \notin PocsOf(q),
         Lowest(q).poc < x, NEW c \in Nat, c <= Cardinality(q)
  PROVE  c <= Cardinality(After(S, Lowest(q).poc))
<1>. DEFINE l == Lowest(q)
<1>1. l \in q /\ \A g \in q \ {l} : l.poc < g.poc
  BY LowestEarliest
<1>2. l.poc < x
  OBVIOUS
<1>. HIDE DEF l
<1>. DEFINE r == q \ {l}
            R == PocsOf(r)
<1>3. IsFiniteSet(r) /\ Cardinality(r) = Cardinality(q) - 1
  BY <1>1, FS_RemoveElement
<1>4. \A e, g \in r : e.poc = g.poc => e = g
  OBVIOUS
<1>5. x \notin R /\ R \cup {x} \subseteq After(S, l.poc)
  BY <1>1, <1>2 DEF PocsOf, After
<1>. HIDE DEF r
<1>6. IsFiniteSet(R) /\ Cardinality(R) = Cardinality(r)
  BY <1>3, <1>4, PocsCard
<1>. HIDE DEF R
<1>7. Cardinality(R \cup {x}) = Cardinality(R) + 1
  BY <1>5, <1>6, FS_AddElement
<1>8. IsFiniteSet(After(S, l.poc)) /\ Cardinality(After(S, l.poc)) \in Nat
  BY AfterType
<1>9. Cardinality(R \cup {x}) <= Cardinality(After(S, l.poc))
  BY <1>5, <1>8, FS_Subset
<1>10. Cardinality(q) \in Nat
  BY FS_CardinalityType
<1>11. Cardinality(q) <= Cardinality(After(S, l.poc))
  BY <1>3, <1>6, <1>7, <1>8, <1>9, <1>10
<1>. QED
  BY <1>8, <1>10, <1>11 DEF l

\* Bumping the earliest entry of the queue keeps the frames ascending.
LEMMA BumpAscends ==
  ASSUME NEW s \in Seq(Entry), NEW r \in Seq(Entry), NEW q, Ascending(s, r, q),
         NEW l \in q, l \in Entry, \A g \in q \ {l} : Order!Earlier(l, g)
  PROVE  Ascending(s, Append(r, l), q \ {l})
<1>1. /\ DOMAIN Append(r, l) = 1 .. Len(r) + 1 /\ DOMAIN r = 1 .. Len(r) /\ Len(r) \in Nat
      /\ \A i \in 1 .. Len(r) : Append(r, l)[i] = r[i]
      /\ Append(r, l)[Len(r) + 1] = l
  OBVIOUS
<1>. DEFINE t == Append(r, l)
<1>. HIDE DEF t
<1>2. ASSUME NEW i \in DOMAIN t
      PROVE  /\ \A j \in DOMAIN s : Order!Earlier(s[j], t[i])
             /\ \A g \in q \ {l} : Order!Earlier(t[i], g)
             /\ \A j \in DOMAIN t : i < j => Order!Earlier(t[i], t[j])
  <2>1. CASE i = Len(r) + 1
    <3>1. t[i] = l /\ \A j \in DOMAIN t : ~ (i < j)
      BY <1>1, <2>1 DEF t
    <3>. QED
      BY <3>1 DEF Ascending
  <2>2. CASE i \in 1 .. Len(r)
    <3>1. t[i] = r[i] /\ i \in DOMAIN r
      BY <1>1, <2>2 DEF t
    <3>2. ASSUME NEW j \in DOMAIN t, i < j PROVE Order!Earlier(t[i], t[j])
      <4>1. t[j] = l \/ (j \in DOMAIN r /\ t[j] = r[j])
        BY <1>1 DEF t
      <4>. QED
        BY <3>1, <3>2, <4>1 DEF Ascending
    <3>. QED
      BY <3>1, <3>2 DEF Ascending
  <2>. QED
    BY <1>1, <2>1, <2>2 DEF t
<1>3. Ascending(s, t, q \ {l})
  BY <1>2 DEF Ascending
<1>. QED
  BY <1>3 DEF t

\* A queued frame that follows all that were bumped.
LEMMA AddAscends ==
  ASSUME NEW s, NEW r, NEW q, Ascending(s, r, q), NEW e,
         \A i \in DOMAIN s : Order!Earlier(s[i], e), \A i \in DOMAIN r : Order!Earlier(r[i], e)
  PROVE  Ascending(s, r, q \cup {e})
BY DEF Ascending

\* Handing out the front of ready keeps the frames ascending.
LEMMA HandOutAscends ==
  ASSUME NEW s \in Seq(Entry), NEW r \in Seq(Entry), r # <<>>, NEW q, Ascending(s, r, q)
  PROVE  Ascending(Append(s, Head(r)), Tail(r), q)
<1>1. /\ DOMAIN s = 1 .. Len(s) /\ Len(s) \in Nat /\ DOMAIN r = 1 .. Len(r) /\ Len(r) \in Nat \ {0}
      /\ DOMAIN Append(s, Head(r)) = 1 .. Len(s) + 1
      /\ \A i \in 1 .. Len(s) : Append(s, Head(r))[i] = s[i]
      /\ Append(s, Head(r))[Len(s) + 1] = r[1]
      /\ DOMAIN Tail(r) = 1 .. Len(r) - 1
      /\ \A i \in 1 .. Len(r) - 1 : Tail(r)[i] = r[i + 1]
  OBVIOUS
<1>2. 1 \in DOMAIN r /\ \A i \in 1 .. Len(r) - 1 : i + 1 \in DOMAIN r /\ 1 < i + 1
  BY <1>1
<1>. DEFINE u == Append(s, Head(r))
            t == Tail(r)
<1>3. ASSUME NEW i \in 1 .. Len(s) + 1
      PROVE  /\ \A j \in 1 .. Len(r) - 1 : Order!Earlier(u[i], r[j + 1])
             /\ \A g \in q : Order!Earlier(u[i], g)
             /\ \A j \in 1 .. Len(s) + 1 : i < j => Order!Earlier(u[i], u[j])
  <2>1. CASE i = Len(s) + 1
    <3>1. u[i] = r[1] /\ \A j \in 1 .. Len(s) + 1 : ~ (i < j)
      BY <1>1, <2>1
    <3>. QED
      BY <1>2, <3>1 DEF Ascending
  <2>2. CASE i \in 1 .. Len(s)
    <3>1. u[i] = s[i] /\ i \in DOMAIN s
      BY <1>1, <2>2
    <3>2. ASSUME NEW j \in 1 .. Len(s) + 1, i < j PROVE Order!Earlier(u[i], u[j])
      <4>1. u[j] = r[1] \/ (j \in DOMAIN s /\ u[j] = s[j])
        BY <1>1
      <4>. HIDE DEF u
      <4>. QED
        BY <1>2, <3>1, <3>2, <4>1 DEF Ascending
    <3>. HIDE DEF u
    <3>. QED
      BY <1>2, <3>1, <3>2 DEF Ascending
  <2>. QED
    BY <1>1, <2>1, <2>2
<1>4. DOMAIN u = 1 .. Len(s) + 1 /\ DOMAIN t = 1 .. Len(r) - 1 /\ \A j \in 1 .. Len(r) - 1 : t[j] = r[j + 1]
  BY <1>1
<1>5. \A i, j \in 1 .. Len(r) - 1 : i < j => Order!Earlier(r[i + 1], r[j + 1])
  <2>. SUFFICES ASSUME NEW i \in 1 .. Len(r) - 1, NEW j \in 1 .. Len(r) - 1, i < j
       PROVE  Order!Earlier(r[i + 1], r[j + 1])
    OBVIOUS
  <2>1. i + 1 \in DOMAIN r /\ j + 1 \in DOMAIN r /\ i + 1 < j + 1
    BY <1>1
  <2>. QED
    BY <2>1 DEF Ascending
<1>6. \A j \in 1 .. Len(r) - 1 : \A g \in q : Order!Earlier(r[j + 1], g)
  BY <1>2 DEF Ascending
<1>. HIDE DEF u, t
<1>7. Ascending(u, t, q)
  BY <1>3, <1>4, <1>5, <1>6 DEF Ascending
<1>. QED
  BY <1>7 DEF u, t

\* The frames bumped or shown are those of the two sequences.
LEMMA EmittedIs ==
  /\ Emitted = Elements(ready) \cup Elements(shown)
  /\ Pushed = queue \cup Emitted
BY DEF Emitted, Pushed, Elements

\* A bump of the lowest entry of a queue of one sequence.
LEMMA BumpOrder ==
  ASSUME Typed, Ascending(shown, ready, queue), queue # {}, Bump, shown' = shown, NEW level,
         \A g \in queue : g.cvs = level, \A e, g \in queue : e.poc = g.poc => e = g
  PROVE  /\ Ascending(shown', ready', queue')
         /\ queue' \subseteq queue
         /\ Lowest(queue) \in queue /\ Emitted' = Emitted \cup {Lowest(queue)}
<1>. DEFINE l == Lowest(queue)
<1>1. /\ queue \in SUBSET Entry /\ IsFiniteSet(queue)
      /\ ready \in Seq(Entry) /\ shown \in Seq(Entry)
      /\ queue' = queue \ {l} /\ ready' = Append(ready, l)
  BY DEF Typed, Bump
<1>2. l \in queue /\ \A g \in queue \ {l} : Order!Earlier(l, g)
  BY <1>1, LowestEarliest
<1>. HIDE DEF l
<1>3. l \in Entry
  BY <1>1, <1>2
<1>4. Ascending(shown, ready', queue')
  BY <1>1, <1>2, <1>3, BumpAscends
<1>5. Elements(ready') = Elements(ready) \cup {l}
  BY <1>1, <1>3, AppendElements
<1>6. Emitted' = Emitted \cup {l}
  BY <1>5 DEF Emitted, Elements
<1>. QED
  BY <1>1, <1>2, <1>4, <1>6 DEF l

\* A push of a frame that follows all that were bumped, and that less than c
\* follow: if it bumps a frame, that frame comes before it.
LEMMA PushOrder ==
  ASSUME Typed, Ascending(shown, ready, queue),
         \A g \in queue : g.cvs = cvs, \A f, g \in queue : f.poc = g.poc => f = g,
         NEW e \in Entry, e.cvs = cvs, e.poc \notin PocsOf(queue),
         \A g \in Emitted : Order!Earlier(g, e),
         NEW c \in Nat \ {0}, Push(e, c), shown' = shown,
         NEW S, IsFiniteSet(S), PocsOf(queue) \subseteq S, Cardinality(After(S, e.poc)) < c
  PROVE  /\ Ascending(shown', ready', queue')
         /\ queue' \subseteq queue \cup {e}
         /\ \A f, g \in queue' : f.poc = g.poc => f = g
         /\ \/ Emitted' = Emitted
            \/ /\ Emitted' = Emitted \cup {Lowest(queue)} /\ Lowest(queue).poc < e.poc
               /\ queue # {} /\ Lowest(queue) \in queue /\ c <= Cardinality(queue)
<1>1. /\ queue \in SUBSET Entry /\ IsFiniteSet(queue) /\ Cardinality(queue) \in Nat
      /\ ready \in Seq(Entry) /\ shown \in Seq(Entry) /\ e.poc \in Int
  BY FS_CardinalityType DEF Typed, Entry
<1>2. /\ \A i \in DOMAIN ready : Order!Earlier(ready[i], e)
      /\ \A i \in DOMAIN shown : Order!Earlier(shown[i], e)
  BY DEF Emitted
<1>3. \A g \in queue : g.poc # e.poc
  BY DEF PocsOf
<1>4. CASE Full(queue, c)
  <2>1. c <= Cardinality(queue) /\ queue # {}
    BY <1>1, <1>4, FS_EmptySet DEF Full
  <2>. DEFINE l == Lowest(queue)
  <2>2. l.poc < e.poc
    BY <1>1, <2>1, LowestBelow
  <2>3. l \in queue /\ \A g \in queue \ {l} : Order!Earlier(l, g)
    BY <1>1, <2>1, LowestEarliest
  <2>4. queue' = (queue \ {l}) \cup {e} /\ ready' = Append(ready, l)
    BY <1>4 DEF Push
  <2>. HIDE DEF l
  <2>5. l \in Entry /\ Order!Earlier(l, e)
    BY <1>1, <2>2, <2>3 DEF Order!Earlier
  <2>6. Ascending(shown, ready', queue \ {l})
    BY <1>1, <2>3, <2>4, <2>5, BumpAscends
  <2>7. Elements(ready') = Elements(ready) \cup {l}
    BY <1>1, <2>4, <2>5, AppendElements
  <2>8. Emitted' = Emitted \cup {l}
    BY <2>7 DEF Emitted, Elements
  <2>9. \A i \in DOMAIN ready' : Order!Earlier(ready'[i], e)
    <3>. SUFFICES ASSUME NEW i \in DOMAIN ready' PROVE Order!Earlier(ready'[i], e)
      OBVIOUS
    <3>1. ready'[i] \in Elements(ready) \cup {l}
      BY <2>7 DEF Elements
    <3>. QED
      BY <1>2, <2>5, <3>1 DEF Elements
  <2>10. Ascending(shown', ready', queue')
    BY <1>2, <2>4, <2>6, <2>9, AddAscends
  <2>11. /\ queue' \subseteq queue \cup {e}
         /\ \A f, g \in queue' : f.poc = g.poc => f = g
    BY <1>3, <2>4
  <2>. QED
    BY <2>1, <2>2, <2>3, <2>8, <2>10, <2>11 DEF l
<1>5. CASE ~ Full(queue, c)
  <2>1. queue' = queue \cup {e} /\ ready' = ready
    BY <1>5 DEF Push
  <2>2. Ascending(shown', ready', queue')
    BY <1>2, <2>1, AddAscends
  <2>3. Emitted' = Emitted
    BY <2>1 DEF Emitted
  <2>4. \A f, g \in queue' : f.poc = g.poc => f = g
    BY <1>3, <2>1
  <2>. QED
    BY <2>1, <2>2, <2>3, <2>4
<1>. QED
  BY <1>4, <1>5

\* What the invariants say between calls and while placing: all that is queued
\* and all that waits is of the current sequence, all else of it or earlier.
LEMMA CurrentSequence ==
  ASSUME Inv, phase # "drain"
  PROVE  /\ \A g \in queue : g.cvs = cvs
         /\ pending # None => pending.cvs = cvs
         /\ \A g \in Emitted : g \in Entry /\ g.cvs \in Int /\ g.poc \in Int /\ g.cvs <= cvs
<1>1. /\ Ordered(shown, ready, queue, cvs) /\ (pending # None => pending.cvs = cvs)
      /\ shown \in Seq(Entry) /\ ready \in Seq(Entry)
  BY DEF Inv, OneSequence, Level, Typed
<1>2. \A g \in Emitted : g \in Entry /\ g.cvs <= cvs
  BY <1>1 DEF Emitted, Ordered
<1>. QED
  BY <1>1, <1>2 DEF Ordered, Entry

\* The flush of the pending field keeps the frames ascending.
LEMMA FlushPendingFieldOrder ==
  ASSUME Inv, OnceInv, OrderInv, phase = "idle", FlushPendingField, shown' = shown
  PROVE  /\ Ascending(shown', ready', queue') /\ pending' = None
         /\ \A f, g \in queue' : f.poc = g.poc => f = g
         /\ \A g \in queue' : g.poc \in coded
         /\ \A g \in Emitted' : g.cvs = cvs => g.poc \in coded
         /\ Pushed' # Pushed => \E e : /\ e \notin Pushed /\ Pushed' = Pushed \cup {e}
                                       /\ \A g \in Emitted : Order!Earlier(g, e)
<1>1. /\ Typed /\ pic = None /\ Ascending(shown, ready, queue) /\ IsFiniteSet(coded)
      /\ cap \in Nat \ {0} /\ Room = cap
      /\ \A f, g \in queue : f.poc = g.poc => f = g
      /\ \A g \in queue : g.poc \in coded
      /\ \A g \in Emitted : g.cvs = cvs => g.poc \in coded
  BY DEF Inv, Typed, OnceInv, InProgress, OrderInv, Conforms, Counts, Room
<1>2. CASE pending = None
  <2>1. pending' = None /\ UNCHANGED <<queue, ready, pushed>>
    BY <1>2 DEF FlushPendingField, NoPush
  <2>2. Emitted' = Emitted /\ Pushed' = Pushed
    BY <2>1 DEF Emitted, Pushed
  <2>. QED
    BY <1>1, <2>1, <2>2
<1>3. CASE pending # None
  <2>. DEFINE e == Alone(pending)
  <2>1. pending' = None /\ Push(e, cap)
    BY <1>3 DEF FlushPendingField
  <2>2. pending \in Waiting /\ pending \in Pic
    BY <1>1, <1>3 DEF Waiting, Typed
  <2>3. e \in Entry /\ e.cvs = cvs /\ e.poc = pending.poc /\ e.n = pushed
    <3>1. e \in Entry /\ e.cvs = pending.cvs
      BY <1>1, <2>2, AloneType DEF Typed
    <3>2. e.poc = OutputPoc(pending) /\ e.n = pushed
      BY DEF Alone
    <3>3. OutputPoc(pending) = pending.poc
      BY <2>2 DEF OrderInv, Conforms
    <3>. QED
      BY <1>3, <3>1, <3>2, <3>3, CurrentSequence
  <2>4. pending.poc \in coded /\ Cardinality(After(coded, pending.poc)) < cap
    BY <1>1, <1>3 DEF OrderInv, Reordered
  <2>5. PocsOf(queue) \subseteq coded /\ pending.poc \notin PocsOf(queue)
    BY <1>1, <2>2 DEF PocsOf, OrderInv, Counts
  <2>6. \A g \in Emitted : Order!Earlier(g, e)
    <3>. SUFFICES ASSUME NEW g \in Emitted PROVE Order!Earlier(g, e)
      OBVIOUS
    <3>1. g.cvs \in Int /\ g.cvs <= cvs /\ cvs \in Int
      BY <1>1, CurrentSequence DEF Typed
    <3>2. g.cvs = cvs => g.poc < pending.poc
      BY <2>2 DEF OrderInv, Counts
    <3>. QED
      BY <2>3, <3>1, <3>2 DEF Order!Earlier
  <2>. HIDE DEF e
  <2>7. /\ \A g \in queue : g.cvs = cvs
        /\ Cardinality(After(coded, e.poc)) < cap /\ e.poc \notin PocsOf(queue)
    BY <2>3, <2>4, <2>5, CurrentSequence
  <2>8. /\ Ascending(shown', ready', queue')
        /\ queue' \subseteq queue \cup {e}
        /\ \A f, g \in queue' : f.poc = g.poc => f = g
        /\ \/ Emitted' = Emitted
           \/ /\ Emitted' = Emitted \cup {Lowest(queue)} /\ Lowest(queue).poc < e.poc
              /\ queue # {} /\ Lowest(queue) \in queue /\ cap <= Cardinality(queue)
    BY <1>1, <2>1, <2>3, <2>5, <2>6, <2>7, PushOrder
  <2>9. Pushed' = Pushed \cup {e} /\ e \notin Pushed
    BY <1>1, <2>1, <2>3, PushOnce DEF OnceInv, Numbered, Typed
  <2>. QED
    BY <1>1, <2>1, <2>3, <2>4, <2>6, <2>8, <2>9
<1>. QED
  BY <1>2, <1>3

-----------------------------------------------------------------------------
(* Every step of a stream that conforms keeps the order. *)

\* One member replaced by a new one.
LEMMA ReplaceCard ==
  ASSUME NEW S, IsFiniteSet(S), NEW f \in S, NEW m, m \notin S \ {f}
  PROVE  /\ IsFiniteSet((S \ {f}) \cup {m})
         /\ Cardinality((S \ {f}) \cup {m}) = Cardinality(S)
<1>1. IsFiniteSet(S \ {f}) /\ Cardinality(S \ {f}) = Cardinality(S) - 1
  BY FS_RemoveElement
<1>. DEFINE T == S \ {f}
<1>. HIDE DEF T
<1>2. IsFiniteSet(T) /\ Cardinality(T) = Cardinality(S) - 1 /\ m \notin T
  BY <1>1 DEF T
<1>3. IsFiniteSet(T \cup {m}) /\ Cardinality(T \cup {m}) = Cardinality(T) + 1
  BY <1>2, FS_AddElement
<1>4. Cardinality(S) \in Nat
  BY FS_CardinalityType
<1>5. Cardinality(T \cup {m}) = Cardinality(S)
  BY <1>2, <1>3, <1>4
<1>. QED
  BY <1>3, <1>5 DEF T

\* What a conforming stream codes next.
LEMMA HeaderConforms ==
  ASSUME OrderedStream, Inv, OnceInv, OrderInv, NEW p \in Headers, StreamMayCode(p),
         BeginOutput(p)
  PROVE  /\ phase = "idle" /\ ~ eof /\ first = pending /\ pic = None
         /\ p \in Pic /\ p # None /\ OutputPoc(p) = p.poc
         /\ pending # None => pending # p
         /\ p.cap # cap => p.idr
         /\ ~ (StartsSequence(p) \/ IsSecondField(p)) =>
              p.poc \notin coded /\ Cardinality(After(coded, p.poc)) < p.cap
         /\ IsSecondField(p) => Neighbours(p) /\ p.poc # first.poc
         /\ first # None /\ p.structure = "frame" => StartsSequence(p)
<1>1. phase = "idle" /\ pic = None /\ Typed
  BY DEF BeginOutput, OnceInv, InProgress, Inv
<1>2. first = pending
  BY <1>1 DEF OrderInv, Conforms
<1>3. p \in Pic
  BY <1>1, HeaderPic
<1>4. StreamMayCode(p) /\ Conforming /\ ~ LoneFields /\ Reorder <= 0
  BY DEF OrderedStream
<1>5. OutputPoc(p) = p.poc
  BY <1>4 DEF StreamMayCode, OutputPoc, StartsSequence
<1>6. p.n = pics /\ p.frame \in Nat
  <2>1. p.n = pics /\ p.frame = IF IsSecondField(p) THEN first.frame ELSE pics
    BY DEF Headers
  <2>2. IsSecondField(p) => first.frame \in Nat
    BY DEF OnceInv, InProgress, IsSecondField
  <2>. QED
    BY <1>1, <2>1, <2>2 DEF Typed
<1>7. p # None
  BY <1>6 DEF None
<1>8. pending # None => pending # p
  <2>1. pending # None => pending.n \in 0 .. pics - 1
    BY DEF OnceInv, Below, Waiting
  <2>. QED
    BY <1>1, <1>6, <2>1 DEF Typed
<1>9. ~ (StartsSequence(p) \/ IsSecondField(p)) =>
        p.poc \notin coded /\ Cardinality(After(coded, p.poc)) < p.cap
  <2>. SUFFICES ASSUME ~ (StartsSequence(p) \/ IsSecondField(p))
       PROVE  p.poc \notin coded /\ Cardinality(After(coded, p.poc)) < p.cap
    OBVIOUS
  <2>1. p.poc \notin coded /\ Cardinality(Later(p.poc)) < p.cap + Reorder
    BY <1>4 DEF StreamMayCode
  <2>2. Later(p.poc) = After(coded, p.poc)
    BY DEF Later, After
  <2>3. Cardinality(After(coded, p.poc)) \in Nat
    BY AfterType DEF OrderInv, Conforms
  <2>4. p.cap \in Nat /\ Reorder \in Int
    BY <1>3, OutputAssumption DEF Pic
  <2>. QED
    BY <1>4, <2>1, <2>2, <2>3, <2>4
<1>10. IsSecondField(p) => p.poc # first.poc
  <2>. SUFFICES ASSUME IsSecondField(p) PROVE p.poc # first.poc
    OBVIOUS
  <2>1. p.poc \in {first.poc - 1, first.poc + 1}
    BY DEF Headers, StreamPocs
  <2>2. first.poc \in Int
    BY <1>1 DEF Typed, Pic
  <2>. QED
    BY <2>1, <2>2
<1>11. ~ eof /\ (p.cap # cap => p.idr) /\ (IsSecondField(p) => Neighbours(p))
       /\ (first # None /\ p.structure = "frame" => StartsSequence(p))
  BY <1>4 DEF StreamMayCode
<1>. QED
  BY <1>1, <1>2, <1>3, <1>5, <1>7, <1>8, <1>9, <1>10, <1>11

\* A picture that begins a coded video sequence keeps the order.
LEMMA BeginSequenceOrder ==
  ASSUME OrderedStream, Inv, OnceInv, OrderInv, NEW p \in Headers, StreamMayCode(p),
         BeginOutput(p), StartsSequence(p)
  PROVE  OrderInv'
<1>1. /\ phase = "idle" /\ ~ eof /\ p \in Pic /\ p # None /\ OutputPoc(p) = p.poc
  BY HeaderConforms
<1>2. /\ pic' = p /\ coded' = {p.poc} /\ UNCHANGED <<eof, shown>>
      /\ first' = IF p.structure # "frame" THEN p ELSE None
      /\ FlushPendingField /\ phase' = "drain"
  BY <1>1 DEF BeginOutput, CodedWith, DrainsPrior, StartsSequence, IsSecondField
<1>3. /\ Ascending(shown', ready', queue') /\ pending' = None
      /\ \A f, g \in queue' : f.poc = g.poc => f = g
  BY <1>1, <1>2, FlushPendingFieldOrder
<1>4. Waiting' = {p}
  BY <1>1, <1>2, <1>3 DEF Waiting
<1>5. coded' \subseteq Int /\ IsFiniteSet(coded')
  BY <1>1, <1>2, FS_Singleton DEF Pic
<1>6. ~ Completes'
  BY <1>2 DEF Completes
<1>7. OutputPoc(p)' = p.poc
  BY <1>1 DEF OutputPoc
<1>8. Conforms'
  BY <1>1, <1>2, <1>3, <1>4, <1>5, <1>6, <1>7 DEF Conforms, OutputPoc
<1>9. Counts'
  BY <1>2, <1>3 DEF Counts
<1>10. Reordered'
  BY <1>2, <1>3, <1>6 DEF Reordered
<1>. QED
  BY <1>3, <1>8, <1>9, <1>10 DEF OrderInv

\* A second field keeps the order.
LEMMA BeginSecondOrder ==
  ASSUME OrderedStream, Inv, OnceInv, OrderInv, NEW p \in Headers, StreamMayCode(p),
         BeginOutput(p), IsSecondField(p)
  PROVE  OrderInv'
<1>. DEFINE f == pending.poc
            m == Lesser(f, p.poc)
<1>1. /\ phase = "idle" /\ ~ eof /\ first = pending /\ pic = None /\ p \in Pic /\ p # None
      /\ OutputPoc(p) = p.poc /\ p.cap = cap /\ ~ StartsSequence(p)
      /\ pending # None /\ pending # p /\ Neighbours(p) /\ p.poc # f
  BY HeaderConforms DEF IsSecondField, StartsSequence
<1>2. /\ pic' = p /\ coded' = (coded \ {f}) \cup {m} /\ UNCHANGED <<eof, shown, cap>>
      /\ first' = None /\ phase' = "place" /\ UNCHANGED <<queue, ready, pushed, pending>>
      /\ cvs' = p.cvs
  BY <1>1 DEF BeginOutput, CodedWith, DrainsPrior, StartsSequence, NoPush
<1>3. Emitted' = Emitted /\ Waiting' = {pending, p} /\ Waiting = {pending} /\ Room' = cap /\ Room = cap
  BY <1>1, <1>2 DEF Emitted, Waiting, Room
<1>4. cvs' = cvs
  BY <1>1, <1>2 DEF Headers
<1>5. /\ f \in Int /\ p.poc \in Int /\ pending \in Pic /\ coded \subseteq Int /\ IsFiniteSet(coded)
      /\ f \in coded /\ Cardinality(After(coded, f)) < cap /\ cap \in Nat
  BY <1>1, <1>3 DEF Inv, Typed, Pic, OrderInv, Conforms, Reordered
<1>6. m \in {f, p.poc} /\ m \in Int /\ m <= f /\ m <= p.poc
  BY <1>5 DEF Lesser
<1>7. \A q \in coded \ {f} : /\ q # p.poc /\ q # m /\ (q < p.poc <=> q < f) /\ (q < m <=> q < f)
                            /\ (q > m <=> q > f)
  <2>. SUFFICES ASSUME NEW q \in coded \ {f}
       PROVE  /\ q # p.poc /\ q # m /\ (q < p.poc <=> q < f) /\ (q < m <=> q < f)
              /\ (q > m <=> q > f)
    OBVIOUS
  <2>1. q \in Int /\ q # f /\ q # p.poc /\ (q < p.poc <=> q < f)
    BY <1>1, <1>5 DEF Neighbours
  <2>. HIDE DEF m
  <2>. QED
    BY <1>5, <1>6, <2>1
<1>8. Completes'
  <2>1. /\ pending.structure \in {"frame", "top", "bottom"} /\ pending.structure # "frame"
        /\ p.structure = Opposite(pending.structure) /\ p.frameNum = pending.frameNum
    BY <1>1, <1>5 DEF Pic, OrderInv, Conforms, IsSecondField
  <2>2. p.structure # "frame" /\ Complementary(pending, p)
    BY <2>1 DEF Opposite, Complementary
  <2>. QED
    BY <1>1, <1>2, <2>2 DEF Completes
<1>. HIDE DEF m, f
<1>9. coded' \subseteq Int /\ IsFiniteSet(coded')
  <2>1. f \in coded /\ m \notin coded \ {f}
    BY <1>5, <1>7
  <2>2. IsFiniteSet((coded \ {f}) \cup {m})
    BY <1>5, <2>1, ReplaceCard
  <2>. QED
    BY <1>2, <1>5, <1>6, <2>2
<1>10. \A x \in Waiting' : OutputPoc(x) = x.poc
  BY <1>1, <1>3 DEF OrderInv, Conforms
<1>11. Conforms'
  <2>1. pending.structure # "frame" /\ p.structure # "frame"
    BY <1>1, <1>2, <1>8 DEF OrderInv, Conforms, Completes
  <2>2. Cardinality(queue) <= cap
    BY DEF Inv, Bounded
  <2>. QED
    BY <1>1, <1>2, <1>8, <1>9, <1>10, <2>1, <2>2 DEF Conforms, OutputPoc
<1>12. \A e \in queue : e.poc \in coded \ {f}
  BY <1>1, <1>3 DEF OrderInv, Counts, f
<1>13. \A g \in Emitted : g.cvs = cvs => g.poc \in coded \ {f} /\ g.poc < f
  <2>. SUFFICES ASSUME NEW g \in Emitted, g.cvs = cvs PROVE g.poc \in coded \ {f} /\ g.poc < f
    OBVIOUS
  <2>1. g.poc \in coded /\ g.poc < f
    BY <1>1, <1>3 DEF OrderInv, Counts, f
  <2>. QED
    BY <1>5, <2>1
<1>14. Counts'
  <2>1. \A e \in queue : e.poc \in coded' /\ e.poc # f /\ e.poc # p.poc
    BY <1>2, <1>7, <1>12
  <2>2. \A g \in Emitted : g.cvs = cvs => g.poc \in coded' /\ g.poc < f /\ g.poc < p.poc
    BY <1>2, <1>7, <1>13
  <2>3. \A e, g \in queue : e.poc = g.poc => e = g
    BY DEF OrderInv, Counts
  <2>4. pending.poc = f /\ p.poc # f
    BY <1>1 DEF f
  <2>. QED
    BY <1>2, <1>3, <1>4, <2>1, <2>2, <2>3, <2>4 DEF Counts
<1>15. ASSUME NEW g \in Emitted, g.cvs = cvs
       PROVE  cap <= Cardinality(After(coded', g.poc))
  <2>. DEFINE A == After(coded, g.poc)
  <2>1. cap <= Cardinality(A)
    BY <1>1, <1>3, <1>15 DEF OrderInv, Reordered
  <2>2. IsFiniteSet(A)
    BY <1>5, AfterType
  <2>3. f \in A /\ m \notin A \ {f} /\ m > g.poc
    <3>1. g.poc \in coded \ {f} /\ g.poc < f
      BY <1>13, <1>15
    <3>2. g.poc < m
      BY <1>7, <3>1
    <3>. QED
      BY <1>5, <1>6, <1>7, <3>1, <3>2 DEF After
  <2>4. After(coded', g.poc) = (A \ {f}) \cup {m}
    BY <1>2, <2>3 DEF After
  <2>. HIDE DEF A
  <2>5. Cardinality((A \ {f}) \cup {m}) = Cardinality(A)
    BY <2>2, <2>3, ReplaceCard
  <2>. QED
    BY <2>1, <2>4, <2>5
<1>16. m \in coded' /\ Cardinality(After(coded', m)) < cap
  <2>1. After(coded', m) \subseteq After(coded, f)
    BY <1>2, <1>6, <1>7 DEF After
  <2>2. IsFiniteSet(After(coded, f)) /\ Cardinality(After(coded, f)) \in Nat
    BY <1>5, AfterType
  <2>3. /\ Cardinality(After(coded', m)) <= Cardinality(After(coded, f))
        /\ IsFiniteSet(After(coded', m))
    BY <2>1, <2>2, FS_Subset
  <2>4. Cardinality(After(coded', m)) \in Nat
    BY <2>3, FS_CardinalityType
  <2>. QED
    BY <1>2, <1>5, <2>2, <2>3, <2>4
<1>17. Reordered'
  <2>1. /\ pic' = p /\ p # None /\ phase' = "place" /\ Emitted' = Emitted /\ cvs' = cvs
        /\ Room' = cap /\ Completes' /\ pending' = pending
    BY <1>1, <1>2, <1>3, <1>4, <1>8
  <2>2. Lesser(pending.poc, p.poc) = m
    BY DEF m, f
  <2>. QED
    BY <1>15, <1>16, <2>1, <2>2 DEF Reordered
<1>18. Ascending(shown, ready, queue)'
  BY <1>2 DEF OrderInv, Ascending
<1>. QED
  BY <1>11, <1>14, <1>17, <1>18 DEF OrderInv

\* A frame, or a field that begins one, keeps the order.
LEMMA BeginFrameOrder ==
  ASSUME OrderedStream, Inv, OnceInv, OrderInv, NEW p \in Headers, StreamMayCode(p),
         BeginOutput(p), ~ StartsSequence(p), ~ IsSecondField(p)
  PROVE  OrderInv'
<1>1. /\ phase = "idle" /\ ~ eof /\ first = pending /\ pic = None /\ p \in Pic /\ p # None
      /\ OutputPoc(p) = p.poc /\ p.cap = cap
      /\ pending # None => pending # p
      /\ p.poc \notin coded /\ Cardinality(After(coded, p.poc)) < cap
      /\ first # None => p.structure # "frame"
  BY HeaderConforms DEF StartsSequence
<1>2. /\ pic' = p /\ coded' = coded \cup {p.poc} /\ UNCHANGED <<eof, shown, cap>>
      /\ first' = IF p.structure # "frame" THEN p ELSE None
      /\ phase' = "place" /\ UNCHANGED <<queue, ready, pushed, pending>> /\ cvs' = p.cvs
  BY DEF BeginOutput, CodedWith, DrainsPrior, StartsSequence, NoPush
<1>3. Emitted' = Emitted /\ Waiting' = Waiting \cup {p} /\ Room' = cap /\ Room = cap
  BY <1>1, <1>2 DEF Emitted, Waiting, Room
<1>4. cvs' = cvs
  BY <1>2 DEF Headers
<1>5. /\ p.poc \in Int /\ pending \in Pic /\ coded \subseteq Int /\ IsFiniteSet(coded)
      /\ cap \in Nat
  BY <1>1 DEF Inv, Typed, Pic, OrderInv, Conforms
<1>6. ~ Completes'
  <2>. SUFFICES ASSUME pending # None, p.structure # "frame", Complementary(pending, p)
       PROVE  FALSE
    BY <1>2 DEF Completes
  <2>1. /\ pending.structure \in {"top", "bottom"} /\ p.structure \in {"top", "bottom"}
        /\ p.structure # pending.structure /\ p.frameNum = pending.frameNum
    BY <1>1, <1>5 DEF Pic, OrderInv, Conforms, Complementary
  <2>2. p.structure = Opposite(pending.structure)
    BY <2>1 DEF Opposite
  <2>. QED
    BY <1>1, <2>1, <2>2 DEF IsSecondField
<1>7. coded' \subseteq Int /\ IsFiniteSet(coded')
  BY <1>2, <1>5, FS_AddElement
<1>8. \A x \in Waiting' : OutputPoc(x) = x.poc
  BY <1>1, <1>3 DEF OrderInv, Conforms
<1>9. Conforms'
  <2>1. Cardinality(queue) <= cap
    BY DEF Inv, Bounded
  <2>2. pending # None => pending.structure # "frame"
    BY DEF OrderInv, Conforms
  <2>. QED
    BY <1>1, <1>2, <1>6, <1>7, <1>8, <2>1, <2>2 DEF Conforms, OutputPoc
<1>10. ASSUME NEW g \in Emitted, g.cvs = cvs
       PROVE  /\ g.poc \in coded /\ g.poc < p.poc
              /\ cap <= Cardinality(After(coded, g.poc))
  <2>1. g.poc \in coded /\ cap <= Cardinality(After(coded, g.poc))
    BY <1>1, <1>3, <1>10 DEF OrderInv, Counts, Reordered
  <2>2. g.poc \in Int /\ g.poc # p.poc
    BY <1>1, <1>5, <2>1
  <2>3. ASSUME p.poc < g.poc PROVE FALSE
    <3>1. After(coded, g.poc) \subseteq After(coded, p.poc)
      <4>. SUFFICES ASSUME NEW q \in coded, q > g.poc PROVE q > p.poc
        BY DEF After
      <4>1. q \in Int
        BY <1>5
      <4>. QED
        BY <1>5, <2>2, <2>3, <4>1
    <3>2. IsFiniteSet(After(coded, p.poc)) /\ Cardinality(After(coded, p.poc)) \in Nat
      BY <1>5, AfterType
    <3>3. IsFiniteSet(After(coded, g.poc)) /\ Cardinality(After(coded, g.poc)) \in Nat
      BY <1>5, AfterType
    <3>4. Cardinality(After(coded, g.poc)) <= Cardinality(After(coded, p.poc))
      BY <3>1, <3>2, FS_Subset
    <3>. QED
      BY <1>1, <1>5, <2>1, <3>2, <3>3, <3>4
  <2>. QED
    BY <1>5, <2>1, <2>2, <2>3
<1>11. pending # None => /\ pending.poc \in coded /\ pending.poc # p.poc
                         /\ Cardinality(After(coded, pending.poc)) < cap
  BY <1>1, <1>3 DEF OrderInv, Reordered
<1>12. Counts'
  <2>1. /\ \A e, g \in queue : e.poc = g.poc => e = g
        /\ \A e \in queue : e.poc \in coded /\ \A x \in Waiting : e.poc # x.poc
        /\ \A g \in Emitted : g.cvs = cvs => \A x \in Waiting : g.poc < x.poc
    BY <1>1 DEF OrderInv, Counts
  <2>2. \A e \in queue : e.poc \in coded' /\ \A x \in Waiting' : e.poc # x.poc
    BY <1>1, <1>2, <1>3, <2>1
  <2>3. \A g \in Emitted : g.cvs = cvs => g.poc \in coded' /\ \A x \in Waiting' : g.poc < x.poc
    BY <1>2, <1>3, <1>10, <2>1
  <2>. QED
    BY <1>2, <1>3, <1>4, <1>11, <2>1, <2>2, <2>3 DEF Counts
<1>13. ASSUME NEW g \in Emitted, g.cvs = cvs
       PROVE  cap <= Cardinality(After(coded', g.poc))
  <2>1. After(coded, g.poc) \subseteq After(coded', g.poc)
    BY <1>2 DEF After
  <2>2. IsFiniteSet(After(coded', g.poc)) /\ Cardinality(After(coded', g.poc)) \in Nat
    BY <1>7, AfterType
  <2>3. /\ IsFiniteSet(After(coded, g.poc))
        /\ Cardinality(After(coded, g.poc)) <= Cardinality(After(coded', g.poc))
    BY <2>1, <2>2, FS_Subset
  <2>4. Cardinality(After(coded, g.poc)) \in Nat
    BY <2>3, FS_CardinalityType
  <2>. QED
    BY <1>5, <1>10, <1>13, <2>2, <2>3, <2>4
<1>14. p.poc \in coded' /\ Cardinality(After(coded', p.poc)) < cap
  <2>1. After(coded', p.poc) = After(coded, p.poc)
    BY <1>2, <1>5 DEF After
  <2>. QED
    BY <1>1, <1>2, <2>1
<1>15. pending # None => pending.poc \in coded' /\ Cardinality(After(coded' \ {p.poc}, pending.poc)) < cap
  <2>1. coded' \ {p.poc} = coded
    BY <1>1, <1>2
  <2>. QED
    BY <1>2, <1>11, <2>1
<1>16. Reordered'
  <2>1. /\ pic' = p /\ p # None /\ phase' = "place" /\ Emitted' = Emitted /\ cvs' = cvs
        /\ Room' = cap /\ ~ Completes' /\ pending' = pending
    BY <1>1, <1>2, <1>3, <1>4, <1>6
  <2>. QED
    BY <1>13, <1>14, <1>15, <2>1 DEF Reordered
<1>17. Ascending(shown, ready, queue)'
  BY <1>2 DEF OrderInv, Ascending
<1>. QED
  BY <1>9, <1>12, <1>16, <1>17 DEF OrderInv

\* Draining keeps the order.
LEMMA DrainOrder ==
  ASSUME Inv, OrderInv, Drain
  PROVE  OrderInv'
<1>1. /\ Typed /\ phase = "drain" /\ queue # {} /\ Bump /\ pending = None
      /\ UNCHANGED <<cap, pending, eof, phase, pic, pics, pushed, cvs, coded, first, shown>>
  BY DEF Inv, OneSequence, Drain
<1>2. /\ \A g \in queue : g.cvs = Level
      /\ \A e, g \in queue : e.poc = g.poc => e = g
      /\ Ascending(shown, ready, queue)
  BY DEF Inv, OneSequence, Ordered, OrderInv, Counts
<1>3. Ascending(shown', ready', queue') /\ queue' \subseteq queue
  BY <1>1, <1>2, BumpOrder
<1>4. Waiting' = Waiting /\ ~ Completes /\ ~ Completes'
  BY <1>1 DEF Waiting, Completes
<1>5. Conforms'
  BY <1>1, <1>4 DEF OrderInv, Conforms, OutputPoc
<1>6. Counts' /\ Reordered'
  BY <1>1, <1>2, <1>3, <1>4 DEF Counts, Reordered
<1>. QED
  BY <1>3, <1>5, <1>6 DEF OrderInv

\* The end of a drain keeps the order: a new sequence, nothing of it bumped.
LEMMA DrainedOrder ==
  ASSUME Inv, OnceInv, OrderInv, Drained
  PROVE  OrderInv'
<1>1. /\ Typed /\ phase = "drain" /\ queue = {} /\ pending = None /\ phase' = "place"
      /\ UNCHANGED <<queue, cap, ready, pending, eof, pic, pics, pushed, cvs, coded, first, shown>>
      /\ Ordered(shown, ready, queue, cvs - 1) /\ pic # None
  BY DEF Inv, OneSequence, Level, Drained, OnceInv, InProgress
<1>2. /\ coded = {pic.poc} /\ pic.poc \in Int /\ pic.cap \in Nat \ {0} /\ cvs \in Nat
  BY <1>1 DEF Typed, Pic, OrderInv, Conforms
<1>3. /\ Waiting' = Waiting /\ Waiting = {pic} /\ Emitted' = Emitted
      /\ ~ Completes /\ ~ Completes' /\ Room' = pic.cap
  BY <1>1 DEF Waiting, Completes, Emitted, Room
<1>4. ASSUME NEW g \in Emitted PROVE g.cvs # cvs
  <2>1. g \in Entry /\ g.cvs <= cvs - 1
    BY <1>1 DEF Emitted, Ordered, Typed
  <2>. QED
    BY <1>2, <2>1 DEF Entry
<1>5. Cardinality(queue) <= pic.cap
  BY <1>1, <1>2, FS_EmptySet
<1>6. Conforms'
  BY <1>1, <1>3, <1>5 DEF OrderInv, Conforms, OutputPoc
<1>7. Counts'
  BY <1>1, <1>3, <1>4 DEF Counts
<1>8. Cardinality(After(coded, pic.poc)) < pic.cap
  <2>1. After(coded, pic.poc) = {}
    BY <1>2 DEF After
  <2>. QED
    BY <1>2, <2>1, FS_EmptySet
<1>9. Reordered'
  BY <1>1, <1>2, <1>3, <1>4, <1>8 DEF Reordered
<1>10. Ascending(shown, ready, queue)'
  BY <1>1 DEF OrderInv, Ascending
<1>. QED
  BY <1>6, <1>7, <1>9, <1>10 DEF OrderInv

\* A conforming stream shrinks only an empty queue.
LEMMA NeverShrinks ==
  ASSUME Inv, OrderInv
  PROVE  ~ Shrink
<1>. SUFFICES ASSUME Shrink PROVE FALSE
  OBVIOUS
<1>1. /\ Cardinality(queue) > pic.cap /\ Cardinality(queue) <= pic.cap
      /\ pic.cap \in Nat /\ Cardinality(queue) \in Nat
  BY FS_CardinalityType DEF Shrink, Overfull, OrderInv, Conforms, Inv, Typed, Pic
<1>. QED
  BY <1>1

\* Placing a picture keeps the order, and a frame it queues follows every
\* frame that was bumped.
LEMMA PlaceOrder ==
  ASSUME Inv, OnceInv, OrderInv, Place
  PROVE  /\ OrderInv'
         /\ Pushed' # Pushed => \E e : /\ e \notin Pushed /\ Pushed' = Pushed \cup {e}
                                       /\ \A g \in Emitted : Order!Earlier(g, e)
<1>1. /\ Typed /\ phase = "place" /\ pic \in Pic /\ pending \in Pic /\ pushed \in Nat
      /\ pic.cap \in Nat \ {0} /\ pic.poc \in Int /\ pic # None /\ pic.cvs = cvs
      /\ cvs \in Nat /\ (pending # None => pending.cvs = cvs)
      /\ queue \in SUBSET Entry /\ IsFiniteSet(queue)
  BY DEF Inv, Typed, OneSequence, Level, Place, OnceInv, InProgress, Pic
<1>2. /\ phase' = "idle" /\ pic' = None /\ UNCHANGED <<eof, pics, cvs, coded, first, shown>>
      /\ cap' = pic.cap
  BY DEF Place
<1>3. /\ coded \subseteq Int /\ IsFiniteSet(coded) /\ ~ eof /\ Ascending(shown, ready, queue)
      /\ Room = pic.cap /\ Room' = pic.cap /\ ~ Completes'
      /\ \A e, g \in queue : e.poc = g.poc => e = g
      /\ \A x \in Waiting : OutputPoc(x) = x.poc
      /\ \A e \in queue : e.poc \in coded /\ \A x \in Waiting : e.poc # x.poc
      /\ \A g \in Emitted : g.cvs = cvs =>
           /\ g.poc \in coded /\ Room <= Cardinality(After(coded, g.poc))
           /\ \A x \in Waiting : g.poc < x.poc
  BY <1>1, <1>2 DEF OrderInv, Conforms, Counts, Reordered, Room, Completes
<1>4. /\ \A g \in queue : g.cvs = cvs
      /\ \A g \in Emitted : g.cvs \in Int /\ g.cvs <= cvs
  BY <1>1, CurrentSequence
<1>5. pic \in Waiting /\ (pending # None => pending \in Waiting)
  BY <1>1 DEF Waiting
<1>6. ASSUME NEW e \in Entry, e.cvs = cvs, e.n = pushed, Push(e, pic.cap),
             NEW S \in SUBSET coded, PocsOf(queue) \subseteq S,
             e.poc \in coded, e.poc \notin PocsOf(queue), Cardinality(After(S, e.poc)) < pic.cap,
             \A g \in Emitted : g.cvs = cvs => g.poc < e.poc,
             \/ pending' = None /\ first = None
             \/ /\ pending' = pic /\ first = pic /\ pic.structure # "frame" /\ e.poc # pic.poc
                /\ pic.poc \in coded /\ Cardinality(After(coded, pic.poc)) < pic.cap
      PROVE  /\ OrderInv'
             /\ Pushed' # Pushed => \E f : /\ f \notin Pushed /\ Pushed' = Pushed \cup {f}
                                           /\ \A g \in Emitted : Order!Earlier(g, f)
  <2>1. IsFiniteSet(S)
    BY <1>3, FS_Subset
  <2>2. \A g \in Emitted : Order!Earlier(g, e)
    BY <1>1, <1>4, <1>6 DEF Order!Earlier
  <2>3. /\ Ascending(shown', ready', queue')
        /\ queue' \subseteq queue \cup {e}
        /\ \A f, g \in queue' : f.poc = g.poc => f = g
        /\ \/ Emitted' = Emitted
           \/ /\ Emitted' = Emitted \cup {Lowest(queue)} /\ Lowest(queue).poc < e.poc
              /\ queue # {} /\ Lowest(queue) \in queue /\ pic.cap <= Cardinality(queue)
    BY <1>1, <1>2, <1>3, <1>4, <1>6, <2>1, <2>2, PushOrder
  <2>4. Pushed' = Pushed \cup {e} /\ e \notin Pushed
    BY <1>1, <1>2, <1>6, PushOnce DEF OnceInv, Numbered
  <2>5. Waiting' = {pending'} \ {None} /\ Waiting' \subseteq {pic}
    BY <1>2, <1>6 DEF Waiting
  <2>6. Conforms'
    BY <1>2, <1>3, <1>5, <1>6, <2>5 DEF Conforms, OutputPoc
  <2>7. PocsOf(queue) \subseteq coded
    BY <1>6
  <2>8. ASSUME pending' # None, queue # {}, pic.cap <= Cardinality(queue)
        PROVE  Lowest(queue).poc < pic.poc
    <3>1. pic.poc \notin PocsOf(queue)
      BY <1>3, <1>5 DEF PocsOf
    <3>2. Cardinality(After(coded, pic.poc)) < pic.cap
      BY <1>6, <2>8
    <3>. QED
      BY <1>1, <1>3, <2>7, <2>8, <3>1, <3>2, LowestBelow
  <2>9. ASSUME NEW g \in Emitted', g.cvs = cvs
        PROVE  /\ g.poc \in coded /\ \A x \in Waiting' : g.poc < x.poc
               /\ pic.cap <= Cardinality(After(coded, g.poc))
    <3>1. CASE g \in Emitted
      BY <1>3, <1>5, <2>5, <2>9, <3>1
    <3>2. CASE g \notin Emitted
      <4>1. /\ g = Lowest(queue) /\ g.poc < e.poc /\ queue # {} /\ g \in queue
            /\ pic.cap <= Cardinality(queue)
        BY <2>3, <2>9, <3>2
      <4>2. g.poc \in coded
        BY <1>3, <4>1
      <4>3. \A x \in Waiting' : g.poc < x.poc
        BY <2>5, <2>8, <4>1
      <4>4. pic.cap <= Cardinality(After(coded, Lowest(queue).poc))
        <5>1. Lowest(queue).poc < e.poc /\ pic.cap \in Nat
          BY <1>1, <4>1
        <5>. QED
          BY <1>1, <1>3, <1>4, <1>6, <2>7, <4>1, <5>1, StillLater
      <4>. QED
        BY <4>1, <4>2, <4>3, <4>4
    <3>. QED
      BY <3>1, <3>2
  <2>10. Counts'
    <3>1. ASSUME NEW g \in queue', NEW x \in Waiting' PROVE g.poc # x.poc
      <4>1. x = pic /\ pending' = pic
        BY <1>6, <2>5
      <4>. QED
        BY <1>1, <1>3, <1>5, <1>6, <2>3, <4>1
    <3>2. \A g \in queue' : g.poc \in coded
      BY <1>3, <1>6, <2>3
    <3>. QED
      BY <1>2, <2>3, <2>9, <3>1, <3>2 DEF Counts
  <2>11. Reordered'
    BY <1>1, <1>2, <1>3, <1>6, <2>9 DEF Reordered
  <2>. QED
    BY <2>2, <2>3, <2>4, <2>6, <2>10, <2>11 DEF OrderInv
<1>7. /\ Alone(pic) \in Entry /\ Alone(pic).cvs = cvs /\ Alone(pic).n = pushed
      /\ Alone(pic).poc = pic.poc
  BY <1>1, <1>3, <1>5, AloneType, HoldsAlone DEF Alone
<1>8. PocsOf(queue) \subseteq coded /\ \A x \in Waiting : x.poc \notin PocsOf(queue)
  BY <1>3 DEF PocsOf
<1>9. CASE pic.structure = "frame"
  <2>1. Push(Alone(pic), pic.cap) /\ pending' = None /\ first = None
    BY <1>1, <1>9 DEF Place, OrderInv, Conforms
  <2>2. pic.poc \in coded /\ Cardinality(After(coded, pic.poc)) < pic.cap
    BY <1>1, <1>3, <1>9 DEF Completes, OrderInv, Reordered
  <2>3. \A g \in Emitted : g.cvs = cvs => g.poc < pic.poc
    BY <1>3, <1>5
  <2>. QED
    BY <1>5, <1>6, <1>7, <1>8, <2>1, <2>2, <2>3
<1>10. CASE Completes
  <2>. DEFINE e == Pair(pending, pic)
  <2>1. Push(e, pic.cap) /\ pending' = None /\ first = None /\ pending # None
    BY <1>1, <1>10 DEF Place, PlaceField, OrderInv, Conforms, Completes
  <2>2. e \in Entry /\ e.cvs = cvs /\ e.n = pushed /\ e.poc = Lesser(pending.poc, pic.poc)
    <3>1. e \in Entry /\ e.cvs = cvs /\ e.n = pushed
      BY <1>1, PairType, HoldsPair
    <3>2. e.poc = Lesser(OutputPoc(pending), OutputPoc(pic))
      BY DEF Pair, Alone
    <3>. QED
      BY <1>3, <1>5, <2>1, <3>1, <3>2
  <2>3. e.poc \in coded /\ Cardinality(After(coded, e.poc)) < pic.cap
    BY <1>3, <1>10, <2>2 DEF OrderInv, Reordered
  <2>4. e.poc = pending.poc \/ e.poc = pic.poc
    BY <2>2 DEF Lesser
  <2>5. (\A g \in Emitted : g.cvs = cvs => g.poc < e.poc) /\ e.poc \notin PocsOf(queue)
    BY <1>3, <1>5, <1>8, <2>1, <2>4
  <2>. HIDE DEF e
  <2>. QED
    BY <1>6, <1>8, <2>1, <2>2, <2>3, <2>5
<1>11. CASE pic.structure # "frame" /\ ~ Completes
  <2>1. /\ first = pic /\ pic.poc \in coded /\ Cardinality(After(coded, pic.poc)) < pic.cap
        /\ ~ (pending # None /\ Complementary(pending, pic))
    BY <1>1, <1>3, <1>11 DEF OrderInv, Conforms, Reordered, Completes
  <2>2. CASE pending = None
    <3>1. UNCHANGED <<queue, ready, pushed>> /\ pending' = pic
      BY <1>11, <2>2 DEF Place, PlaceField, NoPush
    <3>2. Emitted' = Emitted /\ Pushed' = Pushed /\ Waiting' = {pic} /\ Waiting = {pic}
      BY <1>1, <1>2, <2>2, <3>1 DEF Emitted, Pushed, Waiting
    <3>3. Conforms'
      BY <1>2, <1>3, <1>11, <2>1, <3>1, <3>2 DEF Conforms, OutputPoc
    <3>4. Counts'
      BY <1>1, <1>2, <1>3, <3>1, <3>2 DEF Counts
    <3>5. Reordered'
      BY <1>1, <1>2, <1>3, <2>1, <3>1, <3>2 DEF Reordered
    <3>6. Ascending(shown, ready, queue)'
      BY <1>2, <1>3, <3>1
    <3>. QED
      BY <3>2, <3>3, <3>4, <3>5, <3>6 DEF OrderInv
  <2>3. CASE pending # None
    <3>. DEFINE e == Alone(pending)
                S == coded \ {pic.poc}
    <3>1. Push(e, pic.cap) /\ pending' = pic
      BY <1>11, <2>1, <2>3 DEF Place, PlaceField
    <3>2. /\ e \in Entry /\ e.cvs = cvs /\ e.n = pushed /\ e.poc = pending.poc
      BY <1>1, <1>3, <1>5, <2>3, AloneType, HoldsAlone DEF Alone
    <3>3. /\ e.poc \in coded /\ Cardinality(After(S, e.poc)) < pic.cap /\ e.poc # pic.poc
      BY <1>1, <1>3, <1>11, <2>3, <3>2 DEF OrderInv, Reordered, Counts
    <3>4. (\A g \in Emitted : g.cvs = cvs => g.poc < e.poc) /\ e.poc \notin PocsOf(queue)
      BY <1>3, <1>5, <1>8, <2>3, <3>2
    <3>5. S \in SUBSET coded /\ PocsOf(queue) \subseteq S
      BY <1>5, <1>8
    <3>. HIDE DEF e, S
    <3>. QED
      BY <1>6, <1>11, <2>1, <3>1, <3>2, <3>3, <3>4, <3>5
  <2>. QED
    BY <2>2, <2>3
<1>. QED
  BY <1>9, <1>10, <1>11

\* Handing out a frame keeps the order.
LEMMA HandingOutOrder ==
  ASSUME Inv, OrderInv, ready # <<>>, ready' = Tail(ready), shown' = Append(shown, Head(ready)),
         UNCHANGED <<queue, cap, pending, eof, pic, cvs, coded, first>>,
         phase \in {"idle", "fetch"}, phase' = "idle"
  PROVE  OrderInv' /\ Pushed' = Pushed
<1>1. ready \in Seq(Entry) /\ shown \in Seq(Entry) /\ Ascending(shown, ready, queue)
  BY DEF Inv, Typed, OrderInv
<1>2. Head(ready) \in Entry
  BY <1>1
<1>3. Ascending(shown', ready', queue')
  BY <1>1, HandOutAscends
<1>4. Elements(ready) = Elements(ready') \cup {Head(ready)}
  BY <1>1, TailElements
<1>5. Elements(shown') = Elements(shown) \cup {Head(ready)}
  BY <1>1, <1>2, AppendElements
<1>6. Emitted' = Emitted
  BY <1>4, <1>5 DEF Emitted, Elements
<1>7. Waiting' = Waiting /\ Room' = Room /\ ~ Completes /\ ~ Completes'
  BY DEF Waiting, Room, Completes
<1>8. Conforms'
  BY <1>7 DEF OrderInv, Conforms, OutputPoc
<1>9. Counts'
  BY <1>6, <1>7 DEF OrderInv, Counts
<1>10. Reordered'
  BY <1>6, <1>7 DEF OrderInv, Reordered
<1>. QED
  BY <1>3, <1>6, <1>8, <1>9, <1>10 DEF OrderInv, Pushed

\* receive_frame keeps the order.
LEMMA ReceiveFrameOrder ==
  ASSUME Inv, OrderInv, ReceiveFrame
  PROVE  /\ OrderInv' /\ Pushed' = Pushed
         /\ ready # <<>> /\ shown' = Append(shown, Head(ready))
<1>1. Cardinality(queue) \in Nat /\ cap \in Nat /\ Cardinality(queue) <= cap
  BY FS_CardinalityType DEF Inv, Typed, Bounded
<1>2. ready # <<>> /\ phase = "idle"
  BY <1>1 DEF ReceiveFrame, Overfull
<1>. QED
  BY <1>2, HandingOutOrder DEF ReceiveFrame

\* receive_frame at EOF keeps the order.
LEMMA ReceiveAtEofOrder ==
  ASSUME OrderInv, ReceiveAtEof
  PROVE  OrderInv'
<1>1. /\ phase = "idle" /\ phase' = "fetch" /\ eof
      /\ UNCHANGED <<queue, cap, ready, pending, eof, pic, pics, pushed, cvs, coded, first, shown>>
  BY DEF ReceiveAtEof
<1>2. Waiting' = Waiting /\ Room' = Room /\ ~ Completes /\ ~ Completes' /\ Emitted' = Emitted
  BY <1>1 DEF Waiting, Room, Completes, Emitted
<1>3. Conforms'
  BY <1>1, <1>2 DEF OrderInv, Conforms, OutputPoc
<1>4. Counts' /\ Reordered'
  BY <1>1, <1>2 DEF OrderInv, Counts, Reordered
<1>5. Ascending(shown, ready, queue)'
  BY <1>1 DEF OrderInv, Ascending
<1>. QED
  BY <1>3, <1>4, <1>5 DEF OrderInv

\* The drain at EOF keeps the order.
LEMMA FetchBumpOrder ==
  ASSUME Inv, OnceInv, OrderInv, FetchStep, queue # {}
  PROVE  OrderInv' /\ shown' = shown
<1>1. /\ Typed /\ phase = "fetch" /\ Bump /\ eof /\ pending = None /\ pic = None
      /\ UNCHANGED <<cap, pending, eof, phase, pic, pics, pushed, cvs, coded, first, shown>>
  BY DEF FetchStep, Inv, OnceInv, InProgress, OrderInv, Conforms
<1>2. /\ \A g \in queue : g.cvs = cvs
      /\ \A e, g \in queue : e.poc = g.poc => e = g
      /\ \A g \in queue : g.poc \in coded
      /\ \A g \in Emitted : g.cvs = cvs => g.poc \in coded
      /\ Ascending(shown, ready, queue)
  BY <1>1, CurrentSequence DEF OrderInv, Counts
<1>3. /\ Ascending(shown', ready', queue') /\ queue' \subseteq queue
      /\ Lowest(queue) \in queue /\ Emitted' = Emitted \cup {Lowest(queue)}
  BY <1>1, <1>2, BumpOrder
<1>4. Waiting = {} /\ Waiting' = {} /\ ~ Completes /\ ~ Completes'
  BY <1>1 DEF Waiting, Completes
<1>5. Conforms'
  BY <1>1, <1>4 DEF OrderInv, Conforms, OutputPoc
<1>6. Counts' /\ Reordered'
  BY <1>1, <1>2, <1>3, <1>4 DEF Counts, Reordered
<1>. QED
  BY <1>1, <1>3, <1>5, <1>6 DEF OrderInv

\* flush keeps the order.
LEMMA FlushOrder ==
  ASSUME Inv, OnceInv, OrderInv, Flush
  PROVE  OrderInv'
<1>1. /\ phase = "idle" /\ pic = None /\ phase' = "idle" /\ pic' = None
      /\ eof' = TRUE /\ first' = None /\ UNCHANGED <<cap, pics, cvs, coded, shown>>
      /\ FlushPendingField
  BY DEF Flush, OnceInv, InProgress
<1>2. /\ Ascending(shown', ready', queue') /\ pending' = None
      /\ \A f, g \in queue' : f.poc = g.poc => f = g
      /\ \A g \in queue' : g.poc \in coded
      /\ \A g \in Emitted' : g.cvs = cvs => g.poc \in coded
  BY <1>1, FlushPendingFieldOrder
<1>3. Waiting' = {} /\ ~ Completes'
  BY <1>1, <1>2 DEF Waiting, Completes
<1>4. Conforms'
  BY <1>1, <1>2, <1>3 DEF OrderInv, Conforms, OutputPoc
<1>5. Counts' /\ Reordered'
  BY <1>1, <1>2, <1>3 DEF Counts, Reordered
<1>. QED
  BY <1>2, <1>4, <1>5 DEF OrderInv

\* The state without frames is in order.
LEMMA NothingOrder ==
  ASSUME queue = {}, ready = <<>>, shown = <<>>, pending = None, pic = None, first = None,
         coded = {}, phase = "idle", ~ eof
  PROVE  OrderInv
<1>1. Emitted = {} /\ Waiting = {} /\ ~ Completes
  BY DEF Emitted, Waiting, Completes
<1>2. Conforms
  BY <1>1, FS_EmptySet DEF Conforms
<1>3. Counts /\ Reordered
  BY <1>1 DEF Counts, Reordered
<1>. QED
  BY <1>2, <1>3 DEF OrderInv, Ascending

\* reset leaves a state without frames.
LEMMA ResetOrder ==
  ASSUME OnceInv, Reset
  PROVE  OrderInv' /\ Pushed' = {} /\ shown' = <<>>
<1>1. /\ queue' = {} /\ ready' = <<>> /\ shown' = <<>> /\ pending' = None /\ pic' = None
      /\ first' = None /\ coded' = {} /\ phase' = "idle" /\ eof' = FALSE
  BY DEF Reset, OnceInv, InProgress
<1>2. Emitted' = {} /\ Waiting' = {} /\ ~ Completes' /\ Pushed' = {}
  BY <1>1 DEF Emitted, Waiting, Completes, Pushed
<1>3. Conforms'
  BY <1>1, <1>2, FS_EmptySet DEF Conforms, OutputPoc
<1>4. Counts' /\ Reordered'
  BY <1>1, <1>2 DEF Counts, Reordered
<1>. QED
  BY <1>1, <1>2, <1>3, <1>4 DEF OrderInv, Ascending

\* A step that changes nothing keeps the order.
LEMMA StutterOrder ==
  ASSUME OrderInv, UNCHANGED vars
  PROVE  OrderInv'
<1>1. /\ UNCHANGED <<queue, cap, ready, pending, eof, phase, pic, cvs, coded, first, shown>>
  BY DEF vars
<1>2. Waiting' = Waiting /\ Room' = Room /\ (Completes' <=> Completes) /\ Emitted' = Emitted
  BY <1>1 DEF Waiting, Room, Completes, Emitted
<1>3. Conforms'
  BY <1>1, <1>2 DEF OrderInv, Conforms, OutputPoc
<1>4. Counts'
  BY <1>1, <1>2 DEF OrderInv, Counts
<1>5. Reordered'
  BY <1>1, <1>2 DEF OrderInv, Reordered
<1>6. Ascending(shown, ready, queue)'
  BY <1>1 DEF OrderInv, Ascending
<1>. QED
  BY <1>3, <1>4, <1>5, <1>6 DEF OrderInv

-----------------------------------------------------------------------------
(* The refinement. *)

\* A frame pushed after all that were bumped is decoded in time.
LEMMA DecodeStep ==
  ASSUME shown' = shown, NEW e, e \notin Pushed, Pushed' = Pushed \cup {e},
         \A g \in Emitted : Order!Earlier(g, e)
  PROVE  Order!Decode
<1>1. \A i \in DOMAIN shown : Order!Earlier(shown[i], e)
  BY DEF Emitted
<1>. QED
  BY <1>1 DEF Order!Decode

\* The front of ready is the frame whose turn it is.
LEMMA ShowStep ==
  ASSUME Inv, OnceInv, OrderInv, ready # <<>>, shown' = Append(shown, Head(ready)),
         Pushed' = Pushed
  PROVE  Order!Show
<1>1. /\ ready \in Seq(Entry) /\ Distinct(queue, ready, shown) /\ Ascending(shown, ready, queue)
  BY DEF Inv, Typed, OnceInv, OrderInv
<1>2. 1 \in DOMAIN ready /\ Head(ready) = ready[1] /\ DOMAIN ready = 1 .. Len(ready)
      /\ Len(ready) \in Nat
  BY <1>1
<1>3. ready[1] \in Pushed /\ \A i \in DOMAIN shown : shown[i] # ready[1]
  BY <1>1, <1>2 DEF Pushed, Emitted, Distinct, Elements
<1>4. ready[1] \in Order!Waiting
  BY <1>3 DEF Order!Waiting
<1>5. ASSUME NEW g \in Order!Waiting
      PROVE  g = ready[1] \/ Order!Earlier(ready[1], g)
  <2>1. g \in Pushed /\ \A i \in DOMAIN shown : shown[i] # g
    BY DEF Order!Waiting
  <2>2. CASE g \in queue
    BY <1>1, <1>2, <2>2 DEF Ascending
  <2>3. CASE g \notin queue
    <3>1. PICK i \in DOMAIN ready : g = ready[i]
      BY <2>1, <2>3 DEF Pushed, Emitted
    <3>2. i = 1 \/ 1 < i
      BY <1>2
    <3>. QED
      BY <1>1, <1>2, <3>1, <3>2 DEF Ascending
  <2>. QED
    BY <2>2, <2>3
<1>. QED
  BY <1>2, <1>4, <1>5 DEF Order!Show

\* Every step of a conforming stream keeps the order, and is a step of
\* DisplayOrder or changes neither the decoded nor the shown frames.
LEMMA StepRefines ==
  ASSUME OrderedStream, Inv, OnceInv, OrderInv, [Next]_vars
  PROVE  OrderInv' /\ [Order!Next]_<<Pushed, shown>>
<1>1. ASSUME NEW p \in Headers, StreamMayCode(p), BeginOutput(p)
      PROVE  OrderInv' /\ [Order!Next]_<<Pushed, shown>>
  <2>1. OrderInv'
    BY <1>1, BeginSequenceOrder, BeginSecondOrder, BeginFrameOrder
  <2>2. phase = "idle" /\ shown' = shown
    BY <1>1 DEF BeginOutput
  <2>3. CASE DrainsPrior(p)
    <3>1. FlushPendingField
      BY <1>1, <2>3 DEF BeginOutput
    <3>2. Pushed' # Pushed => \E e : /\ e \notin Pushed /\ Pushed' = Pushed \cup {e}
                                    /\ \A g \in Emitted : Order!Earlier(g, e)
      BY <2>2, <3>1, FlushPendingFieldOrder
    <3>. QED
      BY <2>1, <2>2, <3>2, DecodeStep DEF Order!Next
  <2>4. CASE ~ DrainsPrior(p)
    <3>1. Pushed' = Pushed
      BY <1>1, <2>4 DEF BeginOutput, NoPush, Pushed, Emitted
    <3>. QED
      BY <2>1, <2>2, <3>1
  <2>. QED
    BY <2>3, <2>4
<1>2. CASE Drain
  <2>1. Pushed' = Pushed /\ shown' = shown
    BY <1>2, BumpOnce DEF Drain, Inv, OnceInv
  <2>. QED
    BY <1>2, <2>1, DrainOrder
<1>3. CASE Drained
  <2>1. Pushed' = Pushed /\ shown' = shown
    BY <1>3 DEF Drained, Pushed, Emitted
  <2>. QED
    BY <1>3, <2>1, DrainedOrder
<1>4. CASE Shrink
  BY <1>4, NeverShrinks
<1>5. CASE Place
  <2>1. /\ OrderInv'
        /\ Pushed' # Pushed => \E e : /\ e \notin Pushed /\ Pushed' = Pushed \cup {e}
                                      /\ \A g \in Emitted : Order!Earlier(g, e)
    BY <1>5, PlaceOrder
  <2>2. shown' = shown
    BY <1>5 DEF Place
  <2>. QED
    BY <2>1, <2>2, DecodeStep DEF Order!Next
<1>6. CASE ReceiveFrame
  BY <1>6, ReceiveFrameOrder, ShowStep DEF Order!Next
<1>7. CASE ReceiveAtEof
  <2>1. Pushed' = Pushed /\ shown' = shown
    BY <1>7 DEF ReceiveAtEof, Pushed, Emitted
  <2>. QED
    BY <1>7, <2>1, ReceiveAtEofOrder
<1>8. CASE FetchStep
  <2>1. CASE queue # {}
    <3>1. OrderInv' /\ shown' = shown
      BY <1>8, <2>1, FetchBumpOrder
    <3>2. Pushed' = Pushed
      BY <1>8, <2>1, <3>1, BumpOnce DEF FetchStep, Inv, OnceInv
    <3>. QED
      BY <3>1, <3>2
  <2>2. CASE queue = {}
    <3>1. /\ ready # <<>> /\ phase = "fetch" /\ phase' = "idle"
          /\ ready' = Tail(ready) /\ shown' = Append(shown, Head(ready))
          /\ UNCHANGED <<queue, cap, pending, eof, pic, cvs, coded, first>>
      BY <1>8, <2>2 DEF FetchStep, Inv, FetchHasFrame
    <3>2. OrderInv' /\ Pushed' = Pushed
      BY <3>1, HandingOutOrder
    <3>. QED
      BY <3>1, <3>2, ShowStep DEF Order!Next
  <2>. QED
    BY <2>1, <2>2
<1>9. CASE Flush
  <2>1. phase = "idle" /\ shown' = shown /\ FlushPendingField
    BY <1>9 DEF Flush
  <2>2. Pushed' # Pushed => \E e : /\ e \notin Pushed /\ Pushed' = Pushed \cup {e}
                                  /\ \A g \in Emitted : Order!Earlier(g, e)
    BY <2>1, FlushPendingFieldOrder
  <2>. QED
    BY <1>9, <2>1, <2>2, FlushOrder, DecodeStep DEF Order!Next
<1>10. CASE Reset
  BY <1>10, ResetOrder DEF Order!Next, Order!Restart
<1>11. CASE UNCHANGED vars
  <2>1. Pushed' = Pushed /\ shown' = shown
    BY <1>11 DEF vars, Pushed, Emitted
  <2>. QED
    BY <1>11, <2>1, StutterOrder
<1>. QED
  BY <1>1, <1>2, <1>3, <1>4, <1>5, <1>6, <1>7, <1>8, <1>9, <1>10, <1>11 DEF Next

\* The order holds of every conforming stream.
LEMMA OrderInvariance ==
  ASSUME OrderedStream
  PROVE  Spec => []OrderInv
<1>1. Init => OrderInv
  BY NothingOrder DEF Init
<1>2. Inv /\ OnceInv /\ OrderInv /\ [Next]_vars => OrderInv'
  BY StepRefines
<1>. QED
  BY <1>1, <1>2, Invariance, OnceInvariance, PTL DEF Spec

\* "Frames are emitted in display (POC) order": for every stream that conforms
\* and reorders by less than the capacity of the queue, receive_frame returns
\* the frames in the order of their sequences and POCs.
THEOREM ShownInOrderCorrect ==
  ASSUME OrderedStream
  PROVE  Spec => []ShownInOrder
<1>1. OrderInv => ShownInOrder
  BY DEF OrderInv, Ascending, ShownInOrder
<1>. QED
  BY <1>1, OrderInvariance, PTL

\* For such a stream the output side implements DisplayOrder.
THEOREM DisplaysInOrderCorrect ==
  ASSUME OrderedStream
  PROVE  Spec => DisplaysInOrder
<1>1. Init => Order!Init
  BY DEF Init, Order!Init, Pushed, Emitted
<1>2. Inv /\ OnceInv /\ OrderInv /\ [Next]_vars => [Order!Next]_<<Pushed, shown>>
  BY StepRefines
<1>. QED
  BY <1>1, <1>2, Invariance, OnceInvariance, OrderInvariance, PTL
  DEF Spec, DisplaysInOrder, Order!Spec

-----------------------------------------------------------------------------
(* Frames are made of the fields coded for them. *)

\* The frames of the stream: those of the queued, bumped and shown entries are
\* not those of the pictures that wait, which are two but for a completed pair.
PairInv ==
  /\ PairsAreFrames
  /\ \A e \in Pushed : \A s \in e.sources : s.frame < pics
  /\ \A x \in Waiting : x.frame < pics /\ \A e \in Pushed : \A s \in e.sources : s.frame # x.frame
  /\ pending # None /\ pic # None => (pending.frame = pic.frame <=> Completes)

\* A new entry of a frame that no other is of.
LEMMA PushPairs ==
  ASSUME PairsAreFrames, NEW e, Pushed' = Pushed \cup {e}, NEW frame,
         \A s \in e.sources : s.frame = frame,
         \A g \in Pushed : \A s \in g.sources : s.frame # frame
  PROVE  PairsAreFrames'
BY DEF PairsAreFrames

\* The fields of the entries made of one picture and of two.
LEMMA EntryFrames ==
  ASSUME NEW p, NEW q
  PROVE  /\ \A s \in Alone(p).sources : s.frame = p.frame
         /\ \A s \in Pair(p, q).sources : s.frame \in {p.frame, q.frame}
BY DEF Alone, Pair

\* The flush of the pending field.
LEMMA FlushPendingFieldPairs ==
  ASSUME Inv, OnceInv, PairInv, pic = None, FlushPendingField, shown' = shown
  PROVE  /\ PairsAreFrames'
         /\ \A e \in Pushed' : \A s \in e.sources : s.frame < pics
<1>1. CASE pending = None
  <2>1. Pushed' = Pushed
    BY <1>1 DEF FlushPendingField, NoPush, Pushed, Emitted
  <2>. QED
    BY <2>1 DEF PairInv, PairsAreFrames
<1>2. CASE pending # None
  <2>1. Push(Alone(pending), cap) /\ pending \in Waiting
    BY <1>2 DEF FlushPendingField, Waiting
  <2>2. /\ Typed /\ Distinct(queue, ready, shown) /\ Numbered(Pushed, pushed)
        /\ Alone(pending) \in Entry /\ Alone(pending).n = pushed /\ cap \in Nat \ {0}
    BY AloneType, HoldsAlone DEF Inv, OnceInv, Typed
  <2>3. Pushed' = Pushed \cup {Alone(pending)}
    BY <2>1, <2>2, PushOnce
  <2>4. /\ pending.frame < pics
        /\ \A e \in Pushed : \A s \in e.sources : s.frame # pending.frame /\ s.frame < pics
    BY <2>1 DEF PairInv
  <2>5. \A s \in Alone(pending).sources : s.frame = pending.frame
    BY EntryFrames
  <2>6. PairsAreFrames'
    BY <2>3, <2>4, <2>5, PushPairs DEF PairInv
  <2>. QED
    BY <2>3, <2>4, <2>5, <2>6
<1>. QED
  BY <1>1, <1>2

\* What the flush of the pending field leaves is well typed.
LEMMA PushedFlushed ==
  ASSUME Inv, phase = "idle", FlushPendingField, shown' = shown
  PROVE  Pushed' \subseteq Entry
<1>1. queue' \in SUBSET Entry /\ ready' \in Seq(Entry)
  BY FlushPendingFieldInv
<1>2. shown' \in Seq(Entry)
  BY DEF Inv, Typed
<1>. QED
  BY <1>1, <1>2 DEF Pushed, Emitted

\* The next picture is of a frame of its own, or of the pending field's.
LEMMA BeginOutputPairs ==
  ASSUME OrderedStream, Inv, OnceInv, OrderInv, OrderInv', PairInv,
         NEW p \in Headers, StreamMayCode(p), BeginOutput(p)
  PROVE  PairInv'
<1>1. /\ phase = "idle" /\ first = pending /\ pic = None /\ p # None /\ p \in Pic
  BY HeaderConforms
<1>2. /\ pic' = p /\ pics' = pics + 1 /\ shown' = shown /\ pics \in Nat
      /\ first' = IF p.structure # "frame" /\ ~ IsSecondField(p) THEN p ELSE None
      /\ p.frame = IF IsSecondField(p) THEN pending.frame ELSE pics
  BY <1>1 DEF BeginOutput, Inv, Typed, Headers
<1>3. CASE DrainsPrior(p)
  <2>1. FlushPendingField /\ phase' = "drain" /\ ~ IsSecondField(p)
    BY <1>3 DEF BeginOutput, DrainsPrior, IsSecondField, StartsSequence
  <2>2. /\ PairsAreFrames' /\ pending' = None
        /\ \A e \in Pushed' : \A s \in e.sources : s.frame < pics
    BY <1>1, <1>2, <2>1, FlushPendingFieldPairs, FlushPendingFieldOrder
  <2>3. Waiting' = {p}
    BY <1>1, <1>2, <2>2 DEF Waiting
  <2>4. \A e \in Pushed' : \A s \in e.sources : s.frame < pics + 1 /\ s.frame # pics
    <3>. SUFFICES ASSUME NEW e \in Pushed', NEW s \in e.sources
         PROVE  s.frame < pics + 1 /\ s.frame # pics
      OBVIOUS
    <3>1. e \in Entry
      BY <1>1, <1>2, <2>1, PushedFlushed
    <3>2. s.frame \in Int
      BY <3>1 DEF Entry
    <3>. QED
      BY <1>2, <2>2, <3>2
  <2>. QED
    BY <1>2, <2>1, <2>2, <2>3, <2>4 DEF PairInv
<1>4. CASE ~ DrainsPrior(p)
  <2>1. phase' = "place" /\ UNCHANGED <<queue, ready, pushed, pending>>
    BY <1>4 DEF BeginOutput, NoPush
  <2>2. Pushed' = Pushed /\ Waiting' = Waiting \cup {p}
    BY <1>1, <1>2, <2>1 DEF Pushed, Emitted, Waiting
  <2>3. pending # None => (IsSecondField(p) <=> Completes')
    <3>1. ~ (p.structure = "frame" /\ IsSecondField(p)) /\ (p.structure = "frame" => ~ Completes')
      <4>1. IsSecondField(p) => p.structure \in {"top", "bottom"}
        BY DEF IsSecondField, Opposite
      <4>. QED
        BY <1>2, <4>1 DEF Completes
    <3>2. p.structure # "frame" => first' = IF Completes' THEN None ELSE p
      BY <1>2, <2>1 DEF OrderInv, Conforms
    <3>. QED
      BY <1>1, <1>2, <3>1, <3>2
  <2>4. ASSUME NEW x \in Waiting PROVE x.frame \in Int /\ x.frame < pics
    BY DEF PairInv, Waiting, Inv, Typed, Pic
  <2>5. ASSUME NEW e \in Pushed, NEW s \in e.sources PROVE s.frame \in Int /\ s.frame < pics
    <3>1. e \in Entry
      BY PushedEntries DEF Inv
    <3>. QED
      BY <3>1 DEF PairInv, Entry
  <2>6. IsSecondField(p) => pending \in Waiting
    BY <1>1 DEF IsSecondField, Waiting
  <2>7. \A x \in Waiting' : /\ x.frame < pics + 1
                           /\ \A e \in Pushed : \A s \in e.sources : s.frame # x.frame
    <3>. SUFFICES ASSUME NEW x \in Waiting \cup {p}
         PROVE  /\ x.frame < pics + 1
                /\ \A e \in Pushed : \A s \in e.sources : s.frame # x.frame
      BY <2>2
    <3>1. CASE x \in Waiting
      BY <1>2, <2>4, <3>1 DEF PairInv
    <3>2. CASE x = p /\ IsSecondField(p)
      BY <1>2, <2>4, <2>6, <3>2 DEF PairInv
    <3>3. CASE x = p /\ ~ IsSecondField(p)
      BY <1>2, <2>5, <3>3
    <3>. QED
      BY <3>1, <3>2, <3>3
  <2>8. pending # None => (pending.frame = p.frame <=> Completes')
    <3>1. pending # None => pending \in Waiting
      BY DEF Waiting
    <3>2. pending # None => pending.frame # pics
      BY <1>2, <2>4, <3>1
    <3>. QED
      BY <1>2, <2>3, <3>2
  <2>9. \A e \in Pushed : \A s \in e.sources : s.frame < pics + 1
    BY <1>2, <2>5
  <2>10. PairsAreFrames'
    BY <2>2 DEF PairInv, PairsAreFrames
  <2>. QED
    BY <1>2, <2>1, <2>2, <2>7, <2>8, <2>9, <2>10 DEF PairInv
<1>. QED
  BY <1>3, <1>4

\* Placing a picture.
LEMMA PlacePairs ==
  ASSUME Inv, OnceInv, OrderInv, PairInv, Place
  PROVE  PairInv'
<1>1. /\ Typed /\ Distinct(queue, ready, shown) /\ Numbered(Pushed, pushed)
      /\ pic \in Pic /\ pending \in Pic /\ pushed \in Nat /\ pic.cap \in Nat \ {0}
      /\ pic # None /\ (pending # None => pending # pic) /\ phase = "place"
      /\ pic \in Waiting /\ (pending # None => pending \in Waiting)
      /\ pics' = pics /\ pic' = None /\ shown' = shown /\ PairsAreFrames
  BY DEF Inv, Typed, Pic, OnceInv, InProgress, Place, Waiting, PairInv
<1>2. \A x \in Waiting : /\ x.frame < pics
                        /\ \A e \in Pushed : \A s \in e.sources : s.frame # x.frame
  BY DEF PairInv
<1>3. \A e \in Pushed : \A s \in e.sources : s.frame < pics
  BY DEF PairInv
<1>4. ASSUME NEW e \in Entry, e.n = pushed, Push(e, pic.cap), NEW x \in Waiting,
             \A s \in e.sources : s.frame = x.frame,
             \A y \in Waiting' : y \in Waiting /\ y.frame # x.frame
      PROVE  PairInv'
  <2>1. Pushed' = Pushed \cup {e}
    BY <1>1, <1>4, PushOnce
  <2>2. PairsAreFrames'
    BY <1>1, <1>2, <1>4, <2>1, PushPairs
  <2>3. \A g \in Pushed' : \A s \in g.sources : s.frame < pics
    BY <1>2, <1>3, <1>4, <2>1
  <2>4. \A y \in Waiting' : /\ y.frame < pics
                           /\ \A g \in Pushed' : \A s \in g.sources : s.frame # y.frame
    BY <1>2, <1>4, <2>1
  <2>. QED
    BY <1>1, <2>2, <2>3, <2>4 DEF PairInv
<1>5. /\ Alone(pic) \in Entry /\ Alone(pic).n = pushed
      /\ Alone(pending) \in Entry /\ Alone(pending).n = pushed
      /\ Pair(pending, pic) \in Entry /\ Pair(pending, pic).n = pushed
  BY <1>1, AloneType, PairType, HoldsAlone, HoldsPair
<1>6. CASE pic.structure = "frame"
  <2>1. Push(Alone(pic), pic.cap) /\ pending' = None
    BY <1>1, <1>6 DEF Place, OrderInv, Conforms
  <2>2. Waiting' = {}
    BY <1>1, <2>1 DEF Waiting
  <2>3. \A s \in Alone(pic).sources : s.frame = pic.frame
    BY EntryFrames
  <2>. QED
    BY <1>1, <1>4, <1>5, <2>1, <2>2, <2>3
<1>7. CASE Completes
  <2>1. Push(Pair(pending, pic), pic.cap) /\ pending' = None /\ pending # None
    BY <1>1, <1>7 DEF Place, PlaceField, Completes
  <2>2. Waiting' = {}
    BY <1>1, <2>1 DEF Waiting
  <2>3. pending.frame = pic.frame
    BY <1>1, <1>7, <2>1 DEF PairInv
  <2>4. \A s \in Pair(pending, pic).sources : s.frame = pic.frame
    BY <2>3, EntryFrames
  <2>. QED
    BY <1>1, <1>4, <1>5, <2>1, <2>2, <2>4
<1>8. CASE pic.structure # "frame" /\ ~ Completes /\ pending # None
  <2>1. Push(Alone(pending), pic.cap) /\ pending' = pic
    BY <1>1, <1>8 DEF Place, PlaceField, Completes
  <2>2. Waiting' = {pic}
    BY <1>1, <2>1 DEF Waiting
  <2>3. pending.frame # pic.frame
    BY <1>1, <1>8 DEF PairInv
  <2>4. \A s \in Alone(pending).sources : s.frame = pending.frame
    BY EntryFrames
  <2>. QED
    BY <1>1, <1>4, <1>5, <1>8, <2>1, <2>2, <2>3, <2>4
<1>9. CASE pic.structure # "frame" /\ pending = None
  <2>1. UNCHANGED <<queue, ready, pushed>> /\ pending' = pic
    BY <1>9 DEF Place, PlaceField, NoPush
  <2>2. Pushed' = Pushed /\ Waiting' = {pic} /\ Waiting = {pic}
    BY <1>1, <1>9, <2>1 DEF Pushed, Emitted, Waiting
  <2>3. PairsAreFrames'
    BY <1>1, <2>2 DEF PairsAreFrames
  <2>. QED
    BY <1>1, <1>2, <1>3, <2>2, <2>3 DEF PairInv
<1>. QED
  BY <1>6, <1>7, <1>8, <1>9

\* Steps that push nothing and finalize nothing.
LEMMA StillPairs ==
  ASSUME PairInv, Pushed' = Pushed, UNCHANGED <<pending, pic, pics>>,
         Completes' <=> Completes
  PROVE  PairInv'
<1>1. Waiting' = Waiting /\ (PairsAreFrames' <=> PairsAreFrames)
  BY DEF Waiting, PairsAreFrames
<1>. QED
  BY <1>1 DEF PairInv

\* "Frames are made of the fields coded for them": for every stream that
\* conforms, a frame handed out or still queued is made of the fields of one
\* frame of the stream, and no two of them share one (handle_field_output).
THEOREM PairsAreFramesCorrect ==
  ASSUME OrderedStream
  PROVE  Spec => []PairsAreFrames
<1>1. ASSUME Init PROVE PairInv
  <2>1. Pushed = {} /\ Waiting = {} /\ pic = None
    BY <1>1 DEF Init, Pushed, Emitted, Waiting
  <2>. QED
    BY <2>1 DEF PairInv, PairsAreFrames
<1>2. ASSUME Inv, OnceInv, OrderInv, OrderInv', PairInv, [Next]_vars
      PROVE  PairInv'
  <2>1. CASE \E p \in Headers : StreamMayCode(p) /\ BeginOutput(p)
    BY <1>2, <2>1, BeginOutputPairs
  <2>2. CASE Drain
    BY <1>2, <2>2, BumpOnce, StillPairs DEF Drain, Inv, OnceInv, Completes
  <2>3. CASE Drained
    <3>1. pending = None /\ Pushed' = Pushed
      BY <1>2, <2>3 DEF Drained, Inv, OneSequence, Pushed, Emitted
    <3>. QED
      BY <1>2, <2>3, <3>1, StillPairs DEF Drained, Completes
  <2>4. CASE Shrink
    BY <1>2, <2>4, NeverShrinks
  <2>5. CASE Place
    BY <1>2, <2>5, PlacePairs
  <2>6. CASE ReceiveFrame
    BY <1>2, <2>6, ReceiveFrameOrder, StillPairs DEF ReceiveFrame, Completes
  <2>7. CASE ReceiveAtEof
    <3>1. Pushed' = Pushed
      BY <2>7 DEF ReceiveAtEof, Pushed, Emitted
    <3>. QED
      BY <1>2, <2>7, <3>1, StillPairs DEF ReceiveAtEof, Completes
  <2>8. CASE FetchStep
    <3>1. phase = "fetch" /\ UNCHANGED <<pending, pic, pics>> /\ ~ Completes /\ ~ Completes'
      BY <2>8 DEF FetchStep, Completes
    <3>2. CASE queue # {}
      <4>1. Pushed' = Pushed
        BY <1>2, <2>8, <3>2, BumpOnce DEF FetchStep, Inv, OnceInv
      <4>. QED
        BY <1>2, <3>1, <4>1, StillPairs
    <3>3. CASE queue = {}
      <4>1. /\ ready # <<>> /\ phase' = "idle"
            /\ ready' = Tail(ready) /\ shown' = Append(shown, Head(ready))
            /\ UNCHANGED <<queue, cap, pending, eof, pic, cvs, coded, first>>
        BY <1>2, <2>8, <3>3 DEF FetchStep, Inv, FetchHasFrame
      <4>2. Pushed' = Pushed
        BY <1>2, <3>1, <4>1, HandingOutOrder
      <4>. QED
        BY <1>2, <3>1, <4>2, StillPairs
    <3>. QED
      BY <3>2, <3>3
  <2>9. CASE Flush
    <3>1. /\ phase = "idle" /\ pic = None /\ pic' = None /\ pics' = pics /\ shown' = shown
          /\ FlushPendingField
      BY <1>2, <2>9 DEF Flush, OnceInv, InProgress
    <3>2. /\ PairsAreFrames' /\ pending' = None
          /\ \A e \in Pushed' : \A s \in e.sources : s.frame < pics
      BY <1>2, <3>1, FlushPendingFieldPairs, FlushPendingFieldOrder
    <3>3. Waiting' = {}
      BY <3>1, <3>2 DEF Waiting
    <3>. QED
      BY <3>1, <3>2, <3>3 DEF PairInv
  <2>10. CASE Reset
    <3>1. Pushed' = {} /\ pending' = None /\ pic' = None
      BY <1>2, <2>10, ResetOrder DEF Reset, OnceInv, InProgress
    <3>2. Waiting' = {}
      BY <3>1 DEF Waiting
    <3>. QED
      BY <3>1, <3>2 DEF PairInv, PairsAreFrames
  <2>11. CASE UNCHANGED vars
    <3>1. Pushed' = Pushed /\ (Completes' <=> Completes)
      BY <2>11 DEF vars, Pushed, Emitted, Completes
    <3>. QED
      BY <1>2, <2>11, <3>1, StillPairs DEF vars
  <2>. QED
    BY <1>2, <2>1, <2>2, <2>3, <2>4, <2>5, <2>6, <2>7, <2>8, <2>9, <2>10, <2>11 DEF Next
<1>3. PairInv => PairsAreFrames
  BY DEF PairInv
<1>. QED
  BY <1>1, <1>2, <1>3, Invariance, OnceInvariance, OrderInvariance, PTL DEF Spec
=================================================================================
