------------------------------- MODULE PocProofs -------------------------------
(***************************************************************************)
(* Proofs about Poc: for every width of frame_num, of pic_order_cnt_lsb    *)
(* and of integers, and every set of streams, the counts keep their types; *)
(* and where the streams are Recoverable, the decoder recovers the order   *)
(* the stream meant.                                                       *)
(*                                                                         *)
(* The argument: Follows says how far the decoder's state may be from the  *)
(* stream's in each phase - equal to its anchor (type 0), or a count of    *)
(* frames that wraps (types 1 and 2), or reset by an operation 5 whose     *)
(* picture the next one has not left yet.  That eq. 8-3 and the wraps of   *)
(* frame_num undo what the stream's % did is arithmetic (MsbCorrect,       *)
(* WrapCount); that eq. 8-8 to 8-10 sum the offsets that a cycle repeats   *)
(* is CycleSums.                                                           *)
(***************************************************************************)
EXTENDS Poc, NaturalsInduction, WellFoundedInduction, TLAPS


-----------------------------------------------------------------------------
(* Quotients and remainders. *)

\* Division by K with its remainder.
LEMMA ModFacts ==
  ASSUME NEW a \in Int, NEW K \in Nat \ {0}
  PROVE  a % K \in 0 .. K - 1 /\ (a \div K) \in Int /\ a = (K * (a \div K)) + (a % K)
OBVIOUS

\* A multiple of K is 0, K, -K or beyond.
LEMMA Times ==
  ASSUME NEW K \in Nat \ {0}, NEW d \in Int
  PROVE  /\ K * d \in Int
         /\ d >= 2 => K * d >= 2 * K
         /\ d <= -2 => K * d <= -(2 * K)
         /\ d = 1 => K * d = K
         /\ d = -1 => K * d = -K
         /\ d = 0 => K * d = 0
OBVIOUS

\* Multiples of K subtract.
LEMMA Diff ==
  ASSUME NEW K \in Nat \ {0}, NEW a \in Int, NEW b \in Int
  PROVE  K * (a - b) = (K * a) - (K * b)
OBVIOUS

\* Numbers less than K apart: their whole parts are equal or one K apart.
LEMMA Near ==
  ASSUME NEW K \in Nat \ {0}, NEW a \in Int, NEW b \in Int, b - a < K, a - b < K
  PROVE  \/ b - (b % K) = a - (a % K)
         \/ b - (b % K) = a - (a % K) + K
         \/ b - (b % K) = a - (a % K) - K
<1>. DEFINE d == (b \div K) - (a \div K)
            m == K * d
<1>1. d \in Int
  BY ModFacts
<1>2. (b - (b % K)) - (a - (a % K)) = m
  BY ModFacts, Diff
<1>3. /\ m \in Int
      /\ d >= 2 => m >= 2 * K
      /\ d <= -2 => m <= -(2 * K)
      /\ d = 1 => m = K
      /\ d = -1 => m = -K
      /\ d = 0 => m = 0
  <2>. HIDE DEF d
  <2>. QED
    BY <1>1, Times
<1>4. a % K \in 0 .. K - 1 /\ b % K \in 0 .. K - 1
  BY ModFacts
<1>. HIDE DEF d, m
<1>5. d <= 1 /\ d >= -1
  <2>. DEFINE r == a % K
              s == b % K
  <2>1. r \in 0 .. K - 1 /\ s \in 0 .. K - 1 /\ (b - s) - (a - r) = m
    BY <1>2, <1>4
  <2>. HIDE DEF r, s
  <2>. QED
    BY <1>1, <1>3, <2>1
<1>6. d = 0 \/ d = 1 \/ d = -1
  BY <1>1, <1>5
<1>. QED
  BY <1>1, <1>2, <1>3, <1>4, <1>6

\* Counting on from a by less than K, the remainder falls exactly when the
\* whole part grows by K.
LEMMA WrapCount ==
  ASSUME NEW K \in Nat \ {0}, NEW a \in Int, NEW b \in Int, a <= b, b - a < K
  PROVE  /\ a % K > b % K => b - (b % K) = a - (a % K) + K
         /\ a % K <= b % K => b - (b % K) = a - (a % K)
<1>. DEFINE r == a % K
            s == b % K
<1>1. r \in 0 .. K - 1 /\ s \in 0 .. K - 1
  BY ModFacts
<1>2. a - b < K
  OBVIOUS
<1>3. b - s = a - r \/ b - s = a - r + K \/ b - s = a - r - K
  BY <1>2, Near
<1>. HIDE DEF r, s
<1>4. (r > s => b - s = a - r + K) /\ (r <= s => b - s = a - r)
  BY <1>1, <1>3
<1>. QED
  BY <1>4 DEF r, s

\* Quotient and remainder are unique.
LEMMA ModUnique ==
  ASSUME NEW K \in Nat \ {0}, NEW a \in Int, NEW q \in Int, NEW r \in 0 .. K - 1, a = (K * q) + r
  PROVE  a % K = r /\ a \div K = q
<1>. DEFINE d == (a \div K) - q
            m == K * d
<1>1. m = r - (a % K) /\ d \in Int
  BY ModFacts, Diff
<1>2. /\ m \in Int
      /\ (d >= 2 => m >= 2 * K) /\ (d <= -2 => m <= -(2 * K))
      /\ (d = 1 => m = K) /\ (d = -1 => m = -K)
  <2>. HIDE DEF d
  <2>. QED
    BY <1>1, Times
<1>3. a % K \in 0 .. K - 1
  BY ModFacts
<1>4. d = 0
  <2>. HIDE DEF d, m
  <2>. QED
    BY <1>1, <1>2, <1>3
<1>. QED
  BY <1>4, ModFacts

\* A number below K is its own remainder.
LEMMA ModSmall ==
  ASSUME NEW K \in Nat \ {0}, NEW n \in 0 .. K - 1
  PROVE  n % K = n
<1>1. n = (K * 0) + n /\ n \in Int
  OBVIOUS
<1>. QED
  BY <1>1, ModUnique

\* A 32-bit subtraction that wraps ends in 32 bits, and one that does not
\* overflow is exact.
LEMMA WrappedFacts ==
  ASSUME NEW x \in Int
  PROVE  Wrapped(x) \in Int32 /\ (x \in Int32 => Wrapped(x) = x)
<1>. DEFINE K == 2 * (IntMax + 1)
            y == x + IntMax + 1
            r == y % K
<1>1. K \in Nat \ {0} /\ y \in Int /\ IntMax \in Nat
  BY PocAssumption
<1>2. Wrapped(x) = r - IntMax - 1
  BY DEF Wrapped
<1>3. r \in 0 .. K - 1 /\ (y \in 0 .. K - 1 => r = y)
  <2>. HIDE DEF K, y
  <2>. QED
    BY <1>1, ModFacts, ModSmall
<1>. HIDE DEF r
<1>. QED
  BY <1>1, <1>2, <1>3 DEF Int32

\* How quotient and remainder of the next number follow.
LEMMA NextDivMod ==
  ASSUME NEW n \in Nat, NEW L \in Nat \ {0}
  PROVE  /\ n % L < L - 1 => (n + 1) \div L = n \div L /\ (n + 1) % L = (n % L) + 1
         /\ n % L = L - 1 => (n + 1) \div L = (n \div L) + 1 /\ (n + 1) % L = 0
<1>. DEFINE q == n \div L
            r == n % L
<1>1. q \in Int /\ r \in 0 .. L - 1 /\ n = (L * q) + r
  BY ModFacts
<1>. HIDE DEF q, r
<1>2. CASE r < L - 1
  <2>1. n + 1 = (L * q) + (r + 1) /\ r + 1 \in 0 .. L - 1 /\ n + 1 \in Int
    BY <1>1, <1>2
  <2>2. (n + 1) % L = r + 1 /\ (n + 1) \div L = q
    <3>. DEFINE m == n + 1
                s == r + 1
    <3>. HIDE DEF m, s
    <3>1. m = (L * q) + s /\ s \in 0 .. L - 1 /\ m \in Int
      BY <2>1 DEF m, s
    <3>2. m % L = s /\ m \div L = q
      BY <1>1, <3>1, ModUnique
    <3>. QED
      BY <3>2 DEF m, s
  <2>. QED
    BY <1>2, <2>2 DEF q, r
<1>3. CASE r = L - 1
  <2>. DEFINE p == q + 1
  <2>1. n + 1 = (L * p) + 0 /\ 0 \in 0 .. L - 1 /\ n + 1 \in Int /\ p \in Int
    BY <1>1, <1>3
  <2>2. (n + 1) % L = 0 /\ (n + 1) \div L = p
    <3>. DEFINE m == n + 1
    <3>. HIDE DEF m, p
    <3>1. m = (L * p) + 0 /\ 0 \in 0 .. L - 1 /\ m \in Int /\ p \in Int
      BY <2>1 DEF m
    <3>2. m % L = 0 /\ m \div L = p
      BY <3>1, ModUnique
    <3>. QED
      BY <3>2 DEF m
  <2>. QED
    BY <1>3, <2>2 DEF q, r, p
<1>. QED
  BY <1>1, <1>2, <1>3 DEF r, q

-----------------------------------------------------------------------------
(* Sums. *)

\* Induction over the naturals, for a set.
LEMMA Induction ==
  ASSUME NEW S, 0 \in S, \A n \in Nat : n \in S => n + 1 \in S
  PROVE  \A n \in Nat : n \in S
<1>. DEFINE Left == {n \in Nat : n \notin S}
<1>. SUFFICES ASSUME NEW k \in Left PROVE FALSE
  OBVIOUS
<1>1. IsWellFoundedOn({ss \in Nat \X Nat : ss[1] < ss[2]}, Nat)
  BY NatLessThanWellFounded, Zenon DEF OpToRel
<1>2. Left \subseteq Nat
  OBVIOUS
<1>3. PICK m \in Left : \A j \in Left : ~ (<<j, m>> \in {ss \in Nat \X Nat : ss[1] < ss[2]})
  <2>. HIDE DEF Left
  <2>. QED
    BY <1>1, <1>2, WFMin
<1>4. \A j \in Left : m <= j
  <2>. SUFFICES ASSUME NEW j \in Left PROVE ~ (j < m)
    OBVIOUS
  <2>. QED
    BY <1>3
<1>5. m - 1 \in Nat /\ m - 1 \notin Left
  BY <1>4
<1>. QED
  BY <1>5

\* s holds the sums of the first elements of f, up to n elements.
SumsTo(f, s, n) == s = [i \in 0 .. n |-> IF i = 0 THEN 0 ELSE s[i - 1] + f[i]]

\* Such sums exist for every number of elements ...
LEMMA SumsToExist ==
  ASSUME NEW f
  PROVE  \A n \in Nat : \E s : SumsTo(f, s, n)
<1>. DEFINE S == {n \in Nat : \E s : SumsTo(f, s, n)}
<1>1. 0 \in S
  <2>. DEFINE s == [i \in 0 .. 0 |-> 0]
  <2>1. SumsTo(f, s, 0)
    BY DEF SumsTo
  <2>. QED
    BY <2>1
<1>2. ASSUME NEW n \in Nat, n \in S
      PROVE  n + 1 \in S
  <2>1. PICK s : SumsTo(f, s, n)
    BY <1>2
  <2>. DEFINE t == [i \in 0 .. n + 1 |-> IF i = n + 1 THEN s[n] + f[n + 1] ELSE s[i]]
  <2>2. \A i \in 0 .. n : s[i] = IF i = 0 THEN 0 ELSE s[i - 1] + f[i]
    BY <2>1 DEF SumsTo
  <2>3. \A i \in 0 .. n + 1 : t[i] = IF i = 0 THEN 0 ELSE t[i - 1] + f[i]
    <3>. SUFFICES ASSUME NEW i \in 0 .. n + 1 PROVE t[i] = IF i = 0 THEN 0 ELSE t[i - 1] + f[i]
      OBVIOUS
    <3>1. CASE i = n + 1
      <4>1. n \in 0 .. n + 1 /\ n # n + 1 /\ (n + 1) - 1 = n /\ n + 1 # 0
        OBVIOUS
      <4>. QED
        BY <3>1, <4>1
    <3>2. CASE i # n + 1
      <4>1. i \in 0 .. n /\ (i # 0 => i - 1 \in 0 .. n + 1 /\ i - 1 # n + 1)
        BY <3>2
      <4>. QED
        BY <2>2, <3>2, <4>1
    <3>. QED
      BY <3>1, <3>2
  <2>4. SumsTo(f, t, n + 1)
    <3>. DEFINE u == [i \in 0 .. n + 1 |-> IF i = 0 THEN 0 ELSE t[i - 1] + f[i]]
    <3>1. t = u
      BY <2>3
    <3>. HIDE DEF t
    <3>. QED BY <3>1 DEF SumsTo
  <2>. HIDE DEF t
  <2>. QED
    BY <2>4
<1>. HIDE DEF S
<1>3. \A n \in Nat : n \in S
  BY <1>1, <1>2, Induction
<1>. QED
  BY <1>3 DEF S

\* ... and agree where they overlap.
LEMMA SumsToAgree ==
  ASSUME NEW f, NEW n \in Nat, NEW m \in Nat, NEW s, NEW t, SumsTo(f, s, n), SumsTo(f, t, m)
  PROVE  \A i \in Nat : i <= n /\ i <= m => s[i] = t[i]
<1>. DEFINE S == {i \in Nat : i <= n /\ i <= m => s[i] = t[i]}
<1>1. (\A i \in 0 .. n : s[i] = IF i = 0 THEN 0 ELSE s[i - 1] + f[i])
       /\ (\A i \in 0 .. m : t[i] = IF i = 0 THEN 0 ELSE t[i - 1] + f[i])
  BY DEF SumsTo
<1>2. 0 \in S
  BY <1>1
<1>3. ASSUME NEW i \in Nat, i \in S
      PROVE  i + 1 \in S
  <2>. SUFFICES ASSUME i + 1 <= n /\ i + 1 <= m PROVE s[i + 1] = t[i + 1]
    OBVIOUS
  <2>1. i + 1 \in 0 .. n /\ i + 1 \in 0 .. m /\ (i + 1) - 1 = i /\ i + 1 # 0 /\ s[i] = t[i]
    BY <1>3
  <2>. QED
    BY <1>1, <2>1
<1>. HIDE DEF S
<1>4. \A i \in Nat : i \in S
  BY <1>2, <1>3, Induction
<1>. QED
  BY <1>4 DEF S

\* SumsOf is defined: each sum adds one element to the one before.
LEMMA SumsOfStep ==
  ASSUME NEW f
  PROVE  /\ SumsOf(f)[0] = 0
         /\ \A n \in Nat : SumsOf(f)[n + 1] = SumsOf(f)[n] + f[n + 1]
<1>. DEFINE Part(n) == CHOOSE s : SumsTo(f, s, n)
            F == [n \in Nat |-> Part(n)[n]]
            IsSums(s) == s = [n \in Nat |-> IF n = 0 THEN 0 ELSE s[n - 1] + f[n]]
<1>1. \A n \in Nat : SumsTo(f, Part(n), n)
  BY SumsToExist
<1>2. \A n \in Nat : \A i \in 0 .. n : Part(n)[i] = IF i = 0 THEN 0 ELSE Part(n)[i - 1] + f[i]
  <2>. HIDE DEF Part
  <2>. QED BY <1>1 DEF SumsTo
<1>3. \A n \in Nat \ {0} : Part(n)[n - 1] = Part(n - 1)[n - 1]
  <2>. SUFFICES ASSUME NEW n \in Nat \ {0} PROVE Part(n)[n - 1] = Part(n - 1)[n - 1]
    OBVIOUS
  <2>1. n - 1 \in Nat /\ n - 1 <= n /\ n \in Nat /\ n - 1 <= n - 1
    OBVIOUS
  <2>. HIDE DEF Part
  <2>. QED
    BY <1>1, <2>1, SumsToAgree
<1>4. IsSums(F)
  <2>1. \A n \in Nat : F[n] = IF n = 0 THEN 0 ELSE F[n - 1] + f[n]
    <3>. SUFFICES ASSUME NEW n \in Nat PROVE F[n] = IF n = 0 THEN 0 ELSE F[n - 1] + f[n]
      OBVIOUS
    <3>. HIDE DEF Part
    <3>1. n \in 0 .. n /\ (n # 0 => n - 1 \in Nat)
      OBVIOUS
    <3>. QED
      BY <1>2, <1>3, <3>1
  <2>. DEFINE G == [n \in Nat |-> IF n = 0 THEN 0 ELSE F[n - 1] + f[n]]
  <2>2. F = G
    <3>. HIDE DEF Part
    <3>. QED
      BY <2>1
  <2>. HIDE DEF F
  <2>. QED BY <2>2
<1>. HIDE DEF F
<1>5. IsSums(SumsOf(f))
  <2>1. SumsOf(f) = CHOOSE s : IsSums(s)
    BY DEF SumsOf
  <2>2. \E s : IsSums(s) BY <1>4
  <2>. HIDE DEF IsSums
  <2>. QED
    BY <2>1, <2>2
<1>. DEFINE s == SumsOf(f)
<1>. HIDE DEF s
<1>6. \A n \in Nat : s[n] = IF n = 0 THEN 0 ELSE s[n - 1] + f[n]
  BY <1>5 DEF s
<1>7. s[0] = 0
  BY <1>6
<1>8. ASSUME NEW n \in Nat
      PROVE  s[n + 1] = s[n] + f[n + 1]
  <2>1. n + 1 \in Nat /\ n + 1 # 0 /\ (n + 1) - 1 = n
    OBVIOUS
  <2>. QED
    BY <1>6, <2>1
<1>. QED
  BY <1>7, <1>8 DEF s

\* Sums of integers are integers.
LEMMA SumsOfInt ==
  ASSUME NEW f, NEW L \in Nat, \A i \in 1 .. L : f[i] \in Int
  PROVE  \A n \in 0 .. L : SumsOf(f)[n] \in Int
<1>. DEFINE s == SumsOf(f)
            S == {n \in Nat : n <= L => s[n] \in Int}
<1>. HIDE DEF s
<1>0. s[0] = 0 /\ \A n \in Nat : s[n + 1] = s[n] + f[n + 1]
  BY SumsOfStep DEF s
<1>1. 0 \in S
  BY <1>0
<1>2. ASSUME NEW n \in Nat, n \in S
      PROVE  n + 1 \in S
  <2>. SUFFICES ASSUME n + 1 <= L PROVE s[n + 1] \in Int
    OBVIOUS
  <2>1. s[n] \in Int /\ f[n + 1] \in Int
    BY <1>2
  <2>2. s[n + 1] = s[n] + f[n + 1]
    BY <1>0
  <2>. QED
    BY <2>1, <2>2
<1>. HIDE DEF S
<1>3. \A n \in Nat : n \in S
  BY <1>1, <1>2, Induction
<1>4. \A n \in 0 .. L : s[n] \in Int
  BY <1>3 DEF S
<1>. QED
  BY <1>4 DEF s

\* A cycle of L elements summed up: whole cycles, and the elements of the last.
LEMMA CycleSums ==
  ASSUME NEW f, NEW L \in Nat \ {0}, \A i \in 1 .. L : f[i] \in Int,
         NEW g, g = [n \in Nat \ {0} |-> f[((n - 1) % L) + 1]]
  PROVE  \A n \in Nat :
           SumsOf(g)[n + 1] = (n \div L) * SumsOf(f)[L] + SumsOf(f)[(n % L) + 1]
<1>. DEFINE s == SumsOf(f)
            t == SumsOf(g)
            Claim(n) == t[n + 1] = (n \div L) * s[L] + s[(n % L) + 1]
            S == {n \in Nat : Claim(n)}
<1>. HIDE DEF s, t
<1>1. /\ s[0] = 0 /\ \A n \in Nat : s[n + 1] = s[n] + f[n + 1]
      /\ t[0] = 0 /\ \A n \in Nat : t[n + 1] = t[n] + g[n + 1]
  BY SumsOfStep DEF s, t
<1>2. \A n \in 0 .. L : s[n] \in Int
  BY SumsOfInt DEF s
<1>3. \A n \in Nat : g[n + 1] = f[(n % L) + 1]
  <2>. SUFFICES ASSUME NEW n \in Nat PROVE g[n + 1] = f[(n % L) + 1]
    OBVIOUS
  <2>1. n + 1 \in Nat \ {0} /\ (n + 1) - 1 = n
    OBVIOUS
  <2>. QED
    BY <2>1
<1>4. s[1] = f[1]
  <2>1. s[0 + 1] = s[0] + f[0 + 1]
    BY <1>1
  <2>. QED
    BY <1>1, <2>1
<1>5. 0 \in S
  <2>1. 0 % L = 0 /\ 0 \div L = 0
    <3>1. 0 = (L * 0) + 0 /\ 0 \in 0 .. L - 1
      OBVIOUS
    <3>. QED
      BY <3>1, ModUnique
  <2>2. t[0 + 1] = t[0] + g[0 + 1] /\ g[0 + 1] = f[(0 % L) + 1]
    BY <1>1, <1>3
  <2>3. t[0 + 1] = f[1]
    <3>1. (0 % L) + 1 = 1 /\ f[1] \in Int
      BY <2>1
    <3>2. g[0 + 1] = f[1]
      BY <2>2, <3>1
    <3>3. t[0] = 0 /\ t[0 + 1] = t[0] + g[0 + 1]
      BY <1>1, <2>2
    <3>4. t[0 + 1] = 0 + f[1]
      BY <3>2, <3>3, Zenon
    <3>. QED
      BY <3>1, <3>4
  <2>4. s[L] \in Int /\ s[1] \in Int
    BY <1>2
  <2>5. (0 \div L) * s[L] + s[(0 % L) + 1] = s[1]
    BY <2>1, <2>4
  <2>. QED
    BY <1>4, <2>3, <2>5
<1>6. ASSUME NEW n \in Nat, n \in S
      PROVE  n + 1 \in S
  <2>. DEFINE q == n \div L
              r == n % L
  <2>1. q \in Int /\ r \in 0 .. L - 1
    BY ModFacts
  <2>2. t[n + 1] = q * s[L] + s[r + 1]
    BY <1>6
  <2>3. t[(n + 1) + 1] = t[n + 1] + f[((n + 1) % L) + 1]
    <3>1. n + 1 \in Nat
      OBVIOUS
    <3>2. g[(n + 1) + 1] = f[((n + 1) % L) + 1]
      BY <1>3, <3>1
    <3>3. t[(n + 1) + 1] = t[n + 1] + g[(n + 1) + 1]
      BY <1>1, <3>1
    <3>. QED
      BY <3>2, <3>3
  <2>4. s[L] \in Int /\ s[r + 1] \in Int
    BY <1>2, <2>1
  <2>5. CASE r < L - 1
    <3>1. (n + 1) \div L = q /\ (n + 1) % L = r + 1
      BY <2>5, NextDivMod
    <3>. HIDE DEF q, r
    <3>2. s[(r + 1) + 1] = s[r + 1] + f[(r + 1) + 1]
      BY <1>1, <2>1
    <3>3. f[(r + 1) + 1] \in Int
      BY <2>1, <2>5
    <3>4. q * s[L] \in Int
      BY <2>1, <2>4
    <3>5. t[(n + 1) + 1] = q * s[L] + s[(r + 1) + 1]
      <4>. DEFINE x == q * s[L]
                  y == s[r + 1]
                  z == f[(r + 1) + 1]
      <4>1. t[(n + 1) + 1] = (x + y) + z /\ s[(r + 1) + 1] = y + z
        BY <2>2, <2>3, <3>1, <3>2
      <4>2. x \in Int /\ y \in Int /\ z \in Int
        BY <2>4, <3>3, <3>4
      <4>. HIDE DEF x, y, z
      <4>3. t[(n + 1) + 1] = x + s[(r + 1) + 1]
        BY <4>1, <4>2
      <4>. QED
        BY <4>3 DEF x
    <3>. QED
      BY <3>1, <3>5
  <2>6. CASE r = L - 1
    <3>1. (n + 1) \div L = q + 1 /\ (n + 1) % L = 0
      BY <2>6, NextDivMod
    <3>. HIDE DEF q, r
    <3>2. r + 1 = L
      BY <2>6
    <3>3. t[(n + 1) + 1] = (q * s[L] + s[L]) + f[1]
      <4>1. ((n + 1) % L) + 1 = 1
        BY <3>1
      <4>2. t[(n + 1) + 1] = t[n + 1] + f[1]
        BY <2>3, <4>1
      <4>3. t[n + 1] = q * s[L] + s[L]
        BY <2>2, <3>2
      <4>. QED
        BY <4>2, <4>3
    <3>4. (q + 1) * s[L] = q * s[L] + s[L] /\ q * s[L] \in Int
      BY <2>1, <2>4
    <3>5. t[(n + 1) + 1] = (q + 1) * s[L] + s[1]
      BY <1>4, <3>3, <3>4
    <3>6. ((n + 1) % L) + 1 = 1
      BY <3>1
    <3>7. Claim(n + 1)
      BY <3>1, <3>5, <3>6
    <3>. HIDE DEF Claim
    <3>. QED
      BY <3>7
  <2>. QED
    BY <2>1, <2>5, <2>6
<1>. HIDE DEF S
<1>7. \A n \in Nat : n \in S
  BY <1>5, <1>6, Induction
<1>. QED
  BY <1>7 DEF S, s, t

-----------------------------------------------------------------------------
(* Types. *)

\* What every header of a stream satisfies.
LEMMA HeaderFacts ==
  ASSUME sps \in Streams, NEW h \in Headers
  PROVE  /\ h.idr \in BOOLEAN /\ h.ref \in BOOLEAN /\ h.mmco5 \in BOOLEAN
         /\ h.structure \in sps.structures
         /\ h.abs \in Nat
         /\ h.delta[1] \in sps.deltas /\ h.delta[2] \in sps.deltas
         /\ h.frameNum = h.abs % MaxFrameNum
         /\ h.lsb = h.order % MaxLsb
         /\ h.order \in Orders(h)
         /\ StreamMayCode(h)
<1>. DEFINE With(g, o) == [g EXCEPT !.order = o, !.lsb = o % MaxLsb, !.frameNum = g.abs % MaxFrameNum]
            Kept(g) == {x \in Orders(g) : g.idr => StartsAtZero([g EXCEPT !.order = x])}
            Coders == {g \in Variants : StreamMayCode(g)}
<1>0. Headers = UNION {{With(g, o) : o \in Kept(g)} : g \in Coders}
  BY DEF Headers
<1>1. PICK g \in Coders : \E o \in Kept(g) : h = With(g, o)
  <2>. HIDE DEF With, Kept, Coders
  <2>. QED
    BY <1>0
<1>9. PICK o \in Orders(g) : h = With(g, o)
  <2>. HIDE DEF With
  <2>. QED
    BY <1>1
<1>2. sps \in Stream
  BY PocAssumption
<1>3. /\ h.idr = g.idr /\ h.ref = g.ref /\ h.mmco5 = g.mmco5 /\ h.structure = g.structure
      /\ h.abs = g.abs /\ h.delta = g.delta
      /\ h.order = o /\ h.lsb = o % MaxLsb /\ h.frameNum = g.abs % MaxFrameNum
  BY <1>9 DEF Variants
<1>4. /\ g.idr \in BOOLEAN /\ g.ref \in BOOLEAN /\ g.mmco5 \in BOOLEAN
      /\ g.structure \in sps.structures /\ g.abs \in 0 .. sps.maxAbs
      /\ g.delta \in sps.deltas \X sps.deltas
  BY DEF Variants
<1>5. Orders(h) = Orders(g)
  BY <1>3 DEF Orders
<1>6. IsSecondField(h) <=> IsSecondField(g)
  BY <1>3 DEF IsSecondField
<1>7. StreamMayCode(h)
  BY <1>9, <1>3, <1>6 DEF StreamMayCode
<1>8. g.abs \in Nat
  BY <1>2, <1>4 DEF Stream
<1>. QED
  BY <1>9, <1>3, <1>4, <1>5, <1>7, <1>8

\* The types of the parameters of a stream.
LEMMA StreamFacts ==
  ASSUME sps \in Streams
  PROVE  /\ sps.type \in {0, 1, 2}
         /\ sps.nonRefOffset \in Int /\ sps.topToBottom \in Int
         /\ sps.refOffsets \in Seq(Int)
         /\ sps.gaps \in BOOLEAN /\ sps.drops \in BOOLEAN
         /\ sps.structures \subseteq {"frame", "top", "bottom"}
         /\ sps.mmco5 \subseteq {"frame", "top", "bottom"}
         /\ sps.deltas \subseteq Int
         /\ sps.maxOrder \in Nat
<1>1. sps \in Stream
  BY PocAssumption
<1>. QED
  BY <1>1 DEF Stream

\* The picture in progress, as far as its counts fit the type invariant.
PicTyped ==
  /\ pic.idr \in BOOLEAN /\ pic.ref \in BOOLEAN /\ pic.mmco5 \in BOOLEAN
  /\ pic.structure \in {"frame", "top", "bottom"}
  /\ pic.frameNum \in FrameNums
  /\ sps.type = 0 => pic.lsb \in 0 .. MaxLsb - 1

\* A picture that opens has its types.
LEMMA OpenedTyped ==
  ASSUME sps \in Streams, NEW h \in Headers, pic' = h, sps' = sps
  PROVE  PicTyped'
<1>1. /\ h.idr \in BOOLEAN /\ h.ref \in BOOLEAN /\ h.mmco5 \in BOOLEAN
      /\ h.structure \in {"frame", "top", "bottom"}
  BY HeaderFacts, StreamFacts
<1>2. h.frameNum \in FrameNums
  <2>1. h.abs \in Int /\ h.frameNum = h.abs % MaxFrameNum
    BY HeaderFacts
  <2>2. h.abs % MaxFrameNum \in 0 .. MaxFrameNum - 1
    BY <2>1, ModFacts, PocAssumption
  <2>. QED
    BY <2>1, <2>2 DEF FrameNums
<1>3. ASSUME sps.type = 0
      PROVE  h.lsb \in 0 .. MaxLsb - 1
  <2>1. h.order \in Int
    BY <1>3, HeaderFacts, StreamFacts DEF Orders
  <2>. QED
    BY <2>1, HeaderFacts, ModFacts, PocAssumption
<1>. QED
  BY <1>1, <1>2, <1>3 DEF PicTyped, FrameNums

\* PicOrderCnt( ) is one of the two counts.
LEMMA CountsTyped ==
  ASSUME NEW s \in {"frame", "top", "bottom"}, NEW t, NEW b, NEW S,
         Counts(s, t, b).top \in S, Counts(s, t, b).bottom \in S
  PROVE  Counts(s, t, b) \in [top : S, bottom : S, poc : S]
<1>1. CASE s = "frame"
  BY <1>1 DEF Counts, PicOrderCnt, Lesser
<1>2. CASE s = "top"
  BY <1>2 DEF Counts, PicOrderCnt
<1>3. CASE s = "bottom"
  BY <1>3 DEF Counts, PicOrderCnt
<1>. QED
  BY <1>1, <1>2, <1>3

\* FrameNumOffset never decreases below 0.
LEMMA OffsetTyped ==
  ASSUME TypeOK, PicTyped
  PROVE  FrameNumOffset(pic) \in Nat
<1>1. PrevFrameNumOffset \in Nat /\ PrevFrameNum \in Int /\ pic.frameNum \in Int
  BY DEF TypeOK, PicTyped, PrevFrameNumOffset, PrevFrameNum, FrameNums
<1>2. MaxFrameNum \in Nat
  BY PocAssumption
<1>. QED
  BY <1>1, <1>2 DEF FrameNumOffset, PicTyped

\* derive_poc keeps the types where the counts fit 32 bits.
LEMMA DerivedTyped ==
  ASSUME TypeOK, PicTyped, Fits(Derived(pic))
  PROVE  /\ Derived(pic).counts \in [top : Int32, bottom : Int32, poc : Int32]
         /\ Derived(pic).st \in
              [msb : Int32, lsb : 0 .. MaxLsb - 1, frameNum : FrameNums, offset : Nat]
<1>. DEFINE d == Derived(pic)
            StType == [msb : Int32, lsb : 0 .. MaxLsb - 1, frameNum : FrameNums, offset : Nat]
<1>1. d.counts.top \in Int32 /\ d.counts.bottom \in Int32 /\ \A x \in d.wide : x \in Int32
  BY DEF Fits
<1>2. st \in StType
  BY DEF TypeOK
<1>3. pic.structure \in {"frame", "top", "bottom"} /\ pic.frameNum \in FrameNums /\ pic.ref \in BOOLEAN
  BY DEF PicTyped
<1>4. StateOf(pic) \in StType
  BY <1>2, <1>3, OffsetTyped DEF StateOf
<1>5. CASE sps.type = 0
  <2>. DEFINE m == Msb(PrevOrder(pic), pic.lsb)
              t == m + pic.lsb
              b == IF pic.structure = "frame" THEN t + pic.delta[1] ELSE t
              c == Counts(pic.structure, t, b)
              s == IF pic.ref THEN [st EXCEPT !.msb = m, !.lsb = pic.lsb, !.frameNum = pic.frameNum]
                   ELSE [st EXCEPT !.frameNum = pic.frameNum]
  <2>1. d = [counts |-> c, wide |-> {m}, st |-> s]
    BY <1>5 DEF Derived, Type0
  <2>. HIDE DEF d, m, t, b, c, s
  <2>2. d.counts = c /\ d.st = s /\ m \in d.wide
    BY <2>1
  <2>3. c \in [top : Int32, bottom : Int32, poc : Int32]
    BY <1>1, <1>3, <2>2, CountsTyped DEF c
  <2>4. pic.lsb \in 0 .. MaxLsb - 1 /\ m \in Int32
    BY <1>1, <1>5, <2>2 DEF PicTyped
  <2>5. s \in StType
    BY <1>2, <1>3, <2>4 DEF s
  <2>. QED
    BY <2>2, <2>3, <2>5 DEF d
<1>6. CASE sps.type = 1
  <2>. DEFINE n == ExpectedCount(AbsFrameNum(pic)) + (IF pic.ref THEN 0 ELSE sps.nonRefOffset)
              t == n + pic.delta[1]
              b == IF pic.structure = "frame" THEN t + sps.topToBottom + pic.delta[2]
                   ELSE n + sps.topToBottom + pic.delta[1]
              c == Counts(pic.structure, t, b)
  <2>1. d = [counts |-> c, wide |-> {}, st |-> StateOf(pic)]
    BY <1>6 DEF Derived, Type1
  <2>. HIDE DEF d, c, t, b
  <2>2. d.counts = c /\ d.st = StateOf(pic)
    BY <2>1
  <2>3. c \in [top : Int32, bottom : Int32, poc : Int32]
    BY <1>1, <1>3, <2>2, CountsTyped DEF c
  <2>. QED
    BY <1>4, <2>2, <2>3 DEF d
<1>7. CASE sps.type = 2
  <2>. DEFINE n == Type2(pic).counts
  <2>1. \E t : n = Counts(pic.structure, t, t)
    BY DEF Type2
  <2>2. d.counts = n /\ d.st = StateOf(pic)
    BY <1>7 DEF Derived, Type2
  <2>. HIDE DEF d, n
  <2>3. n \in [top : Int32, bottom : Int32, poc : Int32]
    BY <1>1, <1>3, <2>1, <2>2, CountsTyped
  <2>. QED
    BY <1>4, <2>2, <2>3 DEF d
<1>. QED
  BY <1>5, <1>6, <1>7, StreamFacts DEF TypeOK

\* No picture in progress.
LEMMA NoHeaderTyped ==
  ASSUME sps' = sps, pic' = NoHeader
  PROVE  PicTyped'
BY PocAssumption DEF PicTyped, NoHeader, FrameNums

\* The type invariant is kept by every step.
LEMMA TypeStep ==
  ASSUME TypeOK, PicTyped, [Next]_vars
  PROVE  TypeOK' /\ PicTyped'
<1>. DEFINE StType == [msb : Int32, lsb : 0 .. MaxLsb - 1, frameNum : FrameNums, offset : Nat]
<1>0. sps \in Streams /\ MaxFrameNum \in Nat \ {0} /\ MaxLsb \in Nat \ {0} /\ IntMax \in Nat
  BY PocAssumption DEF TypeOK
<1>1. Successor(prevRef) \in FrameNums /\ Successor(expected) \in FrameNums
  BY <1>0, ModFacts DEF TypeOK, Successor, FrameNums
<1>2. ASSUME NEW h \in Headers, Reject(h)
      PROVE  TypeOK' /\ PicTyped'
  <2>1. lost' \in BOOLEAN
    BY <1>0, <1>2, HeaderFacts DEF Reject, Coded, TypeOK
  <2>. QED
    BY <1>2, <2>1 DEF Reject, decoder, TypeOK, PicTyped, FrameNums, Int32
<1>3. ASSUME NEW h \in Headers, OpenPicture(h)
      PROVE  TypeOK' /\ PicTyped'
  <2>1. lost' \in BOOLEAN
    BY <1>0, <1>3, HeaderFacts DEF OpenPicture, Coded, TypeOK
  <2>2. pic' = h /\ UNCHANGED <<decoder, poc, stored>>
    BY <1>3 DEF OpenPicture
  <2>3. PicTyped'
    BY <1>0, <2>2, OpenedTyped DEF decoder
  <2>4. phase' \in {"idle", "gap", "derive", "open", "panicked"} /\ expected' \in FrameNums
    BY <1>1, <1>3 DEF OpenPicture, TypeOK
  <2>. QED
    BY <2>1, <2>2, <2>3, <2>4 DEF decoder, TypeOK, PicTyped, FrameNums, Int32
<1>4. ASSUME GapStep
      PROVE  TypeOK' /\ PicTyped'
  <2>1. GapState(expected) \in StType
    <3>1. /\ st \in StType /\ expected \in FrameNums
          /\ st.offset \in Nat /\ st.offset + MaxFrameNum \in Nat
      BY <1>0 DEF TypeOK
    <3>. QED
      BY <3>1 DEF GapState
  <2>. QED
    BY <1>1, <1>4, <2>1 DEF GapStep, stream, TypeOK, PicTyped, FrameNums, Int32
<1>5. ASSUME GapDone
      PROVE  TypeOK' /\ PicTyped'
  BY <1>0, <1>5 DEF GapDone, decoder, stream, TypeOK, PicTyped, FrameNums, Int32
<1>6. ASSUME DerivePoc
      PROVE  TypeOK' /\ PicTyped'
  BY <1>6, DerivedTyped DEF DerivePoc, stream, TypeOK, PicTyped, FrameNums, Int32
<1>7. ASSUME Close, UNCHANGED <<sps, expected>>
      PROVE  /\ PicTyped'
             /\ poc' \in [top : Int32, bottom : Int32, poc : Int32]
             /\ phase' \in {"idle", "gap", "derive", "open", "panicked"}
  <2>1. NoCounts \in [top : Int32, bottom : Int32, poc : Int32]
    BY <1>0 DEF NoCounts, Counts, PicOrderCnt, Lesser, Int32
  <2>. QED
    BY <1>7, <2>1, NoHeaderTyped DEF Close
<1>8. ASSUME Overflow \/ Drop
      PROVE  TypeOK' /\ PicTyped'
  <2>1. Close /\ UNCHANGED <<decoder, expected, stored>> /\ lost' \in BOOLEAN
    BY <1>8 DEF Overflow, Drop, Lost, TypeOK, PicTyped
  <2>. QED
    BY <1>7, <2>1 DEF decoder, TypeOK, PicTyped, FrameNums, Int32
<1>9. ASSUME FinalizeReference
      PROVE  TypeOK' /\ PicTyped'
  <2>1. poc \in [top : Int32, bottom : Int32, poc : Int32]
    BY DEF TypeOK
  <2>6. poc.top - poc.poc \in Int /\ poc.bottom - poc.poc \in Int /\ 0 \in Int32
    BY <1>0, <2>1 DEF Int32
  <2>7. Wrapped(poc.top - poc.poc) \in Int32 /\ Wrapped(poc.bottom - poc.poc) \in Int32
    BY <2>6, WrappedFacts
  <2>2. topFoc' \in Int32
    BY <1>9, <2>6, <2>7 DEF FinalizeReference, TopFocAfter
  <2>3. stored' \in [top : Int32, bottom : Int32, poc : Int32]
    <3>1. CASE ~ pic.mmco5
      BY <1>9, <2>1, <3>1 DEF FinalizeReference, StoredCounts
    <3>2. CASE pic.mmco5
      BY <1>9, <2>7, <3>2 DEF FinalizeReference, StoredCounts, Lesser
    <3>. QED
      BY <3>1, <3>2
  <2>4. prevRef' \in FrameNums \cup {-1} /\ hadMmco5' \in BOOLEAN
    BY <1>0, <1>9 DEF FinalizeReference, PicTyped, FrameNums
  <2>5. Close /\ UNCHANGED <<sps, st, expected, stream>>
    BY <1>9 DEF FinalizeReference
  <2>. QED
    BY <1>7, <2>2, <2>3, <2>4, <2>5 DEF stream, TypeOK, PicTyped, FrameNums, Int32
<1>10. ASSUME FinalizeNonReference
       PROVE  TypeOK' /\ PicTyped'
  BY <1>7, <1>10 DEF FinalizeNonReference, decoder, stream, TypeOK, PicTyped, FrameNums, Int32
<1>12. ASSUME FinalizePanics
       PROVE  TypeOK' /\ PicTyped'
  BY <1>12 DEF FinalizePanics, decoder, stream, TypeOK, PicTyped, FrameNums, Int32
<1>11. CASE UNCHANGED vars
  BY <1>11 DEF vars, decoder, stream, TypeOK, PicTyped, FrameNums, Int32
<1>. QED
  BY <1>2, <1>3, <1>4, <1>5, <1>6, <1>8, <1>9, <1>10, <1>11, <1>12 DEF Next

\* The types hold initially.
LEMMA TypeInit == Init => TypeOK /\ PicTyped
<1>1. 0 \in FrameNums /\ 0 \in Int32 /\ 0 \in 0 .. MaxLsb - 1
  BY PocAssumption DEF FrameNums, Int32
<1>2. NoCounts = [top |-> 0, bottom |-> 0, poc |-> 0]
  BY DEF NoCounts, Counts, PicOrderCnt, Lesser
<1>. SUFFICES ASSUME Init PROVE TypeOK /\ PicTyped
  OBVIOUS
<1>3. st \in [msb : Int32, lsb : 0 .. MaxLsb - 1, frameNum : FrameNums, offset : Nat]
  BY <1>1 DEF Init, NoState
<1>4. poc \in [top : Int32, bottom : Int32, poc : Int32] /\ stored \in [top : Int32, bottom : Int32, poc : Int32]
  BY <1>1, <1>2 DEF Init
<1>5. PicTyped
  BY <1>1 DEF Init, PicTyped, NoHeader
<1>6. hadMmco5 \in BOOLEAN /\ lost \in BOOLEAN
  BY DEF Init
<1>7. /\ sps \in Streams /\ topFoc \in Int32 /\ prevRef \in FrameNums \cup {-1}
      /\ phase \in {"idle", "gap", "derive", "open", "panicked"} /\ expected \in FrameNums
  BY <1>1 DEF Init
<1>. QED
  BY <1>3, <1>4, <1>5, <1>6, <1>7 DEF TypeOK, PicTyped

\* Whatever the stream codes, every count the decoder keeps is in 32 bits:
\* derive_poc refuses what does not fit, and the subtractions of operation 5,
\* which nothing refuses, wrap.  ResetsFitCorrect says where they do.
THEOREM TypeCorrect == Spec => []TypeOK
<1>1. TypeOK /\ PicTyped /\ [Next]_vars => (TypeOK /\ PicTyped)'
  BY TypeStep
<1>. QED
  BY <1>1, TypeInit, PTL DEF Spec

-----------------------------------------------------------------------------
(* The order is recovered: the invariant. *)

\* The number of the frame the state counted last.
Counted == st.offset + st.frameNum

\* Type 0: the state holds the order of the previous reference picture, or
\* operation 5 left it in topFoc; or the picture after operation 5 was dropped
\* and the gate refuses the next one.
AnchorKept ==
  \/ /\ hadMmco5
     /\ \/ anchor = topFoc /\ topFoc \in 0 .. MaxLsb - 1
        \/ sps.drops /\ absRef = 1
  \/ ~ hadMmco5 /\ st.msb + st.lsb = anchor /\ st.lsb = anchor % MaxLsb

\* Operation 5 is still to be told the next picture: its frame is number 0.
ResetKept ==
  hadMmco5 =>
    /\ sps.mmco5 # {}
    /\ sps.type # 0 \/ sps.drops => prevRef = 0 /\ absRef \in {0, 1}

\* The frame a second field would belong to.
SecondAbs == IF first.mmco5 THEN 0 ELSE first.abs

\* A field that awaits its second one belongs to the last frames coded.
FirstKept ==
  first # NoHeader =>
    /\ first.structure \in sps.structures /\ first.structure # "frame"
    /\ SecondAbs \in {absRef, absRef + 1}

\* Types 1 and 2: the state counts the frames of the stream, by frame_num and
\* FrameNumOffset.
CountKept ==
  /\ hadMmco5 /\ first # NoHeader => SecondAbs \in {0, 1}
  /\ ~ hadMmco5 =>
       /\ Counted % MaxFrameNum = st.frameNum
       /\ Counted \in {absRef, absRef + 1}
       /\ first # NoHeader => Counted = SecondAbs

\* Gaps: prev_ref_frame_num is the frame before the one the stream counts to.
GapsKept ==
  \/ Successor(prevRef) = (absRef + 1) % MaxFrameNum
  \/ Successor(prevRef) = absRef % MaxFrameNum /\ Counted = absRef

\* Between pictures.
IdleInv ==
  /\ ResetKept /\ FirstKept
  /\ sps.type = 0 => AnchorKept
  /\ sps.type # 0 => CountKept
  /\ sps.type # 0 /\ sps.gaps => GapsKept

\* The header of the picture in progress is one the stream coded.
PicKept ==
  /\ pic.abs \in Nat /\ pic.frameNum = pic.abs % MaxFrameNum
  /\ sps.type = 0 => pic.order \in Int /\ pic.lsb = pic.order % MaxLsb
  /\ sps.type # 0 => pic.order \in Orders(pic)
  /\ pic.delta[1] \in sps.deltas /\ pic.delta[2] \in sps.deltas
  /\ pic.structure \in sps.structures
  /\ pic.idr => pic.ref /\ pic.abs = 0
  /\ pic.mmco5 => pic.ref /\ ~ pic.idr /\ pic.structure \in sps.mmco5

\* The stream has moved on to the picture in progress.
PicCoded ==
  /\ pic.ref => absRef = IF pic.mmco5 THEN 0 ELSE pic.abs
  /\ pic.ref => anchor = IF pic.mmco5 THEN Rebased(pic) ELSE pic.order
  /\ ~ pic.ref => pic.abs \in {absRef, absRef + 1}
  /\ first = NoHeader \/ (first = pic /\ pic.structure # "frame")

\* The picture in progress is the first after operation 5.
PicReset ==
  hadMmco5 /\ ~ pic.idr =>
    /\ sps.mmco5 # {}
    /\ sps.type # 0 \/ sps.drops =>
         prevRef = 0 /\ absRef \in {0, 1} /\ pic.abs \in {0, 1}
    /\ sps.type = 0 /\ sps.drops => pic.abs = 1

\* While a picture is in progress.
PicInv ==
  /\ PicKept /\ PicCoded /\ PicReset
  /\ sps.type = 0 /\ ~ pic.ref => AnchorKept
  /\ sps.type # 0 /\ sps.gaps /\ ~ pic.idr /\ phase # "gap" => Successor(prevRef) = pic.frameNum

\* While gap frames are stepped: how far the state has counted.
GapInv ==
  /\ sps.gaps /\ ~ pic.idr /\ expected = Successor(prevRef)
  /\ sps.type # 0 =>
       /\ ~ hadMmco5
       /\ Counted % MaxFrameNum = st.frameNum
       /\ pic.abs - Counted < MaxFrameNum
       /\ \/ expected = Counted % MaxFrameNum /\ Counted <= pic.abs
          \/ expected = (Counted + 1) % MaxFrameNum /\ Counted < pic.abs

\* Before derive_poc: it will find what the stream meant.
Ready ==
  /\ sps.type = 0 => Msb(PrevOrder(pic), pic.lsb) + pic.lsb = pic.order
  /\ sps.type # 0 /\ phase = "derive" => FrameNumOffset(pic) + pic.frameNum = pic.abs

\* After derive_poc.
OpenInv ==
  /\ sps.type = 0 /\ pic.ref => st.msb + st.lsb = pic.order /\ st.lsb = pic.order % MaxLsb
  /\ sps.type # 0 => Counted = pic.abs /\ st.frameNum = pic.frameNum
  /\ RecoversOrder

\* The inductive invariant: the decoder follows the stream.
Follows ==
  /\ absRef \in Nat /\ (sps.type = 0 => anchor \in Int)
  /\ ~ lost =>
       /\ phase = "idle" => IdleInv
       /\ phase # "idle" => PicInv
       /\ phase = "gap" => GapInv
       /\ phase \in {"gap", "derive"} => Ready
       /\ phase \in {"open", "panicked"} => OpenInv
       /\ phase = "panicked" => pic.mmco5 /\ ResetOverflows(pic, poc)

-----------------------------------------------------------------------------
(* What derive_poc computes. *)

\* Half the range of pic_order_cnt_lsb.
LEMMA LsbFacts == MaxLsb = 2 * Half /\ Half \in Nat \ {0} /\ MaxLsb \div 2 = Half
<1>1. MaxLsb = (2 * (MaxLsb \div 2)) + (MaxLsb % 2) /\ MaxLsb \div 2 \in Int
  BY ModFacts, PocAssumption
<1>2. MaxLsb % 2 = 0 /\ MaxLsb \in Nat \ {0}
  BY PocAssumption
<1>. QED
  BY <1>1, <1>2 DEF Half

\* eq. 8-3: the most significant part is found for any count less than half
\* the range from the previous one.
LEMMA MsbCorrect ==
  ASSUME NEW a \in Int, NEW b \in Int, b - a \in -(Half - 1) .. Half
  PROVE  Msb([msb |-> a - (a % MaxLsb), lsb |-> a % MaxLsb], b % MaxLsb) + (b % MaxLsb) = b
<1>. DEFINE r == a % MaxLsb
            s == b % MaxLsb
            p == a - r
            q == b - s
<1>1. MaxLsb = 2 * Half /\ Half \in Nat \ {0} /\ MaxLsb \div 2 = Half
  BY LsbFacts
<1>2. r \in 0 .. MaxLsb - 1 /\ s \in 0 .. MaxLsb - 1
  BY <1>1, ModFacts, PocAssumption
<1>3. q = p \/ q = p + MaxLsb \/ q = p - MaxLsb
  <2>1. b - a < MaxLsb /\ a - b < MaxLsb /\ MaxLsb \in Nat \ {0}
    BY <1>1
  <2>. QED
    BY <2>1, Near
<1>4. Msb([msb |-> p, lsb |-> r], s) = IF r - s >= Half THEN p + MaxLsb
                                        ELSE IF s - r > Half THEN p - MaxLsb ELSE p
  <2>. HIDE DEF r, s, p
  <2>0. r - s >= Half => ~ (s - r > Half)
    BY <1>1, <1>2
  <2>. QED
    BY <1>1, <2>0 DEF Msb
<1>5. p + r = a /\ q + s = b /\ p \in Int /\ q \in Int
  BY <1>2
<1>. HIDE DEF r, s, p, q
<1>6. Msb([msb |-> p, lsb |-> r], s) + s = b
  BY <1>1, <1>2, <1>3, <1>4, <1>5
<1>. QED
  BY <1>6 DEF r, s, p

\* The frame_num after that of the n-th frame is that of the next.
LEMMA SuccessorMod ==
  ASSUME NEW n \in Nat
  PROVE  Successor(n % MaxFrameNum) = (n + 1) % MaxFrameNum
<1>. DEFINE r == n % MaxFrameNum
<1>1. r \in 0 .. MaxFrameNum - 1 /\ MaxFrameNum \in Nat \ {0}
  BY ModFacts, PocAssumption
<1>2. CASE r < MaxFrameNum - 1
  <2>1. (n + 1) % MaxFrameNum = r + 1
    BY <1>1, <1>2, NextDivMod
  <2>. HIDE DEF r
  <2>2. r + 1 = (MaxFrameNum * 0) + (r + 1) /\ r + 1 \in 0 .. MaxFrameNum - 1 /\ r + 1 \in Int
    BY <1>1, <1>2
  <2>3. (r + 1) % MaxFrameNum = r + 1
    <3>. DEFINE t == r + 1
    <3>. HIDE DEF t
    <3>1. t = (MaxFrameNum * 0) + t /\ t \in 0 .. MaxFrameNum - 1 /\ t \in Int
      BY <2>2 DEF t
    <3>2. t % MaxFrameNum = t
      BY <1>1, <3>1, ModUnique
    <3>. QED
      BY <3>2 DEF t
  <2>. QED
    BY <2>1, <2>3 DEF Successor, r
<1>3. CASE r = MaxFrameNum - 1
  <2>1. (n + 1) % MaxFrameNum = 0
    BY <1>1, <1>3, NextDivMod
  <2>. HIDE DEF r
  <2>2. MaxFrameNum = (MaxFrameNum * 1) + 0 /\ 0 \in 0 .. MaxFrameNum - 1 /\ r + 1 = MaxFrameNum
    BY <1>1, <1>3
  <2>3. MaxFrameNum % MaxFrameNum = 0
    BY <1>1, <2>2, ModUnique
  <2>4. (r + 1) % MaxFrameNum = 0
    BY <2>2, <2>3
  <2>. QED
    BY <2>1, <2>4 DEF Successor, r
<1>. QED
  BY <1>1, <1>2, <1>3

\* FrameNumOffset + frame_num is the number of the frame, where the state
\* counted at most MaxFrameNum - 1 frames less.
LEMMA OffsetCorrect ==
  ASSUME TypeOK, ~ hadMmco5, NEW h, ~ h.idr, h.abs \in Nat, h.frameNum = h.abs % MaxFrameNum,
         Counted % MaxFrameNum = st.frameNum, Counted <= h.abs,
         h.abs - Counted < MaxFrameNum
  PROVE  FrameNumOffset(h) + h.frameNum = h.abs
<1>. DEFINE c == Counted
            n == h.abs
            r == c % MaxFrameNum
            s == n % MaxFrameNum
<1>1. MaxFrameNum \in Nat \ {0} /\ st.offset \in Nat /\ st.frameNum \in Nat /\ n \in Nat
  BY PocAssumption DEF TypeOK, FrameNums
<1>2. /\ c \in Nat /\ c <= n /\ n - c < MaxFrameNum
      /\ c - r = st.offset /\ r = st.frameNum /\ s = h.frameNum
  BY <1>1 DEF Counted
<1>. HIDE DEF c, n
<1>7. MaxFrameNum \in Nat \ {0} /\ n \in Int /\ c \in Int
  BY <1>1, <1>2
<1>3. r \in 0 .. MaxFrameNum - 1 /\ s \in 0 .. MaxFrameNum - 1
  BY <1>7, ModFacts
<1>8. c <= n /\ n - c < MaxFrameNum
  BY <1>2
<1>4. /\ r > s => n - s = c - r + MaxFrameNum
      /\ r <= s => n - s = c - r
  BY <1>7, <1>8, WrapCount
<1>. HIDE DEF r, s
<1>5. /\ r > s => FrameNumOffset(h) = st.offset + MaxFrameNum
      /\ r <= s => FrameNumOffset(h) = st.offset
  BY <1>1, <1>2, <1>3 DEF FrameNumOffset, PrevFrameNum, PrevFrameNumOffset
<1>6. FrameNumOffset(h) + s = n
  BY <1>1, <1>2, <1>3, <1>4, <1>5
<1>. QED
  BY <1>2, <1>6 DEF n

\* Type 1: ExpectedDeltaPerPicOrderCntCycle and the cycle's offsets add what
\* the frames add one by one.
LEMMA ExpectedCorrect ==
  ASSUME sps \in Streams, NEW n \in Nat, sps.refOffsets = <<>> => n = 0
  PROVE  ExpectedCount(n) = SumsOf(OffsetOfFrame)[n] /\ ExpectedCount(n) \in Int
<1>. DEFINE f == sps.refOffsets
            L == Len(f)
<1>1. f \in Seq(Int)
  BY StreamFacts
<1>2. CASE n = 0
  <2>1. SumsOf(OffsetOfFrame)[0] = 0
    BY SumsOfStep
  <2>. QED
    BY <1>2, <2>1 DEF ExpectedCount
<1>3. CASE n # 0
  <2>1. f # <<>>
    BY <1>3
  <2>2. L \in Nat \ {0} /\ \A i \in 1 .. L : f[i] \in Int
    BY <1>1, <2>1
  <2>3. n - 1 \in Nat /\ (n - 1) + 1 = n
    BY <1>3
  <2>4. OffsetOfFrame = [i \in Nat \ {0} |-> f[((i - 1) % L) + 1]]
    BY DEF OffsetOfFrame
  <2>5. \A i \in 0 .. L : SumsOf(f)[i] \in Int
    <3>. HIDE DEF f, L
    <3>. QED
      BY <2>2, SumsOfInt
  <2>6. SumsOf(OffsetOfFrame)[(n - 1) + 1]
          = ((n - 1) \div L) * SumsOf(f)[L] + SumsOf(f)[((n - 1) % L) + 1]
    <3>. HIDE DEF f, L
    <3>. QED
      BY <2>2, <2>3, <2>4, CycleSums
  <2>7. ExpectedCount(n) = ((n - 1) \div L) * SumsOf(f)[L] + SumsOf(f)[((n - 1) % L) + 1]
    BY <1>3 DEF ExpectedCount, OffsetsUpTo
  <2>8. ExpectedCount(n) \in Int
    <3>. DEFINE q == (n - 1) \div L
                r == (n - 1) % L
                x == SumsOf(f)[L]
                y == SumsOf(f)[r + 1]
    <3>0. L \in Nat \ {0} /\ n - 1 \in Int
      BY <2>2, <2>3
    <3>1. q \in Int /\ r \in 0 .. L - 1
      <4>. HIDE DEF L
      <4>. QED
        BY <3>0, ModFacts
    <3>2. x \in Int /\ y \in Int
      <4>. HIDE DEF q, r, L, f
      <4>1. L \in 0 .. L /\ r + 1 \in 0 .. L
        BY <2>2, <3>1
      <4>. QED
        BY <2>5, <4>1
    <3>3. ExpectedCount(n) = q * x + y
      BY <2>7
    <3>. HIDE DEF q, r, x, y
    <3>. QED
      BY <3>1, <3>2, <3>3
  <2>. QED
    BY <2>3, <2>6, <2>7, <2>8
<1>. QED
  BY <1>2, <1>3

\* The counts derived are the orders the stream meant.
LEMMA DerivedOrder ==
  ASSUME TypeOK, PicTyped, PicKept, phase = "derive", Ready
  PROVE  Derived(pic).counts =
           Counts(pic.structure, pic.order,
                  IF pic.structure = "frame" THEN BottomOrder(pic) ELSE pic.order)
<1>1. /\ sps \in Streams /\ sps.type \in {0, 1, 2} /\ sps.nonRefOffset \in Int
      /\ sps.topToBottom \in Int /\ sps.deltas \subseteq Int
  BY StreamFacts DEF TypeOK
<1>2. /\ pic.structure \in {"frame", "top", "bottom"} /\ pic.abs \in Nat
      /\ pic.delta[1] \in Int /\ pic.delta[2] \in Int
      /\ pic.ref \in BOOLEAN /\ pic.idr \in BOOLEAN
  BY <1>1 DEF PicTyped, PicKept
<1>. DEFINE Meant == Counts(pic.structure, pic.order,
                       IF pic.structure = "frame" THEN BottomOrder(pic) ELSE pic.order)
<1>3. CASE sps.type = 0
  <2>1. Msb(PrevOrder(pic), pic.lsb) + pic.lsb = pic.order
    BY <1>3 DEF Ready
  <2>2. Derived(pic).counts =
          Counts(pic.structure, pic.order,
                 IF pic.structure = "frame" THEN pic.order + pic.delta[1] ELSE pic.order)
    BY <1>3, <2>1 DEF Derived, Type0
  <2>3. BottomOrder(pic) = pic.order + pic.delta[1]
    BY <1>3 DEF BottomOrder
  <2>. QED
    BY <2>2, <2>3
<1>4. CASE sps.type = 1
  <2>. DEFINE frames == IF sps.refOffsets = <<>> THEN 0
                        ELSE IF pic.ref \/ pic.abs = 0 THEN pic.abs ELSE pic.abs - 1
              e == ExpectedCount(frames)
              count == ExpectedCount(AbsFrameNum(pic)) + (IF pic.ref THEN 0 ELSE sps.nonRefOffset)
              top == count + pic.delta[1]
              bottom == IF pic.structure = "frame" THEN top + sps.topToBottom + pic.delta[2]
                        ELSE count + sps.topToBottom + pic.delta[1]
  <2>1. AbsFrameNum(pic) = frames
    BY <1>2, <1>4 DEF AbsFrameNum, Ready
  <2>2. frames \in Nat /\ (sps.refOffsets = <<>> => frames = 0)
    BY <1>2
  <2>3. e = SumsOf(OffsetOfFrame)[frames] /\ e \in Int
    <3>. HIDE DEF frames
    <3>. QED
      BY <1>1, <2>2, ExpectedCorrect
  <2>4. pic.order = SumsOf(OffsetOfFrame)[frames]
                      + pic.delta[1] + (IF pic.ref THEN 0 ELSE sps.nonRefOffset)
                      + (IF pic.structure = "bottom" THEN sps.topToBottom ELSE 0)
    BY <1>4 DEF PicKept, Orders
  <2>5. Derived(pic).counts = Counts(pic.structure, top, bottom)
    BY <1>4 DEF Derived, Type1
  <2>6. count = e + (IF pic.ref THEN 0 ELSE sps.nonRefOffset)
    BY <2>1
  <2>7. pic.order = e + pic.delta[1] + (IF pic.ref THEN 0 ELSE sps.nonRefOffset)
                      + (IF pic.structure = "bottom" THEN sps.topToBottom ELSE 0)
    BY <2>3, <2>4
  <2>. HIDE DEF count, e, frames
  <2>8. /\ pic.structure # "bottom" => top = pic.order
        /\ pic.structure = "bottom" => bottom = pic.order
        /\ pic.structure = "frame" => bottom = pic.order + sps.topToBottom + pic.delta[2]
    BY <1>1, <1>2, <2>3, <2>6, <2>7
  <2>9. BottomOrder(pic) = pic.order + sps.topToBottom + pic.delta[2]
    BY <1>4 DEF BottomOrder
  <2>. HIDE DEF top, bottom
  <2>10. Counts(pic.structure, top, bottom) = Meant
    BY <1>2, <2>8, <2>9 DEF Counts
  <2>. QED
    BY <2>5, <2>10
<1>5. CASE sps.type = 2
  <2>. DEFINE n == 2 * (FrameNumOffset(pic) + pic.frameNum)
              count == CASE pic.idr -> 0
                         [] ~ pic.idr /\ pic.ref   -> n
                         [] ~ pic.idr /\ ~ pic.ref -> n - 1
  <2>1. n = 2 * pic.abs
    BY <1>5 DEF Ready
  <2>2. pic.order = IF pic.ref THEN 2 * pic.abs ELSE 2 * pic.abs - 1
    BY <1>5 DEF PicKept, Orders
  <2>3. pic.idr => pic.ref /\ pic.abs = 0
    BY DEF PicKept
  <2>4. count = pic.order
    <3>. HIDE DEF n
    <3>. QED
      BY <1>2, <2>1, <2>2, <2>3
  <2>5. Derived(pic).counts = Counts(pic.structure, count, count)
    BY <1>5 DEF Derived, Type2
  <2>6. BottomOrder(pic) = pic.order
    BY <1>5 DEF BottomOrder
  <2>. HIDE DEF count
  <2>. QED
    BY <2>4, <2>5, <2>6
<1>. QED
  BY <1>1, <1>3, <1>4, <1>5

-----------------------------------------------------------------------------
(* The steps. *)

\* What the stream keeps of its previous reference picture has its type.
LEMMA CodedTyped ==
  ASSUME TypeOK, Follows, NEW h \in Headers, NEW r \in BOOLEAN, Coded(h, r)
  PROVE  absRef' \in Nat /\ (sps.type = 0 => anchor' \in Int) /\ lost' \in BOOLEAN
<1>1. /\ h.abs \in Nat /\ h.ref \in BOOLEAN /\ h.mmco5 \in BOOLEAN /\ h.idr \in BOOLEAN
      /\ h.order \in Orders(h) /\ h.delta[1] \in Int
  BY HeaderFacts, StreamFacts DEF TypeOK
<1>2. absRef \in Nat /\ (sps.type = 0 => anchor \in Int)
  BY DEF Follows
<1>3. absRef' \in Nat
  BY <1>1, <1>2 DEF Coded
<1>4. ASSUME sps.type = 0
      PROVE  anchor' \in Int
  <2>1. h.order \in Int
    BY <1>1, <1>4, StreamFacts DEF TypeOK, Orders
  <2>2. Rebased(h) \in Int
    BY <1>1, <1>4, <2>1 DEF Rebased, BottomOrder, Lesser
  <2>. QED
    BY <1>1, <1>2, <1>4, <2>1, <2>2 DEF Coded
<1>5. lost' \in BOOLEAN
  BY <1>1 DEF Coded, TypeOK
<1>. QED
  BY <1>3, <1>4, <1>5

\* A picture without operation 5 that is left behind: a non-reference picture
\* output, or a picture dropped.
LEMMA LeftKept ==
  ASSUME Recoverable, TypeOK, PicTyped, Follows, ~ lost, phase = "open",
         ~ pic.idr, ~ pic.mmco5, pic.ref => sps.drops
  PROVE  IdleInv
<1>1. /\ PicKept /\ PicCoded /\ PicReset
      /\ (sps.type = 0 /\ ~ pic.ref => AnchorKept)
      /\ (sps.type # 0 /\ sps.gaps => Successor(prevRef) = pic.frameNum)
      /\ OpenInv /\ absRef \in Nat
  BY DEF Follows, PicInv
<1>2. /\ pic.ref \in BOOLEAN /\ pic.abs \in Nat
      /\ pic.abs \in {absRef, absRef + 1} /\ (pic.ref => absRef = pic.abs)
      /\ (pic.ref => anchor = pic.order)
      /\ (first # NoHeader => first = pic /\ pic.structure # "frame")
      /\ pic.frameNum = pic.abs % MaxFrameNum
  BY <1>1 DEF PicTyped, PicKept, PicCoded
<1>3. ResetKept
  BY <1>1 DEF PicReset, ResetKept
<1>4. FirstKept
  BY <1>1, <1>2 DEF FirstKept, SecondAbs, PicKept
<1>5. ASSUME sps.type = 0
      PROVE  AnchorKept
  <2>1. CASE ~ pic.ref
    BY <1>1, <1>5, <2>1
  <2>2. CASE pic.ref /\ hadMmco5
    BY <1>1, <1>2, <1>5, <2>2 DEF PicReset, AnchorKept
  <2>3. CASE pic.ref /\ ~ hadMmco5
    BY <1>1, <1>2, <1>5, <2>3 DEF OpenInv, AnchorKept
  <2>. QED
    BY <1>2, <2>1, <2>2, <2>3
<1>6. ASSUME sps.type # 0
      PROVE  CountKept
  <2>1. Counted = pic.abs /\ st.frameNum = pic.frameNum
    BY <1>1, <1>6 DEF OpenInv
  <2>2. hadMmco5 => pic.abs \in {0, 1}
    BY <1>1, <1>6 DEF PicReset
  <2>. QED
    BY <1>2, <2>1, <2>2 DEF CountKept, SecondAbs
<1>7. ASSUME sps.type # 0, sps.gaps
      PROVE  GapsKept
  <2>1. Counted = pic.abs
    BY <1>1, <1>7 DEF OpenInv
  <2>. QED
    BY <1>1, <1>2, <1>7, <2>1 DEF GapsKept
<1>. QED
  BY <1>3, <1>4, <1>5, <1>6, <1>7 DEF IdleInv

\* Between pictures the parts of the invariant depend on nothing else.
LEMMA IdleUnchanged ==
  ASSUME IdleInv, UNCHANGED <<decoder, anchor, absRef, first>>
  PROVE  IdleInv'
BY DEF decoder, IdleInv, ResetKept, FirstKept, SecondAbs, AnchorKept, CountKept, Counted,
       GapsKept, Successor

\* finalize_in_progress_picture, reference pictures.
LEMMA FinalizeReferenceKeeps ==
  ASSUME Recoverable, TypeOK, PicTyped, Follows, ~ lost, FinalizeReference
  PROVE  IdleInv'
<1>1. /\ PicKept /\ PicCoded
      /\ OpenInv /\ absRef \in Nat /\ sps \in Streams
  BY DEF Follows, PicInv, FinalizeReference, TypeOK
<1>2. /\ pic.ref /\ pic.mmco5 \in BOOLEAN /\ pic.abs \in Nat
      /\ absRef = (IF pic.mmco5 THEN 0 ELSE pic.abs)
      /\ anchor = (IF pic.mmco5 THEN Rebased(pic) ELSE pic.order)
      /\ (first # NoHeader => first = pic /\ pic.structure # "frame")
      /\ pic.frameNum = pic.abs % MaxFrameNum
      /\ pic.structure \in sps.structures
      /\ (pic.mmco5 => pic.structure \in sps.mmco5)
  BY <1>1 DEF PicTyped, PicKept, PicCoded, FinalizeReference
<1>3. /\ hadMmco5' = pic.mmco5 /\ topFoc' = TopFocAfter(pic, poc)
      /\ prevRef' = (IF pic.mmco5 THEN 0 ELSE pic.frameNum)
      /\ sps' = sps /\ st' = st /\ anchor' = anchor /\ absRef' = absRef /\ first' = first
  BY DEF FinalizeReference, stream
<1>4. ResetKept'
  BY <1>2, <1>3 DEF ResetKept
<1>5. FirstKept'
  BY <1>1, <1>2, <1>3 DEF FirstKept, SecondAbs
<1>6. ASSUME sps.type = 0
      PROVE  AnchorKept'
  <2>1. CASE ~ pic.mmco5
    BY <1>1, <1>2, <1>3, <1>6, <2>1 DEF OpenInv, AnchorKept
  <2>2. CASE pic.mmco5
    <3>1. /\ pic.structure \in {"frame", "top"}
          /\ pic.delta[1] \in -(MaxLsb - 1) .. MaxLsb - 1
          /\ pic.order \in Int
      BY <1>1, <1>2, <1>6, <2>2 DEF Recoverable, PicTyped, PicKept
    <3>2. poc = Counts(pic.structure, pic.order,
                       IF pic.structure = "frame" THEN BottomOrder(pic) ELSE pic.order)
      BY <1>1 DEF OpenInv, RecoversOrder, FinalizeReference
    <3>3. BottomOrder(pic) = pic.order + pic.delta[1]
      BY <1>6 DEF BottomOrder
    <3>4. MaxLsb \in Nat \ {0} /\ 0 .. MaxLsb - 1 \subseteq Int32
      BY PocAssumption DEF Int32
    <3>5. topFoc' = Wrapped(poc.top - poc.poc)
      BY <1>3, <2>2 DEF TopFocAfter
    <3>6. CASE pic.structure = "top"
      <4>0. poc.top - poc.poc = 0 /\ anchor = 0
        BY <1>2, <2>2, <3>1, <3>2, <3>6 DEF Counts, PicOrderCnt, Rebased
      <4>1. topFoc' = 0 /\ anchor = 0
        BY <3>4, <3>5, <4>0, WrappedFacts
      <4>. QED
        BY <1>3, <2>2, <3>4, <4>1 DEF AnchorKept
    <3>7. CASE pic.structure = "frame"
      <4>1. /\ poc.top - poc.poc = pic.order - Lesser(pic.order, pic.order + pic.delta[1])
            /\ anchor = pic.order - Lesser(pic.order, pic.order + pic.delta[1])
        BY <1>2, <2>2, <3>2, <3>3, <3>7 DEF Counts, PicOrderCnt, Rebased
      <4>2. poc.top - poc.poc \in 0 .. MaxLsb - 1
        <5>. DEFINE o == pic.order
                    d == pic.delta[1]
        <5>1. o \in Int /\ d \in -(MaxLsb - 1) .. MaxLsb - 1
          BY <3>1
        <5>. HIDE DEF o, d
        <5>2. o - Lesser(o, o + d) \in 0 .. MaxLsb - 1
          BY <3>4, <5>1 DEF Lesser
        <5>. QED
          BY <4>1, <5>2 DEF o, d
      <4>3. topFoc' = poc.top - poc.poc
        BY <3>4, <3>5, <4>2, WrappedFacts
      <4>. QED
        BY <1>3, <2>2, <4>1, <4>2, <4>3 DEF AnchorKept
    <3>. QED
      BY <3>1, <3>6, <3>7
  <2>. QED
    BY <1>2, <2>1, <2>2
<1>7. ASSUME sps.type # 0
      PROVE  CountKept'
  <2>1. Counted = pic.abs /\ st.frameNum = pic.frameNum
    BY <1>1, <1>7 DEF OpenInv
  <2>. QED
    BY <1>2, <1>3, <2>1 DEF CountKept, SecondAbs, Counted
<1>8. ASSUME sps.type # 0, sps.gaps
      PROVE  GapsKept'
  <2>1. ~ pic.mmco5
    BY <1>1, <1>2, <1>8 DEF Recoverable
  <2>2. Successor(prevRef') = (absRef' + 1) % MaxFrameNum
    BY <1>2, <1>3, <2>1, SuccessorMod
  <2>. QED
    BY <2>2 DEF GapsKept, Successor
<1>. QED
  BY <1>3, <1>4, <1>5, <1>6, <1>7, <1>8 DEF IdleInv

\* How far a picture that the stream codes is from the previous reference
\* picture.
LEMMA CodedDistance ==
  ASSUME Recoverable, TypeOK, Follows, ~ lost, phase = "idle",
         NEW h \in Headers, ~ h.idr
  PROVE  \/ /\ first # NoHeader /\ h.abs = SecondAbs
            /\ h.abs \in {absRef, absRef + 1} /\ ~ (sps.structures \subseteq {"frame"})
         \/ /\ h.abs > absRef /\ h.abs - absRef < MaxFrameNum /\ prevRef # -1
            /\ ~ sps.gaps => h.abs = absRef + 1
<1>1. StreamMayCode(h) /\ absRef \in Nat /\ FirstKept
  BY HeaderFacts DEF TypeOK, Follows, IdleInv
<1>2. CASE IsSecondField(h)
  BY <1>1, <1>2 DEF IsSecondField, FirstKept, SecondAbs
<1>3. CASE ~ IsSecondField(h)
  BY <1>1, <1>3 DEF StreamMayCode
<1>. QED
  BY <1>2, <1>3

\* The gate lets no picture pass that would be taken for a later one after an
\* operation 5 whose picture the state has not yet left.
LEMMA ResetDistance ==
  ASSUME Recoverable, TypeOK, Follows, ~ lost, phase = "idle", hadMmco5,
         NEW h \in Headers, ~ h.idr, PassesGate(h), sps.type # 0 \/ sps.drops
  PROVE  /\ prevRef = 0 /\ absRef \in {0, 1} /\ h.abs \in {0, 1}
         /\ h.abs \in {absRef, absRef + 1}
         /\ sps.drops /\ sps.type = 0 => absRef = 0 /\ h.abs = 1
<1>1. /\ absRef \in Nat /\ sps \in Streams /\ MaxFrameNum \in Nat /\ MaxFrameNum > 2
      /\ ResetKept /\ (sps.type # 0 => CountKept)
  BY PocAssumption DEF Recoverable, TypeOK, Follows, IdleInv
<1>2. /\ sps.mmco5 # {} /\ prevRef = 0 /\ absRef \in {0, 1} /\ ~ sps.gaps
      /\ (sps.type = 0 => sps.structures \subseteq {"frame"})
  BY <1>1 DEF ResetKept, Recoverable
<1>3. Successor(prevRef) = 1
  <2>1. 1 % MaxFrameNum = 1
    BY <1>1, ModSmall, PocAssumption
  <2>. QED
    BY <1>2, <2>1 DEF Successor
<1>4. h.frameNum \in {0, 1}
  BY <1>2, <1>3 DEF PassesGate
<1>5. h.abs \in Nat /\ h.frameNum = h.abs % MaxFrameNum
  BY HeaderFacts DEF TypeOK
<1>6. CASE /\ first # NoHeader /\ h.abs = SecondAbs
           /\ h.abs \in {absRef, absRef + 1} /\ ~ (sps.structures \subseteq {"frame"})
  <2>1. sps.type # 0
    BY <1>2, <1>6
  <2>. QED
    BY <1>1, <1>2, <1>6, <2>1 DEF CountKept
<1>7. CASE h.abs = absRef + 1
  <2>1. h.abs # 2
    <3>1. 2 % MaxFrameNum = 2
      BY <1>1, ModSmall, PocAssumption
    <3>. QED
      BY <1>4, <1>5, <3>1
  <2>. QED
    BY <1>2, <1>7, <2>1
<1>. QED
  BY <1>2, <1>6, <1>7, CodedDistance

\* PicInv, but for what the phase decides.
LEMMA OpenKeepsPic ==
  ASSUME Recoverable, TypeOK, PicTyped, Follows, phase = "idle",
         NEW h \in Headers, OpenPicture(h), ~ lost'
  PROVE  /\ PicKept' /\ PicCoded' /\ PicReset'
         /\ sps.type = 0 /\ ~ h.ref => AnchorKept'
<1>1. /\ h.idr \in BOOLEAN /\ h.ref \in BOOLEAN /\ h.mmco5 \in BOOLEAN
      /\ h.structure \in sps.structures /\ h.abs \in Nat
      /\ h.delta[1] \in sps.deltas /\ h.delta[2] \in sps.deltas
      /\ h.frameNum = h.abs % MaxFrameNum /\ h.lsb = h.order % MaxLsb
      /\ h.order \in Orders(h) /\ StreamMayCode(h)
  BY HeaderFacts DEF TypeOK
<1>2. /\ Coded(h, FALSE) /\ PassesGate(h) /\ pic' = h
      /\ sps' = sps /\ st' = st /\ hadMmco5' = hadMmco5 /\ topFoc' = topFoc /\ prevRef' = prevRef
  BY DEF OpenPicture, decoder
<1>3. absRef \in Nat /\ (h.idr \/ ~ lost)
  BY <1>2 DEF Follows, Coded
<1>4. PicKept'
  <2>1. sps.type = 0 => h.order \in Int
    BY <1>1, StreamFacts DEF Orders, TypeOK
  <2>2. sps.type # 0 => h.order \in Orders(pic)'
    BY <1>1, <1>2, StreamFacts DEF Orders, OffsetOfFrame, TypeOK
  <2>. QED
    BY <1>1, <1>2, <2>1, <2>2 DEF PicKept, StreamMayCode
<1>5. h.idr => h.ref /\ h.abs = 0
  BY <1>1 DEF StreamMayCode
<1>6. ~ h.idr => h.abs >= absRef
  BY <1>1, <1>3, CodedDistance
<1>7. PicCoded'
  <2>1. first' = NoHeader \/ (first' = h /\ h.structure # "frame")
    BY <1>2 DEF Coded
  <2>2. h.ref => absRef' = IF h.mmco5 THEN 0 ELSE h.abs
    BY <1>1, <1>2 DEF Coded
  <2>3. h.ref => anchor' = IF h.mmco5 THEN Rebased(pic)' ELSE h.order
    <3>1. Rebased(pic)' = Rebased(h)
      BY <1>2 DEF Rebased, BottomOrder
    <3>. QED
      BY <1>1, <1>2, <3>1 DEF Coded
  <2>4. ~ h.ref => h.abs \in {absRef', absRef' + 1}
    BY <1>1, <1>2, <1>3, <1>5, <1>6 DEF Coded
  <2>. QED
    BY <1>2, <2>1, <2>2, <2>3, <2>4 DEF PicCoded
<1>8. PicReset'
  <2>. SUFFICES ASSUME hadMmco5, ~ h.idr
       PROVE  /\ sps.mmco5 # {}
              /\ sps.type # 0 \/ sps.drops =>
                   prevRef = 0 /\ absRef' \in {0, 1} /\ h.abs \in {0, 1}
              /\ sps.type = 0 /\ sps.drops => h.abs = 1
    BY <1>2 DEF PicReset
  <2>1. sps.mmco5 # {}
    BY <1>3 DEF Follows, IdleInv, ResetKept
  <2>2. ASSUME sps.type # 0 \/ sps.drops
        PROVE  /\ prevRef = 0 /\ absRef' \in {0, 1} /\ h.abs \in {0, 1}
               /\ (sps.type = 0 /\ sps.drops => h.abs = 1)
    <3>1. /\ prevRef = 0 /\ absRef \in {0, 1} /\ h.abs \in {0, 1}
          /\ (sps.drops /\ sps.type = 0 => absRef = 0 /\ h.abs = 1)
      BY <1>2, <1>3, <2>2, ResetDistance
    <3>2. absRef' \in {0, 1}
      BY <1>1, <1>2, <3>1 DEF Coded
    <3>. QED
      BY <3>1, <3>2
  <2>. QED
    BY <2>1, <2>2
<1>9. ASSUME sps.type = 0, ~ h.ref
      PROVE  AnchorKept'
  <2>1. ~ lost /\ AnchorKept /\ ~ h.idr
    BY <1>3, <1>5, <1>9 DEF Follows, IdleInv
  <2>2. ~ (hadMmco5 /\ sps.drops /\ absRef = 1)
    BY <1>2, <1>9, <2>1, ResetDistance
  <2>3. anchor' = anchor
    BY <1>2, <1>9 DEF Coded
  <2>. QED
    BY <1>2, <2>1, <2>2, <2>3 DEF AnchorKept
<1>. QED
  BY <1>4, <1>7, <1>8, <1>9

\* Type 0: PicOrderCntMsb of the picture that opens.
LEMMA OpenMsb ==
  ASSUME Recoverable, TypeOK, PicTyped, Follows, phase = "idle",
         NEW h \in Headers, PassesGate(h), h.idr \/ ~ lost, sps.type = 0
  PROVE  Msb(PrevOrder(h), h.lsb) + h.lsb = h.order
<1>1. /\ h.idr \in BOOLEAN /\ h.lsb = h.order % MaxLsb /\ h.order \in Orders(h)
  BY HeaderFacts DEF TypeOK
<1>2. h.order \in Int /\ h.order - (IF h.idr THEN 0 ELSE anchor) \in -(Half - 1) .. Half
  BY <1>1, StreamFacts DEF Orders, TypeOK
<1>3. hadMmco5 \in BOOLEAN /\ MaxLsb \in Nat \ {0} /\ (sps.type = 0 => anchor \in Int)
  BY PocAssumption DEF TypeOK, Follows
<1>4. CASE h.idr
  <2>1. 0 % MaxLsb = 0
    BY <1>3, ModSmall
  <2>2. PrevOrder(h) = [msb |-> 0 - (0 % MaxLsb), lsb |-> 0 % MaxLsb]
    BY <1>4, <2>1 DEF PrevOrder
  <2>3. h.order - 0 \in -(Half - 1) .. Half
    BY <1>2, <1>4
  <2>. QED
    BY <1>1, <1>2, <2>2, <2>3, MsbCorrect
<1>5. CASE ~ h.idr
  <2>1. AnchorKept /\ ~ lost
    BY <1>5 DEF Follows, IdleInv
  <2>2. PrevOrder(h) = [msb |-> anchor - (anchor % MaxLsb), lsb |-> anchor % MaxLsb]
    <3>1. CASE hadMmco5
      <4>1. anchor = topFoc /\ topFoc \in 0 .. MaxLsb - 1
        <5>1. ~ (sps.drops /\ absRef = 1)
          BY <1>5, <2>1, <3>1, ResetDistance
        <5>. QED
          BY <2>1, <3>1, <5>1 DEF AnchorKept
      <4>2. topFoc % MaxLsb = topFoc
        BY <1>3, <4>1, ModSmall
      <4>. QED
        BY <1>5, <3>1, <4>1, <4>2 DEF PrevOrder
    <3>2. CASE ~ hadMmco5
      <4>1. st.msb + st.lsb = anchor /\ st.lsb = anchor % MaxLsb /\ st.msb \in Int /\ st.lsb \in Int
        BY <1>3, <2>1, <3>2, PocAssumption DEF AnchorKept, TypeOK, Int32
      <4>2. st.msb = anchor - (anchor % MaxLsb)
        <5>. DEFINE r == anchor % MaxLsb
        <5>. HIDE DEF r
        <5>1. st.msb + r = anchor /\ r \in Int /\ st.msb \in Int
          BY <4>1 DEF r
        <5>2. st.msb = anchor - r
          BY <5>1
        <5>. QED
          BY <5>2 DEF r
      <4>. QED
        BY <1>5, <3>2, <4>1, <4>2 DEF PrevOrder
    <3>. QED
      BY <1>3, <3>1, <3>2
  <2>3. h.order - anchor \in -(Half - 1) .. Half /\ anchor \in Int
    BY <1>2, <1>3, <1>5
  <2>. QED
    BY <1>1, <1>2, <2>2, <2>3, MsbCorrect
<1>. QED
  BY <1>1, <1>4, <1>5

\* Types 1 and 2: how far the picture that opens is from the frame counted.
LEMMA OpenDistance ==
  ASSUME Recoverable, TypeOK, Follows, ~ lost, phase = "idle", sps.type # 0, ~ hadMmco5,
         NEW h \in Headers, ~ h.idr
  PROVE  Counted \in Nat /\ h.abs \in Nat /\ Counted <= h.abs /\ h.abs - Counted < MaxFrameNum
<1>1. /\ absRef \in Nat /\ CountKept /\ h.abs \in Nat /\ MaxFrameNum \in Nat \ {0}
  BY HeaderFacts, PocAssumption DEF TypeOK, Follows, IdleInv
<1>2. Counted \in {absRef, absRef + 1} /\ (first # NoHeader => Counted = SecondAbs)
  BY <1>1 DEF CountKept
<1>. QED
  BY <1>1, <1>2, CodedDistance

\* The picture that opens after a gap.
LEMMA OpenGap ==
  ASSUME Recoverable, TypeOK, PicTyped, Follows, phase = "idle",
         NEW h \in Headers, OpenPicture(h), ~ lost', NeedsGapFill(h)
  PROVE  GapInv'
<1>1. /\ ~ h.idr /\ sps.gaps /\ prevRef # -1
      /\ pic' = h /\ expected' = Successor(prevRef)
      /\ sps' = sps /\ st' = st /\ hadMmco5' = hadMmco5 /\ prevRef' = prevRef
      /\ ~ lost
  BY DEF NeedsGapFill, OpenPicture, Coded, decoder
<1>2. /\ absRef \in Nat /\ sps \in Streams /\ h.abs \in Nat /\ MaxFrameNum \in Nat \ {0}
      /\ IdleInv /\ hadMmco5 \in BOOLEAN
  BY <1>1, HeaderFacts, PocAssumption DEF TypeOK, Follows
<1>3. Successor(prevRef)' = Successor(prevRef) /\ Counted' = Counted
  BY <1>1 DEF Successor, Counted
<1>4. ASSUME sps.type # 0
      PROVE  /\ ~ hadMmco5
             /\ Counted % MaxFrameNum = st.frameNum
             /\ h.abs - Counted < MaxFrameNum
             /\ \/ expected' = Counted % MaxFrameNum /\ Counted <= h.abs
                \/ expected' = (Counted + 1) % MaxFrameNum /\ Counted < h.abs
  <2>1. sps.mmco5 = {} /\ sps.structures \subseteq {"frame"}
    BY <1>1, <1>2, <1>4 DEF Recoverable
  <2>2. ~ hadMmco5
    BY <1>2, <2>1 DEF IdleInv, ResetKept
  <2>3. Counted % MaxFrameNum = st.frameNum /\ Counted \in {absRef, absRef + 1} /\ GapsKept
    BY <1>1, <1>2, <1>4, <2>2 DEF IdleInv, CountKept
  <2>4. Counted <= h.abs /\ h.abs - Counted < MaxFrameNum /\ Counted \in Nat
    BY <1>1, <1>4, <2>2, OpenDistance
  <2>5. h.abs > absRef
    BY <1>1, <2>1, CodedDistance
  <2>6. \/ expected' = Counted % MaxFrameNum /\ Counted <= h.abs
        \/ expected' = (Counted + 1) % MaxFrameNum /\ Counted < h.abs
    <3>1. CASE expected' = (absRef + 1) % MaxFrameNum /\ Counted = absRef
      BY <2>5, <3>1
    <3>2. CASE expected' = (absRef + 1) % MaxFrameNum /\ Counted = absRef + 1
      BY <2>4, <3>2
    <3>3. CASE expected' = absRef % MaxFrameNum /\ Counted = absRef
      BY <2>4, <3>3
    <3>. QED
      BY <1>1, <2>3, <3>1, <3>2, <3>3 DEF GapsKept
  <2>. QED
    BY <2>2, <2>3, <2>4, <2>6
<1>. QED
  BY <1>1, <1>3, <1>4 DEF GapInv

\* The picture that opens without a gap, types 1 and 2.
LEMMA OpenOffset ==
  ASSUME Recoverable, TypeOK, PicTyped, Follows, phase = "idle",
         NEW h \in Headers, OpenPicture(h), ~ lost', sps.type # 0
  PROVE  FrameNumOffset(h) + h.frameNum = h.abs
<1>1. /\ h.idr \in BOOLEAN /\ h.abs \in Nat /\ h.frameNum = h.abs % MaxFrameNum
      /\ StreamMayCode(h) /\ PassesGate(h) /\ (h.idr \/ ~ lost)
      /\ MaxFrameNum \in Nat \ {0} /\ hadMmco5 \in BOOLEAN
  BY HeaderFacts, PocAssumption DEF TypeOK, OpenPicture, Coded
<1>2. CASE h.idr
  <2>1. h.abs = 0 /\ 0 % MaxFrameNum = 0
    BY <1>1, <1>2, ModSmall DEF StreamMayCode
  <2>. QED
    BY <1>1, <1>2, <2>1 DEF FrameNumOffset
<1>3. CASE ~ h.idr /\ hadMmco5
  <2>1. h.abs \in {0, 1} /\ MaxFrameNum > 2
    BY <1>1, <1>3, ResetDistance DEF Recoverable
  <2>2. h.frameNum = h.abs
    <3>1. h.abs \in 0 .. MaxFrameNum - 1
      BY <1>1, <2>1
    <3>. QED
      BY <1>1, <3>1, ModSmall
  <2>. QED
    BY <1>3, <2>1, <2>2 DEF FrameNumOffset, PrevFrameNum, PrevFrameNumOffset
<1>4. CASE ~ h.idr /\ ~ hadMmco5
  <2>1. /\ Counted \in Nat /\ Counted <= h.abs /\ h.abs - Counted < MaxFrameNum
        /\ Counted % MaxFrameNum = st.frameNum
    BY <1>1, <1>4, OpenDistance DEF Follows, IdleInv, CountKept
  <2>. QED
    BY <1>1, <1>4, <2>1, OffsetCorrect
<1>. QED
  BY <1>1, <1>2, <1>3, <1>4

\* A picture opens.
LEMMA OpenKeeps ==
  ASSUME Recoverable, TypeOK, PicTyped, Follows, NEW h \in Headers, OpenPicture(h)
  PROVE  Follows'
<1>1. /\ Coded(h, FALSE) /\ PassesGate(h) /\ pic' = h /\ phase = "idle"
      /\ sps' = sps /\ st' = st /\ hadMmco5' = hadMmco5 /\ topFoc' = topFoc /\ prevRef' = prevRef
      /\ phase' = (IF NeedsGapFill(h) THEN "gap" ELSE "derive")
  BY DEF OpenPicture, decoder
<1>2. absRef' \in Nat /\ (sps.type = 0 => anchor' \in Int)
  BY <1>1, CodedTyped
<1>. SUFFICES ASSUME ~ lost'
     PROVE  /\ PicInv'
            /\ phase' = "gap" => GapInv'
            /\ Ready'
  BY <1>1, <1>2 DEF Follows
<1>3. /\ PicKept' /\ PicCoded' /\ PicReset' /\ (sps.type = 0 /\ ~ h.ref => AnchorKept')
  BY <1>1, OpenKeepsPic
<1>4. h.idr \/ ~ lost
  BY <1>1 DEF Coded
<1>5. ASSUME sps.type # 0, sps.gaps, ~ h.idr, phase' # "gap"
      PROVE  Successor(prevRef) = h.frameNum
  <2>1. sps.structures \subseteq {"frame"}
    BY <1>5 DEF TypeOK, Recoverable
  <2>2. prevRef # -1
    BY <1>1, <1>4, <1>5, <2>1, CodedDistance
  <2>. QED
    BY <1>1, <1>5, <2>2 DEF NeedsGapFill
<1>6. PicInv'
  BY <1>1, <1>3, <1>5 DEF PicInv, Successor
<1>7. phase' = "gap" => GapInv'
  BY <1>1, OpenGap
<1>8. Ready'
  <2>1. sps.type = 0 => Msb(PrevOrder(h), h.lsb) + h.lsb = h.order
    BY <1>1, <1>4, OpenMsb
  <2>2. sps.type # 0 => FrameNumOffset(h) + h.frameNum = h.abs
    BY <1>1, OpenOffset
  <2>3. PrevOrder(pic)' = PrevOrder(h) /\ FrameNumOffset(pic)' = FrameNumOffset(h)
    BY <1>1 DEF PrevOrder, FrameNumOffset, PrevFrameNum, PrevFrameNumOffset
  <2>4. Msb(PrevOrder(pic), pic.lsb)' = Msb(PrevOrder(h), h.lsb)
    BY <1>1, <2>3 DEF Msb
  <2>. QED
    BY <1>1, <2>1, <2>2, <2>3, <2>4 DEF Ready
<1>. QED
  BY <1>6, <1>7, <1>8

\* fill_frame_num_gap steps the state by one non-existing frame.
LEMMA GapStepKeeps ==
  ASSUME Recoverable, TypeOK, PicTyped, Follows, GapStep
  PROVE  Follows'
<1>1. /\ phase = "gap" /\ phase' = "gap" /\ expected # pic.frameNum
      /\ st' = GapState(expected) /\ prevRef' = expected /\ expected' = Successor(expected)
      /\ sps' = sps /\ hadMmco5' = hadMmco5 /\ topFoc' = topFoc /\ pic' = pic
      /\ anchor' = anchor /\ absRef' = absRef /\ first' = first /\ lost' = lost
  BY DEF GapStep, stream
<1>2. absRef' \in Nat /\ (sps.type = 0 => anchor' \in Int)
  BY <1>1 DEF Follows
<1>. SUFFICES ASSUME ~ lost
     PROVE  PicInv' /\ GapInv' /\ Ready'
  BY <1>1, <1>2 DEF Follows
<1>3. /\ PicKept /\ PicCoded /\ PicReset /\ GapInv /\ Ready /\ sps \in Streams
      /\ (sps.type = 0 /\ ~ pic.ref => AnchorKept)
      /\ st \in [msb : Int32, lsb : 0 .. MaxLsb - 1, frameNum : FrameNums, offset : Nat]
      /\ MaxFrameNum \in Nat \ {0} /\ sps.gaps /\ ~ pic.idr
  BY <1>1, PocAssumption DEF Follows, PicInv, GapInv, TypeOK
<1>4. sps.type = 0 => st'.msb = st.msb /\ st'.lsb = st.lsb
  BY <1>1, <1>3 DEF GapState
<1>5. PicKept' /\ PicCoded'
  BY <1>1, <1>3 DEF PicKept, PicCoded, Orders, OffsetOfFrame, Rebased, BottomOrder
<1>6. PicReset'
  <2>1. hadMmco5 => ~ (sps.type # 0 \/ sps.drops)
    BY <1>3 DEF PicReset, GapInv, Recoverable
  <2>. QED
    BY <1>1, <1>3, <2>1 DEF PicReset
<1>7. sps.type = 0 /\ ~ pic.ref => AnchorKept'
  BY <1>1, <1>3, <1>4 DEF AnchorKept
<1>8. PicInv'
  BY <1>1, <1>5, <1>6, <1>7 DEF PicInv
<1>9. Ready'
  <2>1. sps.type = 0 => PrevOrder(pic)' = PrevOrder(pic)
    BY <1>1, <1>4 DEF PrevOrder
  <2>2. sps.type = 0 => Msb(PrevOrder(pic), pic.lsb)' = Msb(PrevOrder(pic), pic.lsb)
    BY <1>1, <2>1 DEF Msb
  <2>. QED
    BY <1>1, <1>3, <2>2 DEF Ready
<1>10. ASSUME sps.type # 0
       PROVE  /\ ~ hadMmco5
              /\ Counted' % MaxFrameNum = st'.frameNum
              /\ pic.abs - Counted' < MaxFrameNum
              /\ \/ expected' = Counted' % MaxFrameNum /\ Counted' <= pic.abs
                 \/ expected' = (Counted' + 1) % MaxFrameNum /\ Counted' < pic.abs
  <2>. DEFINE c == Counted
              n == pic.abs
  <2>1. /\ ~ hadMmco5 /\ c % MaxFrameNum = st.frameNum /\ n - c < MaxFrameNum
        /\ \/ expected = c % MaxFrameNum /\ c <= n
           \/ expected = (c + 1) % MaxFrameNum /\ c < n
        /\ n \in Nat /\ pic.frameNum = n % MaxFrameNum
    BY <1>3, <1>10 DEF GapInv, PicKept
  <2>2. /\ c \in Nat /\ c = st.offset + st.frameNum
        /\ Counted' = st'.offset + st'.frameNum
        /\ st.offset \in Nat /\ st.frameNum \in 0 .. MaxFrameNum - 1
    BY <1>3 DEF Counted, FrameNums
  <2>3. /\ st'.frameNum = expected
        /\ st'.offset = IF st.frameNum > expected THEN st.offset + MaxFrameNum ELSE st.offset
    BY <1>1, <1>3, <1>10 DEF GapState
  <2>. HIDE DEF c, n
  <2>4. CASE expected = c % MaxFrameNum /\ c <= n
    <3>1. c # n
      BY <1>1, <2>1, <2>4
    <3>2. Counted' = c /\ st'.frameNum = c % MaxFrameNum
      BY <2>1, <2>2, <2>3, <2>4
    <3>3. expected' = (c + 1) % MaxFrameNum
      BY <1>1, <2>2, <2>4, SuccessorMod
    <3>4. c < n
      BY <2>1, <2>2, <2>4, <3>1
    <3>. QED
      BY <2>1, <3>2, <3>3, <3>4 DEF n
  <2>5. CASE expected = (c + 1) % MaxFrameNum /\ c < n
    <3>. DEFINE d == c + 1
    <3>1. d \in Nat /\ d \in Int /\ c \in Int /\ c <= d /\ d - c = 1
      BY <2>2
    <3>2. c + 1 # n
      BY <1>1, <2>1, <2>5
    <3>3. /\ d % MaxFrameNum \in 0 .. MaxFrameNum - 1
          /\ (c % MaxFrameNum > d % MaxFrameNum =>
                d - (d % MaxFrameNum) = c - (c % MaxFrameNum) + MaxFrameNum)
          /\ (c % MaxFrameNum <= d % MaxFrameNum =>
                d - (d % MaxFrameNum) = c - (c % MaxFrameNum))
      <4>1. ASSUME MaxFrameNum = 1
            PROVE  FALSE
        BY <4>1 DEF Recoverable
      <4>2. d - c < MaxFrameNum
        BY <1>3, <3>1, <4>1
      <4>. HIDE DEF d
      <4>3. d % MaxFrameNum \in 0 .. MaxFrameNum - 1
        BY <1>3, <3>1, ModFacts
      <4>4. MaxFrameNum \in Nat \ {0}
        BY <1>3
      <4>. QED
        BY <3>1, <4>2, <4>3, <4>4, WrapCount
    <3>4. expected = d % MaxFrameNum /\ st.frameNum = c % MaxFrameNum
      BY <2>1, <2>5
    <3>5. expected' = (d + 1) % MaxFrameNum
      <4>. HIDE DEF d
      <4>. QED
        BY <1>1, <3>1, <3>4, SuccessorMod
    <3>6. Counted' = d
      <4>. DEFINE r == c % MaxFrameNum
                  s == d % MaxFrameNum
      <4>. HIDE DEF r, s, d
      <4>1. /\ (r > s => d - s = c - r + MaxFrameNum) /\ (r <= s => d - s = c - r)
            /\ expected = s /\ st.frameNum = r
        BY <3>3, <3>4 DEF r, s
      <4>2. s \in 0 .. MaxFrameNum - 1
        BY <3>3 DEF s
      <4>3. c = st.offset + r /\ Counted' = st'.offset + s
        BY <2>2, <2>3, <4>1
      <4>. QED
        BY <1>3, <2>2, <2>3, <3>1, <4>1, <4>2, <4>3
    <3>7. d < n
      BY <2>1, <2>2, <2>5, <3>2
    <3>8. n - d < MaxFrameNum
      BY <1>3, <2>1, <2>2
    <3>9. st'.frameNum = d % MaxFrameNum
      BY <2>3, <3>4
    <3>. HIDE DEF d
    <3>. QED
      BY <2>1, <3>5, <3>6, <3>7, <3>8, <3>9 DEF n
  <2>. QED
    BY <2>1, <2>4, <2>5
<1>11. GapInv'
  <2>1. Successor(prevRef)' = Successor(expected)
    BY <1>1 DEF Successor
  <2>. QED
    BY <1>1, <1>3, <1>10, <2>1 DEF GapInv
<1>. QED
  BY <1>8, <1>9, <1>11

\* The gap is filled: the state has counted every frame before the picture.
LEMMA GapDoneKeeps ==
  ASSUME Recoverable, TypeOK, PicTyped, Follows, GapDone
  PROVE  Follows'
<1>1. /\ phase = "gap" /\ phase' = "derive" /\ expected = pic.frameNum
      /\ sps' = sps /\ st' = st /\ hadMmco5' = hadMmco5 /\ topFoc' = topFoc
      /\ prevRef' = prevRef /\ pic' = pic
      /\ anchor' = anchor /\ absRef' = absRef /\ first' = first /\ lost' = lost
  BY DEF GapDone, decoder, stream
<1>2. absRef' \in Nat /\ (sps.type = 0 => anchor' \in Int)
  BY <1>1 DEF Follows
<1>. SUFFICES ASSUME ~ lost
     PROVE  PicInv' /\ Ready'
  BY <1>1, <1>2 DEF Follows
<1>3. PicInv /\ GapInv /\ Ready
  BY <1>1 DEF Follows
<1>4. Successor(prevRef)' = pic.frameNum
  BY <1>1, <1>3 DEF GapInv, Successor
<1>5. PicInv'
  BY <1>1, <1>3, <1>4 DEF PicInv, PicKept, PicCoded, PicReset, Orders, OffsetOfFrame, Rebased,
                          BottomOrder, AnchorKept
<1>6. ASSUME sps.type # 0
      PROVE  FrameNumOffset(pic) + pic.frameNum = pic.abs
  <2>1. Counted % MaxFrameNum = st.frameNum /\ pic.abs - Counted < MaxFrameNum /\ Counted <= pic.abs
        /\ ~ hadMmco5 /\ ~ pic.idr
    <3>1. pic.abs \in Int /\ Counted \in Int
      BY <1>3, PocAssumption DEF TypeOK, FrameNums, Counted, PicInv, PicKept
    <3>. QED
      BY <1>3, <1>6, <3>1 DEF GapInv
  <2>2. pic.abs \in Nat /\ pic.frameNum = pic.abs % MaxFrameNum
    BY <1>3 DEF PicInv, PicKept
  <2>. QED
    BY <2>1, <2>2, OffsetCorrect
<1>7. Ready'
  <2>1. /\ PrevOrder(pic)' = PrevOrder(pic) /\ FrameNumOffset(pic)' = FrameNumOffset(pic)
    BY <1>1 DEF PrevOrder, FrameNumOffset, PrevFrameNum, PrevFrameNumOffset
  <2>2. Msb(PrevOrder(pic), pic.lsb)' = Msb(PrevOrder(pic), pic.lsb)
    BY <1>1, <2>1 DEF Msb
  <2>. QED
    BY <1>1, <1>3, <1>6, <2>1, <2>2 DEF Ready
<1>. QED
  BY <1>5, <1>7

\* derive_poc succeeds.
LEMMA DerivePocKeeps ==
  ASSUME Recoverable, TypeOK, PicTyped, Follows, DerivePoc
  PROVE  Follows'
<1>1. /\ phase = "derive" /\ phase' = "open"
      /\ poc' = Derived(pic).counts /\ st' = Derived(pic).st
      /\ sps' = sps /\ hadMmco5' = hadMmco5 /\ topFoc' = topFoc
      /\ prevRef' = prevRef /\ pic' = pic
      /\ anchor' = anchor /\ absRef' = absRef /\ first' = first /\ lost' = lost
  BY DEF DerivePoc, stream
<1>2. absRef' \in Nat /\ (sps.type = 0 => anchor' \in Int)
  BY <1>1 DEF Follows
<1>. SUFFICES ASSUME ~ lost
     PROVE  PicInv' /\ OpenInv'
  BY <1>1, <1>2 DEF Follows
<1>3. PicInv /\ Ready /\ sps.type \in {0, 1, 2}
  BY <1>1, StreamFacts DEF Follows, TypeOK
<1>4. /\ st \in [msb : Int32, lsb : 0 .. MaxLsb - 1, frameNum : FrameNums, offset : Nat]
      /\ pic.ref \in BOOLEAN
  BY DEF TypeOK, PicTyped
<1>5. ASSUME sps.type = 0
      PROVE  IF pic.ref THEN st'.msb = Msb(PrevOrder(pic), pic.lsb) /\ st'.lsb = pic.lsb
             ELSE st'.msb = st.msb /\ st'.lsb = st.lsb
  <2>. DEFINE m == Msb(PrevOrder(pic), pic.lsb)
  <2>1. Derived(pic).st = IF pic.ref
                          THEN [st EXCEPT !.msb = m, !.lsb = pic.lsb, !.frameNum = pic.frameNum]
                          ELSE [st EXCEPT !.frameNum = pic.frameNum]
    BY <1>5 DEF Derived, Type0
  <2>. HIDE DEF m
  <2>2. IF pic.ref THEN st'.msb = m /\ st'.lsb = pic.lsb
        ELSE st'.msb = st.msb /\ st'.lsb = st.lsb
    BY <1>1, <1>4, <2>1
  <2>. QED
    BY <2>2 DEF m
<1>6. ASSUME sps.type # 0
      PROVE  st'.offset = FrameNumOffset(pic) /\ st'.frameNum = pic.frameNum
  <2>1. st' = StateOf(pic)
    BY <1>1, <1>3, <1>6 DEF Derived, Type1, Type2
  <2>. QED
    BY <1>4, <2>1 DEF StateOf
<1>7. sps.type = 0 /\ ~ pic.ref => AnchorKept'
  BY <1>1, <1>3, <1>5 DEF PicInv, AnchorKept
<1>8. PicInv'
  <2>1. PicKept' /\ PicCoded' /\ PicReset'
    BY <1>1, <1>3 DEF PicInv, PicKept, PicCoded, PicReset, Orders, OffsetOfFrame, Rebased,
                      BottomOrder
  <2>2. Successor(prevRef)' = Successor(prevRef)
    BY <1>1 DEF Successor
  <2>. QED
    BY <1>1, <1>3, <1>7, <2>1, <2>2 DEF PicInv
<1>9. OpenInv'
  <2>1. sps.type = 0 /\ pic.ref => st'.msb + st'.lsb = pic.order /\ st'.lsb = pic.order % MaxLsb
    BY <1>3, <1>5 DEF Ready, PicInv, PicKept
  <2>2. sps.type # 0 => Counted' = pic.abs /\ st'.frameNum = pic.frameNum
    BY <1>1, <1>3, <1>6 DEF Ready, Counted
  <2>3. RecoversOrder'
    <3>1. poc' = Counts(pic.structure, pic.order,
                        IF pic.structure = "frame" THEN BottomOrder(pic) ELSE pic.order)
      BY <1>1, <1>3, DerivedOrder DEF PicInv
    <3>2. BottomOrder(pic)' = BottomOrder(pic)
      BY <1>1 DEF BottomOrder
    <3>. QED
      BY <1>1, <3>1, <3>2 DEF RecoversOrder
  <2>. QED
    BY <1>1, <2>1, <2>2, <2>3 DEF OpenInv
<1>. QED
  BY <1>8, <1>9

\* No picture in progress: only the idle part of the invariant is left.
LEMMA ClosedKeeps ==
  ASSUME Follows, phase' = "idle", UNCHANGED <<sps, anchor, absRef>>, ~ lost' => IdleInv'
  PROVE  Follows'
BY DEF Follows

\* Every step keeps the decoder in step with the stream.
LEMMA FollowsStep ==
  ASSUME Recoverable, TypeOK, PicTyped, Follows, [Next]_vars
  PROVE  Follows'
<1>1. ASSUME NEW h \in Headers, Reject(h)
      PROVE  Follows'
  <2>1. Coded(h, TRUE) /\ sps' = sps /\ lost'
    BY <1>1 DEF Reject, Coded, decoder
  <2>2. absRef' \in Nat /\ (sps.type = 0 => anchor' \in Int)
    BY <2>1, CodedTyped
  <2>. QED
    BY <2>1, <2>2 DEF Follows
<1>2. ASSUME NEW h \in Headers, OpenPicture(h)
      PROVE  Follows'
  BY <1>2, OpenKeeps
<1>3. CASE GapStep
  BY <1>3, GapStepKeeps
<1>4. CASE GapDone
  BY <1>4, GapDoneKeeps
<1>5. CASE DerivePoc
  BY <1>5, DerivePocKeeps
<1>6. CASE Overflow
  BY <1>6, ClosedKeeps DEF Overflow, Close, Lost, decoder
<1>7. CASE Drop
  <2>1. /\ sps.drops /\ phase = "open" /\ phase' = "idle"
        /\ UNCHANGED <<decoder, anchor, absRef, first>>
        /\ lost' = (lost \/ pic.idr \/ pic.mmco5)
    BY <1>7 DEF Drop, Close, Lost
  <2>2. ASSUME ~ lost'
        PROVE  IdleInv'
    BY <2>1, <2>2, LeftKept, IdleUnchanged
  <2>. QED
    BY <2>1, <2>2, ClosedKeeps DEF decoder
<1>8. CASE FinalizeReference
  <2>1. phase' = "idle" /\ UNCHANGED <<sps, stream>>
    BY <1>8 DEF FinalizeReference, Close
  <2>2. ASSUME ~ lost'
        PROVE  IdleInv'
    BY <1>8, <2>1, <2>2, FinalizeReferenceKeeps DEF stream
  <2>. QED
    BY <2>1, <2>2, ClosedKeeps DEF stream
<1>9. CASE FinalizeNonReference
  <2>1. phase = "open" /\ ~ pic.ref /\ phase' = "idle" /\ UNCHANGED <<decoder, stream>>
    BY <1>9 DEF FinalizeNonReference, Close
  <2>2. ASSUME ~ lost'
        PROVE  IdleInv'
    <3>1. ~ lost /\ UNCHANGED <<decoder, anchor, absRef, first>>
      BY <2>1, <2>2 DEF stream
    <3>2. ~ pic.idr /\ ~ pic.mmco5
      BY <2>1, <3>1 DEF Follows, PicInv, PicKept
    <3>. QED
      BY <2>1, <3>1, <3>2, LeftKept, IdleUnchanged
  <2>. QED
    BY <2>1, <2>2, ClosedKeeps DEF decoder, stream
<1>11. CASE FinalizePanics
  <2>1. /\ phase = "open" /\ phase' = "panicked" /\ pic.mmco5 /\ ResetOverflows(pic, poc)
        /\ UNCHANGED <<sps, st, hadMmco5, topFoc, prevRef, pic, expected, poc>>
        /\ UNCHANGED <<anchor, absRef, first, lost>>
    BY <1>11 DEF FinalizePanics, ResetOverflows, decoder, stream
  <2>2. PicInv => PicInv'
    <3>1. PicKept => PicKept'
      BY <2>1 DEF PicKept, Orders, OffsetOfFrame
    <3>2. PicCoded => PicCoded'
      BY <2>1 DEF PicCoded, Rebased, BottomOrder
    <3>. QED
      BY <2>1, <3>1, <3>2 DEF PicInv, PicReset, AnchorKept, Successor
  <2>3. OpenInv /\ ~ lost => OpenInv'
    BY <2>1 DEF OpenInv, Counted, RecoversOrder, BottomOrder
  <2>4. pic'.mmco5 /\ ResetOverflows(pic, poc)'
    BY <2>1 DEF ResetOverflows
  <2>. QED
    BY <2>1, <2>2, <2>3, <2>4 DEF Follows
<1>10. CASE UNCHANGED vars
  <2>1. /\ UNCHANGED <<sps, st, hadMmco5, topFoc, prevRef, phase, pic, expected, poc>>
        /\ UNCHANGED <<anchor, absRef, first, lost>> /\ UNCHANGED decoder
    BY <1>10 DEF vars, decoder, stream
  <2>2. IdleInv => IdleInv'
    BY <2>1, IdleUnchanged
  <2>3. PicInv => PicInv'
    <3>1. PicKept => PicKept'
      BY <2>1 DEF PicKept, Orders, OffsetOfFrame
    <3>2. PicCoded => PicCoded'
      BY <2>1 DEF PicCoded, Rebased, BottomOrder
    <3>. QED
      BY <2>1, <3>1, <3>2 DEF PicInv, PicReset, AnchorKept, Successor
  <2>4. GapInv => GapInv'
    BY <2>1 DEF GapInv, Counted, Successor
  <2>5. Ready => Ready'
    <3>1. PrevOrder(pic)' = PrevOrder(pic) /\ FrameNumOffset(pic)' = FrameNumOffset(pic)
      BY <2>1 DEF PrevOrder, FrameNumOffset, PrevFrameNum, PrevFrameNumOffset
    <3>2. Msb(PrevOrder(pic), pic.lsb)' = Msb(PrevOrder(pic), pic.lsb)
      BY <2>1, <3>1 DEF Msb
    <3>. QED
      BY <2>1, <3>1, <3>2 DEF Ready
  <2>6. OpenInv => OpenInv'
    BY <2>1 DEF OpenInv, Counted, RecoversOrder, BottomOrder
  <2>7. ResetOverflows(pic, poc)' = ResetOverflows(pic, poc)
    BY <2>1 DEF ResetOverflows
  <2>. QED
    BY <2>1, <2>2, <2>3, <2>4, <2>5, <2>6, <2>7 DEF Follows
<1>. QED
  BY <1>1, <1>2, <1>3, <1>4, <1>5, <1>6, <1>7, <1>8, <1>9, <1>10, <1>11 DEF Next

\* The decoder starts in step with the stream.
LEMMA FollowsInit == Init => Follows
<1>. SUFFICES ASSUME Init PROVE Follows
  OBVIOUS
<1>1. MaxFrameNum \in Nat \ {0} /\ MaxLsb \in Nat \ {0}
  BY PocAssumption
<1>2. 0 % MaxFrameNum = 0 /\ 0 % MaxLsb = 0
  BY <1>1, ModSmall
<1>3. AnchorKept /\ CountKept /\ ResetKept /\ FirstKept /\ GapsKept
  BY <1>2 DEF Init, NoState, AnchorKept, CountKept, ResetKept, FirstKept, GapsKept, Counted,
              Successor
<1>. QED
  BY <1>3 DEF Init, Follows, IdleInv

\* For every recoverable stream, frame_num and LSB range and integer width:
\* the counts of every picture opened are those the stream meant, unless a
\* count was lost since the last IDR picture.
THEOREM RecoversOrderCorrect ==
  ASSUME Recoverable
  PROVE  Spec => []RecoversOrder
<1>1. Init => TypeOK /\ PicTyped /\ Follows
  BY TypeInit, FollowsInit
<1>2. TypeOK /\ PicTyped /\ Follows /\ [Next]_vars => (TypeOK /\ PicTyped /\ Follows)'
  BY TypeStep, FollowsStep
<1>3. Follows => RecoversOrder
  BY DEF Follows, OpenInv, RecoversOrder
<1>. QED
  BY <1>1, <1>2, <1>3, PTL DEF Spec

-----------------------------------------------------------------------------
(* Operation 5. *)

\* Where the subtractions of operation 5 overflow, the decoder having recovered
\* what the stream meant.
LEMMA OverflowMeant ==
  ASSUME Recoverable, TypeOK, PicTyped, Follows, phase = "panicked", ~ lost
  PROVE  IF pic.structure = "frame"
         THEN sps.type = 1 /\ BottomOrder(pic) - pic.order \notin -IntMax .. IntMax
         ELSE pic.order = -IntMax - 1
<1>1. PicKept /\ RecoversOrder /\ ResetOverflows(pic, poc) /\ pic.mmco5
  BY DEF Follows, PicInv, OpenInv
<1>2. poc = Counts(pic.structure, pic.order,
                   IF pic.structure = "frame" THEN BottomOrder(pic) ELSE pic.order)
  BY <1>1 DEF RecoversOrder
<1>3. /\ IntMax \in Nat /\ MaxLsb \in Nat \ {0} /\ MaxLsb <= IntMax
      /\ pic.structure \in {"frame", "top", "bottom"} /\ sps \in Streams
  BY PocAssumption DEF TypeOK, PicTyped
<1>4. poc \in [top : Int32, bottom : Int32, poc : Int32]
  BY DEF TypeOK
<1>5. ~ (poc.top - poc.poc \in Int32 /\ poc.bottom - poc.poc \in Int32)
  BY <1>1 DEF ResetOverflows
<1>6. CASE pic.structure = "frame"
  <2>. DEFINE t == pic.order
              b == BottomOrder(pic)
  <2>1. poc.top = t /\ poc.bottom = b /\ poc.poc = Lesser(t, b)
    BY <1>2, <1>6 DEF Counts, PicOrderCnt
  <2>2. t \in Int32 /\ b \in Int32
    BY <1>4, <2>1
  <2>3. b - t \notin -IntMax .. IntMax
    <3>. HIDE DEF t, b
    <3>. QED
      BY <1>3, <1>5, <2>1, <2>2 DEF Lesser, Int32
  <2>4. sps.type # 0
    <3>. SUFFICES ASSUME sps.type = 0 PROVE FALSE
      OBVIOUS
    <3>1. pic.delta[1] \in -(MaxLsb - 1) .. MaxLsb - 1
      BY <1>1, <1>3 DEF Recoverable, PicKept
    <3>2. b = t + pic.delta[1]
      BY DEF BottomOrder
    <3>. HIDE DEF t, b
    <3>. QED
      BY <1>3, <2>2, <2>3, <3>1, <3>2 DEF Int32
  <2>5. sps.type # 2
    <3>. SUFFICES ASSUME sps.type = 2 PROVE FALSE
      OBVIOUS
    <3>1. b = t
      BY DEF BottomOrder
    <3>. HIDE DEF t, b
    <3>. QED
      BY <1>3, <2>2, <2>3, <3>1 DEF Int32
  <2>. QED
    BY <1>3, <1>6, <2>3, <2>4, <2>5, StreamFacts
<1>7. CASE pic.structure # "frame"
  <2>. DEFINE o == pic.order
  <2>1. poc.poc = o /\ {poc.top, poc.bottom} = {o, 0}
    BY <1>2, <1>3, <1>7 DEF Counts, PicOrderCnt
  <2>2. o \in Int32
    BY <1>4, <2>1
  <2>3. o = -IntMax - 1
    <3>. HIDE DEF o
    <3>1. ~ (o - o \in Int32 /\ 0 - o \in Int32)
      BY <1>5, <2>1
    <3>. QED
      BY <1>3, <2>2, <3>1 DEF Int32
  <2>. QED
    BY <1>7, <2>3
<1>. QED
  BY <1>6, <1>7

\* For every recoverable stream, frame_num and LSB range and integer width: the
\* unchecked subtractions of operation 5 overflow only for a frame of type 1
\* whose fields are an integer's width apart and for a lone field of the least
\* order; every other picture gets the counts that 8.2.1 gives it.
THEOREM ResetsFitCorrect ==
  ASSUME Recoverable
  PROVE  Spec => []ResetsFit
<1>1. Init => TypeOK /\ PicTyped /\ Follows
  BY TypeInit, FollowsInit
<1>2. TypeOK /\ PicTyped /\ Follows /\ [Next]_vars => (TypeOK /\ PicTyped /\ Follows)'
  BY TypeStep, FollowsStep
<1>3. TypeOK /\ PicTyped /\ Follows => ResetsFit
  BY OverflowMeant DEF ResetsFit
<1>. QED
  BY <1>1, <1>2, <1>3, PTL DEF Spec

\* The two resets of operation 5 agree.

\* Both resets of finalize_in_progress_picture give a frame with operation 5
\* one PicOrderCnt, for output as in the DPB.
THEOREM StoredPocCorrect == Spec => StoredPocIsOutputPoc
<1>1. [Next]_vars =>
        [phase = "open" /\ phase' = "idle" /\ stored' # stored /\ pic.structure = "frame"
           => stored'.poc = OutputPoc(pic, poc)]_vars
  <2>. SUFFICES ASSUME Next, stored' # stored, pic.structure = "frame"
       PROVE  stored'.poc = OutputPoc(pic, poc)
    BY DEF vars
  <2>1. FinalizeReference
    BY DEF Next, Reject, OpenPicture, GapStep, GapDone, DerivePoc, Overflow, Drop,
           FinalizePanics, FinalizeNonReference
  <2>2. stored' = StoredCounts(pic, poc)
    BY <2>1 DEF FinalizeReference
  <2>. QED
    BY <2>2 DEF StoredCounts, OutputPoc, PicOrderCnt
<1>. QED
  BY <1>1, PTL DEF Spec, StoredPocIsOutputPoc
=============================================================================
