------------------------------ MODULE Modular ------------------------------
(***************************************************************************)
(* Facts about remainders with a divisor that is a parameter.  They carry  *)
(* the proofs about wrapped sequence numbers (unsigned short arithmetic)   *)
(* and about slots of a ring (seqnum % length).  At the end, the least of  *)
(* some numbers, where a scan upwards stops.                               *)
(***************************************************************************)
EXTENDS Integers, TLAPS, FiniteSetTheorems, WellFoundedInduction

\* A remainder lies below the divisor and differs from the number by a
\* multiple of it: what `%' in an index like seqnum % RAOP_BUFFER_LENGTH returns.
LEMMA DivMod ==
  ASSUME NEW m \in Nat \ {0}, NEW a \in Int
  PROVE  /\ a % m \in 0 .. m - 1
         /\ \E q \in Int : a = m * q + (a % m)
<1>1. /\ a % m \in 0 .. m - 1
      /\ a \div m \in Int
      /\ a = m * (a \div m) + (a % m)
  BY SMT
<1> QED BY <1>1

\* A number is written in one way only as a multiple and a remainder, so a
\* wrapped number determines its place within one turn.
LEMMA OneQuotient ==
  ASSUME NEW m \in Nat \ {0}, NEW q \in Int, NEW r \in 0 .. m - 1,
         NEW k \in Int, NEW s \in 0 .. m - 1,
         m * q + r = m * k + s
  PROVE  q = k /\ r = s
<1>1. m * (q - k) = s - r
  BY SMT
<1>2. ~(q - k >= 1)
  <2>1. SUFFICES ASSUME q - k >= 1 PROVE FALSE
    OBVIOUS
  <2>2. m * (q - k) >= m
    BY <2>1, SMT
  <2> QED BY <1>1, <2>2, SMT
<1>3. ~(q - k <= -1)
  <2>1. SUFFICES ASSUME q - k <= -1 PROVE FALSE
    OBVIOUS
  <2>2. m * (q - k) <= -m
    BY <2>1, SMT
  <2> QED BY <1>1, <2>2, SMT
<1>4. q = k BY <1>2, <1>3, SMT
<1> QED BY <1>4, SMT

\* The remainder of a multiple plus a number below the divisor is that
\* number: the wrap-around of an unsigned counter forgets whole turns.
LEMMA ModUnique ==
  ASSUME NEW m \in Nat \ {0}, NEW q \in Int, NEW r \in 0 .. m - 1
  PROVE  (m * q + r) % m = r
<1> DEFINE d == (m * q + r) % m
<1>1. m * q + r \in Int
  BY SMT
<1>2. /\ d \in 0 .. m - 1
      /\ \E k \in Int : m * q + r = m * k + d
  BY <1>1, DivMod
<1> HIDE DEF d
<1>3. PICK k \in Int : m * q + r = m * k + d
  BY <1>2
<1>4. d = r
  BY <1>2, <1>3, OneQuotient
<1> QED BY <1>4 DEF d

\* A multiple of the divisor does not change the remainder: whole turns of an
\* unsigned counter are invisible.
LEMMA ModShift ==
  ASSUME NEW m \in Nat \ {0}, NEW a \in Int, NEW k \in Int
  PROVE  (a + m * k) % m = a % m
<1>1. PICK q \in Int : a = m * q + (a % m)
  BY DivMod
<1>2. a % m \in 0 .. m - 1
  BY DivMod
<1>3. a + m * k = m * (q + k) + (a % m)
  BY <1>1, <1>2, SMT
<1>4. (m * (q + k) + (a % m)) % m = a % m
  BY <1>2, ModUnique
<1> QED BY <1>3, <1>4

\* The difference of two wrapped counters, wrapped again, is the wrapped
\* difference of the counters: the subtraction in seqnum_cmp.
LEMMA ModDiff ==
  ASSUME NEW m \in Nat \ {0}, NEW a \in Int, NEW b \in Int
  PROVE  ((a % m) - (b % m)) % m = (a - b) % m
<1> DEFINE r == a % m
           s == b % m
<1>1. PICK q \in Int : a = m * q + r
  BY DivMod
<1>2. PICK k \in Int : b = m * k + s
  BY DivMod
<1>3. r \in Int /\ s \in Int /\ r - s \in Int /\ q - k \in Int
  BY DivMod
<1> HIDE DEF r, s
<1>4. m * (q - k) = m * q - m * k
  BY SMT
<1>5. a - b = (r - s) + m * (q - k)
  BY <1>1, <1>2, <1>3, <1>4, SMT
<1>6. ((r - s) + m * (q - k)) % m = (r - s) % m
  BY <1>3, ModShift
<1>7. (r - s) % m = (a - b) % m
  BY <1>5, <1>6
<1> QED BY <1>7 DEF r, s

\* Adding to a wrapped counter and wrapping again is wrapping the sum: the
\* increment of first_seqnum.
LEMMA ModAdd ==
  ASSUME NEW m \in Nat \ {0}, NEW a \in Int, NEW c \in Int
  PROVE  ((a % m) + c) % m = (a + c) % m
<1> DEFINE r == a % m
<1>1. PICK q \in Int : a = m * q + r
  BY DivMod
<1>2. r \in Int /\ r + c \in Int
  BY DivMod
<1> HIDE DEF r
<1>3. a + c = (r + c) + m * q
  BY <1>1, <1>2, SMT
<1>4. ((r + c) + m * q) % m = (r + c) % m
  BY <1>2, ModShift
<1>5. (r + c) % m = (a + c) % m
  BY <1>3, <1>4
<1> QED BY <1>5 DEF r

\* Stepping back from a wrapped counter and wrapping again is wrapping the
\* predecessor: `seqnum - 1' when the buffer is flushed to a new packet.
LEMMA ModPred ==
  ASSUME NEW m \in Nat \ {0}, NEW a \in Int
  PROVE  ((a % m) - 1) % m = (a - 1) % m
<1> DEFINE c == 0 - 1
<1>1. c \in Int /\ a % m \in Int
  BY DivMod
<1>2. (a % m) + c = (a % m) - 1 /\ a + c = a - 1
  BY <1>1
<1>3. ((a % m) + c) % m = (a + c) % m
  BY <1>1, ModAdd
<1> QED BY <1>2, <1>3

\* When the range is a multiple of the ring's length, the slot of a wrapped
\* sequence number is the slot of the place it stands for.
LEMMA ModOfMultiple ==
  ASSUME NEW m \in Nat \ {0}, NEW n \in Nat \ {0}, n % m = 0, NEW a \in Int
  PROVE  (a % n) % m = a % m
<1>1. PICK k \in Int : n = m * k
  BY DivMod, SMT
<1>2. a % n \in Int
  BY DivMod
<1>3. PICK q \in Int : a = n * q + (a % n)
  BY DivMod
<1>4. a = (a % n) + m * (k * q)
  BY <1>1, <1>2, <1>3, SMT
<1>5. k * q \in Int
  BY SMT
<1>6. ((a % n) + m * (k * q)) % m = (a % n) % m
  BY <1>2, <1>5, ModShift
<1> QED BY <1>4, <1>6

\* A number below the divisor is its own remainder: a counter that has not
\* wrapped.
LEMMA ModSmall ==
  ASSUME NEW m \in Nat \ {0}, NEW a \in 0 .. m - 1
  PROVE  a % m = a
<1>1. m * 0 + a = a
  BY SMT
<1>2. (m * 0 + a) % m = a
  BY ModUnique
<1> QED BY <1>1, <1>2

\* Two places less than a ring apart that share a slot are the same place:
\* why an entry of the window is never overwritten by another one.
LEMMA SameSlot ==
  ASSUME NEW m \in Nat \ {0}, NEW a \in Int, NEW b \in Int,
         a % m = b % m, -m < a - b, a - b < m
  PROVE  a = b
<1>1. PICK q \in Int : a = m * q + (a % m)
  BY DivMod
<1>2. PICK k \in Int : b = m * k + (b % m)
  BY DivMod
<1>3. a % m \in Int
  BY DivMod
<1>4. a - b = m * (q - k)
  BY <1>1, <1>2, <1>3, SMT
<1>5. ~(q - k >= 1)
  <2>1. SUFFICES ASSUME q - k >= 1 PROVE FALSE
    OBVIOUS
  <2>2. m * (q - k) >= m
    BY <2>1, SMT
  <2> QED BY <1>4, <2>2, SMT
<1>6. ~(q - k <= -1)
  <2>1. SUFFICES ASSUME q - k <= -1 PROVE FALSE
    OBVIOUS
  <2>2. m * (q - k) <= -m
    BY <2>1, SMT
  <2> QED BY <1>4, <2>2, SMT
<1>7. q = k
  BY <1>5, <1>6, SMT
<1> QED BY <1>1, <1>2, <1>7

\* Among numbers up to n there is a least one: where a scan upwards
\* or a search for the first byte of a kind stops.
LEMMA LeastNumber ==
  ASSUME NEW n \in Nat, NEW T, T \subseteq 0 .. n, T # {}
  PROVE  \E k \in T : \A j \in T : k <= j
<1> DEFINE Below == {0 .. k : k \in T}
           R == StrictSubsetOrdering(Nat)
<1>1. IsWellFoundedOn(R, FiniteSubsetsOf(Nat))
  BY FS_StrictSubsetOrderingWellFounded
<1>2. \A k \in T : k \in Nat /\ 0 .. k \subseteq Nat /\ IsFiniteSet(0 .. k)
  BY FS_Interval
<1>3. Below \subseteq FiniteSubsetsOf(Nat) /\ Below # {}
  BY <1>2 DEF FiniteSubsetsOf
<1>4. PICK b \in Below : \A c \in Below : ~ (<<c, b>> \in R)
  <2> HIDE DEF Below, R
  <2> QED BY <1>1, <1>3, WFMin
<1>5. PICK k \in T : b = 0 .. k
  OBVIOUS
<1>6. ASSUME NEW j \in T, j < k
      PROVE  FALSE
  <2>1. 0 .. j \in Below /\ 0 .. j \subseteq 0 .. k /\ k \in 0 .. k /\ k \notin 0 .. j
    BY <1>2, <1>6
  <2>2. <<0 .. j, 0 .. k>> \in R
    BY <1>2, <2>1 DEF StrictSubsetOrdering
  <2> QED BY <1>4, <1>5, <2>1, <2>2
<1>7. ASSUME NEW j \in T
      PROVE  k <= j
  BY <1>2, <1>6
<1> QED BY <1>7

\* A set of numbers with zero in it, and with the next of each of its numbers,
\* has all of them: how a loop that counts up gets to its end.
LEMMA EveryNumber ==
  ASSUME NEW S, 0 \in S, \A k \in Nat : k \in S => k + 1 \in S
  PROVE  \A n \in Nat : n \in S
<1>1. SUFFICES ASSUME NEW n \in Nat, n \notin S PROVE FALSE
  OBVIOUS
<1> DEFINE T == {k \in 0 .. n : k \notin S}
<1>2. T \subseteq 0 .. n /\ T # {}
  BY <1>1
<1>3. PICK k \in T : \A j \in T : k <= j
  <2> HIDE DEF T
  <2> QED BY <1>2, LeastNumber
<1>4. k \in Nat /\ k # 0 /\ k <= n /\ k \notin S
  BY <1>1
<1>5. k - 1 \in Nat /\ k - 1 \in 0 .. n /\ (k - 1) + 1 = k /\ ~ (k <= k - 1)
  BY <1>4
<1>6. k - 1 \in S
  BY <1>3, <1>5
<1> QED BY <1>4, <1>5, <1>6

\* A factor may be reduced before the product is.
LEMMA ModMul ==
  ASSUME NEW m \in Nat \ {0}, NEW a \in Int, NEW b \in Int
  PROVE  (a * (b % m)) % m = (a * b) % m
<1> DEFINE r == b % m
<1>1. PICK q \in Int : b = m * q + r
  BY DivMod
<1>2. r \in Int
  BY DivMod
<1> HIDE DEF r
<1>3. a * b = a * r + m * (a * q)
  <2>1. a * b = a * (m * q + r)
    BY <1>1
  <2>2. a * (m * q + r) = a * r + m * (a * q)
    BY <1>2
  <2> QED BY <2>1, <2>2
<1>4. a * r \in Int /\ a * q \in Int
  BY <1>2
<1>5. (a * r + m * (a * q)) % m = (a * r) % m
  BY <1>4, ModShift
<1> QED BY <1>3, <1>5 DEF r

\* So may both factors.
LEMMA ModMulBoth ==
  ASSUME NEW m \in Nat \ {0}, NEW a \in Int, NEW b \in Int
  PROVE  ((a % m) * (b % m)) % m = (a * b) % m
<1> DEFINE r == a % m
<1>1. r \in Int
  BY DivMod
<1>2. (b * r) % m = (b * a) % m
  BY ModMul
<1> HIDE DEF r
<1>3. (r * (b % m)) % m = (r * b) % m
  BY <1>1, ModMul
<1>4. r * b = b * r /\ a * b = b * a
  BY <1>1
<1> QED BY <1>2, <1>3, <1>4 DEF r
\* A loop of n steps over values of S, as a function, and the table of what it
\* has computed after each step.
LoopOf(F, S, n) == F \in [(1 .. n) \X S -> S]
TableOf(f, F, S, a, n) ==
  f \in [0 .. n -> S] /\ f[0] = a /\ \A i \in 1 .. n : f[i] = F[<<i, f[i - 1]>>]

\* Such a table exists for any number of steps: what a loop computes, written
\* as a recursive function.
LEMMA TableOfSteps ==
  ASSUME NEW S, NEW a \in S, NEW n \in Nat, NEW F, LoopOf(F, S, n)
  PROVE  \E f : TableOf(f, F, S, a, n)
<1>0. F \in [(1 .. n) \X S -> S]
  BY DEF LoopOf
<1> DEFINE T(k) == \E f \in [0 .. k -> S] :
                     f[0] = a /\ \A i \in 1 .. k : f[i] = F[<<i, f[i - 1]>>]
           K == {k \in Nat : k <= n => T(k)}
<1>1. 0 \in K
  <2> DEFINE z == [i \in 0 .. 0 |-> a]
  <2>1. z \in [0 .. 0 -> S] /\ z[0] = a
    OBVIOUS
  <2>2. \A i \in 1 .. 0 : z[i] = F[<<i, z[i - 1]>>]
    OBVIOUS
  <2> HIDE DEF z
  <2>3. T(0)
    BY <2>1, <2>2
  <2> QED BY <2>3
<1>2. ASSUME NEW k \in Nat, k \in K PROVE k + 1 \in K
  <2> SUFFICES ASSUME k + 1 <= n PROVE T(k + 1)
    OBVIOUS
  <2>1. PICK f \in [0 .. k -> S] :
          f[0] = a /\ \A i \in 1 .. k : f[i] = F[<<i, f[i - 1]>>]
    BY <1>2
  <2> DEFINE v == F[<<k + 1, f[k]>>]
             g == [i \in 0 .. k + 1 |-> IF i = k + 1 THEN v ELSE f[i]]
  <2>2. v \in S
    <3>1. <<k + 1, f[k]>> \in (1 .. n) \X S
      OBVIOUS
    <3> QED BY <1>0, <3>1
  <2>3. g \in [0 .. k + 1 -> S]
    BY <2>2
  <2>4. ASSUME NEW i \in 0 .. k PROVE g[i] = f[i]
    OBVIOUS
  <2>5. g[k + 1] = v
    OBVIOUS
  <2> HIDE DEF g
  <2>6. ASSUME NEW i \in 1 .. k + 1 PROVE g[i] = F[<<i, g[i - 1]>>]
    <3>1. CASE i = k + 1
      BY <2>4, <2>5, <3>1
    <3>2. CASE i # k + 1
      <4>1. i \in 1 .. k /\ i \in 0 .. k /\ i - 1 \in 0 .. k
        BY <3>2
      <4> QED BY <2>1, <2>4, <4>1
    <3> QED BY <3>1, <3>2
  <2>7. g[0] = a
    BY <2>1, <2>4
  <2> QED BY <2>3, <2>6, <2>7
<1> HIDE DEF K
<1>3. n \in K
  BY <1>1, <1>2, EveryNumber
<1>4. T(n)
  BY <1>3 DEF K
<1> QED BY <1>4 DEF TableOf
=============================================================================
