----------------------------- MODULE RingProofs ------------------------------
(***************************************************************************)
(* What a push leaves in a ring buffer, for every capacity, every content  *)
(* and every size of the chunk.                                            *)
(***************************************************************************)
EXTENDS Ring, SequenceTheorems, TLAPS

LEMMA CapPositive == RingCap \in Nat \ {0}
  BY RingAssumption DEF RingCap

LEMMA MinusFacts ==
    ASSUME NEW m \in Nat, NEW n \in Nat
    PROVE  Minus(m, n) \in Nat /\ Minus(m, n) =< m
  BY DEF Minus

\* Making room for k bytes at the end of n, of which a buffer of c bytes holds the last.
LEMMA MinusSum ==
    ASSUME NEW n \in Nat, NEW k \in Nat, NEW c \in Nat, k < c
    PROVE  /\ Minus(n + k, c) =< n
           /\ Minus(n, c) + Minus((n - Minus(n, c)) + k, c) = Minus(n + k, c)
           /\ Minus((n - Minus(n, c)) + k, c) \in Nat
  <1>1. CASE n > c
    BY <1>1 DEF Minus
  <1>2. CASE n =< c
    BY <1>2 DEF Minus
  <1> QED
    BY <1>1, <1>2

\* Dropping n elements shifts the others.
LEMMA DropFacts ==
    ASSUME NEW S, NEW seq \in Seq(S), NEW n \in Nat, n =< Len(seq)
    PROVE  /\ DropFirst(seq, n) \in Seq(S)
           /\ Len(DropFirst(seq, n)) = Len(seq) - n
           /\ \A i \in 1 .. Len(seq) - n : DropFirst(seq, n)[i] = seq[i + n]
  <1>1. n \in Nat /\ Len(seq) \in Nat /\ n =< Len(seq)
    BY LenProperties
  <1> DEFINE d == SubSeq(seq, n + 1, Len(seq))
  <1>2. CASE n = Len(seq)
    <2>1. d = << >>
      BY <1>1, <1>2, SubSeqProperties
    <2> QED
      BY <1>1, <1>2, <2>1 DEF DropFirst
  <1>3. CASE n < Len(seq)
    <2>1. /\ d \in Seq(S)
          /\ Len(d) = Len(seq) - (n + 1) + 1
          /\ \A i \in 1 .. Len(seq) - (n + 1) + 1 : d[i] = seq[n + 1 + i - 1]
      BY <1>1, <1>3, SubSeqProperties
    <2> QED
      BY <1>1, <2>1 DEF DropFirst
  <1> QED
    BY <1>1, <1>2, <1>3

\* The last elements of a concatenation: those of its second part alone, or all of them after
\* the last ones of the first part.
LEMMA DropOfConcat ==
    ASSUME NEW S, NEW p \in Seq(S), NEW d \in Seq(S), NEW q \in Seq(S), q = p \o d,
           NEW n \in Nat, n =< Len(q)
    PROVE  DropFirst(q, n) = IF n =< Len(p) THEN DropFirst(p, n) \o d
                                            ELSE DropFirst(d, n - Len(p))
  <1>1. Len(p) \in Nat /\ Len(d) \in Nat /\ n \in Nat
    BY LenProperties
  <1>2. /\ Len(q) = Len(p) + Len(d)
        /\ \A i \in 1 .. Len(p) + Len(d) : q[i] = IF i =< Len(p) THEN p[i] ELSE d[i - Len(p)]
    BY ConcatProperties
  <1> DEFINE r == DropFirst(q, n)
  <1>3. /\ r \in Seq(S) /\ Len(r) = Len(q) - n
        /\ \A i \in 1 .. Len(q) - n : r[i] = q[i + n]
    BY DropFacts
  <1> HIDE DEF r
  <1>4. CASE n =< Len(p)
    <2> DEFINE x == DropFirst(p, n)
               y == x \o d
    <2>1. x \in Seq(S) /\ Len(x) = Len(p) - n /\ \A i \in 1 .. Len(p) - n : x[i] = p[i + n]
      BY <1>1, <1>4, DropFacts
    <2> HIDE DEF x
    <2>2. /\ y \in Seq(S) /\ Len(y) = Len(x) + Len(d)
          /\ \A i \in 1 .. Len(x) + Len(d) : y[i] = IF i =< Len(x) THEN x[i] ELSE d[i - Len(x)]
      BY <2>1, ConcatProperties
    <2> HIDE DEF y
    <2>3. Len(r) = Len(y)
      BY <1>1, <1>2, <1>3, <2>1, <2>2
    <2>4. ASSUME NEW i \in 1 .. Len(r) PROVE r[i] = y[i]
      <3>1. i \in Nat /\ i >= 1 /\ i =< Len(p) + Len(d) - n
        BY <1>1, <1>2, <1>3, <2>4
      <3>2. r[i] = q[i + n] /\ i + n \in 1 .. Len(p) + Len(d)
        BY <1>1, <1>2, <1>3, <3>1
      <3>3. i \in 1 .. Len(x) + Len(d)
        BY <1>1, <1>4, <2>1, <3>1
      <3>4. CASE i =< Len(p) - n
        <4>1. y[i] = x[i] /\ x[i] = p[i + n]
          BY <1>1, <1>4, <2>1, <2>2, <3>1, <3>3, <3>4
        <4>2. q[i + n] = p[i + n]
          BY <1>1, <1>2, <3>1, <3>2, <3>4
        <4> QED
          BY <3>2, <4>1, <4>2
      <3>5. CASE i > Len(p) - n
        <4>1. y[i] = d[i - Len(x)] /\ i - Len(x) = i + n - Len(p)
          BY <1>1, <1>4, <2>1, <2>2, <3>1, <3>3, <3>5
        <4>2. q[i + n] = d[i + n - Len(p)]
          BY <1>1, <1>2, <3>1, <3>2, <3>5
        <4> QED
          BY <3>2, <4>1, <4>2
      <3> QED
        BY <1>1, <1>4, <3>1, <3>4, <3>5
    <2>5. r = y
      BY <1>3, <2>2, <2>3, <2>4, SeqEqual
    <2> QED
      BY <1>4, <2>5 DEF r, x, y
  <1>5. CASE n > Len(p)
    <2> DEFINE m == n - Len(p)
               x == DropFirst(d, m)
    <2>0. m =< Len(d) /\ m \in Nat
      BY <1>1, <1>2, <1>5
    <2>1. x \in Seq(S) /\ Len(x) = Len(d) - m /\ \A i \in 1 .. Len(d) - m : x[i] = d[i + m]
      BY <2>0, DropFacts
    <2> HIDE DEF x
    <2>2. Len(r) = Len(x)
      BY <1>1, <1>2, <1>3, <2>1
    <2>3. ASSUME NEW i \in 1 .. Len(r) PROVE r[i] = x[i]
      <3>1. i \in Nat /\ i >= 1 /\ i =< Len(d) - m
        BY <1>1, <2>0, <2>1, <2>2, <2>3
      <3>2. r[i] = q[i + n] /\ i + n \in 1 .. Len(p) + Len(d) /\ i + n > Len(p)
        BY <1>1, <1>2, <1>3, <1>5, <2>2, <2>1, <3>1
      <3>3. q[i + n] = d[i + n - Len(p)] /\ i + n - Len(p) = i + m
        BY <1>1, <1>2, <3>1, <3>2
      <3>4. x[i] = d[i + m]
        BY <2>0, <2>1, <3>1
      <3> QED
        BY <3>2, <3>3, <3>4
    <2>4. r = x
      BY <1>3, <2>1, <2>2, <2>3, SeqEqual
    <2> QED
      BY <1>1, <1>5, <2>4 DEF r, x
  <1> QED
    BY <1>1, <1>4, <1>5

\* Two drops in a row are one.
LEMMA DropTwice ==
    ASSUME NEW S, NEW p \in Seq(S), NEW a \in Nat, NEW b \in Nat, a + b =< Len(p)
    PROVE  DropFirst(DropFirst(p, a), b) = DropFirst(p, a + b)
  <1> DEFINE x == DropFirst(p, a)
             y == DropFirst(x, b)
             z == DropFirst(p, a + b)
  <1>1. Len(p) \in Nat /\ a \in Nat /\ b \in Nat /\ a + b \in Nat /\ a =< Len(p) /\ b =< Len(p) - a
    BY LenProperties
  <1>2. x \in Seq(S) /\ Len(x) = Len(p) - a /\ \A i \in 1 .. Len(p) - a : x[i] = p[i + a]
    BY <1>1, DropFacts
  <1>3. z \in Seq(S) /\ Len(z) = Len(p) - (a + b)
        /\ \A i \in 1 .. Len(p) - (a + b) : z[i] = p[i + (a + b)]
    BY <1>1, DropFacts
  <1> HIDE DEF x, z
  <1>4. y \in Seq(S) /\ Len(y) = Len(x) - b /\ \A i \in 1 .. Len(x) - b : y[i] = x[i + b]
    BY <1>1, <1>2, DropFacts
  <1> HIDE DEF y
  <1>5. Len(y) = Len(z)
    BY <1>1, <1>2, <1>3, <1>4
  <1>6. ASSUME NEW i \in 1 .. Len(y) PROVE y[i] = z[i]
    <2>1. i \in Nat /\ i >= 1 /\ i =< Len(p) - a - b
      BY <1>1, <1>2, <1>4, <1>6
    <2>2. y[i] = x[i + b] /\ x[i + b] = p[i + b + a]
      <3>1. i + b >= 1 /\ i + b =< Len(p) - a /\ i + b \in Nat
        BY <1>1, <2>1
      <3>2. y[i] = x[i + b]
        BY <1>1, <1>2, <1>4, <2>1
      <3>3. x[i + b] = p[(i + b) + a]
        BY <1>1, <1>2, <3>1
      <3> QED
        BY <3>2, <3>3
    <2>3. z[i] = p[i + (a + b)] /\ i + b + a = i + (a + b)
      BY <1>1, <1>3, <2>1
    <2> QED
      BY <2>2, <2>3
  <1>7. y = z
    BY <1>3, <1>4, <1>5, <1>6, SeqEqual
  <1> QED
    BY <1>7 DEF x, y, z

LEMMA DropWithin ==
    ASSUME NEW S, NEW p \in Seq(S), NEW d \in Seq(S), NEW n \in Nat, n =< Len(p)
    PROVE  DropFirst(p \o d, n) = DropFirst(p, n) \o d
  <1>1. p \o d \in Seq(S) /\ Len(p \o d) = Len(p) + Len(d) /\ Len(p) \in Nat /\ Len(d) \in Nat
    BY ConcatProperties, LenProperties
  <1>2. n =< Len(p \o d)
    BY <1>1
  <1> QED
    BY <1>1, <1>2, DropOfConcat

LEMMA DropBeyond ==
    ASSUME NEW S, NEW p \in Seq(S), NEW d \in Seq(S), NEW n \in Nat, n > Len(p), n =< Len(p) + Len(d)
    PROVE  DropFirst(p \o d, n) = DropFirst(d, n - Len(p))
  <1>1. p \o d \in Seq(S) /\ Len(p \o d) = Len(p) + Len(d) /\ Len(p) \in Nat /\ Len(d) \in Nat
    BY ConcatProperties, LenProperties
  <1>2. n =< Len(p \o d) /\ ~ (n =< Len(p))
    BY <1>1
  <1> QED
    BY <1>1, <1>2, DropOfConcat

LEMMA DropNothing == ASSUME NEW S, NEW d \in Seq(S) PROVE DropFirst(d, 0) = d
  <1> DEFINE z == DropFirst(d, 0)
  <1>1. 0 \in Nat /\ Len(d) \in Nat /\ 0 =< Len(d)
    BY LenProperties
  <1>2. z \in Seq(S) /\ Len(z) = Len(d) - 0 /\ \A i \in 1 .. Len(d) - 0 : z[i] = d[i + 0]
    BY <1>1, DropFacts
  <1> HIDE DEF z
  <1>3. Len(z) = Len(d) /\ \A i \in 1 .. Len(z) : z[i] = d[i]
    BY <1>1, <1>2
  <1>4. z = d
    BY <1>2, <1>3, SeqEqual
  <1> QED
    BY <1>4 DEF z

LEMMA DropAll == ASSUME NEW S, NEW p \in Seq(S) PROVE DropFirst(p, Len(p)) = << >>
  <1>1. Len(p) \in Nat /\ Len(p) =< Len(p)
    BY LenProperties
  <1>2. DropFirst(p, Len(p)) \in Seq(S) /\ Len(DropFirst(p, Len(p))) = 0
    BY <1>1, DropFacts
  <1> QED
    BY <1>2, EmptySeq

\* What Push makes of the last elements of p are the last elements of p followed by d.
LEMMA PushKeepsLast ==
    ASSUME NEW S, NEW p \in Seq(S), NEW d \in Seq(S)
    PROVE  Push(DropFirst(p, Minus(Len(p), RingCap)), d)
               = DropFirst(p \o d, Minus(Len(p) + Len(d), RingCap))
  <1> DEFINE old == DropFirst(p, Minus(Len(p), RingCap))
  <1>1. PICK n \in Nat, k \in Nat, c \in Nat : n = Len(p) /\ k = Len(d) /\ c = RingCap
    BY CapPositive, LenProperties
  <1>2. Minus(n, c) \in Nat /\ Minus(n, c) =< n /\ Minus(n + k, c) \in Nat
    <2>1. n + k \in Nat
      OBVIOUS
    <2> QED
      BY <2>1, MinusFacts
  <1> HIDE DEF old
  <1> SUFFICES Push(old, d) = DropFirst(p \o d, Minus(n + k, c))
    BY <1>1 DEF old
  <1>3. CASE k > c
    <2>1. Push(old, d) = DropFirst(d, k - c)
      BY <1>1, <1>3 DEF Push
    <2>2. PICK m \in Nat : m = n + k - c
      BY <1>3
    <2>3. Minus(n + k, c) = m /\ m =< n + k /\ m > n /\ m - n = k - c
      BY <1>3, <2>2 DEF Minus
    <2>4. m > Len(p) /\ m =< Len(p) + Len(d)
      BY <1>1, <2>3
    <2>5. DropFirst(p \o d, m) = DropFirst(d, m - Len(p))
      BY <2>4, DropBeyond
    <2> QED
      BY <1>1, <2>1, <2>3, <2>5
  <1>4. CASE k = c
    <2>1. k >= c /\ k - c = 0 /\ Minus(n + k, c) = n
      BY <1>4 DEF Minus
    <2>2. Push(old, d) = DropFirst(d, 0)
      BY <1>1, <2>1 DEF Push
    <2>3. DropFirst(p \o d, n) = DropFirst(p, n) \o d
      <3>1. n =< Len(p)
        BY <1>1
      <3> QED
        BY <3>1, DropWithin
    <2>4. DropFirst(p, n) = << >>
      BY <1>1, DropAll
    <2>5. << >> \o d = d
      BY ConcatEmptySeq
    <2> QED
      BY <2>1, <2>2, <2>3, <2>4, <2>5, DropNothing
  <1>5. CASE k < c
    <2>1. Len(old) = n - Minus(n, c)
      <3>1. Minus(n, c) =< Len(p)
        BY <1>1, <1>2
      <3>2. Len(DropFirst(p, Minus(n, c))) = Len(p) - Minus(n, c)
        BY <1>2, <3>1, DropFacts
      <3> QED
        BY <1>1, <3>2 DEF old
    <2>2. /\ Minus(n + k, c) =< n
          /\ Minus(n, c) + Minus((n - Minus(n, c)) + k, c) = Minus(n + k, c)
          /\ Minus((n - Minus(n, c)) + k, c) \in Nat
      BY <1>5, MinusSum
    <2>3. PICK a \in Nat, b \in Nat, m \in Nat : /\ a = Minus(n, c)
                                               /\ b = Minus(Len(old) + k, c)
                                               /\ m = Minus(n + k, c)
      BY <1>2, <2>1, <2>2
    <2>4. Push(old, d) = DropFirst(old, b) \o d
      <3>1. ~ (k >= c)
        BY <1>5
      <3> QED
        BY <1>1, <2>3, <3>1 DEF Push
    <2>5. a + b = m /\ m =< n
      BY <2>1, <2>2, <2>3
    <2>6. a + b =< Len(p) /\ m =< Len(p)
      BY <1>1, <2>5
    <2>7. DropFirst(p \o d, m) = DropFirst(p, m) \o d
      BY <2>6, DropWithin
    <2>8. DropFirst(DropFirst(p, a), b) = DropFirst(p, a + b)
      BY <2>6, DropTwice
    <2>9. old = DropFirst(p, a)
      BY <1>1, <2>3 DEF old
    <2> QED
      BY <2>3, <2>4, <2>5, <2>7, <2>8, <2>9
  <1> QED
    BY <1>3, <1>4, <1>5
=============================================================================
