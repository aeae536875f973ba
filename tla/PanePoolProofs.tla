--------------------------- MODULE PanePoolProofs ----------------------------
(***************************************************************************)
(* Theorems about PanePool, for every set of sessions, every capacity of   *)
(* the rings, every size of the chunks and every choice of commands.       *)
(***************************************************************************)
EXTENDS PanePool, RingProofs, WellFoundedInduction, FiniteSetTheorems

\* What the readers and the rings are, and nothing more.
RingTypeOK ==
    /\ produced \in [Terms -> Nat]
    /\ DOMAIN ring = Terms
    /\ DOMAIN reader = Terms

RingInv == RingTypeOK /\ MostRecent

LEMMA OutputType == ASSUME NEW n \in Nat PROVE Output(n) \in Seq(Nat) /\ Len(Output(n)) = n
  <1>1. Output(n) \in [1 .. n -> Nat]
    BY DEF Output
  <1> QED
    BY <1>1, LenProperties DEF Output

\* The numbers of the n bytes that follow the first m.
LEMMA ChunkType ==
    ASSUME NEW m \in Nat, NEW n \in Nat
    PROVE  /\ [i \in 1 .. n |-> m + i] \in Seq(Nat)
           /\ Len([i \in 1 .. n |-> m + i]) = n
  <1> DEFINE chunk == [i \in 1 .. n |-> m + i]
  <1>1. chunk \in [1 .. n -> Nat] /\ DOMAIN chunk = 1 .. n
    OBVIOUS
  <1>2. chunk \in Seq(Nat)
    BY <1>1, SeqDef
  <1> HIDE DEF chunk
  <1>3. Len(chunk) = n
    BY <1>1, <1>2, LenProperties
  <1> QED
    BY <1>2, <1>3 DEF chunk

LEMMA LengthOfParts ==
    ASSUME NEW p \in Seq(Nat), NEW d \in Seq(Nat)
    PROVE  /\ p \o d \in Seq(Nat)
           /\ Len(p \o d) = Len(p) + Len(d)
           /\ \A i \in 1 .. Len(p) + Len(d) :
                (p \o d)[i] = IF i =< Len(p) THEN p[i] ELSE d[i - Len(p)]
  BY ConcatProperties

\* What a terminal has written grows by the chunk that is read.
LEMMA OutputGrows ==
    ASSUME NEW m \in Nat, NEW n \in Nat
    PROVE  Output(m + n) = Output(m) \o [i \in 1 .. n |-> m + i]
  <1> DEFINE old == Output(m)
             new == Output(m + n)
             chunk == [i \in 1 .. n |-> m + i]
             both == old \o chunk
  <1>1. /\ chunk \in Seq(Nat) /\ Len(chunk) = n
        /\ \A j \in 1 .. n : chunk[j] = m + j
    BY ChunkType
  <1>2. /\ old \in Seq(Nat) /\ Len(old) = m
        /\ \A i \in 1 .. m : old[i] = i
    BY OutputType DEF Output
  <1>3. /\ new \in Seq(Nat) /\ Len(new) = m + n
        /\ \A i \in 1 .. m + n : new[i] = i
    <2>1. m + n \in Nat
      OBVIOUS
    <2> QED
      BY <2>1, OutputType DEF Output
  <1> HIDE DEF old, new, chunk
  <1>4. /\ both \in Seq(Nat) /\ Len(both) = m + n
        /\ \A i \in 1 .. m + n : both[i] = IF i =< m THEN old[i] ELSE chunk[i - m]
    BY <1>1, <1>2, LengthOfParts
  <1> HIDE DEF both
  <1>5. ASSUME NEW i \in 1 .. m + n PROVE both[i] = new[i]
    <2>1. CASE i =< m
      BY <1>2, <1>3, <1>4, <2>1
    <2>2. CASE i > m
      <3>1. i - m \in 1 .. n /\ m + (i - m) = i
        BY <2>2
      <3> QED
        BY <1>1, <1>3, <1>4, <2>2, <3>1
    <2> QED
      BY <2>1, <2>2
  <1>6. new = both
    BY <1>3, <1>4, <1>5, SeqEqual
  <1> QED
    BY <1>6 DEF new, both, old, chunk

\* A read is the one step that touches a ring.
LEMMA ReadKeepsRing ==
    ASSUME RingInv, NEW s \in Terms, ReadChunk(s)
    PROVE  RingInv'
  <1>1. PICK n \in 1 .. ChunkMax :
            /\ produced' = [produced EXCEPT ![s] = @ + n]
            /\ ring' = [ring EXCEPT ![s] = Push(@, [i \in 1 .. n |-> produced[s] + i])]
            /\ DOMAIN reader' = Terms
    BY DEF ReadChunk, RingInv, RingTypeOK
  <1>2. n \in Nat /\ produced[s] \in Nat
    BY PoolBoundsAssumption DEF RingInv, RingTypeOK
  <1> DEFINE m == produced[s]
             chunk == [i \in 1 .. n |-> m + i]
  <1>3. /\ Output(m) \in Seq(Nat) /\ Len(Output(m)) = m
        /\ chunk \in Seq(Nat) /\ Len(chunk) = n
    BY <1>2, OutputType, ChunkType
  <1>4. ring[s] = DropFirst(Output(m), Minus(m, RingCap))
    BY DEF RingInv, MostRecent
  <1>5. Push(ring[s], chunk) = DropFirst(Output(m + n), Minus(m + n, RingCap))
    <2>1. Output(m + n) = Output(m) \o chunk
      BY <1>2, OutputGrows
    <2> HIDE DEF m, chunk
    <2>2. Push(DropFirst(Output(m), Minus(Len(Output(m)), RingCap)), chunk)
              = DropFirst(Output(m) \o chunk, Minus(Len(Output(m)) + Len(chunk), RingCap))
      BY <1>3, PushKeepsLast
    <2> QED
      BY <1>3, <1>4, <2>1, <2>2
  <1>6. produced' \in [Terms -> Nat] /\ DOMAIN ring' = Terms
    BY <1>1, <1>2 DEF RingInv, RingTypeOK
  <1>7. ASSUME NEW r \in Terms
        PROVE  ring'[r] = DropFirst(Output(produced'[r]), Minus(produced'[r], RingCap))
    <2>1. CASE r = s
      <3>1. produced'[r] = m + n /\ ring'[r] = Push(ring[s], chunk)
        BY <1>1, <2>1 DEF RingInv, RingTypeOK
      <3> QED
        BY <1>5, <3>1
    <2>2. CASE r # s
      <3>1. produced'[r] = produced[r] /\ ring'[r] = ring[r]
        BY <1>1, <2>2 DEF RingInv, RingTypeOK
      <3> QED
        BY <3>1 DEF RingInv, MostRecent
    <2> QED
      BY <2>1, <2>2
  <1> QED
    BY <1>1, <1>6, <1>7 DEF RingInv, RingTypeOK, MostRecent

\* No other step does.
LEMMA OthersKeepRing ==
    ASSUME RingInv, UNCHANGED <<ring, produced>>, DOMAIN reader' = DOMAIN reader
    PROVE  RingInv'
  BY DEF RingInv, RingTypeOK, MostRecent

\* Each ring holds the last bytes its terminal wrote, as many as it has room for, in their order
\* (ring.rs:1), whatever the reads returned and whatever the user did meanwhile.
THEOREM RingsKeepMostRecent == PoolSpec => []MostRecent
  <1>1. PoolInit => RingInv
    <2> SUFFICES ASSUME PoolInit PROVE RingInv
      OBVIOUS
    <2>1. RingTypeOK
      BY DEF PoolInit, RingTypeOK
    <2>2. ASSUME NEW s \in Terms
          PROVE  ring[s] = DropFirst(Output(produced[s]), Minus(produced[s], RingCap))
      <3>1. ring[s] = <<>> /\ produced[s] = 0
        BY DEF PoolInit
      <3>2. Minus(0, RingCap) = 0
        BY CapPositive DEF Minus
      <3>3. Output(0) \in Seq(Nat) /\ Len(Output(0)) = 0
        BY OutputType
      <3>4. Output(0) = <<>>
        BY <3>3, EmptySeq
      <3>5. DropFirst(Output(0), 0) = Output(0)
        BY <3>3, DropNothing
      <3> QED
        BY <3>1, <3>2, <3>4, <3>5
    <2> QED
      BY <2>1, <2>2 DEF RingInv, MostRecent
  <1>2. RingInv /\ [PoolNext]_poolVars => RingInv'
    <2> SUFFICES ASSUME RingInv, [PoolNext]_poolVars PROVE RingInv'
      OBVIOUS
    <2>1. CASE UNCHANGED poolVars
      BY <2>1, OthersKeepRing DEF poolVars, stateVars, readerVars
    <2>2. CASE MainNext
      <3>1. ASSUME NEW s \in Terms, Create(s) PROVE RingInv'
        BY <3>1, OthersKeepRing DEF Create
      <3>2. ASSUME NEW s \in Terms,
                   Attach(s) \/ Detach(s) \/ Remove(s) \/ Rename(s) \/ KillTerm(s)
            PROVE  RingInv'
        BY <3>2, OthersKeepRing DEF Attach, Detach, Remove, Rename, KillTerm, readerVars
      <3>3. ASSUME NEW n \in MaxAttached, SetConfig(n) PROVE RingInv'
        BY <3>3, OthersKeepRing DEF SetConfig, readerVars
      <3>4. CASE Continue
        BY <3>4, OthersKeepRing DEF Continue, SetAttached, Replay, readerVars
      <3>5. CASE Reload \/ WireEvents
        BY <3>5, OthersKeepRing DEF Reload, WireEvents, readerVars
      <3> QED
        BY <2>2, <3>1, <3>2, <3>3, <3>4, <3>5 DEF MainNext
    <2>3. ASSUME NEW s \in Terms, TermReaderNext(s) PROVE RingInv'
      <3>1. CASE ReadChunk(s)
        BY <3>1, ReadKeepsRing
      <3>2. CASE CheckAttached(s)
        BY <3>2, OthersKeepRing DEF CheckAttached, NextChunk
      <3>3. CASE EmitChunk(s)
        BY <3>3, OthersKeepRing DEF EmitChunk, NextChunk
      <3>4. CASE EndStream(s)
        BY <3>4, OthersKeepRing DEF EndStream
      <3>5. CASE SendLast(s)
        BY <3>5, OthersKeepRing DEF SendLast
      <3> QED
        BY <2>3, <3>1, <3>2, <3>3, <3>4, <3>5 DEF TermReaderNext
    <2>4. CASE MonitorNext
      BY <2>4, OthersKeepRing DEF MonitorNext, Sample, MonitorSend, readerVars
    <2>5. CASE Deliver
      BY <2>5, OthersKeepRing DEF Deliver, readerVars
    <2> QED
      BY <2>1, <2>2, <2>3, <2>4, <2>5 DEF PoolNext
  <1>3. RingInv => MostRecent
    BY DEF RingInv
  <1> QED
    BY <1>1, <1>2, <1>3, PTL DEF PoolSpec

-----------------------------------------------------------------------------
(* Lists without an element: retain.                                       *)

\* The order of the naturals is well-founded.
LEMMA LessWellFounded ==
    \E less : IsWellFoundedOn(less, Nat) /\ \A m, n \in Nat : n < m => <<n, m>> \in less
  <1>1. \A m, n \in Nat : n < m => <<n, m>> \in OpToRel(<, Nat)
    BY DEF OpToRel
  <1> QED
    BY <1>1, NatLessThanWellFounded

\* Induction over the naturals: of the numbers in a set one is the least.
LEMMA Least == ASSUME NEW T, T \subseteq Nat, T # {} PROVE \E m \in T : \A n \in T : m =< n
  <1>1. PICK less : IsWellFoundedOn(less, Nat) /\ \A m, n \in Nat : n < m => <<n, m>> \in less
    BY LessWellFounded
  <1>2. PICK m \in T : \A n \in T : <<n, m>> \notin less
    BY <1>1, WFMin
  <1>3. ASSUME NEW n \in T PROVE m =< n
    <2>1. m \in Nat /\ n \in Nat
      OBVIOUS
    <2>2. ~ (n < m)
      BY <1>1, <1>2, <2>1, Zenon
    <2> QED
      BY <2>1, <2>2
  <1> QED
    BY <1>3

\* So a set of numbers that has 0 and the successor of each of its members up to n has them all.
LEMMA UpTo ==
    ASSUME NEW n \in Nat, NEW H, 0 \in H, \A i \in 0 .. n : i < n /\ i \in H => i + 1 \in H
    PROVE  \A i \in 0 .. n : i \in H
  <1> DEFINE bad == {i \in 0 .. n : i \notin H}
  <1> SUFFICES ASSUME bad # {} PROVE FALSE
    OBVIOUS
  <1>1. bad \subseteq Nat
    OBVIOUS
  <1>2. PICK m \in bad : \A i \in bad : m =< i
    <2> HIDE DEF bad
    <2> QED
      BY <1>1, Least
  <1>3. m \in 1 .. n /\ m \notin H
    BY <1>2
  <1>4. m - 1 \in 0 .. n /\ m - 1 < n /\ (m - 1) + 1 = m
    BY <1>3
  <1>5. m - 1 \in H
    <2>1. m - 1 \notin bad
      BY <1>2, <1>3
    <2> QED
      BY <2>1, <1>4
  <1> QED
    BY <1>3, <1>4, <1>5

KeptUpTo(seq, s, n, f) ==
    f = [i \in 0 .. n |-> IF i = 0 THEN <<>>
                          ELSE IF seq[i] = s THEN f[i - 1] ELSE Append(f[i - 1], seq[i])]

LEMMA KeptExists ==
    ASSUME NEW seq, NEW s, NEW n \in Nat
    PROVE  \E f : KeptUpTo(seq, s, n, f)
  <1> DEFINE H == {i \in Nat : \E f : KeptUpTo(seq, s, i, f)}
  <1>1. 0 \in H
    <2> DEFINE f == [i \in 0 .. 0 |-> <<>>]
    <2>1. KeptUpTo(seq, s, 0, f)
      BY DEF KeptUpTo
    <2> QED
      BY <2>1
  <1>2. ASSUME NEW i \in 0 .. n, i < n, i \in H PROVE i + 1 \in H
    <2>1. PICK f : KeptUpTo(seq, s, i, f)
      BY <1>2
    <2> DEFINE next == IF seq[i + 1] = s THEN f[i] ELSE Append(f[i], seq[i + 1])
               g == [j \in 0 .. i + 1 |-> IF j = i + 1 THEN next ELSE f[j]]
    <2>2. ASSUME NEW j \in 0 .. i + 1
          PROVE  g[j] = IF j = 0 THEN <<>> ELSE IF seq[j] = s THEN g[j - 1]
                                                ELSE Append(g[j - 1], seq[j])
      <3>1. CASE j = i + 1
        <4>1. i \in 0 .. i + 1 /\ i # i + 1 /\ j - 1 = i /\ j # 0
          BY <3>1
        <4>2. g[j] = next /\ g[j - 1] = f[i]
          BY <3>1, <4>1
        <4> QED
          BY <3>1, <4>1, <4>2
      <3>2. CASE j = 0
        <4>1. g[j] = f[j]
          BY <3>2
        <4>2. f[0] = <<>>
          BY <2>1 DEF KeptUpTo
        <4> QED
          BY <3>2, <4>1, <4>2
      <3>3. CASE j \in 1 .. i
        <4>1. j - 1 \in 0 .. i /\ j # i + 1 /\ j - 1 # i + 1 /\ j # 0 /\ j \in 0 .. i
          BY <3>3
        <4>2. g[j] = f[j] /\ g[j - 1] = f[j - 1]
          BY <4>1
        <4>3. f[j] = IF seq[j] = s THEN f[j - 1] ELSE Append(f[j - 1], seq[j])
          BY <2>1, <4>1 DEF KeptUpTo
        <4> QED
          BY <4>1, <4>2, <4>3
      <3> QED
        BY <3>1, <3>2, <3>3
    <2>3. KeptUpTo(seq, s, i + 1, g)
      <3>1. g = [j \in 0 .. i + 1 |-> g[j]]
        OBVIOUS
      <3> HIDE DEF g
      <3> QED
        BY <2>2, <3>1 DEF KeptUpTo
    <2> QED
      BY <2>3
  <1> HIDE DEF H
  <1>3. n \in H
    BY <1>1, <1>2, UpTo
  <1> QED
    BY <1>3 DEF H

LEMMA WithoutKept ==
    ASSUME NEW seq, NEW s, Len(seq) \in Nat
    PROVE  \E f : KeptUpTo(seq, s, Len(seq), f) /\ Without(seq, s) = f[Len(seq)]
  <1> DEFINE f == CHOOSE g : KeptUpTo(seq, s, Len(seq), g)
  <1>1. KeptUpTo(seq, s, Len(seq), f)
    BY KeptExists
  <1>2. Without(seq, s) = f[Len(seq)]
    BY DEF Without, KeptUpTo
  <1> QED
    BY <1>1, <1>2

\* The members of q are those of the first i of seq, without s.
Left(q, seq, s, i) ==
    \A x : (\E k \in 1 .. Len(q) : q[k] = x) <=> (x # s /\ \E k \in 1 .. i : seq[k] = x)

\* What retain leaves of the first i of a list: only s is gone.
LEMMA KeptFacts ==
    ASSUME NEW S, NEW seq \in Seq(S), NEW s, NEW f, KeptUpTo(seq, s, Len(seq), f)
    PROVE  \A i \in 0 .. Len(seq) : f[i] \in Seq(S) /\ Left(f[i], seq, s, i)
  <1> DEFINE n == Len(seq)
             H == {i \in 0 .. n : f[i] \in Seq(S) /\ Left(f[i], seq, s, i)}
  <1>1. n \in Nat /\ \A i \in 1 .. n : seq[i] \in S
    BY LenProperties, ElementOfSeq
  <1>2. 0 \in H
    <2>1. f[0] = <<>>
      BY <1>1 DEF KeptUpTo
    <2>2. Left(<<>>, seq, s, 0)
      BY DEF Left
    <2>3. f[0] \in Seq(S) /\ Left(f[0], seq, s, 0)
      BY <2>1, <2>2
    <2>4. 0 \in 0 .. n
      BY <1>1
    <2> HIDE DEF n
    <2> QED
      BY <2>3, <2>4
  <1>3. ASSUME NEW i \in 0 .. n, i < n, i \in H PROVE i + 1 \in H
    <2> DEFINE e == seq[i + 1]
               p == f[i]
               q == f[i + 1]
    <2>1. i + 1 \in 1 .. n /\ i + 1 \in 0 .. n /\ (i + 1) - 1 = i /\ i + 1 # 0 /\ i \in Nat
      BY <1>1, <1>3
    <2>2. q = IF e = s THEN p ELSE Append(p, e)
      BY <2>1 DEF KeptUpTo
    <2>3. p \in Seq(S) /\ Left(p, seq, s, i)
      BY <1>3
    <2>4. e \in S /\ Len(p) \in Nat
      BY <1>1, <2>1, <2>3, LenProperties
    <2>5. \A x : (\E k \in 1 .. i + 1 : seq[k] = x) <=> (x = e \/ \E k \in 1 .. i : seq[k] = x)
      BY <2>1
    <2> HIDE DEF e, p, q
    <2>6. q \in Seq(S) /\ Left(q, seq, s, i + 1)
      <3>1. CASE e = s
        BY <2>2, <2>3, <2>5, <3>1 DEF Left
      <3>2. CASE e # s
        <4>1. /\ q \in Seq(S) /\ Len(q) = Len(p) + 1
              /\ \A k \in 1 .. Len(p) : q[k] = p[k]
              /\ q[Len(p) + 1] = e
          BY <2>2, <2>3, <2>4, <3>2, AppendProperties
        <4>2. \A x : (\E k \in 1 .. Len(q) : q[k] = x) <=> (x = e \/ \E k \in 1 .. Len(p) : p[k] = x)
          BY <2>4, <4>1
        <4> QED
          BY <2>3, <2>5, <3>2, <4>1, <4>2 DEF Left
      <3> QED
        BY <3>1, <3>2
    <2> QED
      BY <2>1, <2>6 DEF q
  <1>4. \A i \in 0 .. n : i \in H
    <2> HIDE DEF H, n
    <2> QED
      BY <1>1, <1>2, <1>3, UpTo
  <1> QED
    BY <1>4

NoTwice(seq) == \A i, j \in DOMAIN seq : seq[i] = seq[j] => i = j

\* Nor does it put anything twice into a list that has nothing twice.
LEMMA KeptOnce ==
    ASSUME NEW S, NEW seq \in Seq(S), NEW s, NEW f, KeptUpTo(seq, s, Len(seq), f), NoTwice(seq)
    PROVE  \A i \in 0 .. Len(seq) : NoTwice(f[i])
  <1> DEFINE n == Len(seq)
             H == {i \in 0 .. n : NoTwice(f[i])}
  <1>1. n \in Nat /\ DOMAIN seq = 1 .. n /\ \A i \in 1 .. n : seq[i] \in S
    BY LenProperties, ElementOfSeq
  <1>2. 0 \in H
    <2>1. f[0] = <<>>
      BY <1>1 DEF KeptUpTo
    <2> QED
      BY <1>1, <2>1 DEF NoTwice
  <1>3. ASSUME NEW i \in 0 .. n, i < n, i \in H PROVE i + 1 \in H
    <2> DEFINE e == seq[i + 1]
               p == f[i]
               q == f[i + 1]
    <2>1. i + 1 \in 1 .. n /\ i + 1 \in 0 .. n /\ (i + 1) - 1 = i /\ i + 1 # 0 /\ i \in Nat
      BY <1>1, <1>3
    <2>2. q = IF e = s THEN p ELSE Append(p, e)
      BY <2>1 DEF KeptUpTo
    <2>3. p \in Seq(S) /\ Left(p, seq, s, i)
      BY <1>1, KeptFacts
    <2>4. e \in S /\ Len(p) \in Nat /\ DOMAIN p = 1 .. Len(p)
      BY <1>1, <2>1, <2>3, LenProperties
    <2>5. ASSUME NEW k \in 1 .. i PROVE seq[k] # e
      BY <1>1, <2>1, <2>5 DEF NoTwice
    <2>6. NoTwice(p)
      BY <1>3
    <2> HIDE DEF e, p, q
    <2>7. NoTwice(q)
      <3>1. CASE e = s
        BY <2>2, <2>6, <3>1
      <3>2. CASE e # s
        <4>1. /\ q \in Seq(S) /\ Len(q) = Len(p) + 1
              /\ \A k \in 1 .. Len(p) : q[k] = p[k]
              /\ q[Len(p) + 1] = e
          BY <2>2, <2>3, <2>4, <3>2, AppendProperties
        <4>2. DOMAIN q = 1 .. Len(p) + 1
          BY <4>1, LenProperties
        <4>3. \A k \in 1 .. Len(p) : p[k] # e
          BY <2>3, <2>5 DEF Left
        <4> QED
          BY <2>4, <2>6, <4>1, <4>2, <4>3 DEF NoTwice
      <3> QED
        BY <3>1, <3>2
    <2>8. NoTwice(f[i + 1])
      BY <2>7 DEF q
    <2> QED
      BY <2>1, <2>8
  <1>4. \A i \in 0 .. n : i \in H
    <2> HIDE DEF H, n
    <2> QED
      BY <1>1, <1>2, <1>3, UpTo
  <1> QED
    BY <1>4

\* retain takes s out of a list, and nothing else.
LEMMA WithoutFacts ==
    ASSUME NEW S, NEW seq \in Seq(S), NEW s
    PROVE  /\ Without(seq, s) \in Seq(S)
           /\ Elems(Without(seq, s)) = Elems(seq) \ {s}
           /\ NoTwice(seq) => NoTwice(Without(seq, s))
  <1>1. Len(seq) \in Nat /\ DOMAIN seq = 1 .. Len(seq)
    BY LenProperties
  <1>2. PICK f : KeptUpTo(seq, s, Len(seq), f) /\ Without(seq, s) = f[Len(seq)]
    BY <1>1, WithoutKept
  <1> DEFINE w == Without(seq, s)
  <1>3. Len(seq) \in 0 .. Len(seq)
    BY <1>1
  <1>4. w \in Seq(S) /\ Left(w, seq, s, Len(seq))
    BY <1>2, <1>3, KeptFacts
  <1>5. NoTwice(seq) => NoTwice(w)
    BY <1>2, <1>3, KeptOnce
  <1> HIDE DEF w
  <1>6. DOMAIN w = 1 .. Len(w)
    BY <1>4, LenProperties
  <1>7. Elems(w) = Elems(seq) \ {s}
    <2>1. \A x : x \in Elems(w) <=> \E k \in 1 .. Len(w) : w[k] = x
      BY <1>6 DEF Elems
    <2>2. \A x : x \in Elems(seq) <=> \E k \in 1 .. Len(seq) : seq[k] = x
      BY <1>1 DEF Elems
    <2> QED
      BY <1>4, <2>1, <2>2 DEF Left
  <1> QED
    BY <1>4, <1>5, <1>7 DEF w

-----------------------------------------------------------------------------
(* The types.                                                              *)

Order == [op : {"on", "off", "replay"}, s : Terms]
Message == [type : {"update", "data"}, s : Terms, attached : BOOLEAN, bytes : Seq(Byte)]

\* The least and the greatest cap.
LEMMA CapFacts ==
    ASSUME max_attached \in MaxAttached
    PROVE  AttachCap \in Nat \ {0} /\ AttachCap =< AttachLimit
  BY AttachLimitAssumption, MaxAttachedAssumption DEF AttachCap

\* A push keeps to the capacity, and brings in nothing but the chunk.
LEMMA PushFacts ==
    ASSUME NEW S, NEW q \in Seq(S), NEW d \in Seq(S), Len(q) =< RingCap
    PROVE  /\ Push(q, d) \in Seq(S) /\ Len(Push(q, d)) =< RingCap
           /\ Elems(Push(q, d)) \subseteq Elems(q) \cup Elems(d)
  <1>1. /\ Len(q) \in Nat /\ Len(d) \in Nat /\ RingCap \in Nat \ {0}
        /\ DOMAIN q = 1 .. Len(q) /\ DOMAIN d = 1 .. Len(d)
    BY LenProperties, CapPositive
  <1>2. CASE Len(d) >= RingCap
    <2> DEFINE m == Len(d) - RingCap
               r == DropFirst(d, m)
    <2>1. m \in Nat /\ m =< Len(d) /\ Len(d) - m = RingCap
      BY <1>1, <1>2
    <2>2. Push(q, d) = r
      BY <1>2 DEF Push
    <2> HIDE DEF m
    <2>3. /\ r \in Seq(S) /\ Len(r) = Len(d) - m
          /\ \A i \in 1 .. Len(d) - m : r[i] = d[i + m]
      BY <2>1, DropFacts
    <2> HIDE DEF r
    <2>4. DOMAIN r = 1 .. Len(d) - m
      BY <2>3, LenProperties
    <2>5. Elems(r) \subseteq Elems(d)
      <3>1. \A i \in 1 .. Len(d) - m : i + m \in 1 .. Len(d)
        BY <1>1, <2>1
      <3> QED
        BY <1>1, <2>3, <2>4, <3>1 DEF Elems
    <2> QED
      BY <1>1, <2>1, <2>2, <2>3, <2>5
  <1>3. CASE Len(d) < RingCap
    <2> DEFINE n == Minus(Len(q) + Len(d), RingCap)
               k == DropFirst(q, n)
               r == k \o d
    <2>1. n \in Nat /\ n =< Len(q) /\ (Len(q) - n) + Len(d) =< RingCap
      BY <1>1, <1>3 DEF Minus
    <2> HIDE DEF n
    <2>2. /\ k \in Seq(S) /\ Len(k) = Len(q) - n
          /\ \A i \in 1 .. Len(q) - n : k[i] = q[i + n]
      BY <2>1, DropFacts
    <2> HIDE DEF k
    <2>3. /\ r \in Seq(S) /\ Len(r) = Len(k) + Len(d)
          /\ \A i \in 1 .. Len(k) + Len(d) : r[i] = IF i =< Len(k) THEN k[i] ELSE d[i - Len(k)]
      BY <2>2, ConcatProperties
    <2> HIDE DEF r
    <2>4. DOMAIN r = 1 .. Len(k) + Len(d)
      BY <2>3, LenProperties
    <2>5. Elems(r) \subseteq Elems(q) \cup Elems(d)
      <3> SUFFICES ASSUME NEW i \in 1 .. Len(k) + Len(d) PROVE r[i] \in Elems(q) \cup Elems(d)
        BY <2>4 DEF Elems
      <3>1. CASE i =< Len(k)
        <4>1. Len(k) \in Nat /\ Len(q) \in Nat /\ i \in 1 .. Len(q) - n
          BY <1>1, <2>1, <2>2, <3>1
        <4>2. r[i] = q[i + n]
          BY <2>2, <2>3, <3>1, <4>1
        <4>3. i + n \in 1 .. Len(q)
          BY <2>1, <4>1
        <4> QED
          BY <1>1, <4>2, <4>3 DEF Elems
      <3>2. CASE i > Len(k)
        <4>1. i - Len(k) \in 1 .. Len(d) /\ r[i] = d[i - Len(k)]
          <5>1. Len(k) \in Nat /\ Len(d) \in Nat /\ i \in Nat
            BY <1>1, <2>1, <2>2
          <5>2. i - Len(k) \in 1 .. Len(d) /\ ~(i =< Len(k))
            BY <3>2, <5>1
          <5> QED
            BY <2>3, <5>2
        <4> QED
          BY <1>1, <4>1 DEF Elems
      <3> QED
        BY <1>1, <2>1, <2>2, <3>1, <3>2
    <2>6. Push(q, d) = r
      BY <1>1, <1>3 DEF Push, r, k, n
    <2> QED
      BY <2>1, <2>2, <2>3, <2>5, <2>6
  <1> QED
    BY <1>1, <1>2, <1>3

\* The head of a list goes.
LEMMA TailFacts ==
    ASSUME NEW S, NEW q \in Seq(S), q # <<>>
    PROVE  /\ Head(q) \in S /\ Head(q) = q[1] /\ Tail(q) \in Seq(S)
           /\ Len(q) \in Nat \ {0} /\ DOMAIN q = 1 .. Len(q)
           /\ DOMAIN Tail(q) = 1 .. Len(q) - 1
           /\ \A i \in 1 .. Len(q) - 1 : Tail(q)[i] = q[i + 1]
  <1>1. Len(q) \in Nat \ {0} /\ DOMAIN q = 1 .. Len(q)
    BY EmptySeq, LenProperties
  <1>2. /\ Head(q) \in S /\ Tail(q) \in Seq(S) /\ Len(Tail(q)) = Len(q) - 1
        /\ \A i \in 1 .. Len(Tail(q)) : Tail(q)[i] = q[i + 1]
    BY HeadTailProperties
  <1>3. DOMAIN Tail(q) = 1 .. Len(q) - 1
    BY <1>2, LenProperties
  <1>4. Head(q) = q[1]
    OBVIOUS
  <1> QED
    BY <1>1, <1>2, <1>3, <1>4

\* A message is put at the end.
LEMMA AppendFacts ==
    ASSUME NEW S, NEW q \in Seq(S), NEW e \in S
    PROVE  /\ Append(q, e) \in Seq(S)
           /\ Len(q) \in Nat /\ DOMAIN q = 1 .. Len(q)
           /\ DOMAIN Append(q, e) = 1 .. Len(q) + 1
           /\ \A i \in 1 .. Len(q) : Append(q, e)[i] = q[i]
           /\ Append(q, e)[Len(q) + 1] = e
  <1>1. /\ Append(q, e) \in Seq(S) /\ Len(Append(q, e)) = Len(q) + 1
        /\ \A i \in 1 .. Len(q) : Append(q, e)[i] = q[i]
        /\ Append(q, e)[Len(q) + 1] = e
    BY AppendProperties
  <1>2. DOMAIN Append(q, e) = 1 .. Len(q) + 1
    BY <1>1, LenProperties
  <1> QED
    BY <1>1, <1>2, LenProperties

\* What attach makes of attach_lru, and what it leaves to do.
Asked(s) == Append(Without(lru, s), s)
Gone(s) == Minus(Len(Asked(s)), AttachCap)

LEMMA AskedFacts ==
    ASSUME NEW s \in Terms, lru \in Seq(Terms), max_attached \in MaxAttached
    PROVE  /\ Asked(s) \in Seq(Terms) /\ Len(Asked(s)) \in Nat \ {0}
           /\ DOMAIN Asked(s) = 1 .. Len(Asked(s))
           /\ Asked(s)[Len(Asked(s))] = s
           /\ Elems(Asked(s)) = Elems(lru) \cup {s}
           /\ NoTwice(lru) => NoTwice(Asked(s))
           /\ Gone(s) \in Nat /\ Gone(s) < Len(Asked(s)) /\ Len(Asked(s)) - Gone(s) =< AttachCap
  <1> DEFINE w == Without(lru, s)
             a == Asked(s)
  <1>1. w \in Seq(Terms) /\ Elems(w) = Elems(lru) \ {s} /\ (NoTwice(lru) => NoTwice(w))
    BY WithoutFacts
  <1>2. a = Append(w, s)
    BY DEF Asked
  <1> HIDE DEF w, a
  <1>3. /\ a \in Seq(Terms) /\ Len(w) \in Nat /\ DOMAIN w = 1 .. Len(w)
        /\ DOMAIN a = 1 .. Len(w) + 1
        /\ \A i \in 1 .. Len(w) : a[i] = w[i]
        /\ a[Len(w) + 1] = s
    BY <1>1, <1>2, AppendFacts
  <1>4. Len(a) = Len(w) + 1
    BY <1>1, <1>2, AppendProperties
  <1>5. Elems(a) = Elems(w) \cup {s}
    BY <1>3 DEF Elems
  <1>6. NoTwice(w) => NoTwice(a)
    <2>1. \A i \in 1 .. Len(w) : w[i] # s
      BY <1>1, <1>3 DEF Elems
    <2> QED
      BY <1>3, <2>1 DEF NoTwice
  <1>7. AttachCap \in Nat \ {0}
    BY CapFacts
  <1>8. Minus(Len(a), AttachCap) \in Nat /\ Minus(Len(a), AttachCap) < Len(a)
        /\ Len(a) - Minus(Len(a), AttachCap) =< AttachCap
    BY <1>3, <1>4, <1>7 DEF Minus
  <1> QED
    BY <1>1, <1>3, <1>4, <1>5, <1>6, <1>8 DEF a, Gone

LEMMA AttachFacts ==
    ASSUME NEW s \in Terms, lru \in Seq(Terms), max_attached \in MaxAttached, Attach(s)
    PROVE  /\ lru' \in Seq(Terms) /\ Len(lru') = Len(Asked(s)) - Gone(s)
           /\ DOMAIN lru' = 1 .. Len(Asked(s)) - Gone(s)
           /\ \A i \in 1 .. Len(Asked(s)) - Gone(s) : lru'[i] = Asked(s)[i + Gone(s)]
           /\ todo' \in Seq(Order) /\ DOMAIN todo' = 1 .. Gone(s) + 2
           /\ Len(todo') = Gone(s) + 2
           /\ \A i \in 1 .. Gone(s) : todo'[i] = Op("off", Asked(s)[i])
           /\ todo'[Gone(s) + 1] = Op("on", s) /\ todo'[Gone(s) + 2] = Op("replay", s)
  <1> DEFINE a == Asked(s)
             n == Gone(s)
             e == SubSeq(a, 1, n)
             offs == [i \in DOMAIN e |-> Op("off", a[i])]
             rest == <<Op("on", s), Op("replay", s)>>
  <1>1. /\ a \in Seq(Terms) /\ Len(a) \in Nat \ {0} /\ DOMAIN a = 1 .. Len(a)
        /\ n \in Nat /\ n < Len(a)
    BY AskedFacts
  <1>2. lru' = DropFirst(a, n) /\ todo' = offs \o rest
    BY DEF Attach, Asked, Gone, Evicted
  <1> HIDE DEF a, n
  <1>3. DOMAIN e = 1 .. n
    <2>1. \A i \in 1 .. n : a[i] \in Terms
      BY <1>1, ElementOfSeq
    <2>2. e \in Seq(Terms) /\ Len(e) = n
      <3>1. 1 \in Int /\ n \in Int /\ (IF 1 <= n THEN n - 1 + 1 ELSE 0) = n
        BY <1>1
      <3>2. /\ SubSeq(a, 1, n) \in Seq(Terms)
            /\ Len(SubSeq(a, 1, n)) = IF 1 <= n THEN n - 1 + 1 ELSE 0
        BY <2>1, <3>1, SubSeqProperties
      <3> QED
        BY <3>1, <3>2
    <2> HIDE DEF e
    <2> QED
      BY <2>2, LenProperties
  <1> HIDE DEF e
  <1>4. offs \in Seq(Order) /\ Len(offs) = n /\ \A i \in 1 .. n : offs[i] = Op("off", a[i])
    <2>1. \A i \in 1 .. n : Op("off", a[i]) \in Order
      BY <1>1, ElementOfSeq DEF Op, Order
    <2>2. offs \in [1 .. n -> Order] /\ DOMAIN offs = 1 .. n
      BY <1>3, <2>1
    <2>3. offs \in Seq(Order)
      BY <1>1, <2>2, SeqDef
    <2>4. \A i \in 1 .. n : offs[i] = Op("off", a[i])
      BY <1>3
    <2> HIDE DEF offs
    <2>5. Len(offs) = n
      BY <1>1, <2>2, <2>3, LenProperties
    <2> QED
      BY <2>3, <2>4, <2>5
  <1> HIDE DEF offs
  <1>5. rest \in Seq(Order) /\ Len(rest) = 2 /\ rest[1] = Op("on", s) /\ rest[2] = Op("replay", s)
    BY DEF Op, Order
  <1> HIDE DEF rest
  <1>6. /\ offs \o rest \in Seq(Order) /\ Len(offs \o rest) = n + 2
        /\ \A i \in 1 .. n + 2 : (offs \o rest)[i] = IF i =< n THEN offs[i] ELSE rest[i - n]
    <2>1. /\ offs \o rest \in Seq(Order) /\ Len(offs \o rest) = Len(offs) + Len(rest)
          /\ \A i \in 1 .. Len(offs) + Len(rest) :
               (offs \o rest)[i] = IF i =< Len(offs) THEN offs[i] ELSE rest[i - Len(offs)]
      BY <1>4, <1>5, ConcatProperties
    <2> QED
      BY <1>1, <1>4, <1>5, <2>1
  <1>7. DOMAIN todo' = 1 .. n + 2
    BY <1>2, <1>6, LenProperties
  <1>8. /\ \A i \in 1 .. n : todo'[i] = Op("off", a[i])
        /\ todo'[n + 1] = Op("on", s) /\ todo'[n + 2] = Op("replay", s)
    <2>1. /\ \A i \in 1 .. n : i \in 1 .. n + 2 /\ i =< n
          /\ n + 1 \in 1 .. n + 2 /\ ~ (n + 1 =< n) /\ (n + 1) - n = 1
          /\ n + 2 \in 1 .. n + 2 /\ ~ (n + 2 =< n) /\ (n + 2) - n = 2
      BY <1>1
    <2>2. /\ \A i \in 1 .. n : todo'[i] = offs[i]
          /\ todo'[n + 1] = rest[(n + 1) - n] /\ todo'[n + 2] = rest[(n + 2) - n]
      BY <1>2, <1>6, <2>1
    <2> QED
      BY <1>4, <1>5, <2>1, <2>2
  <1>9. /\ lru' \in Seq(Terms) /\ Len(lru') = Len(a) - n
        /\ \A i \in 1 .. Len(a) - n : lru'[i] = a[i + n]
    <2>1. n =< Len(a)
      BY <1>1
    <2>2. /\ DropFirst(a, n) \in Seq(Terms) /\ Len(DropFirst(a, n)) = Len(a) - n
          /\ \A i \in 1 .. Len(a) - n : DropFirst(a, n)[i] = a[i + n]
      BY <1>1, <2>1, DropFacts
    <2> QED
      BY <1>2, <2>2
  <1>10. DOMAIN lru' = 1 .. Len(a) - n
    BY <1>9, LenProperties
  <1> QED
    BY <1>2, <1>6, <1>7, <1>8, <1>9, <1>10 DEF a, n

\* A message that is put into the queue is one.
LEMMA UpdateType == \A s \in Terms, b \in BOOLEAN : Update(s, b) \in Message
  <1>1. <<>> \in Seq(Byte)
    BY EmptySeq
  <1> QED
    BY <1>1 DEF Update, Message

LEMMA DataType == \A s \in Terms, d \in Seq(Byte) : Data(s, d) \in Message
  BY DEF Data, Message

\* What the window does keeps its type.
LEMMA ShowKeepsType ==
    ASSUME PoolTypeOK, NEW s \in Terms,
           \/ ShowUpdate(s, TRUE) \/ ShowUpdate(s, FALSE)
           \/ \E d \in SUBSET Byte : ShowData(s, d)
           \/ ShowRemoved(s)
           \/ UNCHANGED windowVars
    PROVE  rows' \subseteq Terms /\ panes' \in [Terms -> Pane] /\ wired' \in BOOLEAN
  <1>1. /\ rows \subseteq Terms /\ panes \in [Terms -> Pane] /\ wired \in BOOLEAN
        /\ Blank \in Pane /\ Closed \in Pane
    BY DEF PoolTypeOK, Blank, Closed, Pane
  <1>2. ASSUME NEW b \in BOOLEAN, ShowUpdate(s, b)
        PROVE  rows' \subseteq Terms /\ panes' \in [Terms -> Pane] /\ wired' \in BOOLEAN
    <2>1. Synced(panes[s], b) \in Pane
      BY <1>1 DEF Synced
    <2> QED
      BY <1>1, <1>2, <2>1 DEF ShowUpdate
  <1>3. ASSUME NEW d \in SUBSET Byte, ShowData(s, d)
        PROVE  rows' \subseteq Terms /\ panes' \in [Terms -> Pane] /\ wired' \in BOOLEAN
    <2>1. Written(panes[s], d) \in Pane
      BY <1>1 DEF Written, Pane
    <2> QED
      BY <1>1, <1>3, <2>1 DEF ShowData
  <1>4. CASE ShowRemoved(s)
    BY <1>1, <1>4 DEF ShowRemoved
  <1>5. CASE UNCHANGED windowVars
    BY <1>1, <1>5 DEF windowVars
  <1> QED
    BY <1>2, <1>3, <1>4, <1>5

\* The bytes of a ring or of a chunk.
LEMMA BytesOf == \A q \in Seq(Byte) : Elems(q) \in SUBSET Byte
  <1> SUFFICES ASSUME NEW q \in Seq(Byte), NEW i \in DOMAIN q PROVE q[i] \in Byte
    BY DEF Elems
  <1> QED
    BY LenProperties, ElementOfSeq

\* The types of the main thread.
LEMMA MainKeepsType == ASSUME PoolTypeOK, drawn' \subseteq Terms, MainNext PROVE PoolTypeOK'
  <1>1. ASSUME NEW s \in Terms, Create(s) PROVE PoolTypeOK'
    <2>1. rows' \subseteq Terms /\ panes' \in [Terms -> Pane] /\ wired' \in BOOLEAN
      BY <1>1, ShowKeepsType DEF Create
    <2>2. reader' \in [Terms -> Reader]
      BY <1>1 DEF Create, PoolTypeOK, Reader
    <2> QED
      BY <1>1, <2>1, <2>2 DEF Create, PoolTypeOK
  <1>2. ASSUME NEW s \in Terms, Attach(s) PROVE PoolTypeOK'
    <2>1. lru' \in Seq(Terms) /\ todo' \in Seq(Order)
      BY <1>2, AttachFacts DEF PoolTypeOK
    <2>2. UNCHANGED <<registry, ended, attached, stop, max_attached, readerVars, monitor, queue,
                      windowVars>> /\ budget' \in Nat
      BY <1>2 DEF Attach, Gives, PoolTypeOK
    <2> QED
      BY <2>1, <2>2 DEF PoolTypeOK, Order, readerVars, windowVars
  <1>3. ASSUME NEW s \in Terms, Detach(s) PROVE PoolTypeOK'
    <2>1. lru' \in Seq(Terms)
      BY <1>3, WithoutFacts DEF Detach, PoolTypeOK
    <2>2. <<Op("off", s)>> \in Seq(Order)
      BY DEF Op, Order
    <2>3. /\ UNCHANGED <<registry, ended, attached, stop, max_attached, readerVars, monitor, queue,
                         windowVars>> /\ budget' \in Nat
          /\ todo' = <<Op("off", s)>>
      BY <1>3 DEF Detach, Gives, PoolTypeOK
    <2> QED
      BY <2>1, <2>2, <2>3 DEF PoolTypeOK, Order, readerVars, windowVars
  <1>4. ASSUME NEW s \in Terms, Remove(s) PROVE PoolTypeOK'
    <2>1. lru' \in Seq(Terms)
      BY <1>4, WithoutFacts DEF Remove, PoolTypeOK
    <2>2. rows' \subseteq Terms /\ panes' \in [Terms -> Pane] /\ wired' \in BOOLEAN
      BY <1>4, ShowKeepsType DEF Remove
    <2> QED
      BY <1>4, <2>1, <2>2 DEF Remove, Gives, PoolTypeOK, readerVars
  <1>5. ASSUME NEW s \in Terms, Rename(s) PROVE PoolTypeOK'
    <2>1. rows' \subseteq Terms /\ panes' \in [Terms -> Pane] /\ wired' \in BOOLEAN
      <3>1. ShowUpdate(s, TRUE) \/ ShowUpdate(s, FALSE)
        BY <1>5 DEF Rename, ShowUpdate, Synced
      <3> QED
        BY <3>1, ShowKeepsType
    <2> QED
      BY <1>5, <2>1 DEF Rename, Gives, PoolTypeOK, readerVars, coreVars
  <1>6. ASSUME NEW s \in Terms, KillTerm(s) PROVE PoolTypeOK'
    BY <1>6 DEF KillTerm, Gives, PoolTypeOK, readerVars, windowVars
  <1>7. ASSUME NEW n \in MaxAttached, SetConfig(n) PROVE PoolTypeOK'
    BY <1>7 DEF SetConfig, Gives, PoolTypeOK, readerVars, windowVars
  <1>8. CASE SetAttached
    <2> DEFINE s == Head(todo).s
    <2>1. todo \in Seq(Order) /\ todo # <<>>
      BY <1>8 DEF SetAttached, Doing, PoolTypeOK, Order
    <2>2. Head(todo) \in Order /\ Tail(todo) \in Seq(Order)
      BY <2>1, TailFacts
    <2>3. s \in Terms
      BY <2>2 DEF Order
    <2> HIDE DEF s
    <2>4. attached' \subseteq Terms /\ todo' \in Seq(Order)
      BY <1>8, <2>2, <2>3 DEF SetAttached, PoolTypeOK, s
    <2>5. rows' \subseteq Terms /\ panes' \in [Terms -> Pane] /\ wired' \in BOOLEAN
      <3>1. ShowUpdate(s, TRUE) \/ ShowUpdate(s, FALSE) \/ UNCHANGED windowVars
        BY <1>8 DEF SetAttached, ShowUpdate, Synced, s
      <3> QED
        BY <2>3, <3>1, ShowKeepsType
    <2> QED
      BY <1>8, <2>4, <2>5 DEF SetAttached, PoolTypeOK, readerVars, Order
  <1>9. CASE Replay
    <2> DEFINE s == Head(todo).s
    <2>1. todo \in Seq(Order) /\ todo # <<>>
      BY <1>9 DEF Replay, Doing, PoolTypeOK, Order
    <2>2. Head(todo) \in Order /\ Tail(todo) \in Seq(Order)
      BY <2>1, TailFacts
    <2>3. s \in Terms
      BY <2>2 DEF Order
    <2>4. Elems(ring[s]) \in SUBSET Byte
      BY <2>3, BytesOf DEF PoolTypeOK
    <2> HIDE DEF s
    <2>5. rows' \subseteq Terms /\ panes' \in [Terms -> Pane] /\ wired' \in BOOLEAN
      <3>1. ShowData(s, Elems(ring[s])) \/ UNCHANGED windowVars
        BY <1>9 DEF Replay, s
      <3> QED
        BY <2>3, <2>4, <3>1, ShowKeepsType
    <2>6. todo' \in Seq(Order)
      BY <1>9, <2>2 DEF Replay
    <2> QED
      BY <1>9, <2>5, <2>6 DEF Replay, PoolTypeOK, readerVars, Order
  <1>10. CASE Reload
    <2>1. rows' \subseteq Terms /\ panes' \in [Terms -> Pane] /\ wired' \in BOOLEAN
      BY <1>10 DEF Reload, PoolTypeOK, Blank, Closed, Pane
    <2> QED
      BY <1>10, <2>1 DEF Reload, Gives, PoolTypeOK, readerVars, coreVars
  <1>11. CASE WireEvents
    BY <1>11 DEF WireEvents, PoolTypeOK, readerVars, coreVars
  <1> QED
    BY <1>1, <1>2, <1>3, <1>4, <1>5, <1>6, <1>7, <1>8, <1>9, <1>10, <1>11 DEF MainNext, Continue

\* A chunk is numbered with what its terminal has not written before.
LEMMA ReadBytes ==
    ASSUME NEW m \in Nat, NEW n \in Nat, m + n =< ByteMax
    PROVE  [i \in 1 .. n |-> m + i] \in Seq(Byte)
  <1>1. \A i \in 1 .. n : m + i \in Byte
    BY PoolBoundsAssumption DEF Byte
  <1>2. [i \in 1 .. n |-> m + i] \in [1 .. n -> Byte]
    BY <1>1
  <1> QED
    BY <1>2, SeqDef

\* The types of the readers.
LEMMA ReaderKeepsType ==
    ASSUME PoolTypeOK, drawn' \subseteq Terms, NEW s \in Terms, TermReaderNext(s)
    PROVE  PoolTypeOK'
  <1>1. CASE ReadChunk(s)
    <2>1. PICK n \in 1 .. ChunkMax :
              /\ produced[s] + n =< ByteMax
              /\ produced' = [produced EXCEPT ![s] = @ + n]
              /\ ring' = [ring EXCEPT ![s] = Push(@, [i \in 1 .. n |-> produced[s] + i])]
              /\ reader' = [reader EXCEPT ![s].pc = "check",
                                          ![s].chunk = [i \in 1 .. n |-> produced[s] + i]]
      BY <1>1 DEF ReadChunk
    <2> DEFINE chunk == [i \in 1 .. n |-> produced[s] + i]
    <2>2. n \in Nat /\ produced[s] \in Nat /\ produced[s] + n \in 0 .. ByteMax
      BY <2>1, PoolBoundsAssumption DEF PoolTypeOK
    <2>3. chunk \in Seq(Byte)
      BY <2>1, <2>2, ReadBytes
    <2> HIDE DEF chunk
    <2>4. Push(ring[s], chunk) \in Seq(Byte) /\ Len(Push(ring[s], chunk)) =< RingCap
      BY <2>3, PushFacts DEF PoolTypeOK
    <2>5. ring' \in [Terms -> {q \in Seq(Byte) : Len(q) =< RingCap}]
      BY <2>1, <2>4 DEF PoolTypeOK, chunk
    <2>6. produced' \in [Terms -> 0 .. ByteMax]
      BY <2>1, <2>2 DEF PoolTypeOK
    <2>7. reader' \in [Terms -> Reader]
      BY <2>1, <2>3 DEF PoolTypeOK, Reader, chunk
    <2> QED
      BY <1>1, <2>5, <2>6, <2>7 DEF ReadChunk, PoolTypeOK, coreVars, windowVars
  <1>2. NextChunk(s) => reader' \in [Terms -> Reader]
    <2> DEFINE p == IF s \in stop THEN "end" ELSE "read"
    <2>1. <<>> \in Seq(Byte) /\ p \in {"end", "read"} /\ reader \in [Terms -> Reader]
      BY EmptySeq DEF PoolTypeOK
    <2>2. NextChunk(s) <=> reader' = [reader EXCEPT ![s].pc = p, ![s].chunk = <<>>]
      BY DEF NextChunk
    <2> HIDE DEF p
    <2> DEFINE next == [reader[s] EXCEPT !.pc = p, !.chunk = <<>>]
    <2>3. reader[s] \in Reader
      BY <2>1
    <2>4. next \in Reader
      BY <2>1, <2>3 DEF Reader
    <2>5. NextChunk(s) => reader' = [reader EXCEPT ![s] = next]
      BY <2>1, <2>2
    <2> HIDE DEF next
    <2> QED
      BY <2>1, <2>4, <2>5
  <1>3. CASE CheckAttached(s)
    <2>1. reader' \in [Terms -> Reader]
      <3>1. CASE s \in attached
        <4> DEFINE next == [reader[s] EXCEPT !.pc = "emit"]
        <4>1. reader[s] \in Reader /\ reader \in [Terms -> Reader]
          BY DEF PoolTypeOK
        <4>2. next \in Reader
          BY <4>1 DEF Reader
        <4>3. reader' = [reader EXCEPT ![s] = next]
          BY <1>3, <3>1, <4>1 DEF CheckAttached
        <4> HIDE DEF next
        <4> QED
          BY <4>1, <4>2, <4>3
      <3>2. CASE s \notin attached
        BY <1>2, <1>3, <3>2 DEF CheckAttached
      <3> QED
        BY <3>1, <3>2
    <2> QED
      BY <1>3, <2>1 DEF CheckAttached, PoolTypeOK, coreVars, windowVars
  <1>4. CASE EmitChunk(s)
    <2>1. reader[s].chunk \in Seq(Byte)
      BY DEF PoolTypeOK, Reader
    <2>2. queue' \in Seq(Message)
      BY <1>4, <2>1, DataType, AppendFacts DEF EmitChunk, Send, PoolTypeOK, Message
    <2>3. reader' \in [Terms -> Reader]
      BY <1>2, <1>4 DEF EmitChunk
    <2> QED
      BY <1>4, <2>2, <2>3 DEF EmitChunk, PoolTypeOK, coreVars, windowVars, Message
  <1>5. CASE EndStream(s)
    <2>1. reader' \in [Terms -> Reader] /\ ended' \subseteq Terms
      <3>1. CASE s \in registry
        <4> DEFINE b == s \in attached
        <4>1. b \in BOOLEAN
          OBVIOUS
        <4>2. /\ reader' = [reader EXCEPT ![s].pc = "last", ![s].copy = b]
              /\ ended' = ended \cup {s}
          BY <1>5, <3>1 DEF EndStream
        <4> HIDE DEF b
        <4>3. reader \in [Terms -> Reader] /\ ended \subseteq Terms
          BY DEF PoolTypeOK
        <4> QED
          BY <4>1, <4>2, <4>3 DEF Reader
      <3>2. CASE s \notin registry
        <4>1. reader' = [reader EXCEPT ![s].pc = "done"] /\ UNCHANGED ended
          BY <1>5, <3>2 DEF EndStream
        <4> QED
          BY <4>1 DEF PoolTypeOK, Reader
      <3> QED
        BY <3>1, <3>2
    <2> QED
      BY <1>5, <2>1 DEF EndStream, PoolTypeOK, windowVars
  <1>6. CASE SendLast(s)
    <2>1. reader[s].copy \in BOOLEAN
      BY DEF PoolTypeOK, Reader
    <2>2. queue' \in Seq(Message)
      BY <1>6, <2>1, UpdateType, AppendFacts DEF SendLast, Send, PoolTypeOK, Message
    <2>3. reader' \in [Terms -> Reader]
      BY <1>6 DEF SendLast, PoolTypeOK, Reader
    <2> QED
      BY <1>6, <2>2, <2>3 DEF SendLast, PoolTypeOK, coreVars, windowVars, Message
  <1> QED
    BY <1>1, <1>3, <1>4, <1>5, <1>6 DEF TermReaderNext

\* The types of the monitor and of the event loop.
LEMMA MonitorKeepsType == ASSUME PoolTypeOK, drawn' \subseteq Terms, MonitorNext PROVE PoolTypeOK'
  <1>1. CASE Sample
    <2>1. monitor' \subseteq [s : Terms, attached : BOOLEAN]
      <3> SUFFICES ASSUME NEW s \in registry \ ended
                   PROVE  [s |-> s, attached |-> s \in attached] \in [s : Terms, attached : BOOLEAN]
        BY <1>1 DEF Sample
      <3>1. s \in Terms /\ (s \in attached) \in BOOLEAN
        BY DEF PoolTypeOK
      <3> QED
        BY <3>1
    <2> QED
      BY <1>1, <2>1 DEF Sample, PoolTypeOK, coreVars, readerVars, windowVars
  <1>2. CASE MonitorSend
    <2>1. PICK m \in monitor : Send(Update(m.s, m.attached)) /\ monitor' = monitor \ {m}
      BY <1>2 DEF MonitorSend
    <2>2. m.s \in Terms /\ m.attached \in BOOLEAN
      BY DEF PoolTypeOK
    <2>3. queue' \in Seq(Message)
      BY <2>1, <2>2, UpdateType, AppendFacts DEF Send, PoolTypeOK, Message
    <2> QED
      BY <1>2, <2>1, <2>3 DEF MonitorSend, PoolTypeOK, coreVars, readerVars, windowVars, Message
  <1> QED
    BY <1>1, <1>2 DEF MonitorNext

LEMMA DeliverKeepsType == ASSUME PoolTypeOK, drawn' \subseteq Terms, Deliver PROVE PoolTypeOK'
  <1> DEFINE m == Head(queue)
  <1>1. queue \in Seq(Message) /\ queue # <<>>
    BY DEF Deliver, PoolTypeOK, Message
  <1>2. m \in Message /\ Tail(queue) \in Seq(Message)
    BY <1>1, TailFacts
  <1> HIDE DEF m
  <1>3. m.s \in Terms /\ m.attached \in BOOLEAN /\ Elems(m.bytes) \in SUBSET Byte
        /\ m.type \in {"update", "data"}
    BY <1>2, BytesOf DEF Message
  <1>4. \/ ShowUpdate(m.s, m.attached) \/ ShowData(m.s, Elems(m.bytes)) \/ UNCHANGED windowVars
    <2>1. wired \in BOOLEAN
      BY DEF PoolTypeOK
    <2> QED
      BY <1>3, <2>1 DEF Deliver, m
  <1>5. rows' \subseteq Terms /\ panes' \in [Terms -> Pane] /\ wired' \in BOOLEAN
    <2>1. CASE ShowUpdate(m.s, m.attached)
      <3>1. ShowUpdate(m.s, TRUE) \/ ShowUpdate(m.s, FALSE)
        BY <1>3, <2>1
      <3> QED
        BY <1>3, <3>1, ShowKeepsType
    <2>2. CASE ShowData(m.s, Elems(m.bytes))
      BY <1>3, <2>2, ShowKeepsType
    <2>3. CASE UNCHANGED windowVars
      BY <1>3, <2>3, ShowKeepsType
    <2> QED
      BY <1>4, <2>1, <2>2, <2>3
  <1> QED
    BY <1>2, <1>5 DEF Deliver, PoolTypeOK, coreVars, readerVars, Message

\* Every variable stays in its type, and no ring outgrows its capacity, whatever the sizes of the
\* chunks, the messages on their way and the commands of the user.
THEOREM PoolTypes == PoolSpec => []PoolTypeOK
  <1>1. PoolInit => PoolTypeOK
    <2> SUFFICES ASSUME PoolInit PROVE PoolTypeOK
      OBVIOUS
    <2>1. /\ <<>> \in Seq(Terms) /\ <<>> \in Seq(Order) /\ <<>> \in Seq(Message) /\ <<>> \in Seq(Byte)
          /\ Len(<<>>) =< RingCap
      BY EmptySeq, CapPositive
    <2>2. NewReader \in Reader /\ Closed \in Pane
      BY <2>1 DEF NewReader, Reader, Closed, Pane
    <2>3. 0 \in 0 .. ByteMax /\ UserBudget \in Nat
      BY PoolBoundsAssumption, PoolCommandsAssumption
    <2> QED
      BY <2>1, <2>2, <2>3 DEF PoolInit, PoolTypeOK, Order, Message
  <1>2. PoolTypeOK /\ [PoolNext]_poolVars => PoolTypeOK'
    <2> SUFFICES ASSUME PoolTypeOK, [PoolNext]_poolVars PROVE PoolTypeOK'
      OBVIOUS
    <2>1. CASE UNCHANGED poolVars
      BY <2>1 DEF poolVars, stateVars, coreVars, readerVars, windowVars, PoolTypeOK
    <2>2. ASSUME Remember PROVE drawn' \subseteq Terms
      <3>1. AttachEnds \subseteq Terms
        <4>1. todo \in Seq(Order)
          BY DEF PoolTypeOK, Order
        <4>2. todo # <<>> => Head(todo) \in Order
          BY <4>1, TailFacts
        <4> QED
          BY <4>2 DEF AttachEnds, Order
      <3> QED
        BY <2>2, <3>1 DEF Remember, PoolTypeOK
    <2> QED
      BY <2>1, <2>2, MainKeepsType, ReaderKeepsType, MonitorKeepsType, DeliverKeepsType DEF PoolNext
  <1> QED
    BY <1>1, <1>2, PTL DEF PoolSpec

-----------------------------------------------------------------------------
(* The flags and attach_lru.                                               *)

ToDo(op, s) == \E i \in DOMAIN todo : todo[i] = Op(op, s)

\* Nothing is known of a session that was never created.
Known == \A s \in Terms : s \in registry \cup attached \cup Elems(lru) => Seen(s)

\* What the flag of s will be when the command the main thread is in is through.
Will(s) == ToDo("on", s) \/ (s \in attached /\ ~ToDo("off", s))

\* In the middle of a command the list says what the flags will be.
Promised == \A s \in registry : s \in Elems(lru) <=> Will(s)

\* A command sets a flag or clears it, and a replay follows upon an eviction.
Orders ==
    \A s \in Terms : /\ ~(ToDo("on", s) /\ ToDo("off", s))
                     /\ ToDo("replay", s) => Len(lru) =< AttachCap

FlagInv == Known /\ NoTwice(lru) /\ Promised /\ Orders

LEMMA OpsDiffer ==
    \A a, b, s, r : Op(a, s) = Op(b, r) <=> a = b /\ s = r
  BY DEF Op

LEMMA NothingToDo == todo = <<>> => \A op, s : ~ToDo(op, s)
  BY DEF ToDo

\* What is to do after one step of a command.
LEMMA ToDoNext ==
    ASSUME PoolTypeOK, todo # <<>>, todo' = Tail(todo)
    PROVE  /\ Head(todo) \in Order
           /\ \A op, s : ToDo(op, s) <=> Head(todo) = Op(op, s) \/ ToDo(op, s)'
  <1>1. todo \in Seq(Order)
    BY DEF PoolTypeOK, Order
  <1>2. /\ Head(todo) \in Order /\ Head(todo) = todo[1]
        /\ Len(todo) \in Nat \ {0} /\ DOMAIN todo = 1 .. Len(todo)
        /\ DOMAIN todo' = 1 .. Len(todo) - 1
        /\ \A i \in 1 .. Len(todo) - 1 : todo'[i] = todo[i + 1]
    BY <1>1, TailFacts
  <1>3. ASSUME NEW op, NEW s
        PROVE  ToDo(op, s) <=> Head(todo) = Op(op, s) \/ ToDo(op, s)'
    <2> DEFINE e == Op(op, s)
    <2>1. ToDo(op, s) <=> \E i \in 1 .. Len(todo) : todo[i] = e
      BY <1>2 DEF ToDo
    <2>2. ToDo(op, s)' <=> \E i \in 1 .. Len(todo) - 1 : todo[i + 1] = e
      BY <1>2 DEF ToDo
    <2>3. Head(todo) = e <=> todo[1] = e
      BY <1>2
    <2> HIDE DEF e
    <2>4. (\E i \in 1 .. Len(todo) : todo[i] = e)
            <=> todo[1] = e \/ \E i \in 1 .. Len(todo) - 1 : todo[i + 1] = e
      <3>1. \A i \in 1 .. Len(todo) : i = 1 \/ (i - 1 \in 1 .. Len(todo) - 1 /\ (i - 1) + 1 = i)
        BY <1>2
      <3>2. \A i \in 1 .. Len(todo) - 1 : i + 1 \in 1 .. Len(todo)
        BY <1>2
      <3>3. 1 \in 1 .. Len(todo)
        BY <1>2
      <3> QED
        BY <3>1, <3>2, <3>3
    <2> QED
      BY <2>1, <2>2, <2>3, <2>4 DEF e
  <1> QED
    BY <1>2, <1>3

\* A list that has nothing twice has as many members as it is long.
LEMMA OnceCounts ==
    ASSUME NEW S, NEW q \in Seq(S)
    PROVE  /\ IsFiniteSet(Elems(q)) /\ Cardinality(Elems(q)) =< Len(q)
           /\ NoTwice(q) => Cardinality(Elems(q)) = Len(q)
  <1>1. Len(q) \in Nat /\ DOMAIN q = 1 .. Len(q) /\ q \in [1 .. Len(q) -> S]
    BY LenProperties
  <1>2. IsFiniteSet(1 .. Len(q)) /\ Cardinality(1 .. Len(q)) = Len(q)
    BY <1>1, FS_Interval
  <1>3. q \in Surjection(1 .. Len(q), Elems(q))
    BY <1>1 DEF Elems, Surjection
  <1>4. /\ IsFiniteSet(Elems(q)) /\ Cardinality(Elems(q)) =< Cardinality(1 .. Len(q))
        /\ Cardinality(Elems(q)) = Cardinality(1 .. Len(q)) <=> q \in Injection(1 .. Len(q), Elems(q))
    BY <1>2, <1>3, FS_Surjection
  <1>5. NoTwice(q) => q \in Injection(1 .. Len(q), Elems(q))
    BY <1>1 DEF NoTwice, Elems, Injection, IsInjective
  <1> QED
    BY <1>2, <1>4, <1>5

\* A step that leaves the list, the flags and what is to do alone.
LEMMA OthersKeepFlags ==
    ASSUME FlagInv, UNCHANGED <<registry, attached, lru, todo, max_attached>>,
           \A s \in Terms : Seen(s) => Seen(s)'
    PROVE  FlagInv'
  <1>1. \A op, s : ToDo(op, s)' = ToDo(op, s)
    BY DEF ToDo
  <1>2. AttachCap' = AttachCap
    BY DEF AttachCap
  <1>3. Known' /\ NoTwice(lru)'
    BY DEF FlagInv, Known, NoTwice, Elems
  <1>4. Promised' /\ Orders'
    BY <1>1, <1>2 DEF FlagInv, Promised, Orders, Will, Elems
  <1> QED
    BY <1>3, <1>4 DEF FlagInv

LEMMA SeenLasts ==
    ASSUME PoolTypeOK, NEW s \in Terms, TermReaderNext(s)
    PROVE  /\ UNCHANGED <<registry, attached, lru, todo, max_attached>>
           /\ \A r \in Terms : Seen(r) => Seen(r)'
  <1>1. reader \in [Terms -> Reader]
    BY DEF PoolTypeOK
  <1>2. CASE ReadChunk(s)
    BY <1>1, <1>2 DEF ReadChunk, coreVars, Seen, Reader
  <1>3. CASE CheckAttached(s)
    BY <1>1, <1>3 DEF CheckAttached, NextChunk, coreVars, Seen, Reader
  <1>4. CASE EmitChunk(s)
    BY <1>1, <1>4 DEF EmitChunk, NextChunk, coreVars, Seen, Reader
  <1>5. CASE EndStream(s)
    BY <1>1, <1>5 DEF EndStream, Seen, Reader
  <1>6. CASE SendLast(s)
    BY <1>1, <1>6 DEF SendLast, coreVars, Seen, Reader
  <1> QED
    BY <1>2, <1>3, <1>4, <1>5, <1>6 DEF TermReaderNext

LEMMA AttachFlags ==
    ASSUME PoolTypeOK, FlagInv, NEW s \in Terms, Attach(s)
    PROVE  FlagInv'
  <1> DEFINE a == Asked(s)
             n == Gone(s)
             l == Len(Asked(s))
  <1>1. /\ lru \in Seq(Terms) /\ max_attached \in MaxAttached /\ todo = <<>> /\ Seen(s)
        /\ UNCHANGED <<registry, attached, max_attached, reader>>
    BY DEF PoolTypeOK, Attach, Gives, Ready, readerVars
  <1>2. /\ a \in Seq(Terms) /\ l \in Nat \ {0} /\ DOMAIN a = 1 .. l /\ a[l] = s
        /\ Elems(a) = Elems(lru) \cup {s} /\ NoTwice(a)
        /\ n \in Nat /\ n < l /\ l - n =< AttachCap
    BY <1>1, AskedFacts DEF FlagInv
  <1>3. /\ Len(lru') = l - n /\ DOMAIN lru' = 1 .. l - n
        /\ \A i \in 1 .. l - n : lru'[i] = a[i + n]
        /\ DOMAIN todo' = 1 .. n + 2
        /\ \A i \in 1 .. n : todo'[i] = Op("off", a[i])
        /\ todo'[n + 1] = Op("on", s) /\ todo'[n + 2] = Op("replay", s)
    BY <1>1, AttachFacts
  <1> HIDE DEF a, n, l
  <1>4. ASSUME NEW op, NEW r
        PROVE  ToDo(op, r)' <=> \/ op = "off" /\ \E i \in 1 .. n : a[i] = r
                                \/ op = "on" /\ r = s
                                \/ op = "replay" /\ r = s
    <2>1. ToDo(op, r)' <=> \E i \in 1 .. n + 2 : todo'[i] = Op(op, r)
      BY <1>3 DEF ToDo
    <2>2. \A i \in 1 .. n + 2 : i \in 1 .. n \/ i = n + 1 \/ i = n + 2
      BY <1>2
    <2>3. n + 1 \in 1 .. n + 2 /\ n + 2 \in 1 .. n + 2 /\ \A i \in 1 .. n : i \in 1 .. n + 2
      BY <1>2
    <2>4. \A i \in 1 .. n : todo'[i] = Op(op, r) <=> op = "off" /\ a[i] = r
      BY <1>3, OpsDiffer
    <2>5. /\ todo'[n + 1] = Op(op, r) <=> op = "on" /\ r = s
          /\ todo'[n + 2] = Op(op, r) <=> op = "replay" /\ r = s
      BY <1>3, OpsDiffer
    <2> QED
      BY <2>1, <2>2, <2>3, <2>4, <2>5
  <1>5. ASSUME NEW i \in 1 .. n PROVE a[i] # s
    <2>1. i \in 1 .. l /\ l \in 1 .. l /\ i # l
      BY <1>2
    <2> QED
      BY <1>2, <2>1 DEF NoTwice
  <1>6. \A i \in 1 .. l : i =< n \/ (i - n \in 1 .. l - n /\ (i - n) + n = i)
    BY <1>2
  <1>7. \A i \in 1 .. l - n : i + n \in 1 .. l /\ ~(i + n =< n)
    BY <1>2
  <1>8. ASSUME NEW r
        PROVE  r \in Elems(lru)' <=> (r = s \/ r \in Elems(lru)) /\ ~ \E i \in 1 .. n : a[i] = r
    <2>1. r \in Elems(lru)' <=> \E i \in 1 .. l - n : a[i + n] = r
      BY <1>3 DEF Elems
    <2>2. r \in Elems(a) <=> \E i \in 1 .. l : a[i] = r
      BY <1>2 DEF Elems
    <2>3. \A i \in 1 .. n : i \in 1 .. l
      BY <1>2
    <2>4. \A i, j \in 1 .. l : a[i] = a[j] => i = j
      BY <1>2 DEF NoTwice
    <2>5. ASSUME NEW i \in 1 .. l - n, a[i + n] = r
          PROVE  r \in Elems(a) /\ ~ \E j \in 1 .. n : a[j] = r
      <3>1. ASSUME NEW j \in 1 .. n, a[j] = r PROVE FALSE
        <4>1. j = i + n
          BY <1>7, <2>3, <2>4, <2>5, <3>1
        <4> QED
          BY <1>2, <4>1
      <3> QED
        BY <1>7, <2>2, <2>5, <3>1
    <2>6. ASSUME NEW i \in 1 .. l, a[i] = r, ~ \E j \in 1 .. n : a[j] = r
          PROVE  \E j \in 1 .. l - n : a[j + n] = r
      <3>1. i - n \in 1 .. l - n /\ (i - n) + n = i
        BY <1>2, <1>6, <2>6
      <3> QED
        BY <2>6, <3>1
    <2> QED
      BY <1>2, <2>1, <2>2, <2>5, <2>6
  <1>9. Known'
    BY <1>1, <1>8 DEF FlagInv, Known, Seen
  <1>10. NoTwice(lru)'
    <2> SUFFICES ASSUME NEW i \in 1 .. l - n, NEW j \in 1 .. l - n, lru'[i] = lru'[j] PROVE i = j
      BY <1>3 DEF NoTwice
    <2>1. i + n = j + n
      BY <1>2, <1>3, <1>7 DEF NoTwice
    <2> QED
      BY <1>2, <2>1
  <1>11. Promised'
    <2> SUFFICES ASSUME NEW r \in registry PROVE r \in Elems(lru)' <=> Will(r)'
      BY <1>1 DEF Promised
    <2>1. r \in Elems(lru) <=> r \in attached
      BY <1>1, NothingToDo DEF FlagInv, Promised, Will
    <2>2. Will(r)' <=> r = s \/ (r \in attached /\ ~ \E i \in 1 .. n : a[i] = r)
      BY <1>1, <1>4 DEF Will
    <2> QED
      BY <1>5, <1>8, <2>1, <2>2
  <1>12. Orders'
    <2>1. Len(lru)' =< AttachCap'
      BY <1>1, <1>2, <1>3 DEF AttachCap
    <2> QED
      BY <1>4, <1>5, <2>1 DEF Orders
  <1> QED
    BY <1>9, <1>10, <1>11, <1>12 DEF FlagInv

LEMMA DetachFlags ==
    ASSUME PoolTypeOK, FlagInv, NEW s \in Terms, Detach(s)
    PROVE  FlagInv'
  <1>1. /\ lru \in Seq(Terms) /\ todo = <<>> /\ todo' = <<Op("off", s)>> /\ lru' = Without(lru, s)
        /\ UNCHANGED <<registry, attached, max_attached, reader>>
    BY DEF PoolTypeOK, Detach, Gives, Ready, readerVars
  <1>2. Elems(lru') = Elems(lru) \ {s} /\ NoTwice(lru')
    BY <1>1, WithoutFacts DEF FlagInv
  <1>3. \A op, r : ToDo(op, r)' <=> op = "off" /\ r = s
    BY <1>1, OpsDiffer DEF ToDo
  <1>4. \A op, r : ~ToDo(op, r)
    BY <1>1, NothingToDo
  <1>5. Elems(lru)' = Elems(lru) \ {s} /\ NoTwice(lru)'
    BY <1>2 DEF Elems, NoTwice
  <1>6. Known'
    BY <1>1, <1>5 DEF FlagInv, Known, Seen
  <1>7. Promised'
    BY <1>1, <1>3, <1>4, <1>5 DEF FlagInv, Promised, Will
  <1>8. Orders'
    BY <1>3 DEF Orders
  <1> QED
    BY <1>5, <1>6, <1>7, <1>8 DEF FlagInv

LEMMA RemoveFlags ==
    ASSUME PoolTypeOK, FlagInv, NEW s \in Terms, Remove(s)
    PROVE  FlagInv'
  <1>1. /\ lru \in Seq(Terms) /\ todo = <<>> /\ todo' = <<>> /\ lru' = Without(lru, s)
        /\ registry' = registry \ {s}
        /\ UNCHANGED <<attached, max_attached, reader>>
    BY DEF PoolTypeOK, Remove, Gives, Ready, readerVars
  <1>2. Elems(lru') = Elems(lru) \ {s} /\ NoTwice(lru')
    BY <1>1, WithoutFacts DEF FlagInv
  <1>3. \A op, r : ~ToDo(op, r) /\ ~ToDo(op, r)'
    BY <1>1, NothingToDo DEF ToDo
  <1>4. Elems(lru)' = Elems(lru) \ {s} /\ NoTwice(lru)'
    BY <1>2 DEF Elems, NoTwice
  <1>5. Known'
    BY <1>1, <1>4 DEF FlagInv, Known, Seen
  <1>6. Promised'
    BY <1>1, <1>3, <1>4 DEF FlagInv, Promised, Will
  <1>7. Orders'
    BY <1>3 DEF Orders
  <1> QED
    BY <1>4, <1>5, <1>6, <1>7 DEF FlagInv

LEMMA CreateFlags ==
    ASSUME PoolTypeOK, FlagInv, NEW s \in Terms, Create(s)
    PROVE  FlagInv'
  <1>1. /\ todo = <<>> /\ todo' = <<>> /\ ~Seen(s) /\ registry' = registry \cup {s}
        /\ UNCHANGED <<attached, lru, max_attached>>
        /\ reader' = [reader EXCEPT ![s].pc = "read"]
    BY DEF Create, Ready
  <1>2. Seen(s)' /\ \A r \in Terms : Seen(r) => Seen(r)'
    BY <1>1 DEF PoolTypeOK, Seen, Reader
  <1>3. s \notin attached /\ s \notin Elems(lru)
    BY <1>1 DEF FlagInv, Known
  <1>4. \A op, r : ~ToDo(op, r) /\ ~ToDo(op, r)'
    BY <1>1, NothingToDo DEF ToDo
  <1>5. Elems(lru)' = Elems(lru) /\ NoTwice(lru)'
    BY <1>1 DEF FlagInv, Elems, NoTwice
  <1>6. Known'
    BY <1>1, <1>2, <1>5 DEF FlagInv, Known
  <1>7. Promised'
    BY <1>1, <1>3, <1>4, <1>5 DEF FlagInv, Promised, Will
  <1>8. Orders'
    BY <1>4 DEF Orders
  <1> QED
    BY <1>5, <1>6, <1>7, <1>8 DEF FlagInv

LEMMA ContinueFlags ==
    ASSUME PoolTypeOK, FlagInv, Continue
    PROVE  FlagInv'
  <1> DEFINE s == Head(todo).s
  <1>1. /\ todo # <<>> /\ todo' = Tail(todo)
        /\ UNCHANGED <<registry, lru, max_attached, reader>>
    BY DEF Continue, SetAttached, Replay, Doing, readerVars
  <1>2. /\ Head(todo) \in Order
        /\ \A op, r : ToDo(op, r) <=> Head(todo) = Op(op, r) \/ ToDo(op, r)'
    BY <1>1, ToDoNext
  <1>3. Head(todo) = Op(Head(todo).op, s) /\ s \in Terms
    BY <1>2 DEF Order, Op
  <1>4. AttachCap' = AttachCap /\ Elems(lru)' = Elems(lru) /\ NoTwice(lru)'
    BY <1>1 DEF AttachCap, Elems, FlagInv, NoTwice
  <1>5. Orders'
    BY <1>1, <1>2, <1>4 DEF FlagInv, Orders
  <1>6. \/ Head(todo).op = "on" /\ s \in registry /\ attached' = attached \cup {s}
        \/ Head(todo).op = "off" /\ s \in registry /\ attached' = attached \ {s}
        \/ s \notin registry /\ attached' = attached
        \/ Head(todo).op = "replay" /\ attached' = attached
    BY DEF Continue, SetAttached, Replay, Doing
  <1>7. Known'
    BY <1>1, <1>4, <1>6 DEF FlagInv, Known, Seen
  <1>8. Promised'
    <2> SUFFICES ASSUME NEW r \in registry PROVE Will(r)' <=> Will(r)
      BY <1>1, <1>4 DEF FlagInv, Promised
    <2>1. r \in Terms
      BY DEF PoolTypeOK
    <2>2. \A op : Head(todo) = Op(op, r) <=> op = Head(todo).op /\ r = s
      BY <1>3, OpsDiffer
    <2> HIDE DEF s
    <2>3. ~(ToDo("on", r) /\ ToDo("off", r))
      BY <2>1 DEF FlagInv, Orders
    <2> QED
      BY <1>2, <1>6, <2>2, <2>3 DEF Will
  <1> QED
    BY <1>4, <1>5, <1>7, <1>8 DEF FlagInv

LEMMA FlagInit == PoolInit => FlagInv
  BY DEF PoolInit, FlagInv, Known, NoTwice, Promised, Orders, Will, ToDo, Elems

LEMMA FlagStep == PoolTypeOK /\ FlagInv /\ [PoolNext]_poolVars => FlagInv'
  <1> SUFFICES ASSUME PoolTypeOK, FlagInv, [PoolNext]_poolVars PROVE FlagInv'
    OBVIOUS
  <1>1. CASE UNCHANGED poolVars
    BY <1>1, OthersKeepFlags DEF poolVars, stateVars, coreVars, readerVars, Seen
  <1>2. CASE MainNext
    <2>1. ASSUME NEW s \in Terms, Rename(s) \/ KillTerm(s) PROVE FlagInv'
      BY <2>1, OthersKeepFlags DEF Rename, KillTerm, coreVars, readerVars, Seen
    <2>2. ASSUME NEW n \in MaxAttached, SetConfig(n) PROVE FlagInv'
      <3>1. /\ todo = <<>> /\ UNCHANGED <<registry, attached, lru, todo, reader>>
        BY <2>2 DEF SetConfig, Gives, Ready, readerVars
      <3>2. \A op, s : ~ToDo(op, s) /\ ~ToDo(op, s)'
        BY <3>1, NothingToDo DEF ToDo
      <3> QED
        BY <3>1, <3>2 DEF FlagInv, Known, NoTwice, Promised, Orders, Will, Elems, Seen
    <2>3. CASE Reload \/ WireEvents
      BY <2>3, OthersKeepFlags DEF Reload, WireEvents, coreVars, readerVars, Seen
    <2> QED
      BY <1>2, <2>1, <2>2, <2>3, CreateFlags, AttachFlags, DetachFlags, RemoveFlags, ContinueFlags
         DEF MainNext
  <1>3. ASSUME NEW s \in Terms, TermReaderNext(s) PROVE FlagInv'
    BY <1>3, SeenLasts, OthersKeepFlags
  <1>4. CASE MonitorNext
    BY <1>4, OthersKeepFlags DEF MonitorNext, Sample, MonitorSend, coreVars, readerVars, Seen
  <1>5. CASE Deliver
    BY <1>5, OthersKeepFlags DEF Deliver, coreVars, readerVars, Seen
  <1> QED
    BY <1>1, <1>2, <1>3, <1>4, <1>5 DEF PoolNext

\* attach_lru and the attached flags never part, although one is changed under its mutex and the
\* others one by one after its release: between two commands the attached sessions of the registry
\* are those of the list, and no session is in it twice.
THEOREM FlagsAgree == PoolSpec => []FlagsFollowLru
  <1>1. PoolTypeOK /\ FlagInv => FlagsFollowLru
    <2> SUFFICES ASSUME PoolTypeOK, FlagInv, Ready PROVE FlagsFollowLru
      BY DEF FlagsFollowLru
    <2>1. \A op, s : ~ToDo(op, s)
      BY NothingToDo DEF Ready
    <2>2. \A s \in registry : s \in Elems(lru) <=> s \in attached
      BY <2>1 DEF FlagInv, Promised, Will
    <2>3. Cardinality(Elems(lru)) = Len(lru)
      BY OnceCounts DEF FlagInv, PoolTypeOK
    <2> QED
      BY <2>2, <2>3 DEF FlagsFollowLru
  <1> QED
    BY <1>1, FlagInit, FlagStep, PoolTypes, PTL DEF PoolSpec

\* When an attach is through, the cap is kept: also when it was lowered since the last attach.
THEOREM CapEnforced == PoolSpec => AttachEnforcesCap
  <1>1. PoolTypeOK /\ FlagInv /\ [PoolNext]_poolVars =>
          (Doing("replay") /\ todo' = <<>> => Cardinality(attached \cap registry) =< AttachCap)
    <2> SUFFICES ASSUME PoolTypeOK, FlagInv, [PoolNext]_poolVars, Doing("replay"), todo' = <<>>
                 PROVE  Cardinality(attached \cap registry) =< AttachCap
      OBVIOUS
    <2>1. todo # <<>> /\ Head(todo).op = "replay"
      BY DEF Doing
    <2>2. todo' = Tail(todo)
      <3>1. CASE UNCHANGED poolVars
        BY <2>1, <3>1 DEF poolVars, stateVars, coreVars
      <3>2. CASE MainNext
        BY <2>1, <3>2 DEF MainNext, Create, Attach, Detach, Remove, Rename, KillTerm, SetConfig,
                          Continue, SetAttached, Replay, Reload, WireEvents, Gives, Ready, coreVars
      <3>3. ASSUME NEW s \in Terms, TermReaderNext(s) PROVE FALSE
        BY <2>1, <3>3, SeenLasts
      <3>4. CASE MonitorNext \/ Deliver
        BY <2>1, <3>4 DEF MonitorNext, Sample, MonitorSend, Deliver, coreVars
      <3> QED
        BY <3>1, <3>2, <3>3, <3>4 DEF PoolNext
    <2>3. /\ Head(todo) \in Order
          /\ \A op, s : ToDo(op, s) <=> Head(todo) = Op(op, s) \/ ToDo(op, s)'
      BY <2>1, <2>2, ToDoNext
    <2>4. \A op, s : ~ToDo(op, s)'
      BY DEF ToDo
    <2>5. Head(todo) = Op("replay", Head(todo).s) /\ Head(todo).s \in Terms
      BY <2>1, <2>3 DEF Order, Op
    <2>6. \A s : ~ToDo("on", s) /\ ~ToDo("off", s)
      BY <2>3, <2>4, <2>5, OpsDiffer
    <2>7. Len(lru) =< AttachCap
      BY <2>3, <2>5 DEF FlagInv, Orders
    <2>8. attached \cap registry \subseteq Elems(lru)
      BY <2>6 DEF FlagInv, Promised, Will
    <2>9. IsFiniteSet(Elems(lru)) /\ Cardinality(Elems(lru)) =< Len(lru) /\ Len(lru) \in Nat
      BY OnceCounts, LenProperties DEF PoolTypeOK
    <2>10. /\ IsFiniteSet(attached \cap registry)
           /\ Cardinality(attached \cap registry) =< Cardinality(Elems(lru))
      BY <2>8, <2>9, FS_Subset
    <2>11. /\ Cardinality(attached \cap registry) \in Nat /\ Cardinality(Elems(lru)) \in Nat
           /\ AttachCap \in Nat
      BY <2>9, <2>10, FS_CardinalityType, CapFacts DEF PoolTypeOK
    <2> QED
      BY <2>7, <2>9, <2>10, <2>11
  <1> QED
    BY <1>1, FlagInit, FlagStep, PoolTypes, PTL DEF PoolSpec, AttachEnforcesCap

-----------------------------------------------------------------------------
(* What a pane shows.                                                      *)

\* The replay is the last thing an attach does, to the session whose flag it sets, and that one
\* stays in the list.
ReplayOrders ==
    /\ \A i \in DOMAIN todo : todo[i].op = "replay" => i = Len(todo)
    /\ \A s \in Terms : ToDo("on", s) => ToDo("replay", s)
    /\ \A s \in Terms : ToDo("replay", s) => s \in Elems(lru)

\* What an attach has left open is attached: the flag is cleared and the pane closed in one step.
Drawn ==
    /\ drawn # {} => wired
    /\ \A s \in drawn : panes[s].open /\ (s \in registry => s \in attached)

IsData(i, s) == queue[i].type = "data" /\ queue[i].s = s

\* A byte is on its way to the window.
Coming(s, b) ==
    \/ \E i \in DOMAIN queue : IsData(i, s) /\ b \in Elems(queue[i].bytes)
    \/ reader[s].pc \in {"check", "emit"} /\ b \in Elems(reader[s].chunk)

\* Since the replay every byte of the ring is shown or on its way.
Shows ==
    \A s \in registry \cap drawn :
        \A b \in Elems(ring[s]) : b \in panes[s].shown \/ Coming(s, b)

PaneInv == ReplayOrders /\ Drawn /\ Shows

LEMMA NothingEnds == todo' = todo \/ todo = <<>> => AttachEnds = {}
  BY DEF AttachEnds

\* What a step has to say of the sessions it leaves drawn.
LEMMA StillDrawn ==
    ASSUME PoolTypeOK, PaneInv, Remember, ReplayOrders',
           \A s \in drawn \cup AttachEnds : s \in registry' /\ panes'[s].open =>
               /\ s \in attached'
               /\ \A b \in Elems(ring'[s]) : b \in panes'[s].shown \/ Coming(s, b)'
    PROVE  PaneInv'
  <1>1. \A s \in drawn' : s \in drawn \cup AttachEnds /\ panes'[s].open
    BY DEF Remember
  <1>2. drawn' # {} => wired'
    BY DEF Remember
  <1>3. Drawn'
    BY <1>1, <1>2 DEF Drawn
  <1>4. Shows'
    <2> SUFFICES ASSUME NEW s \in registry' \cap drawn', NEW b \in Elems(ring'[s])
                 PROVE  b \in panes'[s].shown \/ Coming(s, b)'
      BY DEF Shows, Elems
    <2> QED
      BY <1>1
  <1> QED
    BY <1>3, <1>4 DEF PaneInv

\* Nothing is read, sent or shown, and no command is in its middle.
LEMMA PanesStay ==
    ASSUME PoolTypeOK, PaneInv, Remember, UNCHANGED <<queue, ring>>, ReplayOrders', AttachEnds = {},
           \A s \in drawn : s \in registry' /\ panes'[s].open =>
               /\ s \in registry /\ s \in attached'
               /\ panes'[s] = panes[s] /\ reader'[s] = reader[s]
    PROVE  PaneInv'
  <1>1. ASSUME NEW s \in drawn, s \in registry', panes'[s].open
        PROVE  /\ s \in attached'
               /\ \A b \in Elems(ring'[s]) : b \in panes'[s].shown \/ Coming(s, b)'
    <2>1. /\ s \in registry \cap drawn /\ s \in attached'
          /\ panes'[s] = panes[s] /\ reader'[s] = reader[s] /\ ring'[s] = ring[s]
      BY <1>1
    <2>2. \A b \in Elems(ring[s]) : b \in panes[s].shown \/ Coming(s, b)
      BY <2>1 DEF PaneInv, Shows
    <2>3. \A b : Coming(s, b) => Coming(s, b)'
      BY <2>1 DEF Coming, IsData, Elems
    <2>4. Elems(ring'[s]) = Elems(ring[s])
      BY <2>1
    <2> QED
      BY <2>1, <2>2, <2>3, <2>4
  <1> QED
    BY <1>1, StillDrawn

\* Between two commands there is nothing to do.
LEMMA IdleOrders == todo = <<>> => ReplayOrders
  BY NothingToDo DEF ReplayOrders

LEMMA CreatePanes ==
    ASSUME PoolTypeOK, PaneInv, Remember, NEW s \in Terms, Create(s)
    PROVE  PaneInv'
  <1>1. /\ todo = <<>> /\ todo' = <<>> /\ registry' = registry \cup {s}
        /\ UNCHANGED <<attached, queue, ring>>
        /\ reader' = [reader EXCEPT ![s].pc = "read"]
        /\ panes' = [panes EXCEPT ![s] = Synced(@, FALSE)]
    BY DEF Create, Ready, ShowUpdate
  <1>2. ReplayOrders' /\ AttachEnds = {}
    BY <1>1, NothingEnds, NothingToDo DEF ReplayOrders, ToDo
  <1>3. panes \in [Terms -> Pane] /\ drawn \subseteq Terms /\ reader \in [Terms -> Reader]
    BY DEF PoolTypeOK
  <1>4. ~panes'[s].open
    <2>1. panes'[s] = Synced(panes[s], FALSE)
      BY <1>1, <1>3
    <2>2. panes[s].open \in BOOLEAN
      BY <1>3 DEF Pane
    <2> QED
      BY <2>1, <2>2 DEF Synced, Closed
  <1>5. ASSUME NEW r \in drawn, r \in registry', panes'[r].open
        PROVE  /\ r \in registry /\ r \in attached'
               /\ panes'[r] = panes[r] /\ reader'[r] = reader[r]
    <2>1. r # s /\ r \in Terms
      BY <1>3, <1>4, <1>5
    <2>2. r \in registry /\ r \in attached
      BY <1>1, <1>5, <2>1 DEF PaneInv, Drawn
    <2> QED
      BY <1>1, <1>3, <2>1, <2>2
  <1> QED
    BY <1>1, <1>2, <1>5, PanesStay

LEMMA RemovePanes ==
    ASSUME PoolTypeOK, PaneInv, Remember, NEW s \in Terms, Remove(s)
    PROVE  PaneInv'
  <1>1. /\ todo = <<>> /\ todo' = <<>> /\ registry' = registry \ {s}
        /\ UNCHANGED <<attached, queue, ring, reader>>
        /\ panes' = [panes EXCEPT ![s] = Closed]
    BY DEF Remove, Gives, Ready, ShowRemoved, readerVars
  <1>2. ReplayOrders' /\ AttachEnds = {}
    BY <1>1, NothingEnds, NothingToDo DEF ReplayOrders, ToDo
  <1>3. \A r \in drawn : r \in registry' =>
            /\ r \in registry /\ r \in attached'
            /\ panes'[r] = panes[r] /\ reader'[r] = reader[r]
    BY <1>1 DEF PoolTypeOK, PaneInv, Drawn
  <1> QED
    BY <1>1, <1>2, <1>3, PanesStay

\* A step that leaves the registry, the flags, the readers and the open panes alone.
LEMMA QuietPanes ==
    ASSUME PoolTypeOK, PaneInv, Remember, ReplayOrders', AttachEnds = {},
           UNCHANGED <<registry, attached, queue, ring, reader>>,
           \A s \in drawn : panes'[s] = panes[s] \/ ~panes'[s].open
    PROVE  PaneInv'
  <1>1. \A s \in drawn : s \in registry => s \in attached
    BY DEF PaneInv, Drawn
  <1> QED
    BY <1>1, PanesStay

LEMMA AttachPanes ==
    ASSUME PoolTypeOK, PaneInv, Remember, NEW s \in Terms, Attach(s)
    PROVE  PaneInv'
  <1>1. /\ lru \in Seq(Terms) /\ max_attached \in MaxAttached /\ todo = <<>>
        /\ UNCHANGED <<registry, attached, queue, ring, reader, panes>>
    BY DEF PoolTypeOK, Attach, Gives, Ready, readerVars, windowVars
  <1> DEFINE n == Gone(s)
  <1>2. /\ n \in Nat /\ DOMAIN todo' = 1 .. n + 2 /\ Len(todo') = n + 2
        /\ \A i \in 1 .. n : todo'[i] = Op("off", Asked(s)[i])
        /\ todo'[n + 1] = Op("on", s) /\ todo'[n + 2] = Op("replay", s)
    BY <1>1, AskedFacts, AttachFacts
  <1>8. s \in Elems(lru')
    <2> DEFINE l == Len(Asked(s))
    <2>1. /\ l \in Nat \ {0} /\ Asked(s)[l] = s /\ n \in Nat /\ n < l
          /\ DOMAIN lru' = 1 .. l - n
          /\ \A i \in 1 .. l - n : lru'[i] = Asked(s)[i + n]
      BY <1>1, AskedFacts, AttachFacts
    <2> HIDE DEF l, n
    <2>2. l - n \in 1 .. l - n /\ (l - n) + n = l
      BY <2>1
    <2>3. lru'[l - n] = s
      BY <2>1, <2>2
    <2> QED
      BY <2>1, <2>2, <2>3 DEF Elems
  <1> HIDE DEF n
  <1>3. \A i \in 1 .. n + 2 : i \in 1 .. n \/ i = n + 1 \/ i = n + 2
    BY <1>2
  <1>4. ASSUME NEW i \in DOMAIN todo', todo'[i].op = "replay" PROVE i = Len(todo')
    <2>1. i \in 1 .. n + 2
      BY <1>2
    <2>2. i \notin 1 .. n
      <3> SUFFICES ASSUME i \in 1 .. n PROVE FALSE
        OBVIOUS
      <3>1. todo'[i] = Op("off", Asked(s)[i])
        BY <1>2
      <3> QED
        BY <1>4, <3>1 DEF Op
    <2>3. i # n + 1
      BY <1>2, <1>4 DEF Op
    <2> QED
      BY <1>2, <1>3, <2>1, <2>2, <2>3
  <1>5. ASSUME NEW r, ToDo("on", r)' PROVE ToDo("replay", r)'
    <2>1. PICK i \in 1 .. n + 2 : todo'[i] = Op("on", r)
      BY <1>2, <1>5 DEF ToDo
    <2>2. i = n + 1 /\ r = s
      <3>1. ASSUME i \in 1 .. n PROVE FALSE
        <4>1. todo'[i] = Op("off", Asked(s)[i])
          BY <1>2, <3>1
        <4> QED
          BY <2>1, <4>1, OpsDiffer
      <3>2. i # n + 2
        BY <1>2, <2>1, OpsDiffer
      <3>3. i = n + 1
        BY <1>3, <3>1, <3>2
      <3> QED
        BY <1>2, <2>1, <3>3, OpsDiffer
    <2>3. n + 2 \in 1 .. n + 2
      BY <1>2
    <2> QED
      BY <1>2, <2>2, <2>3 DEF ToDo
  <1>9. ASSUME NEW r, ToDo("replay", r)' PROVE r = s
    <2>1. PICK i \in 1 .. n + 2 : todo'[i] = Op("replay", r)
      BY <1>2, <1>9 DEF ToDo
    <2>2. i = n + 2
      BY <1>2, <1>4, <2>1 DEF Op
    <2> QED
      BY <1>2, <2>1, <2>2, OpsDiffer
  <1>6. ReplayOrders'
    BY <1>4, <1>5, <1>8, <1>9 DEF ReplayOrders, Elems
  <1> QED
    BY <1>1, <1>6, NothingEnds, QuietPanes

LEMMA DetachPanes ==
    ASSUME PoolTypeOK, PaneInv, Remember, NEW s \in Terms, Detach(s)
    PROVE  PaneInv'
  <1>1. /\ todo = <<>> /\ todo' = <<Op("off", s)>>
        /\ UNCHANGED <<registry, attached, queue, ring, reader, panes>>
    BY DEF PoolTypeOK, Detach, Gives, Ready, readerVars, windowVars
  <1>2. ReplayOrders'
    BY <1>1 DEF ReplayOrders, ToDo, Op
  <1> QED
    BY <1>1, <1>2, NothingEnds, QuietPanes

\* The orders of a command that is not touched.
LEMMA OrdersStay ==
    ASSUME PaneInv, UNCHANGED <<todo, lru>>
    PROVE  ReplayOrders' /\ AttachEnds = {}
  <1>1. \A op, s : ToDo(op, s)' = ToDo(op, s)
    BY DEF ToDo
  <1> QED
    BY <1>1, NothingEnds DEF PaneInv, ReplayOrders, Elems

\* After one step of a command the replay is still the last thing to do.
LEMMA OrdersNext ==
    ASSUME PoolTypeOK, ReplayOrders, todo # <<>>, todo' = Tail(todo), UNCHANGED lru
    PROVE  ReplayOrders'
  <1>1. todo \in Seq(Order)
    BY DEF PoolTypeOK, Order
  <1>2. /\ Head(todo) = todo[1] /\ todo' \in Seq(Order)
        /\ Len(todo) \in Nat \ {0} /\ DOMAIN todo = 1 .. Len(todo)
        /\ DOMAIN todo' = 1 .. Len(todo) - 1
        /\ \A i \in 1 .. Len(todo) - 1 : todo'[i] = todo[i + 1]
    BY <1>1, TailFacts
  <1>3. Len(todo') = Len(todo) - 1
    BY <1>1, HeadTailProperties
  <1>4. ASSUME NEW i \in DOMAIN todo', todo'[i].op = "replay" PROVE i = Len(todo')
    <2>1. i + 1 \in DOMAIN todo /\ todo[i + 1].op = "replay"
      BY <1>2, <1>4
    <2>2. i + 1 = Len(todo)
      BY <2>1 DEF ReplayOrders
    <2> QED
      BY <1>2, <1>3, <2>2
  <1>5. ASSUME NEW s \in Terms, ToDo("on", s)' PROVE ToDo("replay", s)'
    <2>1. \A op : ToDo(op, s) <=> Head(todo) = Op(op, s) \/ ToDo(op, s)'
      BY ToDoNext
    <2>2. ToDo("replay", s)
      BY <1>5, <2>1 DEF ReplayOrders
    <2>3. ASSUME Head(todo) = Op("replay", s) PROVE FALSE
      <3>1. 1 \in DOMAIN todo /\ todo[1].op = "replay"
        BY <1>2, <2>3 DEF Op
      <3>2. Len(todo) = 1
        BY <3>1 DEF ReplayOrders
      <3>3. DOMAIN todo' = {}
        BY <1>2, <3>2
      <3> QED
        BY <1>5, <3>3 DEF ToDo
    <2> QED
      BY <2>1, <2>2, <2>3
  <1>6. \A s \in Terms : ToDo("replay", s)' => s \in Elems(lru)
    BY ToDoNext DEF ReplayOrders
  <1> QED
    BY <1>4, <1>5, <1>6 DEF ReplayOrders, Elems

LEMMA SetAttachedPanes ==
    ASSUME PoolTypeOK, PaneInv, Remember, SetAttached
    PROVE  PaneInv'
  <1>1. /\ todo # <<>> /\ todo' = Tail(todo) /\ Head(todo).op \in {"on", "off"}
        /\ UNCHANGED <<registry, lru, queue, ring, reader>>
    BY DEF SetAttached, Doing, readerVars
  <1>2. /\ Head(todo) \in Order
        /\ \A op, r : ToDo(op, r) <=> Head(todo) = Op(op, r) \/ ToDo(op, r)'
    BY <1>1, ToDoNext
  <1>3. PICK s \in Terms : s = Head(todo).s /\ Head(todo) = Op(Head(todo).op, s)
    BY <1>2 DEF Order, Op
  <1>4. ReplayOrders'
    BY <1>1, OrdersNext DEF PaneInv
  <1>5. panes \in [Terms -> Pane] /\ drawn \subseteq Terms /\ AttachEnds \subseteq {s}
    BY <1>3 DEF PoolTypeOK, AttachEnds
  <1>6. \A r \in drawn \cap registry : r \in attached /\ panes[r].open
    BY DEF PaneInv, Drawn
  <1>7. ASSUME NEW r \in drawn \cap registry, panes'[r] = panes[r]
        PROVE  \A b \in Elems(ring'[r]) : b \in panes'[r].shown \/ Coming(r, b)'
    <2>1. \A b \in Elems(ring[r]) : b \in panes[r].shown \/ Coming(r, b)
      BY DEF PaneInv, Shows
    <2>2. \A b : Coming(r, b) => Coming(r, b)'
      BY <1>1 DEF Coming, IsData, Elems
    <2> QED
      BY <1>1, <1>7, <2>1, <2>2
  <1>8. CASE s \notin registry
    <2>1. UNCHANGED <<attached, panes>>
      BY <1>3, <1>8 DEF SetAttached, windowVars
    <2>2. \A r \in drawn \cup AttachEnds : r \in registry => r \in drawn
      BY <1>5, <1>8
    <2> QED
      BY <1>1, <1>4, <1>6, <1>7, <2>1, <2>2, StillDrawn
  <1>9. CASE s \in registry /\ Head(todo).op = "off"
    <2>1. attached' = attached \ {s} /\ panes' = [panes EXCEPT ![s] = Synced(@, FALSE)]
      BY <1>3, <1>9 DEF SetAttached, ShowUpdate, Doing, Synced
    <2>2. ~panes'[s].open
      <3>1. panes'[s] = Synced(panes[s], FALSE) /\ panes[s].open \in BOOLEAN
        BY <1>3, <1>5, <2>1 DEF Pane
      <3> QED
        BY <3>1 DEF Synced, Closed
    <2>3. \A r \in drawn \cup AttachEnds : panes'[r].open => r # s /\ r \in drawn /\ panes'[r] = panes[r]
      BY <1>5, <2>1, <2>2
    <2> QED
      BY <1>1, <1>4, <1>6, <1>7, <2>1, <2>3, StillDrawn
  <1>10. CASE s \in registry /\ Head(todo).op = "on"
    <2>1. attached' = attached \cup {s} /\ panes' = [panes EXCEPT ![s] = Synced(@, TRUE)]
      BY <1>1, <1>3, <1>10 DEF SetAttached, ShowUpdate, Doing, Synced
    <2>2. AttachEnds = {}
      <3>1. ToDo("replay", s)
        BY <1>2, <1>3, <1>10 DEF PaneInv, ReplayOrders
      <3>2. ToDo("replay", s)'
        BY <1>2, <1>3, <1>10, <3>1, OpsDiffer
      <3> QED
        BY <3>2, NothingToDo DEF AttachEnds, ToDo
    <2>3. ASSUME NEW r \in drawn \cap registry PROVE panes'[r] = panes[r]
      <3>1. CASE r = s
        <4>1. panes'[s] = Synced(panes[s], TRUE) /\ panes[s].open
          BY <1>3, <1>5, <1>6, <2>1, <3>1
        <4> QED
          BY <3>1, <4>1 DEF Synced
      <3>2. CASE r # s
        BY <1>5, <2>1, <3>2
      <3> QED
        BY <3>1, <3>2
    <2> QED
      BY <1>1, <1>4, <1>6, <1>7, <2>1, <2>2, <2>3, StillDrawn
  <1> QED
    BY <1>1, <1>8, <1>9, <1>10

\* The session that is replayed is attached, if it is still there, and the replay is all there is to do.
LEMMA ReplayLands ==
    ASSUME PoolTypeOK, FlagInv, ReplayOrders, NEW s \in registry, todo # <<>>, Head(todo) = Op("replay", s)
    PROVE  s \in attached
  <1>1. /\ Head(todo) = todo[1] /\ Len(todo) \in Nat \ {0} /\ DOMAIN todo = 1 .. Len(todo)
    BY TailFacts DEF PoolTypeOK
  <1>2. 1 \in DOMAIN todo /\ todo[1].op = "replay"
    BY <1>1 DEF Op
  <1>3. Len(todo) = 1
    BY <1>2 DEF ReplayOrders
  <1>4. ~ToDo("on", s)
    BY <1>1, <1>3, OpsDiffer DEF ToDo
  <1>5. s \in Elems(lru)
    <2>1. ToDo("replay", s) /\ s \in Terms
      BY <1>1, <1>2 DEF ToDo, PoolTypeOK
    <2> QED
      BY <2>1 DEF ReplayOrders
  <1> QED
    BY <1>4, <1>5 DEF FlagInv, Promised, Will

LEMMA ReplayPanes ==
    ASSUME PoolTypeOK, FlagInv, PaneInv, Remember, Replay
    PROVE  PaneInv'
  <1>1. /\ todo # <<>> /\ todo' = Tail(todo) /\ Head(todo).op = "replay"
        /\ UNCHANGED <<registry, attached, lru, queue, ring, reader>>
    BY DEF Replay, Doing, readerVars
  <1>2. Head(todo) \in Order
    BY <1>1, ToDoNext
  <1>3. PICK s \in Terms : s = Head(todo).s /\ Head(todo) = Op("replay", s)
    BY <1>1, <1>2 DEF Order, Op
  <1>4. ReplayOrders'
    BY <1>1, OrdersNext DEF PaneInv
  <1>5. panes \in [Terms -> Pane] /\ drawn \subseteq Terms /\ AttachEnds \subseteq {s}
    BY <1>3 DEF PoolTypeOK, AttachEnds
  <1>6. \A r \in Terms : r # s => panes'[r] = panes[r]
    BY <1>3, <1>5 DEF Replay, ShowData, windowVars
  <1>7. s \in registry /\ panes'[s].open => Elems(ring[s]) \subseteq panes'[s].shown
    <2>1. CASE s \in registry /\ ring[s] # <<>>
      <3>1. panes'[s] = Written(panes[s], Elems(ring[s]))
        BY <1>3, <1>5, <2>1 DEF Replay, ShowData
      <3> QED
        BY <1>3, <1>5, <3>1 DEF Written, Pane
    <2>2. CASE s \in registry /\ ring[s] = <<>>
      BY <2>2 DEF Elems
    <2> QED
      BY <2>1, <2>2
  <1>8. s \in registry => s \in attached
    BY <1>1, <1>3, ReplayLands DEF PaneInv
  <1>9. ASSUME NEW r \in drawn \cup AttachEnds, r \in registry', panes'[r].open
        PROVE  /\ r \in attached'
               /\ \A b \in Elems(ring'[r]) : b \in panes'[r].shown \/ Coming(r, b)'
    <2>1. CASE r = s
      BY <1>1, <1>7, <1>8, <1>9, <2>1
    <2>2. CASE r # s
      <3>1. r \in registry \cap drawn /\ r \in Terms
        BY <1>1, <1>5, <1>9, <2>2
      <3>2. panes'[r] = panes[r] /\ r \in attached
        BY <1>6, <2>2, <3>1 DEF PaneInv, Drawn
      <3>3. \A b \in Elems(ring[r]) : b \in panes[r].shown \/ Coming(r, b)
        BY <3>1 DEF PaneInv, Shows
      <3>4. \A b : Coming(r, b) => Coming(r, b)'
        BY <1>1 DEF Coming, IsData, Elems
      <3> QED
        BY <1>1, <3>2, <3>3, <3>4
    <2> QED
      BY <2>1, <2>2
  <1> QED
    BY <1>4, <1>9, StillDrawn

LEMMA MainPanes ==
    ASSUME PoolTypeOK, FlagInv, PaneInv, Remember, MainNext
    PROVE  PaneInv'
  <1>1. ASSUME NEW s \in Terms, Rename(s) PROVE PaneInv'
    <2>1. /\ UNCHANGED <<todo, lru, registry, attached, queue, ring, reader>>
          /\ panes' = [panes EXCEPT ![s] = Synced(@, s \in attached)]
      BY <1>1 DEF Rename, ShowUpdate, coreVars, readerVars
    <2>2. panes \in [Terms -> Pane] /\ drawn \subseteq Terms
      BY DEF PoolTypeOK
    <2>3. ASSUME NEW r \in drawn PROVE panes'[r] = panes[r] \/ ~panes'[r].open
      <3>1. CASE r = s
        <4>1. panes'[s] = Synced(panes[s], s \in attached) /\ panes[s].open
          BY <2>1, <2>2, <3>1 DEF PaneInv, Drawn
        <4> QED
          BY <3>1, <4>1 DEF Synced, Closed
      <3>2. CASE r # s
        BY <2>1, <2>2, <3>2
      <3> QED
        BY <3>1, <3>2
    <2> QED
      BY <2>1, <2>3, OrdersStay, QuietPanes
  <1>2. ASSUME NEW s \in Terms, KillTerm(s) PROVE PaneInv'
    <2>1. UNCHANGED <<todo, lru, registry, attached, queue, ring, reader, panes>>
      BY <1>2 DEF KillTerm, readerVars, windowVars
    <2> QED
      BY <2>1, OrdersStay, QuietPanes
  <1>3. ASSUME NEW n \in MaxAttached, SetConfig(n) PROVE PaneInv'
    <2>1. UNCHANGED <<todo, lru, registry, attached, queue, ring, reader, panes>>
      BY <1>3 DEF SetConfig, readerVars, windowVars
    <2> QED
      BY <2>1, OrdersStay, QuietPanes
  <1>4. CASE Reload
    <2>1. UNCHANGED <<todo, lru>> /\ ~wired'
      BY <1>4 DEF Reload, coreVars
    <2>2. drawn' = {}
      BY <2>1 DEF Remember
    <2> QED
      BY <2>1, <2>2, OrdersStay DEF PaneInv, Drawn, Shows
  <1>5. CASE WireEvents
    <2>1. UNCHANGED <<todo, lru, registry, attached, queue, ring, reader, panes>>
      BY <1>5 DEF WireEvents, coreVars, readerVars
    <2> QED
      BY <2>1, OrdersStay, QuietPanes
  <1> QED
    BY <1>1, <1>2, <1>3, <1>4, <1>5, CreatePanes, RemovePanes, AttachPanes, DetachPanes,
       SetAttachedPanes, ReplayPanes DEF MainNext, Continue

\* A step of the reader of s.
LEMMA ReaderMoves ==
    ASSUME PoolTypeOK, PaneInv, Remember, NEW s \in Terms,
           UNCHANGED <<registry, attached, todo, lru, panes>>,
           \A r \in Terms : r # s =>
               ring'[r] = ring[r] /\ \A b : Coming(r, b) => Coming(r, b)',
           s \in attached =>
               \A b \in Elems(ring'[s]) : \/ b \in Elems(ring[s]) /\ (Coming(s, b) => Coming(s, b)')
                                          \/ Coming(s, b)'
    PROVE  PaneInv'
  <1>1. ReplayOrders' /\ AttachEnds = {}
    BY OrdersStay
  <1>2. ASSUME NEW r \in drawn, r \in registry
        PROVE  /\ r \in attached
               /\ \A b \in Elems(ring'[r]) : b \in panes[r].shown \/ Coming(r, b)'
    <2>1. r \in attached /\ r \in Terms
      BY <1>2 DEF PaneInv, Drawn, PoolTypeOK
    <2>2. \A b \in Elems(ring[r]) : b \in panes[r].shown \/ Coming(r, b)
      BY <1>2 DEF PaneInv, Shows
    <2>3. CASE r = s
      BY <2>1, <2>2, <2>3
    <2>4. CASE r # s
      BY <2>1, <2>2, <2>4
    <2> QED
      BY <2>1, <2>3, <2>4
  <1> QED
    BY <1>1, <1>2, StillDrawn

LEMMA ReadPanes ==
    ASSUME PoolTypeOK, PaneInv, Remember, NEW s \in Terms, ReadChunk(s)
    PROVE  PaneInv'
  <1>1. PICK n \in 1 .. ChunkMax :
            /\ produced[s] + n =< ByteMax
            /\ ring' = [ring EXCEPT ![s] = Push(@, [i \in 1 .. n |-> produced[s] + i])]
            /\ reader' = [reader EXCEPT ![s].pc = "check",
                                        ![s].chunk = [i \in 1 .. n |-> produced[s] + i]]
    BY DEF ReadChunk
  <1> DEFINE chunk == [i \in 1 .. n |-> produced[s] + i]
  <1>2. n \in Nat /\ produced[s] \in Nat
    BY PoolBoundsAssumption DEF PoolTypeOK
  <1>3. chunk \in Seq(Byte)
    BY <1>1, <1>2, ReadBytes
  <1> HIDE DEF chunk
  <1>4. Elems(Push(ring[s], chunk)) \subseteq Elems(ring[s]) \cup Elems(chunk)
    BY <1>3, PushFacts DEF PoolTypeOK
  <1>5. reader'[s].pc = "check" /\ reader'[s].chunk = chunk /\ ring'[s] = Push(ring[s], chunk)
    BY <1>1 DEF PoolTypeOK, Reader, chunk
  <1>6. \A r \in Terms : r # s => reader'[r] = reader[r] /\ ring'[r] = ring[r]
    BY <1>1 DEF PoolTypeOK
  <1>7. UNCHANGED <<registry, attached, todo, lru, queue, panes>> /\ reader[s].pc = "read"
    BY DEF ReadChunk, coreVars, windowVars
  <1>8. \A r \in Terms : \A b : Coming(r, b) => Coming(r, b)'
    BY <1>6, <1>7 DEF Coming, IsData, Elems
  <1>9. \A b \in Elems(chunk) : Coming(s, b)'
    BY <1>5 DEF Coming, Elems
  <1> QED
    BY <1>4, <1>5, <1>6, <1>7, <1>8, <1>9, ReaderMoves

LEMMA CheckPanes ==
    ASSUME PoolTypeOK, PaneInv, Remember, NEW s \in Terms, CheckAttached(s)
    PROVE  PaneInv'
  <1>1. UNCHANGED <<registry, attached, todo, lru, queue, panes, ring>> /\ reader[s].pc = "check"
    BY DEF CheckAttached, coreVars, windowVars
  <1>2. \A r \in Terms : r # s => reader'[r] = reader[r]
    BY DEF CheckAttached, NextChunk, PoolTypeOK
  <1>3. s \in attached => reader'[s].pc = "emit" /\ reader'[s].chunk = reader[s].chunk
    BY DEF CheckAttached, PoolTypeOK, Reader
  <1>4. s \in attached => \A b : Coming(s, b) => Coming(s, b)'
    BY <1>1, <1>3 DEF Coming, IsData, Elems
  <1>5. \A r \in Terms : r # s => \A b : Coming(r, b) => Coming(r, b)'
    BY <1>1, <1>2 DEF Coming, IsData, Elems
  <1> QED
    BY <1>1, <1>4, <1>5, ReaderMoves

LEMMA EndPanes ==
    ASSUME PoolTypeOK, PaneInv, Remember, NEW s \in Terms, EndStream(s)
    PROVE  PaneInv'
  <1>1. /\ UNCHANGED <<registry, attached, todo, lru, queue, panes, ring>>
        /\ reader[s].pc \in {"end", "read"}
    BY DEF EndStream, windowVars
  <1>2. \A r \in Terms : r # s => reader'[r] = reader[r]
    BY DEF EndStream, PoolTypeOK
  <1>3. \A r \in Terms : \A b : Coming(r, b) => Coming(r, b)'
    BY <1>1, <1>2 DEF Coming, IsData, Elems
  <1> QED
    BY <1>1, <1>3, ReaderMoves

\* A message that is put in the queue takes nothing out of it.
LEMMA SentIsComing ==
    ASSUME queue \in Seq(Message), NEW e \in Message, queue' = Append(queue, e)
    PROVE  /\ \A i \in DOMAIN queue : i \in DOMAIN queue' /\ queue'[i] = queue[i]
           /\ Len(queue) + 1 \in DOMAIN queue' /\ queue'[Len(queue) + 1] = e
  <1> DEFINE n == Len(queue)
  <1>1. /\ n \in Nat /\ DOMAIN queue = 1 .. n /\ DOMAIN queue' = 1 .. n + 1
        /\ \A i \in 1 .. n : queue'[i] = queue[i]
        /\ queue'[n + 1] = e
    BY AppendFacts
  <1> HIDE DEF n
  <1>2. n + 1 \in 1 .. n + 1 /\ \A i \in 1 .. n : i \in 1 .. n + 1
    BY <1>1
  <1> QED
    BY <1>1, <1>2 DEF n

LEMMA EmitPanes ==
    ASSUME PoolTypeOK, PaneInv, Remember, NEW s \in Terms, EmitChunk(s)
    PROVE  PaneInv'
  <1>1. /\ UNCHANGED <<registry, attached, todo, lru, panes, ring>>
        /\ reader[s].pc = "emit" /\ queue' = Append(queue, Data(s, reader[s].chunk))
    BY DEF EmitChunk, Send, coreVars, windowVars
  <1>2. \A r \in Terms : r # s => reader'[r] = reader[r]
    BY DEF EmitChunk, NextChunk, PoolTypeOK
  <1>3. queue \in Seq(Message) /\ Data(s, reader[s].chunk) \in Message
    BY DataType DEF PoolTypeOK, Message, Reader
  <1>4. PICK k \in DOMAIN queue' : queue'[k] = Data(s, reader[s].chunk)
    BY <1>1, <1>3, SentIsComing
  <1>5. \A i \in DOMAIN queue : i \in DOMAIN queue' /\ queue'[i] = queue[i]
    BY <1>1, <1>3, SentIsComing
  <1>6. IsData(k, s)' /\ queue'[k].bytes = reader[s].chunk
    BY <1>4 DEF IsData, Data
  <1>7. ASSUME NEW r \in Terms, NEW b, Coming(r, b) PROVE Coming(r, b)'
    <2>1. ASSUME NEW i \in DOMAIN queue, IsData(i, r), b \in Elems(queue[i].bytes)
          PROVE  Coming(r, b)'
      <3>1. i \in DOMAIN queue' /\ IsData(i, r)' /\ b \in Elems(queue'[i].bytes)
        BY <1>5, <2>1 DEF IsData
      <3> QED
        BY <3>1 DEF Coming, Elems
    <2>2. ASSUME reader[r].pc \in {"check", "emit"}, b \in Elems(reader[r].chunk)
          PROVE  Coming(r, b)'
      <3>1. CASE r = s
        BY <1>6, <2>2, <3>1 DEF Coming, Elems
      <3>2. CASE r # s
        BY <1>2, <2>2, <3>2 DEF Coming, Elems
      <3> QED
        BY <3>1, <3>2
    <2> QED
      BY <1>7, <2>1, <2>2 DEF Coming
  <1> QED
    BY <1>1, <1>7, ReaderMoves

\* An update that is sent changes nothing of this.
LEMMA UpdateSentPanes ==
    ASSUME PoolTypeOK, PaneInv, Remember, NEW e \in Message, queue' = Append(queue, e),
           UNCHANGED <<registry, attached, todo, lru, panes, ring>>,
           \A r \in Terms : reader[r].pc \in {"check", "emit"} => reader'[r] = reader[r]
    PROVE  PaneInv'
  <1>1. ReplayOrders' /\ AttachEnds = {}
    BY OrdersStay
  <1>2. \A i \in DOMAIN queue : i \in DOMAIN queue' /\ queue'[i] = queue[i]
    BY SentIsComing DEF PoolTypeOK, Message
  <1>3. \A r \in Terms : \A b : Coming(r, b) => Coming(r, b)'
    BY <1>2 DEF Coming, IsData, Elems
  <1>4. ASSUME NEW r \in drawn, r \in registry
        PROVE  /\ r \in attached
               /\ \A b \in Elems(ring'[r]) : b \in panes'[r].shown \/ Coming(r, b)'
    <2>1. r \in attached /\ r \in Terms
      BY <1>4 DEF PaneInv, Drawn, PoolTypeOK
    <2>2. \A b \in Elems(ring[r]) : b \in panes[r].shown \/ Coming(r, b)
      BY <1>4 DEF PaneInv, Shows
    <2> QED
      BY <1>3, <2>1, <2>2
  <1> QED
    BY <1>1, <1>4, StillDrawn

LEMMA LastPanes ==
    ASSUME PoolTypeOK, PaneInv, Remember, NEW s \in Terms, SendLast(s)
    PROVE  PaneInv'
  <1>1. /\ UNCHANGED <<registry, attached, todo, lru, panes, ring>>
        /\ reader[s].pc = "last" /\ queue' = Append(queue, Update(s, reader[s].copy))
    BY DEF SendLast, Send, coreVars, windowVars
  <1>2. Update(s, reader[s].copy) \in Message
    BY UpdateType DEF PoolTypeOK, Reader
  <1>3. \A r \in Terms : reader[r].pc \in {"check", "emit"} => reader'[r] = reader[r]
    BY <1>1 DEF SendLast, PoolTypeOK
  <1> QED
    BY <1>1, <1>2, <1>3, UpdateSentPanes

LEMMA MonitorPanes ==
    ASSUME PoolTypeOK, PaneInv, Remember, MonitorNext
    PROVE  PaneInv'
  <1>1. UNCHANGED <<registry, attached, todo, lru, panes, ring, reader>>
    BY DEF MonitorNext, Sample, MonitorSend, coreVars, readerVars, windowVars
  <1>2. CASE Sample
    <2>1. UNCHANGED queue
      BY <1>2 DEF Sample
    <2> QED
      BY <1>1, <2>1, OrdersStay, QuietPanes
  <1>3. CASE MonitorSend
    <2>1. PICK m \in monitor : queue' = Append(queue, Update(m.s, m.attached))
      BY <1>3 DEF MonitorSend, Send
    <2>2. Update(m.s, m.attached) \in Message
      BY UpdateType DEF PoolTypeOK
    <2> QED
      BY <1>1, <2>1, <2>2, UpdateSentPanes
  <1> QED
    BY <1>2, <1>3 DEF MonitorNext

LEMMA DeliverPanes ==
    ASSUME PoolTypeOK, PaneInv, Remember, Deliver
    PROVE  PaneInv'
  <1>1. /\ queue \in Seq(Message) /\ queue # <<>> /\ queue' = Tail(queue)
        /\ UNCHANGED <<registry, attached, todo, lru, ring, reader>>
    BY DEF Deliver, PoolTypeOK, Message, coreVars, readerVars
  <1>2. PICK m \in Message : m = Head(queue)
    BY <1>1, TailFacts
  <1>3. /\ m = queue[1] /\ Len(queue) \in Nat \ {0} /\ DOMAIN queue = 1 .. Len(queue)
        /\ DOMAIN queue' = 1 .. Len(queue) - 1
        /\ \A i \in 1 .. Len(queue) - 1 : queue'[i] = queue[i + 1]
    BY <1>1, <1>2, TailFacts
  <1>4. m.s \in Terms /\ m.type \in {"update", "data"} /\ m.attached \in BOOLEAN
    BY DEF Message
  <1>5. \A i \in DOMAIN queue : i = 1 \/ (i - 1 \in DOMAIN queue' /\ queue'[i - 1] = queue[i])
    <2> SUFFICES ASSUME NEW i \in DOMAIN queue, i # 1
                 PROVE  i - 1 \in DOMAIN queue' /\ queue'[i - 1] = queue[i]
      OBVIOUS
    <2>1. i - 1 \in 1 .. Len(queue) - 1 /\ (i - 1) + 1 = i
      BY <1>3
    <2>2. queue'[i - 1] = queue[(i - 1) + 1]
      BY <1>3, <2>1
    <2> QED
      BY <1>3, <2>1, <2>2
  <1>6. ReplayOrders' /\ AttachEnds = {}
    BY <1>1, OrdersStay
  <1>7. ASSUME NEW r \in drawn, r \in registry, panes'[r].open
        PROVE  /\ r \in attached
               /\ \A b \in Elems(ring[r]) : b \in panes'[r].shown \/ Coming(r, b)'
    <2>1. r \in attached /\ r \in Terms /\ panes[r].open /\ wired = TRUE
      BY <1>7 DEF PaneInv, Drawn, PoolTypeOK
    <2>2. panes' = [panes EXCEPT ![m.s] = IF m.type = "update" THEN Synced(@, m.attached)
                                          ELSE Written(@, Elems(m.bytes))]
      BY <1>2, <1>4, <2>1 DEF Deliver, ShowUpdate, ShowData
    <2>3. panes \in [Terms -> Pane]
      BY DEF PoolTypeOK
    <2>4. \A b \in Elems(ring[r]) : b \in panes[r].shown \/ Coming(r, b)
      BY <1>7 DEF PaneInv, Shows
    <2>5. /\ panes[r].shown \subseteq panes'[r].shown
          /\ m.s = r /\ m.type = "data" => Elems(m.bytes) \subseteq panes'[r].shown
      <3>1. CASE m.s # r
        BY <2>1, <2>2, <2>3, <3>1
      <3>2. CASE m.s = r /\ m.type = "update"
        <4>1. panes'[r] = Synced(panes[r], m.attached)
          BY <2>1, <2>2, <2>3, <3>2
        <4>2. panes'[r] = panes[r]
          BY <1>4, <1>7, <2>1, <4>1 DEF Synced, Closed
        <4> QED
          BY <3>2, <4>2
      <3>3. CASE m.s = r /\ m.type = "data"
        <4>1. panes'[r] = Written(panes[r], Elems(m.bytes))
          BY <1>4, <2>1, <2>2, <2>3, <3>3
        <4> QED
          BY <2>1, <2>3, <4>1 DEF Written, Pane
      <3> QED
        BY <1>4, <3>1, <3>2, <3>3
    <2>6. ASSUME NEW b, Coming(r, b) PROVE b \in panes'[r].shown \/ Coming(r, b)'
      <3>1. ASSUME NEW i \in DOMAIN queue, IsData(i, r), b \in Elems(queue[i].bytes)
            PROVE  b \in panes'[r].shown \/ Coming(r, b)'
        <4>1. CASE i = 1
          <5>1. m.s = r /\ m.type = "data" /\ b \in Elems(m.bytes)
            BY <1>3, <3>1, <4>1 DEF IsData
          <5> QED
            BY <2>5, <5>1
        <4>2. CASE i # 1
          <5>1. i - 1 \in DOMAIN queue' /\ queue'[i - 1] = queue[i]
            BY <1>5, <4>2
          <5>2. IsData(i - 1, r)' /\ b \in Elems(queue'[i - 1].bytes)
            BY <3>1, <5>1 DEF IsData
          <5> QED
            BY <5>1, <5>2 DEF Coming, Elems
        <4> QED
          BY <4>1, <4>2
      <3>2. reader[r].pc \in {"check", "emit"} /\ b \in Elems(reader[r].chunk) => Coming(r, b)'
        BY <1>1 DEF Coming, Elems
      <3> QED
        BY <2>6, <3>1, <3>2 DEF Coming
    <2> QED
      BY <2>1, <2>4, <2>5, <2>6
  <1> QED
    BY <1>1, <1>6, <1>7, StillDrawn

LEMMA PaneInit == PoolInit => PaneInv
  BY DEF PoolInit, PaneInv, ReplayOrders, Drawn, Shows, ToDo

LEMMA PaneStep == PoolTypeOK /\ FlagInv /\ PaneInv /\ [PoolNext]_poolVars => PaneInv'
  <1> SUFFICES ASSUME PoolTypeOK, FlagInv, PaneInv, [PoolNext]_poolVars PROVE PaneInv'
    OBVIOUS
  <1>1. CASE UNCHANGED poolVars
    <2>1. UNCHANGED <<todo, lru, registry, attached, queue, ring, reader, panes, wired, drawn>>
      BY <1>1 DEF poolVars, stateVars, coreVars, readerVars, windowVars
    <2>2. ReplayOrders'
      BY <2>1, OrdersStay
    <2>3. Drawn'
      BY <2>1 DEF PaneInv, Drawn
    <2>4. \A s, b : Coming(s, b)' = Coming(s, b)
      BY <2>1 DEF Coming, IsData, Elems
    <2>5. Shows'
      BY <2>1, <2>4 DEF PaneInv, Shows, Elems
    <2> QED
      BY <2>2, <2>3, <2>5 DEF PaneInv
  <1>2. ASSUME Remember, NEW s \in Terms, TermReaderNext(s) PROVE PaneInv'
    BY <1>2, ReadPanes, CheckPanes, EmitPanes, EndPanes, LastPanes DEF TermReaderNext
  <1> QED
    BY <1>1, <1>2, MainPanes, MonitorPanes, DeliverPanes DEF PoolNext

\* "on attach we replay the buffer once so the terminal repaints instantly" (ring.rs:3): the pane
\* of a session that an attach has left open, and that nothing has closed since, shows every byte
\* of its ring when nothing of it is on its way, whatever was read, sent and replayed meanwhile and
\* whatever the monitor, the commands of the user and the ends of sessions did.
THEOREM ReplayCompletes == PoolSpec => []NothingMissing
  <1>1. PaneInv => NothingMissing
    <2> SUFFICES ASSUME PaneInv, NEW s \in registry \cap drawn, Quiet(s), NEW b \in Elems(ring[s])
                 PROVE  b \in panes[s].shown
      BY DEF NothingMissing
    <2>1. ~Coming(s, b)
      BY DEF Coming, Quiet
    <2> QED
      BY <2>1 DEF PaneInv, Shows
  <1> QED
    BY <1>1, PaneStep, PaneInit, FlagInit, FlagStep, PoolTypes, PTL DEF PoolSpec
=============================================================================
