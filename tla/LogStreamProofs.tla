--------------------------- MODULE LogStreamProofs ---------------------------
(***************************************************************************)
(* Theorems about LogStream, for every set of sessions, every number of    *)
(* lines, every length of the history and every cap of a view.             *)
(***************************************************************************)
EXTENDS LogStream, SequenceTheorems, FiniteSetTheorems, TLAPS

-----------------------------------------------------------------------------
(* Lists of lines.                                                         *)

\* The tail of a list that is kept.
LEMMA LastFacts ==
    ASSUME NEW S, NEW q \in Seq(S), NEW n \in Nat
    PROVE  /\ LastOf(q, n) \in Seq(S)
           /\ Len(LastOf(q, n)) = IF Len(q) > n THEN n ELSE Len(q)
           /\ Len(q) =< n => LastOf(q, n) = q
  <1>1. Len(q) \in Nat /\ \A i \in 1 .. Len(q) : q[i] \in S
    BY LenProperties, ElementOfSeq
  <1>2. CASE Len(q) > n
    <2> DEFINE m == Len(q) - n + 1
    <2>1. m \in Int /\ Len(q) \in Int /\ \A i \in m .. Len(q) : i \in 1 .. Len(q)
      BY <1>1, <1>2
    <2>2. LastOf(q, n) = SubSeq(q, m, Len(q))
      BY <1>2 DEF LastOf
    <2>3. (IF m <= Len(q) THEN Len(q) - m + 1 ELSE 0) = n
      BY <1>1, <1>2
    <2> HIDE DEF m
    <2>4. /\ SubSeq(q, m, Len(q)) \in Seq(S)
          /\ Len(SubSeq(q, m, Len(q))) = IF m <= Len(q) THEN Len(q) - m + 1 ELSE 0
      <3>1. \A i \in m .. Len(q) : q[i] \in S
        BY <1>1, <2>1
      <3> QED
        BY <2>1, <3>1, SubSeqProperties
    <2> QED
      BY <1>1, <1>2, <2>2, <2>3, <2>4
  <1>3. CASE Len(q) =< n
    <2>1. ~(Len(q) > n)
      BY <1>1, <1>3
    <2>2. LastOf(q, n) = SubSeq(q, 1, Len(q))
      BY <2>1 DEF LastOf
    <2>3. SubSeq(q, 1, Len(q)) = q
      BY SubSeqFull
    <2> QED
      BY <1>1, <1>3, <2>1, <2>2, <2>3
  <1> QED
    BY <1>1, <1>2, <1>3

\* A view that gets more lines: it keeps to its cap, and loses a line only when it reaches it.
LEMMA AppendedFacts ==
    ASSUME NEW v \in View, NEW ids \in Seq(Id), Len(v.body) =< BodyCap
    PROVE  /\ Appended(v, ids) \in View
           /\ Len(Appended(v, ids).body) =< BodyCap
           /\ Appended(v, ids).open = v.open /\ Appended(v, ids).history = v.history
           /\ Appended(v, ids).answer = v.answer
           /\ Len(Appended(v, ids).body) < BodyCap =>
                /\ Len(v.body) < BodyCap
                /\ ToSet(Appended(v, ids).body) = ToSet(v.body) \cup ToSet(ids)
  <1> DEFINE q == v.body \o ids
             r == LastOf(q, BodyCap)
  <1>1. /\ v.body \in Seq(Id) /\ Len(v.body) \in Nat /\ Len(ids) \in Nat
        /\ DOMAIN v.body = 1 .. Len(v.body) /\ DOMAIN ids = 1 .. Len(ids)
        /\ BodyCap \in Nat \ {0}
    BY ViewAssumption, LenProperties DEF View
  <1>2. /\ q \in Seq(Id) /\ Len(q) = Len(v.body) + Len(ids)
        /\ \A i \in 1 .. Len(v.body) + Len(ids) :
             q[i] = IF i =< Len(v.body) THEN v.body[i] ELSE ids[i - Len(v.body)]
    BY <1>1, ConcatProperties
  <1>3. DOMAIN q = 1 .. Len(v.body) + Len(ids)
    BY <1>2, LenProperties
  <1> HIDE DEF q
  <1>4. /\ r \in Seq(Id) /\ Len(r) = IF Len(q) > BodyCap THEN BodyCap ELSE Len(q)
        /\ Len(q) =< BodyCap => r = q
    BY <1>1, <1>2, LastFacts
  <1>5. Appended(v, ids) = [v EXCEPT !.body = r]
    BY DEF Appended, q
  <1> HIDE DEF r
  <1>6. /\ Appended(v, ids) \in View
        /\ Appended(v, ids).body = r /\ Appended(v, ids).answer = v.answer
        /\ Appended(v, ids).open = v.open /\ Appended(v, ids).history = v.history
    BY <1>4, <1>5 DEF View
  <1>7. ToSet(q) = ToSet(v.body) \cup ToSet(ids)
    <2>1. ASSUME NEW i \in 1 .. Len(v.body) + Len(ids)
          PROVE  q[i] \in ToSet(v.body) \cup ToSet(ids)
      <3>1. CASE i =< Len(v.body)
        <4>1. i \in DOMAIN v.body
          BY <1>1, <3>1
        <4>2. q[i] = v.body[i]
          BY <1>2, <3>1
        <4> QED
          BY <4>1, <4>2 DEF ToSet
      <3>2. CASE i > Len(v.body)
        <4>1. i - Len(v.body) \in 1 .. Len(ids) /\ q[i] = ids[i - Len(v.body)]
          BY <1>1, <1>2, <3>2
        <4> QED
          BY <1>1, <4>1 DEF ToSet
      <3> QED
        BY <1>1, <3>1, <3>2
    <2>2. ASSUME NEW i \in 1 .. Len(v.body) PROVE v.body[i] \in ToSet(q)
      <3>1. i \in 1 .. Len(v.body) + Len(ids) /\ q[i] = v.body[i]
        BY <1>1, <1>2
      <3> QED
        BY <1>3, <3>1 DEF ToSet
    <2>3. ASSUME NEW i \in 1 .. Len(ids) PROVE ids[i] \in ToSet(q)
      <3>1. /\ Len(v.body) + i \in 1 .. Len(v.body) + Len(ids) /\ ~(Len(v.body) + i =< Len(v.body))
            /\ (Len(v.body) + i) - Len(v.body) = i
        BY <1>1
      <3>2. q[Len(v.body) + i] = ids[i]
        BY <1>2, <3>1
      <3> QED
        BY <1>3, <3>1, <3>2 DEF ToSet
    <2> QED
      BY <1>1, <1>3, <2>1, <2>2, <2>3 DEF ToSet
  <1> QED
    BY <1>1, <1>2, <1>4, <1>6, <1>7

\* The members of a set of lines up to one of them.
UpTo(ids, i) == {j \in ids : j =< i}

\* Listing a set of lines lists each of them.
LEMMA OldestFirstFacts ==
    ASSUME NEW ids \in SUBSET Nat, IsFiniteSet(ids)
    PROVE  /\ OldestFirst(ids) \in Seq(ids)
           /\ ToSet(OldestFirst(ids)) = ids
  <1> DEFINE n == Cardinality(ids)
             rank == [i \in ids |-> Cardinality(UpTo(ids, i))]
             q == OldestFirst(ids)
  <1>1. n \in Nat
    BY FS_CardinalityType
  <1>2. ASSUME NEW i \in ids
        PROVE  IsFiniteSet(UpTo(ids, i)) /\ rank[i] \in 1 .. n
    <2>1. UpTo(ids, i) \in SUBSET ids /\ i \in UpTo(ids, i)
      BY DEF UpTo
    <2>2. IsFiniteSet(UpTo(ids, i)) /\ Cardinality(UpTo(ids, i)) =< n
      BY <2>1, FS_Subset
    <2>3. Cardinality(UpTo(ids, i)) \in Nat /\ Cardinality(UpTo(ids, i)) # 0
      BY <2>1, <2>2, FS_CardinalityType, FS_EmptySet
    <2> QED
      BY <1>1, <2>2, <2>3
  <1>3. ASSUME NEW i \in ids, NEW j \in ids, rank[i] = rank[j], i < j PROVE FALSE
    <2>1. UpTo(ids, i) \in SUBSET UpTo(ids, j) /\ j \in UpTo(ids, j) /\ j \notin UpTo(ids, i)
      <3>1. ASSUME NEW k \in ids, k =< i PROVE k =< j
        <4>1. k \in Nat /\ i \in Nat /\ j \in Nat
          OBVIOUS
        <4> QED
          BY <1>3, <3>1, <4>1
      <3>2. i \in Nat /\ j \in Nat /\ j =< j /\ ~(j =< i)
        BY <1>3
      <3> QED
        BY <3>1, <3>2 DEF UpTo
    <2>2. UpTo(ids, i) = UpTo(ids, j)
      BY <1>2, <1>3, <2>1, FS_Subset
    <2> QED
      BY <2>1, <2>2
  <1>4. \A i, j \in ids : rank[i] = rank[j] => i = j
    BY <1>3
  <1>5. rank \in Injection(ids, 1 .. n)
    <2>1. rank \in [ids -> 1 .. n]
      BY <1>2
    <2> HIDE DEF rank, n
    <2> QED
      BY <1>4, <2>1 DEF Injection, IsInjective
  <1>6. rank \in Surjection(ids, 1 .. n)
    <2>1. IsFiniteSet(1 .. n) /\ Cardinality(1 .. n) = n
      BY <1>1, FS_Interval
    <2> HIDE DEF rank
    <2> QED
      BY <1>5, <2>1, FS_Injection
  <1>7. \A k \in 1 .. n : \E i \in ids : rank[i] = k
    <2> HIDE DEF rank, n
    <2> QED
      BY <1>6 DEF Surjection
  <1>8. ASSUME NEW k \in 1 .. n PROVE q[k] \in ids /\ rank[q[k]] = k
    <2>1. \E i \in ids : Cardinality({j \in ids : j =< i}) = k
      BY <1>7 DEF UpTo
    <2>2. q[k] = CHOOSE i \in ids : Cardinality({j \in ids : j =< i}) = k
      BY DEF OldestFirst
    <2>3. q[k] \in ids /\ Cardinality({j \in ids : j =< q[k]}) = k
      BY <2>1, <2>2
    <2> QED
      BY <2>3 DEF UpTo
  <1>9. DOMAIN q = 1 .. n /\ q = [k \in 1 .. n |-> q[k]]
    BY DEF OldestFirst
  <1> HIDE DEF q
  <1>10. q \in [1 .. n -> ids]
    BY <1>8, <1>9
  <1>11. q \in Seq(ids)
    BY <1>1, <1>10, SeqDef
  <1>12. ASSUME NEW i \in ids PROVE i \in ToSet(q)
    <2>1. rank[i] \in 1 .. n
      BY <1>2
    <2>2. q[rank[i]] \in ids /\ rank[q[rank[i]]] = rank[i]
      BY <1>8, <2>1
    <2>3. q[rank[i]] = i
      BY <1>4, <2>2
    <2> QED
      BY <1>9, <2>1, <2>3 DEF ToSet
  <1>13. ToSet(q) \subseteq ids
    BY <1>8, <1>9 DEF ToSet
  <1> QED
    BY <1>11, <1>12, <1>13 DEF q

-----------------------------------------------------------------------------
(* What a step does to the lines that are under way.                       *)

\* Lines are known by numbers that are in the table, and only the stdout of a session says what
\* voice mode speaks.
Numbered ==
    /\ \A w \in Writers :
         /\ sending[w] \in 0 .. Len(logs)
         /\ sending[w] # 0 /\ logs[sending[w]].kind = "assistant"
              => w = <<logs[sending[w]].session, "stdout">>
    /\ \A i \in 1 .. Len(inbox) : inbox[i] \in 1 .. Len(logs)
    /\ voice.last \in 0 .. Len(logs)
    /\ since \in 0 .. Len(logs)

\* The table holds lines, and what a session says is written by the reader of its stdout.
LEMMA LinesAreTyped ==
    ASSUME LogTypeOK, Numbered
    PROVE  /\ Len(logs) \in Nat /\ Len(logs) =< LineMax /\ DOMAIN logs = 1 .. Len(logs)
           /\ \A i \in 1 .. Len(logs) : i \in Id /\ logs[i] \in Line
           /\ Len(inbox) \in Nat /\ DOMAIN inbox = 1 .. Len(inbox)
           /\ \A i \in 1 .. Len(inbox) : inbox[i] \in Id
           /\ Main \in Writers /\ \A s \in Workers : <<s, "stdout">> \in Writers
  <1>1. /\ Len(logs) \in Nat /\ Len(logs) =< LineMax /\ DOMAIN logs = 1 .. Len(logs)
        /\ \A i \in 1 .. Len(logs) : logs[i] \in Line
    BY ElementOfSeq, LenProperties DEF LogTypeOK
  <1>2. \A i \in 1 .. Len(logs) : i \in Id
    BY <1>1, LogBoundsAssumption DEF Id
  <1>3. /\ Len(inbox) \in Nat /\ DOMAIN inbox = 1 .. Len(inbox)
        /\ \A i \in 1 .. Len(inbox) : inbox[i] \in Id
    BY ElementOfSeq, LenProperties DEF LogTypeOK
  <1>4. Main \in Writers /\ \A s \in Workers : <<s, "stdout">> \in Writers
    BY DEF Writers
  <1> QED
    BY <1>1, <1>2, <1>3, <1>4

\* A line that is inserted gets the next number; the others stay what they are.
LEMMA InsertFacts ==
    ASSUME LogTypeOK, Numbered, NEW w \in Writers, InsertLine(w)
    PROVE  /\ logs' \in Seq(Line) /\ Len(logs') = Len(logs) + 1 /\ Len(logs') =< LineMax
           /\ \A i \in 1 .. Len(logs) : logs'[i] = logs[i]
           /\ sending' = [sending EXCEPT ![w] = Len(logs')] /\ sending[w] = 0
           /\ logs'[Len(logs')].kind = "assistant" => w = <<logs'[Len(logs')].session, "stdout">>
           /\ UNCHANGED <<inbox, views, voice, spoken, since, clicks>>
  <1>1. PICK s \in Source(w), k \in Kinds(w) : logs' = Append(logs, [session |-> s, kind |-> k])
    BY DEF InsertLine
  <1>2. s \in Workers /\ k \in {"assistant", "other"}
    <2>1. s \in Workers
      BY DEF Source, Writers, Main
    <2>2. k \in {"assistant", "other"}
      BY DEF Kinds
    <2> QED
      BY <2>1, <2>2
  <1>3. k = "assistant" => w = <<s, "stdout">>
    <2> SUFFICES ASSUME k = "assistant" PROVE w = <<s, "stdout">>
      OBVIOUS
    <2>1. w # Main /\ w[2] = "stdout"
      BY DEF Kinds
    <2>2. w \in Workers \X {"stdout", "stderr"} /\ s = w[1]
      BY <2>1 DEF Writers, Source
    <2> QED
      BY <2>1, <2>2
  <1> DEFINE new == [session |-> s, kind |-> k]
  <1>4. new \in Line
    BY <1>2 DEF Line
  <1>5. /\ logs \in Seq(Line) /\ Len(logs) \in Nat /\ Len(logs) < LineMax
        /\ LineMax \in Nat
    BY LinesAreTyped, LogBoundsAssumption DEF LogTypeOK, InsertLine
  <1>6. new.session = s /\ new.kind = k
    OBVIOUS
  <1> HIDE DEF new
  <1>7. /\ logs' \in Seq(Line) /\ Len(logs') = Len(logs) + 1 /\ logs'[Len(logs) + 1] = new
        /\ \A i \in 1 .. Len(logs) : logs'[i] = logs[i]
    BY <1>1, <1>4, <1>5, AppendProperties DEF new
  <1> QED
    BY <1>3, <1>5, <1>6, <1>7 DEF InsertLine

\* A view that is shown a line goes on as it is, with this line in its body if it is its own.
LEMMA ShowFacts ==
    ASSUME LogTypeOK, NEW id \in 1 .. Len(logs), logs[id] \in Line, id \in Id, ShowLine(id)
    PROVE  /\ views' \in [Workers -> View]
           /\ \A s \in Workers :
                /\ Len(views'[s].body) =< BodyCap
                /\ views'[s].open = views[s].open /\ views'[s].history = views[s].history
                /\ views'[s].answer = views[s].answer
                /\ views[s].open /\ Len(views'[s].body) < BodyCap =>
                     /\ Len(views[s].body) < BodyCap
                     /\ ToSet(views[s].body) \subseteq ToSet(views'[s].body)
                     /\ logs[id].session = s => id \in ToSet(views'[s].body)
  <1> DEFINE t == logs[id].session
             ids == <<id>>
             shown == Appended(views[t], ids)
  <1>1. t \in Workers /\ views \in [Workers -> View]
        /\ \A s \in Workers : Len(views[s].body) =< BodyCap
    BY DEF Line, LogTypeOK
  <1>2. views' = IF views[t].open THEN [views EXCEPT ![t] = shown] ELSE views
    BY DEF ShowLine
  <1>3. ids \in Seq(Id) /\ id \in ToSet(ids)
    <2>1. ids \in Seq(Id) /\ Len(ids) = 1 /\ ids[1] = id /\ DOMAIN ids = 1 .. 1
      OBVIOUS
    <2> QED
      BY <2>1 DEF ToSet
  <1> HIDE DEF ids
  <1>4. views[t] \in View /\ Len(views[t].body) =< BodyCap
    BY <1>1
  <1>5. /\ shown \in View /\ Len(shown.body) =< BodyCap
        /\ shown.open = views[t].open /\ shown.history = views[t].history
        /\ shown.answer = views[t].answer
        /\ Len(shown.body) < BodyCap =>
             /\ Len(views[t].body) < BodyCap
             /\ ToSet(shown.body) = ToSet(views[t].body) \cup ToSet(ids)
    BY <1>3, <1>4, AppendedFacts
  <1> HIDE DEF shown
  <1>6. views' \in [Workers -> View]
    BY <1>1, <1>2, <1>5
  <1>7. ASSUME NEW s \in Workers
        PROVE  views'[s] = IF s = t /\ views[t].open THEN shown ELSE views[s]
    BY <1>1, <1>2
  <1> HIDE DEF t
  <1>8. ASSUME NEW s \in Workers
        PROVE  /\ Len(views'[s].body) =< BodyCap
               /\ views'[s].open = views[s].open /\ views'[s].history = views[s].history
               /\ views'[s].answer = views[s].answer
               /\ views[s].open /\ Len(views'[s].body) < BodyCap =>
                    /\ Len(views[s].body) < BodyCap
                    /\ ToSet(views[s].body) \subseteq ToSet(views'[s].body)
                    /\ t = s => id \in ToSet(views'[s].body)
    <2>1. CASE s = t /\ views[t].open
      BY <1>3, <1>5, <1>7, <2>1
    <2>2. CASE ~(s = t /\ views[t].open)
      BY <1>1, <1>7, <2>2
    <2> QED
      BY <2>1, <2>2
  <1> QED
    BY <1>6, <1>8 DEF t

\* Voice mode speaks a line that is new, said by whom it listens to, or stays as it is.
LEMMA SpeakFacts ==
    ASSUME LogTypeOK, NEW id \in Id, SpeakLine(id)
    PROVE  /\ voice' \in [on : BOOLEAN, target : Workers \cup {NoWorker}, last : 0 .. LineMax]
           /\ spoken' \subseteq Id
           /\ voice'.target = voice.target
           /\ \/ voice' = voice /\ spoken' = spoken
              \/ /\ voice'.last = id /\ id > voice.last /\ spoken' = spoken \cup {id}
                 /\ logs[id].kind = "assistant"
                 /\ voice.target \in {NoWorker, logs[id].session}
           /\ /\ voice.on /\ logs[id].kind = "assistant" /\ id > voice.last
              /\ voice.target \in {NoWorker, logs[id].session}
              => id \in spoken'
  <1> DEFINE new == /\ voice.on
                    /\ logs[id].kind = "assistant"
                    /\ id > voice.last
                    /\ voice.target \in {NoWorker, logs[id].session}
  <1>1. /\ voice' = IF new THEN [voice EXCEPT !.last = id] ELSE voice
        /\ spoken' = IF new THEN spoken \cup {id} ELSE spoken
    BY DEF SpeakLine
  <1>2. /\ voice \in [on : BOOLEAN, target : Workers \cup {NoWorker}, last : 0 .. LineMax]
        /\ spoken \subseteq Id /\ id \in 0 .. LineMax
    BY LogBoundsAssumption DEF LogTypeOK, Id
  <1>3. CASE new
    <2>1. voice' = [voice EXCEPT !.last = id] /\ spoken' = spoken \cup {id}
      BY <1>1, <1>3
    <2> QED
      BY <1>2, <1>3, <2>1
  <1>4. CASE ~new
    <2>1. voice' = voice /\ spoken' = spoken
      BY <1>1, <1>4
    <2> QED
      BY <1>2, <1>4, <2>1
  <1> QED
    BY <1>3, <1>4

\* A line that is sent is the last of those on their way.
LEMMA SendFacts ==
    ASSUME LogTypeOK, Numbered, NEW w \in Writers, SendLine(w)
    PROVE  /\ inbox' \in Seq(Id) /\ Len(inbox') = Len(inbox) + 1
           /\ \A i \in 1 .. Len(inbox) : inbox'[i] = inbox[i]
           /\ inbox'[Len(inbox) + 1] = sending[w] /\ sending[w] \in 1 .. Len(logs)
           /\ sending' = [sending EXCEPT ![w] = 0]
           /\ UNCHANGED <<logs, views, voice, spoken, since, clicks>>
  <1>1. sending[w] \in 1 .. Len(logs) /\ sending[w] \in Id
    BY LinesAreTyped DEF SendLine, Numbered
  <1>2. inbox \in Seq(Id) /\ inbox' = Append(inbox, sending[w])
    BY DEF LogTypeOK, SendLine
  <1> QED
    BY <1>1, <1>2, AppendProperties DEF SendLine

\* The line that is delivered is the first of those on their way.
LEMMA DeliverFacts ==
    ASSUME LogTypeOK, Numbered, DeliverLine
    PROVE  /\ inbox' \in Seq(Id) /\ Len(inbox) \in Nat \ {0} /\ Len(inbox') = Len(inbox) - 1
           /\ \A i \in 1 .. Len(inbox') : inbox'[i] = inbox[i + 1] /\ i + 1 \in 1 .. Len(inbox)
           /\ Head(inbox) = inbox[1] /\ inbox[1] \in 1 .. Len(logs)
           /\ inbox[1] \in Id /\ logs[inbox[1]] \in Line
           /\ OnLog(inbox[1])
           /\ UNCHANGED <<logs, sending, since, clicks>>
  <1>1. inbox \in Seq(Id) /\ inbox # <<>> /\ inbox' = Tail(inbox)
    BY DEF LogTypeOK, DeliverLine
  <1>2. Len(inbox) \in Nat \ {0}
    BY <1>1, EmptySeq, LenProperties
  <1>3. /\ inbox' \in Seq(Id) /\ Len(inbox') = Len(inbox) - 1
        /\ \A i \in 1 .. Len(inbox') : inbox'[i] = inbox[i + 1]
    BY <1>1, HeadTailProperties
  <1>4. \A i \in 1 .. Len(inbox') : i + 1 \in 1 .. Len(inbox)
    BY <1>2, <1>3
  <1>5. Head(inbox) = inbox[1]
    BY <1>1
  <1>6. inbox[1] \in 1 .. Len(logs) /\ inbox[1] \in Id /\ logs[inbox[1]] \in Line
    BY <1>2, LinesAreTyped DEF Numbered
  <1> QED
    BY <1>2, <1>3, <1>4, <1>5, <1>6 DEF DeliverLine

\* What the main thread shows is its own line, and that is none of a session's words.
LEMMA MainFacts ==
    ASSUME LogTypeOK, Numbered, SendFromMain
    PROVE  /\ sending[Main] \in 1 .. Len(logs) /\ sending[Main] \in Id
           /\ logs[sending[Main]] \in Line /\ logs[sending[Main]].kind # "assistant"
           /\ ShowLine(sending[Main])
           /\ voice' = voice /\ spoken' = spoken
           /\ sending' = [sending EXCEPT ![Main] = 0]
           /\ UNCHANGED <<logs, inbox, since, clicks>>
  <1>1. sending[Main] \in 1 .. Len(logs)
    BY LinesAreTyped DEF SendFromMain, Numbered
  <1>2. sending[Main] \in Id /\ logs[sending[Main]] \in Line
    BY <1>1, LinesAreTyped
  <1>3. logs[sending[Main]].kind # "assistant"
    <2> SUFFICES ASSUME logs[sending[Main]].kind = "assistant" PROVE FALSE
      OBVIOUS
    <2>1. Main = <<logs[sending[Main]].session, "stdout">>
      BY <1>1, LinesAreTyped DEF Numbered
    <2> QED
      BY <2>1 DEF Main
  <1>4. voice' = voice /\ spoken' = spoken
    BY <1>3 DEF SendFromMain, OnLog, SpeakLine
  <1> QED
    BY <1>1, <1>2, <1>3, <1>4 DEF SendFromMain, OnLog

\* The history a view is answered lists the recent lines of its session.
LEMMA RecentFacts ==
    ASSUME LogTypeOK, Numbered, NEW s \in Workers
    PROVE  /\ LinesFrom(s, 1) \in SUBSET (1 .. Len(logs))
           /\ OldestFirst(RecentLines(s)) \in Seq(Id)
           /\ ToSet(OldestFirst(RecentLines(s))) = RecentLines(s)
  <1>1. LinesFrom(s, 1) \in SUBSET (1 .. Len(logs)) /\ Len(logs) \in Nat
    BY LinesAreTyped DEF LinesFrom
  <1>2. RecentLines(s) \in SUBSET (1 .. Len(logs))
    BY <1>1 DEF RecentLines
  <1>3. IsFiniteSet(1 .. Len(logs))
    BY <1>1, FS_Interval
  <1>4. IsFiniteSet(RecentLines(s))
    BY <1>2, <1>3, FS_Subset
  <1>5. RecentLines(s) \in SUBSET Id /\ RecentLines(s) \in SUBSET Nat
    BY <1>1, <1>2, LinesAreTyped
  <1>6. /\ OldestFirst(RecentLines(s)) \in Seq(RecentLines(s))
        /\ ToSet(OldestFirst(RecentLines(s))) = RecentLines(s)
    BY <1>4, <1>5, OldestFirstFacts
  <1> QED
    <2>1. \A S, T : S \subseteq T => Seq(S) \subseteq Seq(T)
      BY SeqDef
    <2> QED
      BY <1>1, <1>5, <1>6, <2>1

\* What the user and the history do leaves the table and the lines under way alone.
Quiet ==
    \/ \E s \in Workers : OpenView(s) \/ CloseView(s) \/ AnswerHistory(s) \/ Backfill(s)
    \/ \E s \in Workers \cup {NoWorker} : TargetVoice(s)
    \/ ToggleVoice

LEMMA QuietFacts ==
    ASSUME LogTypeOK, Numbered, Quiet
    PROVE  /\ UNCHANGED <<logs, sending, inbox, spoken>>
           /\ views' \in [Workers -> View] /\ \A s \in Workers : Len(views'[s].body) =< BodyCap
           /\ voice' \in [on : BOOLEAN, target : Workers \cup {NoWorker}, last : 0 .. LineMax]
           /\ voice'.last = voice.last
           /\ \/ since' = Len(logs)
              \/ since' = since /\ voice'.target = voice.target
           /\ clicks' \in Nat
  <1>1. /\ views \in [Workers -> View] /\ \A s \in Workers : Len(views[s].body) =< BodyCap
        /\ voice \in [on : BOOLEAN, target : Workers \cup {NoWorker}, last : 0 .. LineMax]
        /\ clicks \in Nat
    BY DEF LogTypeOK
  <1>2. ASSUME NEW s \in Workers, NEW v \in View, Len(v.body) =< BodyCap,
               views' = [views EXCEPT ![s] = v]
        PROVE  /\ views' \in [Workers -> View]
               /\ \A r \in Workers : Len(views'[r].body) =< BodyCap
    <2>1. views' \in [Workers -> View]
      BY <1>1, <1>2
    <2>2. ASSUME NEW r \in Workers PROVE Len(views'[r].body) =< BodyCap
      <3>1. views'[r] = IF r = s THEN v ELSE views[r]
        BY <1>1, <1>2
      <3> QED
        BY <1>1, <1>2, <3>1
    <2> QED
      BY <2>1, <2>2
  <1>3. NoView \in View /\ Len(NoView.body) =< BodyCap
    BY ViewAssumption DEF NoView, View
  <1>4. clicks > 0 /\ clicks' = clicks - 1 => clicks' \in Nat
    BY <1>1
  <1>5. ASSUME NEW s \in Workers, OpenView(s)
        PROVE  /\ views' \in [Workers -> View] /\ \A r \in Workers : Len(views'[r].body) =< BodyCap
               /\ clicks' \in Nat
    <2> DEFINE v == [NoView EXCEPT !.open = TRUE, !.history = "asked"]
    <2>1. v \in View /\ Len(v.body) =< BodyCap
      BY <1>3 DEF NoView, View
    <2>2. views' = [views EXCEPT ![s] = v]
      BY <1>5 DEF OpenView
    <2> HIDE DEF v
    <2> QED
      BY <1>2, <1>4, <1>5, <2>1, <2>2 DEF OpenView, Clicks
  <1>6. ASSUME NEW s \in Workers, CloseView(s)
        PROVE  /\ views' \in [Workers -> View] /\ \A r \in Workers : Len(views'[r].body) =< BodyCap
               /\ clicks' \in Nat
    BY <1>2, <1>3, <1>4, <1>6 DEF CloseView, Clicks
  <1>7. ASSUME NEW s \in Workers, AnswerHistory(s)
        PROVE  views' \in [Workers -> View] /\ \A r \in Workers : Len(views'[r].body) =< BodyCap
    <2> DEFINE a == OldestFirst(RecentLines(s))
               v == [views[s] EXCEPT !.history = "answered", !.answer = a]
    <2>1. a \in Seq(Id)
      BY RecentFacts
    <2> HIDE DEF a
    <2>2. views[s] \in View /\ Len(views[s].body) =< BodyCap
      BY <1>1
    <2>3. v \in View /\ v.body = views[s].body
      BY <2>1, <2>2 DEF View
    <2>4. views' = [views EXCEPT ![s] = v]
      BY <1>1, <1>7 DEF AnswerHistory, a
    <2> HIDE DEF v
    <2> QED
      BY <1>2, <2>2, <2>3, <2>4
  <1>8. ASSUME NEW s \in Workers, Backfill(s)
        PROVE  views' \in [Workers -> View] /\ \A r \in Workers : Len(views'[r].body) =< BodyCap
    <2> DEFINE shown == Appended(views[s], views[s].answer)
               none == <<>>
               v == [shown EXCEPT !.history = "none", !.answer = none]
    <2>1. views[s] \in View /\ Len(views[s].body) =< BodyCap /\ views[s].answer \in Seq(Id)
      BY <1>1 DEF View
    <2>2. shown \in View /\ Len(shown.body) =< BodyCap
      BY <2>1, AppendedFacts
    <2>3. views' = [views EXCEPT ![s] = v]
      BY <1>1, <1>8 DEF Backfill
    <2> HIDE DEF shown
    <2>4. none \in Seq(Id)
      OBVIOUS
    <2> HIDE DEF none
    <2>5. v \in View /\ v.body = shown.body
      BY <2>2, <2>4 DEF View
    <2> HIDE DEF v
    <2> QED
      BY <1>2, <2>2, <2>3, <2>5
  <1>9. ASSUME NEW s \in Workers \cup {NoWorker}, TargetVoice(s)
        PROVE  /\ voice' \in [on : BOOLEAN, target : Workers \cup {NoWorker}, last : 0 .. LineMax]
               /\ voice'.last = voice.last
    BY <1>1, <1>9 DEF TargetVoice
  <1>10. ASSUME ToggleVoice
         PROVE  /\ voice' \in [on : BOOLEAN, target : Workers \cup {NoWorker}, last : 0 .. LineMax]
                /\ voice'.last = voice.last
    <2> DEFINE on == ~voice.on
    <2>1. on \in BOOLEAN
      OBVIOUS
    <2>2. voice' = [voice EXCEPT !.on = on]
      BY <1>10 DEF ToggleVoice
    <2> HIDE DEF on
    <2> QED
      BY <1>1, <2>1, <2>2
  <1>11. CASE \E s \in Workers : OpenView(s) \/ CloseView(s)
    BY <1>1, <1>5, <1>6, <1>11 DEF OpenView, CloseView
  <1>12. CASE \E s \in Workers : AnswerHistory(s) \/ Backfill(s)
    BY <1>1, <1>7, <1>8, <1>12 DEF AnswerHistory, Backfill
  <1>13. CASE \E s \in Workers \cup {NoWorker} : TargetVoice(s)
    BY <1>1, <1>4, <1>9, <1>13 DEF TargetVoice, Clicks
  <1>14. CASE ToggleVoice
    BY <1>1, <1>4, <1>10, <1>14 DEF ToggleVoice, Clicks
  <1> QED
    BY <1>11, <1>12, <1>13, <1>14 DEF Quiet

\* A step is one of these.
LEMMA LogSteps ==
    ASSUME [LogNext]_logVars
    PROVE  \/ \E w \in Writers : InsertLine(w) \/ SendLine(w)
           \/ SendFromMain \/ DeliverLine \/ Quiet
           \/ UNCHANGED logVars
  BY DEF LogNext, Quiet

-----------------------------------------------------------------------------
(* The types.                                                              *)

LEMMA TypesStep ==
    ASSUME LogTypeOK, Numbered, [LogNext]_logVars
    PROVE  LogTypeOK' /\ Numbered'
  <1>1. /\ Len(logs) \in Nat /\ Len(logs) =< LineMax /\ LineMax \in Nat
        /\ \A i \in 1 .. Len(logs) : i \in Id /\ logs[i] \in Line
        /\ Main \in Writers
    BY LinesAreTyped, LogBoundsAssumption
  <1>2. CASE \E w \in Writers : InsertLine(w)
    <2>1. PICK w \in Writers : InsertLine(w)
      BY <1>2
    <2>2. /\ logs' \in Seq(Line) /\ Len(logs') = Len(logs) + 1 /\ Len(logs') =< LineMax
          /\ \A i \in 1 .. Len(logs) : logs'[i] = logs[i]
          /\ sending' = [sending EXCEPT ![w] = Len(logs')] /\ sending[w] = 0
          /\ logs'[Len(logs')].kind = "assistant"
               => w = <<logs'[Len(logs')].session, "stdout">>
          /\ UNCHANGED <<inbox, views, voice, spoken, since, clicks>>
      BY <2>1, InsertFacts
    <2>3. Len(logs') \in 0 .. LineMax
      BY <1>1, <2>2
    <2>4. sending' \in [Writers -> 0 .. LineMax]
      BY <2>2, <2>3 DEF LogTypeOK
    <2>5. LogTypeOK'
      BY <2>2, <2>4 DEF LogTypeOK
    <2>6. ASSUME NEW x \in Writers
          PROVE  /\ sending'[x] \in 0 .. Len(logs')
                 /\ sending'[x] # 0 /\ logs'[sending'[x]].kind = "assistant"
                      => x = <<logs'[sending'[x]].session, "stdout">>
      <3>1. CASE x = w
        <4>1. sending'[x] = Len(logs')
          BY <2>2, <3>1 DEF LogTypeOK
        <4> QED
          BY <1>1, <2>2, <3>1, <4>1
      <3>2. CASE x # w
        <4>1. sending'[x] = sending[x] /\ sending[x] \in 0 .. Len(logs)
          BY <2>2, <3>2 DEF LogTypeOK, Numbered
        <4>2. sending'[x] \in 0 .. Len(logs')
          BY <1>1, <2>2, <4>1
        <4>3. sending[x] # 0 => logs'[sending[x]] = logs[sending[x]]
          BY <2>2, <4>1
        <4> QED
          BY <4>1, <4>2, <4>3 DEF Numbered
      <3> QED
        BY <3>1, <3>2
    <2>7. \A k : k \in 0 .. Len(logs) => k \in 0 .. Len(logs')
      BY <1>1, <2>2
    <2>8. \A k : k \in 1 .. Len(logs) => k \in 1 .. Len(logs')
      BY <1>1, <2>2
    <2>9. Numbered'
      BY <2>2, <2>6, <2>7, <2>8 DEF Numbered
    <2> QED
      BY <2>5, <2>9
  <1>3. CASE \E w \in Writers : SendLine(w)
    <2>1. PICK w \in Writers : SendLine(w)
      BY <1>3
    <2>2. /\ inbox' \in Seq(Id) /\ Len(inbox') = Len(inbox) + 1
          /\ \A i \in 1 .. Len(inbox) : inbox'[i] = inbox[i]
          /\ inbox'[Len(inbox) + 1] = sending[w] /\ sending[w] \in 1 .. Len(logs)
          /\ sending' = [sending EXCEPT ![w] = 0]
          /\ UNCHANGED <<logs, views, voice, spoken, since, clicks>>
      BY <2>1, SendFacts
    <2>3. sending' \in [Writers -> 0 .. LineMax]
      BY <1>1, <2>2 DEF LogTypeOK
    <2>4. LogTypeOK'
      BY <2>2, <2>3 DEF LogTypeOK
    <2>5. \A x \in Writers : sending'[x] = IF x = w THEN 0 ELSE sending[x]
      BY <2>2 DEF LogTypeOK
    <2>6. \A i \in 1 .. Len(inbox') : inbox'[i] \in 1 .. Len(logs)
      <3>1. ASSUME NEW i \in 1 .. Len(inbox') PROVE i \in 1 .. Len(inbox) \/ i = Len(inbox) + 1
        BY <2>2, LinesAreTyped
      <3> QED
        BY <2>2, <3>1 DEF Numbered
    <2>7. 0 \in 0 .. Len(logs)
      BY <1>1
    <2>8. Numbered'
      BY <2>2, <2>5, <2>6, <2>7 DEF Numbered
    <2> QED
      BY <2>4, <2>8
  <1>4. CASE SendFromMain
    <2>1. /\ sending[Main] \in 1 .. Len(logs) /\ sending[Main] \in Id
          /\ logs[sending[Main]] \in Line
          /\ ShowLine(sending[Main])
          /\ voice' = voice /\ spoken' = spoken
          /\ sending' = [sending EXCEPT ![Main] = 0]
          /\ UNCHANGED <<logs, inbox, since, clicks>>
      BY <1>4, MainFacts
    <2>2. views' \in [Workers -> View] /\ \A s \in Workers : Len(views'[s].body) =< BodyCap
      BY <2>1, ShowFacts
    <2>3. sending' \in [Writers -> 0 .. LineMax]
      BY <1>1, <2>1 DEF LogTypeOK
    <2>4. LogTypeOK'
      BY <2>1, <2>2, <2>3 DEF LogTypeOK
    <2>5. \A x \in Writers : sending'[x] = IF x = Main THEN 0 ELSE sending[x]
      BY <2>1 DEF LogTypeOK
    <2>6. 0 \in 0 .. Len(logs)
      BY <1>1
    <2>7. Numbered'
      BY <2>1, <2>5, <2>6 DEF Numbered
    <2> QED
      BY <2>4, <2>7
  <1>5. CASE DeliverLine
    <2> DEFINE id == inbox[1]
    <2>1. /\ inbox' \in Seq(Id)
          /\ \A i \in 1 .. Len(inbox') : inbox'[i] = inbox[i + 1] /\ i + 1 \in 1 .. Len(inbox)
          /\ id \in 1 .. Len(logs) /\ id \in Id /\ logs[id] \in Line
          /\ ShowLine(id) /\ SpeakLine(id)
          /\ UNCHANGED <<logs, sending, since, clicks>>
      BY <1>5, DeliverFacts DEF OnLog
    <2> HIDE DEF id
    <2>2. views' \in [Workers -> View] /\ \A s \in Workers : Len(views'[s].body) =< BodyCap
      BY <2>1, ShowFacts
    <2>3. /\ voice' \in [on : BOOLEAN, target : Workers \cup {NoWorker}, last : 0 .. LineMax]
          /\ spoken' \subseteq Id
          /\ voice' = voice \/ voice'.last = id
      BY <2>1, SpeakFacts
    <2>4. LogTypeOK'
      BY <2>1, <2>2, <2>3 DEF LogTypeOK
    <2>5. \A i \in 1 .. Len(inbox') : inbox'[i] \in 1 .. Len(logs)
      BY <2>1 DEF Numbered
    <2>6. voice'.last \in 0 .. Len(logs)
      BY <1>1, <2>1, <2>3 DEF Numbered
    <2>7. Numbered'
      BY <2>1, <2>5, <2>6 DEF Numbered
    <2> QED
      BY <2>4, <2>7
  <1>6. CASE Quiet
    <2>1. /\ UNCHANGED <<logs, sending, inbox, spoken>>
          /\ views' \in [Workers -> View] /\ \A s \in Workers : Len(views'[s].body) =< BodyCap
          /\ voice' \in [on : BOOLEAN, target : Workers \cup {NoWorker}, last : 0 .. LineMax]
          /\ voice'.last = voice.last
          /\ since' = Len(logs) \/ since' = since
          /\ clicks' \in Nat
      BY <1>6, QuietFacts
    <2>2. since' \in 0 .. Len(logs) /\ since' \in 0 .. LineMax
      BY <1>1, <2>1 DEF Numbered
    <2>3. LogTypeOK'
      BY <2>1, <2>2 DEF LogTypeOK
    <2>4. Numbered'
      BY <2>1, <2>2 DEF Numbered
    <2> QED
      BY <2>3, <2>4
  <1>7. CASE UNCHANGED logVars
    <2>1. LogTypeOK'
      BY <1>7 DEF LogTypeOK, logVars
    <2>2. Numbered'
      BY <1>7 DEF Numbered, logVars
    <2> QED
      BY <2>1, <2>2
  <1> QED
    BY <1>2, <1>3, <1>4, <1>5, <1>6, <1>7, LogSteps

LEMMA TypesInit ==
    ASSUME LogInit
    PROVE  LogTypeOK /\ Numbered
  <1>1. LineMax \in Nat /\ LogBudget \in Nat /\ BodyCap \in Nat \ {0}
    BY LogBoundsAssumption, ViewAssumption
  <1>2. logs \in Seq(Line) /\ Len(logs) = 0 /\ inbox \in Seq(Id) /\ Len(inbox) = 0
    BY DEF LogInit
  <1>3. NoView \in View /\ Len(NoView.body) = 0
    BY DEF NoView, View
  <1>4. views \in [Workers -> View] /\ \A s \in Workers : views[s] = NoView
    BY <1>3 DEF LogInit
  <1>5. sending \in [Writers -> 0 .. LineMax] /\ \A w \in Writers : sending[w] = 0
    BY <1>1 DEF LogInit
  <1>6. /\ voice \in [on : BOOLEAN, target : Workers \cup {NoWorker}, last : 0 .. LineMax]
        /\ voice.last = 0 /\ since = 0 /\ spoken \subseteq Id
    BY <1>1 DEF LogInit
  <1>7. since \in 0 .. LineMax /\ clicks \in Nat /\ 0 \in 0 .. Len(logs)
    BY <1>1, <1>2 DEF LogInit
  <1>8. LogTypeOK
    BY <1>1, <1>2, <1>3, <1>4, <1>5, <1>6, <1>7 DEF LogTypeOK
  <1>9. Numbered
    BY <1>2, <1>5, <1>6, <1>7 DEF Numbered
  <1> QED
    BY <1>8, <1>9

LEMMA LinesAreNumbered == LogSpec => [](LogTypeOK /\ Numbered)
  <1>1. LogInit => LogTypeOK /\ Numbered
    BY TypesInit
  <1>2. (LogTypeOK /\ Numbered) /\ [LogNext]_logVars => (LogTypeOK /\ Numbered)'
    BY TypesStep
  <1> QED
    BY <1>1, <1>2, PTL DEF LogSpec

\* Every variable stays in its type and no view grows past its cap, however many lines are
\* written and however the window and the user act: LogTypeOK.
THEOREM LogTypes == LogSpec => []LogTypeOK
  BY LinesAreNumbered, PTL

-----------------------------------------------------------------------------
(* No line is lost between the history and the lines that come in.         *)

\* A line is on its way to the window.
OnItsWay(i) == (\E w \in Writers : sending[w] = i) \/ (\E k \in 1 .. Len(inbox) : inbox[k] = i)

\* A line of a session is in its view, on its way there, in the history that is asked for or
\* answered, or too old for the history.
KeptLine(s, i) ==
    \/ i \in ToSet(views[s].body)
    \/ OnItsWay(i)
    \/ views[s].history = "asked"
    \/ views[s].history = "answered" /\ i \in ToSet(views[s].answer)
    \/ Cardinality(LinesFrom(s, i)) > HistoryLimit

\* So is every line of a session whose view is open and has not reached its cap.
Kept ==
    \A s \in Workers : views[s].open /\ Len(views[s].body) < BodyCap =>
        \A i \in LinesFrom(s, 1) : KeptLine(s, i)

LEMMA KeptInit ==
    ASSUME LogInit
    PROVE  Kept
  <1>1. \A s \in Workers : ~views[s].open
    BY DEF LogInit, NoView
  <1> QED
    BY <1>1 DEF Kept

\* While the table stays as it is, a line that is too old for the history stays so.
LEMMA LinesStay ==
    ASSUME logs' = logs, NEW s \in Workers, NEW i
    PROVE  LinesFrom(s, i)' = LinesFrom(s, i)
  BY DEF LinesFrom

\* A line that is inserted is on its way, and makes no other line less old.
LEMMA KeptInsert ==
    ASSUME LogTypeOK, Numbered, Kept, NEW w \in Writers, InsertLine(w)
    PROVE  Kept'
  <1>1. /\ Len(logs) \in Nat /\ Len(logs') = Len(logs) + 1
        /\ \A i \in 1 .. Len(logs) : logs'[i] = logs[i]
        /\ sending' = [sending EXCEPT ![w] = Len(logs')] /\ sending[w] = 0
        /\ UNCHANGED <<inbox, views>>
    BY InsertFacts, LinesAreTyped
  <1>2. \A x \in Writers : sending'[x] = IF x = w THEN Len(logs') ELSE sending[x]
    BY <1>1 DEF LogTypeOK
  <1>3. SUFFICES ASSUME NEW s \in Workers, views[s].open, Len(views[s].body) < BodyCap,
                        NEW i \in LinesFrom(s, 1)'
                 PROVE  KeptLine(s, i)'
    BY <1>1 DEF Kept, KeptLine
  <1>4. i \in 1 .. Len(logs) + 1 /\ logs'[i].session = s
    BY <1>1, <1>3 DEF LinesFrom
  <1>5. CASE i = Len(logs) + 1
    <2>1. sending'[w] = i
      BY <1>1, <1>2, <1>5
    <2> QED
      BY <2>1 DEF KeptLine, OnItsWay
  <1>6. CASE i \in 1 .. Len(logs)
    <2>1. i \in LinesFrom(s, 1) /\ i # 0
      BY <1>1, <1>4, <1>6 DEF LinesFrom
    <2>2. KeptLine(s, i)
      BY <1>3, <2>1 DEF Kept, KeptLine
    <2>3. CASE OnItsWay(i)
      <3>1. CASE \E x \in Writers : sending[x] = i
        BY <1>1, <1>2, <2>1, <3>1 DEF KeptLine, OnItsWay
      <3>2. CASE \E k \in 1 .. Len(inbox) : inbox[k] = i
        BY <1>1, <3>2 DEF KeptLine, OnItsWay
      <3> QED
        BY <2>3, <3>1, <3>2 DEF OnItsWay
    <2>4. CASE Cardinality(LinesFrom(s, i)) > HistoryLimit
      <3>1. LinesFrom(s, i) \in SUBSET LinesFrom(s, i)'
        <4>1. ASSUME NEW j \in i .. Len(logs)
              PROVE  j \in i .. Len(logs') /\ logs'[j] = logs[j]
          BY <1>1, <1>6
        <4> QED
          BY <4>1 DEF LinesFrom
      <3>2. IsFiniteSet(LinesFrom(s, i)') /\ IsFiniteSet(LinesFrom(s, i))
        <4>1. IsFiniteSet(i .. Len(logs'))
          BY <1>1, <1>6, FS_Interval
        <4>2. LinesFrom(s, i)' \in SUBSET (i .. Len(logs'))
          BY DEF LinesFrom
        <4> QED
          BY <3>1, <4>1, <4>2, FS_Subset
      <3>3. /\ Cardinality(LinesFrom(s, i)) =< Cardinality(LinesFrom(s, i)')
            /\ Cardinality(LinesFrom(s, i)) \in Nat /\ Cardinality(LinesFrom(s, i)') \in Nat
        BY <3>1, <3>2, FS_Subset, FS_CardinalityType
      <3>4. Cardinality(LinesFrom(s, i)') > HistoryLimit
        BY <2>4, <3>3, ViewAssumption
      <3> QED
        BY <3>4 DEF KeptLine
    <2>5. CASE \/ i \in ToSet(views[s].body)
               \/ views[s].history = "asked"
               \/ views[s].history = "answered" /\ i \in ToSet(views[s].answer)
      BY <1>1, <2>5 DEF KeptLine
    <2> QED
      BY <2>2, <2>3, <2>4, <2>5 DEF KeptLine
  <1> QED
    BY <1>1, <1>4, <1>5, <1>6

\* A line that is sent is still on its way.
LEMMA KeptSend ==
    ASSUME LogTypeOK, Numbered, Kept, NEW w \in Writers, SendLine(w)
    PROVE  Kept'
  <1>1. /\ Len(inbox) \in Nat /\ Len(inbox') = Len(inbox) + 1
        /\ \A i \in 1 .. Len(inbox) : inbox'[i] = inbox[i]
        /\ inbox'[Len(inbox) + 1] = sending[w]
        /\ sending' = [sending EXCEPT ![w] = 0]
        /\ logs' = logs /\ views' = views
    BY SendFacts, LinesAreTyped
  <1>2. \A x \in Writers : sending'[x] = IF x = w THEN 0 ELSE sending[x]
    BY <1>1 DEF LogTypeOK
  <1>3. /\ Len(inbox) + 1 \in 1 .. Len(inbox')
        /\ \A k \in 1 .. Len(inbox) : k \in 1 .. Len(inbox')
    BY <1>1
  <1>4. ASSUME NEW i, OnItsWay(i) PROVE OnItsWay(i)'
    <2>1. CASE sending[w] = i
      BY <1>1, <1>3, <2>1 DEF OnItsWay
    <2>2. CASE \E x \in Writers \ {w} : sending[x] = i
      BY <1>2, <2>2 DEF OnItsWay
    <2>3. CASE \E k \in 1 .. Len(inbox) : inbox[k] = i
      BY <1>1, <1>3, <2>3 DEF OnItsWay
    <2> QED
      BY <1>4, <2>1, <2>2, <2>3 DEF OnItsWay
  <1>5. \A s \in Workers : \A i : LinesFrom(s, i)' = LinesFrom(s, i)
    BY <1>1, LinesStay
  <1> QED
    BY <1>1, <1>4, <1>5 DEF Kept, KeptLine

\* A line that is shown is in the view of its session, and every other line stays where it is.
LEMMA KeptShow ==
    ASSUME LogTypeOK, Numbered, Kept, logs' = logs, NEW id \in 1 .. Len(logs), ShowLine(id),
           \A i : OnItsWay(i) /\ i # id => OnItsWay(i)'
    PROVE  Kept'
  <1>1. /\ views' \in [Workers -> View]
        /\ \A s \in Workers :
             /\ views'[s].open = views[s].open /\ views'[s].history = views[s].history
             /\ views'[s].answer = views[s].answer
             /\ views[s].open /\ Len(views'[s].body) < BodyCap =>
                  /\ Len(views[s].body) < BodyCap
                  /\ ToSet(views[s].body) \subseteq ToSet(views'[s].body)
                  /\ logs[id].session = s => id \in ToSet(views'[s].body)
    BY LinesAreTyped, ShowFacts
  <1>2. SUFFICES ASSUME NEW s \in Workers, views[s].open, Len(views'[s].body) < BodyCap,
                        NEW i \in LinesFrom(s, 1)
                 PROVE  KeptLine(s, i)'
    BY <1>1, LinesStay DEF Kept, KeptLine
  <1>3. logs[i].session = s
    BY <1>2 DEF LinesFrom
  <1>4. KeptLine(s, i)
    BY <1>1, <1>2 DEF Kept, KeptLine
  <1>5. CASE i = id
    BY <1>1, <1>2, <1>3, <1>5 DEF KeptLine
  <1>6. CASE i # id
    <2>1. LinesFrom(s, i)' = LinesFrom(s, i)
      BY LinesStay
    <2> QED
      BY <1>1, <1>2, <1>4, <1>6, <2>1 DEF KeptLine
  <1> QED
    BY <1>5, <1>6

\* The history of a view is asked for when it opens, answered with every recent line, and shown
\* as a whole.
LEMMA KeptQuiet ==
    ASSUME LogTypeOK, Numbered, Kept, Quiet
    PROVE  Kept'
  <1>1. UNCHANGED <<logs, sending, inbox>>
    BY QuietFacts
  <1>2. /\ \A i : OnItsWay(i)' = OnItsWay(i)
        /\ \A s \in Workers : \A i : LinesFrom(s, i)' = LinesFrom(s, i)
    BY <1>1, LinesStay DEF OnItsWay
  <1>3. views \in [Workers -> View] /\ \A s \in Workers : Len(views[s].body) =< BodyCap
    BY DEF LogTypeOK
  <1>4. ASSUME NEW s \in Workers, NEW v \in View, views' = [views EXCEPT ![s] = v],
               v.open /\ Len(v.body) < BodyCap => \A i \in LinesFrom(s, 1) : KeptLine(s, i)'
        PROVE  Kept'
    <2>1. SUFFICES ASSUME NEW r \in Workers, views'[r].open, Len(views'[r].body) < BodyCap,
                          NEW i \in LinesFrom(r, 1)
                   PROVE  KeptLine(r, i)'
      BY <1>2 DEF Kept, KeptLine
    <2>2. CASE r = s
      <3>1. views'[r] = v
        BY <1>3, <1>4, <2>2
      <3> QED
        BY <1>4, <2>1, <2>2, <3>1
    <2>3. CASE r # s
      <3>1. views'[r] = views[r]
        BY <1>3, <1>4, <2>3
      <3>2. KeptLine(r, i)
        BY <2>1, <3>1 DEF Kept, KeptLine
      <3> QED
        BY <1>2, <3>1, <3>2 DEF KeptLine
    <2> QED
      BY <2>2, <2>3
  <1>5. CASE \E s \in Workers : OpenView(s)
    <2>1. PICK s \in Workers : OpenView(s)
      BY <1>5
    <2> DEFINE v == [NoView EXCEPT !.open = TRUE, !.history = "asked"]
    <2>2. v \in View /\ v.history = "asked"
      <3>1. NoView \in View
        BY DEF NoView, View
      <3> QED
        BY <3>1 DEF NoView, View
    <2>3. views' = [views EXCEPT ![s] = v]
      BY <2>1 DEF OpenView
    <2> HIDE DEF v
    <2>4. views'[s].history = "asked"
      BY <1>3, <2>2, <2>3
    <2> QED
      BY <1>4, <2>2, <2>3, <2>4 DEF KeptLine
  <1>6. CASE \E s \in Workers : CloseView(s)
    <2>1. PICK s \in Workers : CloseView(s)
      BY <1>6
    <2>2. NoView \in View /\ ~NoView.open
      BY DEF NoView, View
    <2>3. views' = [views EXCEPT ![s] = NoView]
      BY <2>1 DEF CloseView
    <2> QED
      BY <1>4, <2>2, <2>3
  <1>7. CASE \E s \in Workers : AnswerHistory(s)
    <2>1. PICK s \in Workers : AnswerHistory(s)
      BY <1>7
    <2> DEFINE a == OldestFirst(RecentLines(s))
               v == [views[s] EXCEPT !.history = "answered", !.answer = a]
    <2>2. a \in Seq(Id) /\ ToSet(a) = RecentLines(s)
      BY RecentFacts
    <2>3. views' = [views EXCEPT ![s] = v]
      BY <1>3, <2>1 DEF AnswerHistory
    <2> HIDE DEF a
    <2>4. v \in View /\ v.history = "answered" /\ v.answer = a
      BY <1>3, <2>2 DEF View
    <2> HIDE DEF v
    <2>5. views'[s] = v
      BY <1>3, <2>3
    <2>6. ASSUME NEW i \in LinesFrom(s, 1) PROVE KeptLine(s, i)'
      <3>1. CASE i \in RecentLines(s)
        BY <2>2, <2>4, <2>5, <3>1 DEF KeptLine
      <3>2. CASE i \notin RecentLines(s)
        <4>1. ~(Cardinality(LinesFrom(s, i)) =< HistoryLimit)
          BY <2>6, <3>2 DEF RecentLines
        <4>2. Cardinality(LinesFrom(s, i)) \in Nat /\ HistoryLimit \in Nat
          <5>1. i \in 1 .. Len(logs) /\ Len(logs) \in Nat
            BY <2>6, LinesAreTyped DEF LinesFrom
          <5>2. IsFiniteSet(i .. Len(logs))
            BY <5>1, FS_Interval
          <5>3. LinesFrom(s, i) \in SUBSET (i .. Len(logs))
            BY DEF LinesFrom
          <5> QED
            BY <5>2, <5>3, FS_Subset, FS_CardinalityType, ViewAssumption
        <4>3. Cardinality(LinesFrom(s, i)) > HistoryLimit
          BY <4>1, <4>2
        <4> QED
          BY <1>2, <4>3 DEF KeptLine
      <3> QED
        BY <3>1, <3>2
    <2> QED
      BY <1>4, <2>3, <2>4, <2>6
  <1>8. CASE \E s \in Workers : Backfill(s)
    <2>1. PICK s \in Workers : Backfill(s)
      BY <1>8
    <2> DEFINE shown == Appended(views[s], views[s].answer)
               none == <<>>
               v == [shown EXCEPT !.history = "none", !.answer = none]
    <2>2. /\ views[s] \in View /\ Len(views[s].body) =< BodyCap /\ views[s].answer \in Seq(Id)
          /\ views[s].history = "answered"
      BY <1>3, <2>1 DEF View, Backfill
    <2>3. /\ shown \in View /\ shown.open = views[s].open
          /\ Len(shown.body) < BodyCap =>
               /\ Len(views[s].body) < BodyCap
               /\ ToSet(shown.body) = ToSet(views[s].body) \cup ToSet(views[s].answer)
      BY <2>2, AppendedFacts
    <2>4. views' = [views EXCEPT ![s] = v]
      BY <1>3, <2>1 DEF Backfill
    <2> HIDE DEF shown
    <2>5. none \in Seq(Id)
      OBVIOUS
    <2> HIDE DEF none
    <2>6. v \in View /\ v.body = shown.body /\ v.open = shown.open
      BY <2>3, <2>5 DEF View
    <2> HIDE DEF v
    <2>7. views'[s] = v
      BY <1>3, <2>4
    <2>8. ASSUME v.open, Len(v.body) < BodyCap, NEW i \in LinesFrom(s, 1)
          PROVE  KeptLine(s, i)'
      <3>1. KeptLine(s, i)
        BY <2>3, <2>6, <2>8 DEF Kept, KeptLine
      <3>2. ToSet(v.body) = ToSet(views[s].body) \cup ToSet(views[s].answer)
        BY <2>3, <2>6, <2>8
      <3>3. views[s].history # "asked"
        BY <2>2
      <3> QED
        BY <1>2, <2>7, <3>1, <3>2, <3>3 DEF KeptLine
    <2> QED
      BY <1>4, <2>4, <2>6, <2>8
  <1>9. CASE (\E s \in Workers \cup {NoWorker} : TargetVoice(s)) \/ ToggleVoice
    <2>1. views' = views
      BY <1>9 DEF TargetVoice, ToggleVoice
    <2> QED
      BY <1>2, <2>1 DEF Kept, KeptLine
  <1> QED
    BY <1>5, <1>6, <1>7, <1>8, <1>9 DEF Quiet

LEMMA KeptStep ==
    ASSUME LogTypeOK, Numbered, Kept, [LogNext]_logVars
    PROVE  Kept'
  <1>1. CASE \E w \in Writers : InsertLine(w)
    BY <1>1, KeptInsert
  <1>2. CASE \E w \in Writers : SendLine(w)
    BY <1>2, KeptSend
  <1>3. CASE SendFromMain
    <2>1. /\ sending[Main] \in 1 .. Len(logs) /\ ShowLine(sending[Main])
          /\ sending' = [sending EXCEPT ![Main] = 0]
          /\ logs' = logs /\ inbox' = inbox
      BY <1>3, MainFacts
    <2>2. \A x \in Writers : x # Main => sending'[x] = sending[x]
      BY <2>1 DEF LogTypeOK
    <2>3. \A i : OnItsWay(i) /\ i # sending[Main] => OnItsWay(i)'
      BY <2>1, <2>2 DEF OnItsWay
    <2> QED
      BY <2>1, <2>3, KeptShow
  <1>4. CASE DeliverLine
    <2>1. /\ Len(inbox) \in Nat \ {0} /\ Len(inbox') = Len(inbox) - 1
          /\ \A i \in 1 .. Len(inbox') : inbox'[i] = inbox[i + 1]
          /\ inbox[1] \in 1 .. Len(logs) /\ ShowLine(inbox[1])
          /\ logs' = logs /\ sending' = sending
      BY <1>4, DeliverFacts DEF OnLog
    <2>2. ASSUME NEW i, OnItsWay(i), i # inbox[1] PROVE OnItsWay(i)'
      <3>1. CASE \E x \in Writers : sending[x] = i
        BY <2>1, <3>1 DEF OnItsWay
      <3>2. CASE \E k \in 1 .. Len(inbox) : inbox[k] = i
        <4>1. PICK k \in 1 .. Len(inbox) : inbox[k] = i
          BY <3>2
        <4>2. k # 1
          BY <2>2, <4>1
        <4>3. k - 1 \in 1 .. Len(inbox') /\ (k - 1) + 1 = k
          BY <2>1, <4>1, <4>2
        <4>4. inbox'[k - 1] = i
          BY <2>1, <4>1, <4>3
        <4> QED
          BY <4>3, <4>4 DEF OnItsWay
      <3> QED
        BY <2>2, <3>1, <3>2 DEF OnItsWay
    <2> QED
      BY <2>1, <2>2, KeptShow
  <1>5. CASE Quiet
    BY <1>5, KeptQuiet
  <1>6. CASE UNCHANGED logVars
    <2>1. UNCHANGED <<logs, sending, inbox, views>>
      BY <1>6 DEF logVars
    <2> QED
      BY <2>1 DEF Kept, KeptLine, OnItsWay, LinesFrom
  <1> QED
    BY <1>1, <1>2, <1>3, <1>4, <1>5, <1>6, LogSteps

\* When nothing is on its way, a view below its cap shows every line that the history would give
\* it now: NothingLost, from Kept.
THEOREM NothingIsLost == LogSpec => []NothingLost
  <1>1. LogInit => Kept
    BY KeptInit
  <1>2. (LogTypeOK /\ Numbered) /\ Kept /\ [LogNext]_logVars => Kept'
    BY KeptStep
  <1>3. (LogTypeOK /\ Numbered) /\ Kept => NothingLost
    <2> SUFFICES ASSUME LogTypeOK, Numbered, Kept, NEW s \in Workers, AtRest(s),
                        Len(views[s].body) < BodyCap, NEW i \in RecentLines(s)
                 PROVE  i \in ToSet(views[s].body)
      BY DEF NothingLost
    <2>1. i \in LinesFrom(s, 1) /\ Cardinality(LinesFrom(s, i)) =< HistoryLimit
      BY DEF RecentLines
    <2>2. i \in 1 .. Len(logs) /\ Len(logs) \in Nat /\ i # 0
      BY <2>1, LinesAreTyped DEF LinesFrom
    <2>3. KeptLine(s, i) /\ views[s].history = "none"
      BY <2>1 DEF Kept, KeptLine, AtRest
    <2>4. ~OnItsWay(i)
      <3>1. Len(inbox) = 0
        BY DEF AtRest
      <3> QED
        BY <2>2, <3>1 DEF OnItsWay, AtRest
    <2>5. ~(Cardinality(LinesFrom(s, i)) > HistoryLimit)
      <3>1. IsFiniteSet(i .. Len(logs)) /\ LinesFrom(s, i) \in SUBSET (i .. Len(logs))
        BY <2>2, FS_Interval DEF LinesFrom
      <3>2. Cardinality(LinesFrom(s, i)) \in Nat
        BY <3>1, FS_Subset, FS_CardinalityType
      <3> QED
        BY <2>1, <3>2, ViewAssumption
    <2> QED
      BY <2>3, <2>4, <2>5 DEF KeptLine
  <1> QED
    BY <1>1, <1>2, <1>3, LinesAreNumbered, PTL DEF LogSpec

-----------------------------------------------------------------------------
(* Voice mode.                                                             *)

\* Line i is something session s says.
Says(i, s) == logs[i].kind = "assistant" /\ logs[i].session = s

\* What one session says reaches the window in the order of the numbers.
InOrder ==
    \A s \in Workers, j \in 1 .. Len(inbox) : Says(inbox[j], s) =>
        /\ \A i \in 1 .. Len(inbox) : i < j /\ Says(inbox[i], s) => inbox[i] < inbox[j]
        /\ sending[<<s, "stdout">>] # 0 => inbox[j] < sending[<<s, "stdout">>]

\* Line n of session s is older than all that this session has under way.
OlderThanPending(n, s) ==
    /\ \A i \in 1 .. Len(inbox) : Says(inbox[i], s) => n < inbox[i]
    /\ sending[<<s, "stdout">>] # 0 => n < sending[<<s, "stdout">>]

\* The last line that was spoken is older than the last change of voice mode, or is one of the
\* session that is targeted; and what its session has under way is newer.
Fresh ==
    /\ \/ voice.last =< since
       \/ voice.last # 0 /\ voice.target \in {NoWorker, logs[voice.last].session}
    /\ voice.last # 0 => OlderThanPending(voice.last, logs[voice.last].session)

VoiceInv == InOrder /\ Fresh

LEMMA VoiceInit ==
    ASSUME LogInit
    PROVE  VoiceInv
  <1>1. inbox = <<>> /\ Len(inbox) = 0 /\ voice.last = 0 /\ since = 0
    BY DEF LogInit
  <1> QED
    BY <1>1 DEF VoiceInv, InOrder, Fresh

\* The new line is the newest.
LEMMA VoiceInsert ==
    ASSUME LogTypeOK, Numbered, VoiceInv, NEW w \in Writers, InsertLine(w)
    PROVE  VoiceInv'
  <1>1. /\ Len(logs) \in Nat /\ Len(logs') = Len(logs) + 1
        /\ \A i \in 1 .. Len(logs) : logs'[i] = logs[i]
        /\ sending' = [sending EXCEPT ![w] = Len(logs')] /\ sending[w] = 0
        /\ UNCHANGED <<inbox, voice, since>>
    BY InsertFacts, LinesAreTyped
  <1>2. /\ \A i \in 1 .. Len(inbox) : inbox[i] \in 1 .. Len(logs)
        /\ voice.last \in 0 .. Len(logs)
        /\ \A s \in Workers : <<s, "stdout">> \in Writers
    BY LinesAreTyped DEF Numbered
  <1>3. \A i \in 1 .. Len(inbox) : \A s : Says(inbox[i], s)' <=> Says(inbox[i], s)
    BY <1>1, <1>2 DEF Says
  <1>4. \A x \in Writers : sending'[x] = IF x = w THEN Len(logs) + 1 ELSE sending[x]
    BY <1>1 DEF LogTypeOK
  <1>5. \A k \in 0 .. Len(logs) : k < Len(logs) + 1
    BY <1>1
  <1>6. \A k \in 1 .. Len(logs) : k < Len(logs) + 1
    BY <1>1
  <1>7. InOrder'
    <2> SUFFICES ASSUME NEW s \in Workers, NEW j \in 1 .. Len(inbox), Says(inbox[j], s)
                 PROVE  /\ \A i \in 1 .. Len(inbox) :
                             i < j /\ Says(inbox[i], s) => inbox[i] < inbox[j]
                        /\ sending'[<<s, "stdout">>] # 0 => inbox[j] < sending'[<<s, "stdout">>]
      BY <1>1, <1>3 DEF InOrder
    <2>1. /\ \A i \in 1 .. Len(inbox) : i < j /\ Says(inbox[i], s) => inbox[i] < inbox[j]
          /\ sending[<<s, "stdout">>] # 0 => inbox[j] < sending[<<s, "stdout">>]
      BY DEF VoiceInv, InOrder
    <2>2. CASE <<s, "stdout">> = w
      BY <1>2, <1>4, <1>6, <2>1, <2>2
    <2>3. CASE <<s, "stdout">> # w
      BY <1>2, <1>4, <2>1, <2>3
    <2> QED
      BY <2>2, <2>3
  <1>8. Fresh'
    <2>1. CASE voice.last = 0
      BY <1>1, <2>1 DEF VoiceInv, Fresh
    <2>2. CASE voice.last # 0
      <3>0. PICK s : s = logs[voice.last].session
        OBVIOUS
      <3>1. voice.last \in 1 .. Len(logs) /\ logs'[voice.last] = logs[voice.last]
        BY <1>1, <1>2, <2>2
      <3>2. s \in Workers
        BY <3>0, <3>1, LinesAreTyped DEF Line
      <3>3. OlderThanPending(voice.last, s)
        BY <2>2, <3>0 DEF VoiceInv, Fresh
      <3>4. voice.last =< since \/ voice.target \in {NoWorker, s}
        BY <3>0 DEF VoiceInv, Fresh
      <3>5. \A i \in 1 .. Len(inbox) : Says(inbox[i], s)' => voice.last < inbox[i]
        BY <1>3, <3>3 DEF OlderThanPending
      <3>6. sending'[<<s, "stdout">>] # 0 => voice.last < sending'[<<s, "stdout">>]
        <4>1. CASE <<s, "stdout">> = w
          BY <1>2, <1>4, <1>5, <3>2, <4>1
        <4>2. CASE <<s, "stdout">> # w
          BY <1>2, <1>4, <3>2, <3>3, <4>2 DEF OlderThanPending
        <4> QED
          BY <4>1, <4>2
      <3>7. s = logs'[voice'.last].session /\ voice' = voice /\ since' = since /\ inbox' = inbox
        BY <1>1, <3>0, <3>1
      <3> QED
        BY <2>2, <3>4, <3>5, <3>6, <3>7 DEF Fresh, OlderThanPending
    <2> QED
      BY <2>1, <2>2
  <1> QED
    BY <1>7, <1>8 DEF VoiceInv

\* What a session says is sent by its stdout, after what it said before.
LEMMA VoiceSend ==
    ASSUME LogTypeOK, Numbered, VoiceInv, NEW w \in Writers, SendLine(w)
    PROVE  VoiceInv'
  <1>1. /\ Len(inbox) \in Nat /\ Len(inbox') = Len(inbox) + 1
        /\ \A i \in 1 .. Len(inbox) : inbox'[i] = inbox[i]
        /\ inbox'[Len(inbox) + 1] = sending[w] /\ sending[w] \in 1 .. Len(logs)
        /\ sending' = [sending EXCEPT ![w] = 0]
        /\ UNCHANGED <<logs, voice, since>>
    BY SendFacts, LinesAreTyped
  <1>2. /\ \A x \in Writers : sending'[x] = IF x = w THEN 0 ELSE sending[x]
        /\ \A s \in Workers : <<s, "stdout">> \in Writers
        /\ sending[w] # 0
    BY <1>1, LinesAreTyped DEF LogTypeOK, SendLine
  <1>3. \A i, s : Says(i, s)' <=> Says(i, s)
    BY <1>1 DEF Says
  <1>4. ASSUME NEW s \in Workers, Says(sending[w], s) PROVE w = <<s, "stdout">>
    BY <1>2, <1>4 DEF Numbered, Says
  <1>5. \A i \in 1 .. Len(inbox') : i \in 1 .. Len(inbox) \/ i = Len(inbox) + 1
    BY <1>1
  <1>6. InOrder'
    <2> SUFFICES ASSUME NEW s \in Workers, NEW j \in 1 .. Len(inbox'), Says(inbox'[j], s)
                 PROVE  /\ \A i \in 1 .. Len(inbox') :
                             i < j /\ Says(inbox'[i], s) => inbox'[i] < inbox'[j]
                        /\ sending'[<<s, "stdout">>] # 0 => inbox'[j] < sending'[<<s, "stdout">>]
      BY <1>3 DEF InOrder
    <2>1. CASE j \in 1 .. Len(inbox)
      <3>1. Says(inbox[j], s) /\ inbox'[j] = inbox[j]
        BY <1>1, <2>1
      <3>2. /\ \A i \in 1 .. Len(inbox) : i < j /\ Says(inbox[i], s) => inbox[i] < inbox[j]
            /\ sending[<<s, "stdout">>] # 0 => inbox[j] < sending[<<s, "stdout">>]
        BY <2>1, <3>1 DEF VoiceInv, InOrder
      <3>3. \A i \in 1 .. Len(inbox') : i < j => i \in 1 .. Len(inbox)
        BY <1>1, <2>1
      <3> QED
        BY <1>1, <1>2, <3>1, <3>2, <3>3
    <2>2. CASE j = Len(inbox) + 1
      <3>1. inbox'[j] = sending[w] /\ w = <<s, "stdout">>
        BY <1>1, <1>4, <2>2
      <3>2. sending'[<<s, "stdout">>] = 0
        BY <1>2, <3>1
      <3>3. ASSUME NEW i \in 1 .. Len(inbox'), i < j, Says(inbox'[i], s)
            PROVE  inbox'[i] < inbox'[j]
        <4>1. i \in 1 .. Len(inbox)
          BY <1>1, <2>2, <3>3
        <4>2. inbox'[i] = inbox[i]
          BY <1>1, <4>1
        <4>3. inbox[i] < sending[<<s, "stdout">>]
          BY <1>2, <3>1, <3>3, <4>1, <4>2 DEF VoiceInv, InOrder
        <4> QED
          BY <3>1, <4>2, <4>3
      <3> QED
        BY <3>2, <3>3
    <2> QED
      BY <1>5, <2>1, <2>2
  <1>7. Fresh'
    <2>1. CASE voice.last = 0
      BY <1>1, <2>1 DEF VoiceInv, Fresh
    <2>2. CASE voice.last # 0
      <3> DEFINE s == logs[voice.last].session
      <3>1. s \in Workers
        <4>1. voice.last \in 1 .. Len(logs)
          BY <2>2, LinesAreTyped DEF Numbered
        <4> QED
          BY <4>1, LinesAreTyped DEF Line
      <3>2. OlderThanPending(voice.last, s)
        BY <2>2 DEF VoiceInv, Fresh
      <3>3. voice.last =< since \/ voice.target \in {NoWorker, s}
        BY DEF VoiceInv, Fresh
      <3>4. s = logs'[voice'.last].session
        BY <1>1
      <3> HIDE DEF s
      <3>5. ASSUME NEW i \in 1 .. Len(inbox'), Says(inbox'[i], s) PROVE voice.last < inbox'[i]
        <4>1. CASE i \in 1 .. Len(inbox)
          BY <1>1, <3>2, <3>5, <4>1 DEF OlderThanPending
        <4>2. CASE i = Len(inbox) + 1
          BY <1>1, <1>2, <1>4, <3>1, <3>2, <3>5, <4>2 DEF OlderThanPending
        <4> QED
          BY <1>5, <4>1, <4>2
      <3>6. sending'[<<s, "stdout">>] # 0 => voice.last < sending'[<<s, "stdout">>]
        BY <1>2, <3>1, <3>2 DEF OlderThanPending
      <3> QED
        BY <1>1, <1>3, <2>2, <3>3, <3>4, <3>5, <3>6 DEF Fresh, OlderThanPending
    <2> QED
      BY <2>1, <2>2
  <1> QED
    BY <1>6, <1>7 DEF VoiceInv

\* The line that is delivered is the oldest of its session, so what stays under way is newer
\* than the last line that was spoken.
LEMMA VoiceDeliver ==
    ASSUME LogTypeOK, Numbered, VoiceInv, DeliverLine
    PROVE  VoiceInv'
  <1> DEFINE id == inbox[1]
             t == logs[id].session
  <1>1. /\ Len(inbox) \in Nat \ {0} /\ Len(inbox') = Len(inbox) - 1
        /\ \A i \in 1 .. Len(inbox') : inbox'[i] = inbox[i + 1] /\ i + 1 \in 1 .. Len(inbox)
        /\ id \in 1 .. Len(logs) /\ id \in Id /\ logs[id] \in Line /\ SpeakLine(id)
        /\ UNCHANGED <<logs, sending, since>>
    BY DeliverFacts DEF OnLog
  <1>2. t \in Workers /\ id # 0
    BY <1>1, LinesAreTyped DEF Line
  <1>3. /\ voice'.target = voice.target
        /\ \/ voice' = voice
           \/ /\ voice'.last = id /\ logs[id].kind = "assistant"
              /\ voice.target \in {NoWorker, t}
    BY <1>1, SpeakFacts
  <1>4. \A i, s : Says(i, s)' <=> Says(i, s)
    BY <1>1 DEF Says
  <1>5. 1 \in 1 .. Len(inbox) /\ \A i \in 1 .. Len(inbox') : 1 < i + 1
    BY <1>1
  <1>6. \A i, j \in 1 .. Len(inbox') : i < j => i + 1 < j + 1
    BY <1>1
  <1>7. InOrder'
    <2> SUFFICES ASSUME NEW s \in Workers, NEW j \in 1 .. Len(inbox'), Says(inbox'[j], s)
                 PROVE  /\ \A i \in 1 .. Len(inbox') :
                             i < j /\ Says(inbox'[i], s) => inbox'[i] < inbox'[j]
                        /\ sending[<<s, "stdout">>] # 0 => inbox'[j] < sending[<<s, "stdout">>]
      BY <1>1, <1>4 DEF InOrder
    <2>1. inbox'[j] = inbox[j + 1] /\ j + 1 \in 1 .. Len(inbox) /\ Says(inbox[j + 1], s)
      BY <1>1
    <2>2. /\ \A i \in 1 .. Len(inbox) : i < j + 1 /\ Says(inbox[i], s) => inbox[i] < inbox[j + 1]
          /\ sending[<<s, "stdout">>] # 0 => inbox[j + 1] < sending[<<s, "stdout">>]
      BY <2>1 DEF VoiceInv, InOrder
    <2>3. ASSUME NEW i \in 1 .. Len(inbox'), i < j, Says(inbox'[i], s)
          PROVE  inbox'[i] < inbox'[j]
      BY <1>1, <1>6, <2>1, <2>2, <2>3
    <2> QED
      BY <2>1, <2>2, <2>3
  <1>8. ASSUME NEW n, NEW s,
               \A i \in 2 .. Len(inbox) : Says(inbox[i], s) => n < inbox[i],
               sending[<<s, "stdout">>] # 0 => n < sending[<<s, "stdout">>]
        PROVE  OlderThanPending(n, s)'
    <2>1. \A i \in 1 .. Len(inbox') : i + 1 \in 2 .. Len(inbox)
      BY <1>1
    <2>2. ASSUME NEW i \in 1 .. Len(inbox'), Says(inbox'[i], s) PROVE n < inbox'[i]
      BY <1>1, <1>8, <2>1, <2>2
    <2> QED
      BY <1>1, <1>4, <1>8, <2>2 DEF OlderThanPending
  <1>9. CASE voice' = voice
    <2>1. \A i \in 2 .. Len(inbox) : i \in 1 .. Len(inbox)
      BY <1>1
    <2>2. voice.last # 0 => OlderThanPending(voice.last, logs[voice.last].session)'
      <3>1. voice.last # 0 => OlderThanPending(voice.last, logs[voice.last].session)
        BY DEF VoiceInv, Fresh
      <3> QED
        BY <1>1, <1>8, <1>9, <2>1, <3>1 DEF OlderThanPending
    <2>3. Fresh'
      BY <1>1, <1>9, <2>2 DEF VoiceInv, Fresh
    <2> QED
      BY <1>7, <2>3 DEF VoiceInv
  <1>10. CASE /\ voice'.last = id /\ logs[id].kind = "assistant"
              /\ voice.target \in {NoWorker, t}
    <2>1. Says(id, t)
      BY <1>10 DEF Says
    <2>2. ASSUME NEW i \in 2 .. Len(inbox), Says(inbox[i], t) PROVE id < inbox[i]
      <3>1. i \in 1 .. Len(inbox) /\ 1 < i
        BY <1>1
      <3> QED
        BY <1>2, <1>5, <2>1, <2>2, <3>1 DEF VoiceInv, InOrder
    <2>3. sending[<<t, "stdout">>] # 0 => id < sending[<<t, "stdout">>]
      BY <1>2, <1>5, <2>1 DEF VoiceInv, InOrder
    <2>4. OlderThanPending(voice.last, logs[voice.last].session)'
      <3>1. PICK n, s : n = id /\ s = t
        OBVIOUS
      <3>2. voice'.last = n /\ logs'[voice'.last].session = s
        BY <1>1, <1>10, <3>1
      <3>3. /\ \A i \in 2 .. Len(inbox) : Says(inbox[i], s) => n < inbox[i]
            /\ sending[<<s, "stdout">>] # 0 => n < sending[<<s, "stdout">>]
        BY <2>2, <2>3, <3>1
      <3> HIDE DEF id, t
      <3>4. OlderThanPending(n, s)'
        BY <1>8, <3>3
      <3> QED
        BY <3>2, <3>4 DEF OlderThanPending
    <2>5. voice'.last # 0 /\ voice'.target \in {NoWorker, logs'[voice'.last].session}
      BY <1>1, <1>2, <1>3, <1>10
    <2>6. Fresh'
      BY <2>4, <2>5 DEF Fresh
    <2> QED
      BY <1>7, <2>6 DEF VoiceInv
  <1> QED
    BY <1>3, <1>9, <1>10

\* The main thread says nothing that is spoken.
LEMMA VoiceMain ==
    ASSUME LogTypeOK, Numbered, VoiceInv, SendFromMain
    PROVE  VoiceInv'
  <1>1. /\ sending' = [sending EXCEPT ![Main] = 0]
        /\ UNCHANGED <<logs, inbox, voice, since>>
    BY MainFacts
  <1>2. \A s : <<s, "stdout">> # Main
    BY DEF Main
  <1>3. \A s : sending'[<<s, "stdout">>] = sending[<<s, "stdout">>]
    BY <1>1, <1>2 DEF LogTypeOK
  <1>4. \A i, s : Says(i, s)' <=> Says(i, s)
    BY <1>1 DEF Says
  <1>5. InOrder'
    BY <1>1, <1>3, <1>4 DEF VoiceInv, InOrder
  <1>6. Fresh'
    BY <1>1, <1>3, <1>4 DEF VoiceInv, Fresh, OlderThanPending
  <1> QED
    BY <1>5, <1>6 DEF VoiceInv

\* Whoever is targeted, every line in the table is older than the change.
LEMMA VoiceQuiet ==
    ASSUME LogTypeOK, Numbered, VoiceInv, Quiet
    PROVE  VoiceInv'
  <1>1. /\ UNCHANGED <<logs, sending, inbox>>
        /\ voice'.last = voice.last
        /\ since' = Len(logs) \/ (since' = since /\ voice'.target = voice.target)
    BY QuietFacts
  <1>2. voice.last =< Len(logs)
    BY LinesAreTyped DEF Numbered
  <1>3. \A i, s : Says(i, s)' <=> Says(i, s)
    BY <1>1 DEF Says
  <1>4. InOrder'
    BY <1>1, <1>3 DEF VoiceInv, InOrder
  <1>5. Fresh'
    BY <1>1, <1>2, <1>3 DEF VoiceInv, Fresh, OlderThanPending
  <1> QED
    BY <1>4, <1>5 DEF VoiceInv

LEMMA VoiceStep ==
    ASSUME LogTypeOK, Numbered, VoiceInv, [LogNext]_logVars
    PROVE  VoiceInv'
  <1>1. CASE \E w \in Writers : InsertLine(w) \/ SendLine(w)
    BY <1>1, VoiceInsert, VoiceSend
  <1>2. CASE SendFromMain
    BY <1>2, VoiceMain
  <1>3. CASE DeliverLine
    BY <1>3, VoiceDeliver
  <1>4. CASE Quiet
    BY <1>4, VoiceQuiet
  <1>5. CASE UNCHANGED logVars
    <2>1. UNCHANGED <<logs, sending, inbox, voice, since>>
      BY <1>5 DEF logVars
    <2> QED
      BY <2>1 DEF VoiceInv, InOrder, Fresh, OlderThanPending, Says
  <1> QED
    BY <1>1, <1>2, <1>3, <1>4, <1>5, LogSteps

\* Only a delivery shortens what is on its way.
LEMMA OnlyDeliveryShortens ==
    ASSUME LogTypeOK, Numbered, [LogNext]_logVars, Len(inbox') < Len(inbox)
    PROVE  DeliverLine
  <1>1. Len(inbox) \in Nat
    BY LinesAreTyped
  <1>2. ASSUME NEW w \in Writers, InsertLine(w) \/ SendLine(w) PROVE FALSE
    <2>1. inbox' = inbox \/ Len(inbox') = Len(inbox) + 1
      BY <1>2, SendFacts DEF InsertLine
    <2> QED
      BY <1>1, <2>1
  <1>3. ASSUME inbox' = inbox PROVE FALSE
    BY <1>1, <1>3
  <1>4. SendFromMain => inbox' = inbox
    BY DEF SendFromMain
  <1>5. Quiet => inbox' = inbox
    BY QuietFacts
  <1>6. UNCHANGED logVars => inbox' = inbox
    BY DEF logVars
  <1> QED
    BY <1>2, <1>3, <1>4, <1>5, <1>6, LogSteps

\* Voice mode passes over no line of the session it listens to, though it keeps one last id for
\* all sessions: TargetHeard.  What was spoken last is too old to matter, or is of the targeted
\* session and so older than what this session has under way.
THEOREM TargetIsHeard == LogSpec => TargetHeard
  <1>1. LogInit => VoiceInv
    BY VoiceInit
  <1>2. (LogTypeOK /\ Numbered) /\ VoiceInv /\ [LogNext]_logVars => VoiceInv'
    BY VoiceStep
  <1> DEFINE Heard ==
        Len(inbox') < Len(inbox) =>
          LET id == Head(inbox) IN
          /\ voice.on
          /\ logs[id].kind = "assistant"
          /\ logs[id].session = voice.target
          /\ id > since
          => id \in spoken'
  <1>3. (LogTypeOK /\ Numbered) /\ VoiceInv /\ [LogNext]_logVars => Heard
    <2> SUFFICES ASSUME LogTypeOK, Numbered, VoiceInv, [LogNext]_logVars,
                        Len(inbox') < Len(inbox), voice.on,
                        logs[Head(inbox)].kind = "assistant",
                        logs[Head(inbox)].session = voice.target,
                        Head(inbox) > since
                 PROVE  Head(inbox) \in spoken'
      OBVIOUS
    <2>1. DeliverLine
      BY OnlyDeliveryShortens
    <2>2. PICK id : id = Head(inbox)
      OBVIOUS
    <2>3. /\ id = inbox[1] /\ 1 \in 1 .. Len(inbox) /\ id \in 1 .. Len(logs) /\ id \in Id
          /\ logs[id] \in Line /\ SpeakLine(id)
      BY <2>1, <2>2, DeliverFacts DEF OnLog
    <2>4. voice.target \in Workers /\ voice.target # NoWorker
      BY <2>2, <2>3, NoWorkerAssumption DEF Line
    <2>5. /\ voice.last \in 0 .. Len(logs) /\ since \in 0 .. Len(logs) /\ Len(logs) \in Nat
      BY LinesAreTyped DEF Numbered
    <2>6. id > voice.last
      <3>1. CASE voice.last =< since
        BY <2>2, <2>3, <2>5, <3>1
      <3>2. CASE voice.last # 0 /\ voice.target \in {NoWorker, logs[voice.last].session}
        <4>1. Says(id, logs[voice.last].session)
          BY <2>2, <2>4, <3>2 DEF Says
        <4>2. voice.last < id
          BY <2>3, <3>2, <4>1 DEF VoiceInv, Fresh, OlderThanPending
        <4> QED
          BY <2>3, <2>5, <4>2
      <3> QED
        BY <3>1, <3>2 DEF VoiceInv, Fresh
    <2> QED
      BY <2>2, <2>3, <2>6, SpeakFacts
  <1>4. LogSpec => [][Heard]_logVars
    <2> HIDE DEF Heard
    <2> QED
      BY <1>1, <1>2, <1>3, LinesAreNumbered, PTL DEF LogSpec
  <1> QED
    BY <1>4 DEF TargetHeard
=============================================================================
