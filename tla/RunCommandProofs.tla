--------------------------- MODULE RunCommandProofs ---------------------------
(***************************************************************************)
(* What is proved of RunCommand for every number of streams and every size *)
(* of queue, pipe and held output: nothing the command wrote is lost,      *)
(* repeated or reordered while siftr records, and a run finished as        *)
(* comparable was recorded whole.                                          *)
(***************************************************************************)
EXTENDS RunCommand, SequenceTheorems, TLAPS

ChunksOf(s) == [event : {"Chunk"}, stream : {s}, chunk : Nat]

Event == [event : {"Chunk"}, stream : Streams, chunk : Nat]
         \cup {ReaderGone, Exited}

Recorder == [state : {"starting", "recording", "off"},
             pending : Seq(Event), recorded : Seq(Event)]

TypeOK ==
  /\ wrote \in [Streams -> Nat]
  /\ pipe \in [Streams -> Seq(Event)]
  /\ \A s \in Streams : pipe[s] \in Seq(ChunksOf(s))
  /\ relay \in [Streams -> {"reading", "passing", "queueing", "queueing last",
                            "leaving", "ended"}]
  /\ hand \in [Streams -> Event]
  /\ \A s \in Streams : hand[s] \in ChunksOf(s)
  /\ chan \in Seq(Event)
  /\ recorder \in Recorder

\* A recorder has the first of a stream's chunks, recorded or held.
Has(r, s, held) ==
  \E kept \in 0..held :
    InOrder(s, r.recorded, 0, kept) /\ InOrder(s, r.pending, kept, held)

\* Where each of a stream's chunks is: first what the recorder has, then what
\* is queued, in the relay's hand, and in the pipe.
Along(s, r, queue, inHand, inPipe, written) ==
  \E held, queued, read \in 0..written :
    /\ held <= queued /\ queued <= read
    /\ Has(r, s, held)
    /\ InOrder(s, queue, held, queued)
    /\ InOrder(s, inHand, queued, read)
    /\ InOrder(s, inPipe, read, written)

Flow(s) == Along(s, recorder, chan, InHand(s), pipe[s], wrote[s])

\* Nothing is held any more once the recording has begun.
Bounded(r) ==
  /\ Len(r.pending) <= PENDING_CHUNKS
  /\ r.state = "recording" => r.pending = <<>>

Limits == Len(chan) <= QUEUED_CHUNKS /\ Bounded(recorder)

\* That siftr's own reader went away is known, or on its way.
Told == readerGone \/ \E i \in DOMAIN chan : chan[i] = ReaderGone

\* A relay that ended saw the end of its stream, or lost its reader.
RelaysEnd ==
  \A s \in Streams : relay[s] = "ended" =>
    \/ command # "running" /\ ~ background /\ pipe[s] = <<>>
    \/ Told

Stopping == main \in {"stopping", "ending", "ended"}

\* Unless it gave up, the main thread stops once every other one has ended
\* and the queue is empty.
StopsLast ==
  Stopping /\ ~ stopped =>
    /\ chan = <<>>
    /\ waiter = "ended"
    /\ \A s \in Streams : relay[s] = "ended"

Finished ==
  row = "finished" =>
    main = "ended" /\ recorder.state = "recording" /\ ~ readerGone

IInv ==
  /\ TypeOK
  /\ recorder.state # "off" => \A s \in Streams : Flow(s)
  /\ Limits
  /\ RelaysEnd
  /\ StopsLast
  /\ Finished

-----------------------------------------------------------------------------
(* Sequences of events that hold a stream's chunks in order. *)

\* The same, without the set of chunks: what is there was written between the
\* two counts, and all of that is there.
LEMMA InOrderAt ==
  ASSUME NEW s \in Streams, NEW x \in Seq(Event), NEW a \in Nat, NEW b \in Nat
  PROVE  InOrder(s, x, a, b) <=>
           /\ \A i \in Places(s, x) : x[i].chunk \in (a + 1)..b
           /\ \A n \in (a + 1)..b : \E i \in Places(s, x) : x[i].chunk = n
           /\ \A i, j \in Places(s, x) : i < j => x[i].chunk < x[j].chunk
  BY DEF InOrder

\* A chunk of the command's has a number.
LEMMA OwnNumber ==
  ASSUME NEW s \in Streams, NEW e \in Event, Own(s, e)
  PROVE  e.chunk \in Nat /\ e.chunk # 0
  BY DEF Own, Event, Noise, ReaderGone, Exited

\* An empty sequence holds what was written between a count and itself.
LEMMA EmptyInOrder ==
  ASSUME NEW s \in Streams, NEW a \in Nat, NEW b \in Nat, a <= b
  PROVE  InOrder(s, <<>>, a, b) <=> a = b
  <1>1. Places(s, <<>>) = {}
    BY DEF Places
  <1>2. InOrder(s, <<>>, a, b) <=> \A n \in (a + 1)..b : FALSE
    <2>1. <<>> \in Seq(Event)
      OBVIOUS
    <2>2. \A i \in {} : FALSE
      OBVIOUS
    <2> QED
      BY <1>1, <2>1, <2>2, InOrderAt
  <1>3. CASE a = b
    BY <1>2, <1>3
  <1>4. CASE a # b
    <2>1. b \in (a + 1)..b
      BY <1>4
    <2> QED
      BY <1>2, <1>4, <2>1
  <1> QED
    BY <1>3, <1>4

\* The next chunk the command writes goes behind those before it.
LEMMA AppendOwn ==
  ASSUME NEW s \in Streams, NEW x \in Seq(Event), NEW e \in Event,
         NEW a \in Nat, NEW b \in Nat, a <= b,
         InOrder(s, x, a, b), Own(s, e), e.chunk = b + 1
  PROVE  InOrder(s, Append(x, e), a, b + 1)
  <1> DEFINE y == Append(x, e)
             last == Len(x) + 1
  <1>1. y \in Seq(Event) /\ Len(y) = last /\ y[last] = e
    OBVIOUS
  <1>2. \A i \in DOMAIN x : i < last /\ y[i] = x[i]
    OBVIOUS
  <1>3. Places(s, y) = Places(s, x) \cup {last}
    BY <1>1, <1>2 DEF Places
  <1>4. Places(s, x) \subseteq DOMAIN x /\ Places(s, x) \subseteq Nat
    BY DEF Places
  <1> HIDE DEF y
  <1>5. \A i \in Places(s, x) : x[i].chunk \in (a + 1)..b
    BY InOrderAt
  <1>6. \A n \in (a + 1)..b : \E i \in Places(s, x) : x[i].chunk = n
    BY InOrderAt
  <1>7. \A i, j \in Places(s, x) : i < j => x[i].chunk < x[j].chunk
    BY InOrderAt
  <1>8. \A i \in Places(s, y) : y[i].chunk \in (a + 1)..(b + 1)
    BY <1>1, <1>2, <1>3, <1>4, <1>5
  <1>9. \A n \in (a + 1)..(b + 1) : \E i \in Places(s, y) : y[i].chunk = n
    <2>1. SUFFICES ASSUME NEW n \in (a + 1)..(b + 1)
                   PROVE  \E i \in Places(s, y) : y[i].chunk = n
      OBVIOUS
    <2>2. CASE n = b + 1
      BY <2>2, <1>1, <1>3
    <2>3. CASE n # b + 1
      <3>1. n \in (a + 1)..b
        BY <2>3
      <3> QED
        BY <3>1, <1>6, <1>2, <1>3, <1>4
    <2> QED
      BY <2>2, <2>3
  <1>10. \A i, j \in Places(s, y) : i < j => y[i].chunk < y[j].chunk
    <2>1. SUFFICES ASSUME NEW i \in Places(s, y), NEW j \in Places(s, y), i < j
                   PROVE  y[i].chunk < y[j].chunk
      OBVIOUS
    <2>2. i \in Places(s, x)
      BY <2>1, <1>2, <1>3, <1>4
    <2>3. CASE j = last
      BY <2>2, <2>3, <1>1, <1>2, <1>4, <1>5
    <2>4. CASE j \in Places(s, x)
      BY <2>1, <2>2, <2>4, <1>2, <1>4, <1>7
    <2> QED
      BY <2>3, <2>4, <1>3
  <1>11. b + 1 \in Nat
    OBVIOUS
  <1>12. InOrder(s, y, a, b + 1)
    BY <1>1, <1>8, <1>9, <1>10, <1>11, InOrderAt
  <1> QED
    BY <1>12 DEF y

\* What is not the command's own to that stream changes nothing.
LEMMA AppendOther ==
  ASSUME NEW s \in Streams, NEW x \in Seq(Event), NEW e \in Event,
         NEW a \in Nat, NEW b \in Nat,
         InOrder(s, x, a, b), ~ Own(s, e)
  PROVE  InOrder(s, Append(x, e), a, b)
  <1> DEFINE y == Append(x, e)
  <1>1. \A i \in DOMAIN x : y[i] = x[i]
    OBVIOUS
  <1>2. Places(s, y) = Places(s, x)
    BY <1>1 DEF Places
  <1>3. \A i \in Places(s, x) : y[i] = x[i]
    BY <1>1 DEF Places
  <1>4. y \in Seq(Event)
    OBVIOUS
  <1> HIDE DEF y
  <1>5. /\ \A i \in Places(s, x) : x[i].chunk \in (a + 1)..b
        /\ \A n \in (a + 1)..b : \E i \in Places(s, x) : x[i].chunk = n
        /\ \A i, j \in Places(s, x) : i < j => x[i].chunk < x[j].chunk
    BY InOrderAt
  <1>6. /\ \A i \in Places(s, y) : y[i].chunk \in (a + 1)..b
        /\ \A n \in (a + 1)..b : \E i \in Places(s, y) : y[i].chunk = n
        /\ \A i, j \in Places(s, y) : i < j => y[i].chunk < y[j].chunk
    BY <1>2, <1>3, <1>5
  <1>7. InOrder(s, y, a, b)
    BY <1>4, <1>6, InOrderAt
  <1> QED
    BY <1>7 DEF y

\* Two stretches, one behind the other, are a stretch.
LEMMA JoinInOrder ==
  ASSUME NEW s \in Streams, NEW x \in Seq(Event), NEW y \in Seq(Event),
         NEW a \in Nat, NEW b \in Nat, NEW c \in Nat, a <= b, b <= c,
         InOrder(s, x, a, b), InOrder(s, y, b, c)
  PROVE  InOrder(s, x \o y, a, c)
  <1> DEFINE z == x \o y
  <1>1. /\ z \in Seq(Event)
        /\ \A i \in DOMAIN x : i \in DOMAIN z /\ z[i] = x[i]
        /\ \A i \in DOMAIN y : i + Len(x) \in DOMAIN z /\ z[i + Len(x)] = y[i]
        /\ \A i \in DOMAIN z :
             i \in DOMAIN x \/ (i > Len(x) /\ i - Len(x) \in DOMAIN y)
    OBVIOUS
  <1>2. /\ Places(s, x) \subseteq DOMAIN x /\ Places(s, y) \subseteq DOMAIN y
        /\ Places(s, z) \subseteq DOMAIN z
        /\ DOMAIN x \subseteq 1..Len(x) /\ DOMAIN y \subseteq Nat
        /\ DOMAIN z \subseteq Nat /\ Len(x) \in Nat
    BY DEF Places
  <1>3. \A i \in Places(s, x) : i \in Places(s, z) /\ z[i] = x[i]
    BY <1>1 DEF Places
  <1>4. \A i \in Places(s, y) :
          i + Len(x) \in Places(s, z) /\ z[i + Len(x)] = y[i]
    BY <1>1 DEF Places
  <1>5. ASSUME NEW i \in Places(s, z)
        PROVE  \/ i \in Places(s, x) /\ z[i] = x[i]
               \/ /\ i > Len(x) /\ i - Len(x) \in Places(s, y)
                  /\ z[i] = y[i - Len(x)]
    <2>1. CASE i \in DOMAIN x
      BY <2>1, <1>1 DEF Places
    <2>2. CASE i > Len(x) /\ i - Len(x) \in DOMAIN y
      <3>1. z[i] = y[i - Len(x)]
        BY <2>2, <1>1, <1>2
      <3> QED
        BY <2>2, <3>1 DEF Places
    <2> QED
      BY <2>1, <2>2, <1>1, <1>2
  <1> HIDE DEF z
  <1>6. /\ \A i \in Places(s, x) : x[i].chunk \in (a + 1)..b
        /\ \A n \in (a + 1)..b : \E i \in Places(s, x) : x[i].chunk = n
        /\ \A i, j \in Places(s, x) : i < j => x[i].chunk < x[j].chunk
    BY InOrderAt
  <1>7. /\ \A i \in Places(s, y) : y[i].chunk \in (b + 1)..c
        /\ \A n \in (b + 1)..c : \E i \in Places(s, y) : y[i].chunk = n
        /\ \A i, j \in Places(s, y) : i < j => y[i].chunk < y[j].chunk
    BY InOrderAt
  <1>8. \A i \in Places(s, z) : z[i].chunk \in (a + 1)..c
    BY <1>5, <1>6, <1>7
  <1>9. \A n \in (a + 1)..c : \E i \in Places(s, z) : z[i].chunk = n
    <2>1. SUFFICES ASSUME NEW n \in (a + 1)..c
                   PROVE  \E i \in Places(s, z) : z[i].chunk = n
      OBVIOUS
    <2>2. CASE n \in (a + 1)..b
      BY <2>2, <1>3, <1>6
    <2>3. CASE n \in (b + 1)..c
      BY <2>3, <1>4, <1>7
    <2> QED
      BY <2>2, <2>3
  <1>10. \A i, j \in Places(s, z) : i < j => z[i].chunk < z[j].chunk
    <2>1. SUFFICES ASSUME NEW i \in Places(s, z), NEW j \in Places(s, z), i < j
                   PROVE  z[i].chunk < z[j].chunk
      OBVIOUS
    <2>2. CASE i \in Places(s, x) /\ z[i] = x[i]
      <3>1. CASE j \in Places(s, x) /\ z[j] = x[j]
        BY <2>1, <2>2, <3>1, <1>6
      <3>2. CASE j - Len(x) \in Places(s, y) /\ z[j] = y[j - Len(x)]
        BY <2>2, <3>2, <1>6, <1>7
      <3> QED
        BY <3>1, <3>2, <1>5
    <2>3. CASE /\ i > Len(x) /\ i - Len(x) \in Places(s, y)
               /\ z[i] = y[i - Len(x)]
      <3>1. /\ j - Len(x) \in Places(s, y) /\ z[j] = y[j - Len(x)]
        BY <2>1, <2>3, <1>2, <1>5
      <3>2. i - Len(x) < j - Len(x)
        BY <2>1, <1>2
      <3> QED
        BY <2>3, <3>1, <3>2, <1>7
    <2> QED
      BY <2>2, <2>3, <1>5
  <1> QED
    BY <1>1, <1>8, <1>9, <1>10, InOrderAt DEF z

\* What is taken from the front is the next chunk, or not the command's.
LEMMA TakeInOrder ==
  ASSUME NEW s \in Streams, NEW x \in Seq(Event), x # <<>>,
         NEW a \in Nat, NEW b \in Nat, a <= b, InOrder(s, x, a, b)
  PROVE  /\ Own(s, Head(x)) => /\ Head(x).chunk = a + 1 /\ a + 1 <= b
                               /\ InOrder(s, Tail(x), a + 1, b)
         /\ ~ Own(s, Head(x)) => InOrder(s, Tail(x), a, b)
  <1> DEFINE y == Tail(x)
  <1>1. /\ y \in Seq(Event) /\ Head(x) = x[1] /\ 1 \in DOMAIN x
        /\ DOMAIN x \subseteq Nat \ {0} /\ DOMAIN y \subseteq Nat \ {0}
        /\ \A i \in DOMAIN y : i + 1 \in DOMAIN x /\ y[i] = x[i + 1]
        /\ \A i \in DOMAIN x : i # 1 => i - 1 \in DOMAIN y /\ y[i - 1] = x[i]
    OBVIOUS
  <1> HIDE DEF y
  <1>2. /\ Places(s, x) \subseteq Nat \ {0} /\ Places(s, y) \subseteq Nat \ {0}
        /\ \A i \in Places(s, y) : i + 1 \in Places(s, x) /\ y[i] = x[i + 1]
        /\ \A i \in Places(s, x) : i # 1 => /\ i - 1 \in Places(s, y)
                                           /\ y[i - 1] = x[i]
    BY <1>1 DEF Places
  <1>3. 1 \in Places(s, x) <=> Own(s, Head(x))
    BY <1>1 DEF Places
  <1>4. /\ \A i \in Places(s, x) : x[i].chunk \in (a + 1)..b
        /\ \A n \in (a + 1)..b : \E i \in Places(s, x) : x[i].chunk = n
        /\ \A i, j \in Places(s, x) : i < j => x[i].chunk < x[j].chunk
    BY InOrderAt
  <1>5. \A i, j \in Places(s, y) : i < j => y[i].chunk < y[j].chunk
    <2>1. SUFFICES ASSUME NEW i \in Places(s, y), NEW j \in Places(s, y), i < j
                   PROVE  y[i].chunk < y[j].chunk
      OBVIOUS
    <2>2. /\ i + 1 \in Places(s, x) /\ y[i] = x[i + 1]
          /\ j + 1 \in Places(s, x) /\ y[j] = x[j + 1] /\ i + 1 < j + 1
      BY <2>1, <1>2
    <2> QED
      BY <2>2, <1>4
  <1>6. ASSUME Own(s, Head(x))
        PROVE  /\ Head(x).chunk = a + 1 /\ a + 1 <= b
               /\ InOrder(s, y, a + 1, b)
    <2>1. 1 \in Places(s, x) /\ x[1].chunk \in (a + 1)..b
      BY <1>3, <1>4, <1>6
    <2>2. \A i \in Places(s, x) : i # 1 => x[1].chunk < x[i].chunk
      BY <2>1, <1>2, <1>4
    <2>3. x[1].chunk = a + 1
      <3>1. PICK i \in Places(s, x) : x[i].chunk = a + 1
        BY <2>1, <1>4
      <3> QED
        BY <3>1, <2>1, <2>2, <1>4
    <2>4. \A i \in Places(s, y) : y[i].chunk \in (a + 1 + 1)..b
      <3>1. SUFFICES ASSUME NEW i \in Places(s, y)
                     PROVE  y[i].chunk \in (a + 1 + 1)..b
        OBVIOUS
      <3>2. i + 1 \in Places(s, x) /\ i + 1 # 1 /\ y[i] = x[i + 1]
        BY <1>2
      <3> QED
        BY <3>2, <2>2, <2>3, <1>4
    <2>5. \A n \in (a + 1 + 1)..b : \E i \in Places(s, y) : y[i].chunk = n
      <3>1. SUFFICES ASSUME NEW n \in (a + 1 + 1)..b
                     PROVE  \E i \in Places(s, y) : y[i].chunk = n
        OBVIOUS
      <3>2. PICK i \in Places(s, x) : x[i].chunk = n
        BY <1>4
      <3>3. i # 1
        BY <3>2, <2>3
      <3> QED
        BY <3>2, <3>3, <1>2
    <2>6. a + 1 \in Nat
      OBVIOUS
    <2>7. InOrder(s, y, a + 1, b)
      BY <1>1, <1>5, <2>4, <2>5, <2>6, InOrderAt
    <2> QED
      BY <1>1, <2>1, <2>3, <2>7
  <1>7. ASSUME ~ Own(s, Head(x))
        PROVE  InOrder(s, y, a, b)
    <2>1. \A i \in Places(s, x) : i # 1
      BY <1>3, <1>7
    <2>2. \A i \in Places(s, y) : y[i].chunk \in (a + 1)..b
      BY <1>2, <1>4
    <2>3. \A n \in (a + 1)..b : \E i \in Places(s, y) : y[i].chunk = n
      <3>1. SUFFICES ASSUME NEW n \in (a + 1)..b
                     PROVE  \E i \in Places(s, y) : y[i].chunk = n
        OBVIOUS
      <3>2. PICK i \in Places(s, x) : x[i].chunk = n
        BY <1>4
      <3> QED
        BY <3>2, <2>1, <1>2
    <2>4. /\ \A i \in Places(s, y) : y[i].chunk \in (a + 1)..b
          /\ \A n \in (a + 1)..b : \E i \in Places(s, y) : y[i].chunk = n
          /\ \A i, j \in Places(s, y) : i < j => y[i].chunk < y[j].chunk
      BY <1>5, <2>2, <2>3
    <2>5. y \in Seq(Event)
      BY <1>1
    <2> QED
      BY <2>4, <2>5, InOrderAt
  <1> QED
    BY <1>6, <1>7 DEF y

\* One event is a stretch of one chunk, or of none.
LEMMA OneInOrder ==
  ASSUME NEW s \in Streams, NEW e \in Event, NEW a \in Nat, NEW b \in Nat, a <= b
  PROVE  InOrder(s, <<e>>, a, b) <=>
           IF Own(s, e) THEN e.chunk = a + 1 /\ b = a + 1 ELSE a = b
  <1> DEFINE none == <<>>
             one == <<e>>
  <1>1. /\ none \in Seq(Event) /\ one \in Seq(Event) /\ one # <<>>
        /\ Append(none, e) = one /\ Head(one) = e /\ Tail(one) = none
    <2>1. none \in Seq(Event) /\ one \in Seq(Event) /\ one # <<>>
      OBVIOUS
    <2>2. Append(none, e) = one
      BY <2>1, AppendIsConcat
    <2>3. Head(one) = e /\ Tail(one) = none
      BY <2>1, <2>2, HeadTailAppend
    <2> QED
      BY <2>1, <2>2, <2>3
  <1>2. \A c, d \in Nat : c <= d => (InOrder(s, none, c, d) <=> c = d)
    BY EmptyInOrder
  <1> HIDE DEF none, one
  <1>3. InOrder(s, none, a, a)
    BY <1>2
  <1>4. ASSUME InOrder(s, one, a, b), Own(s, e)
        PROVE  e.chunk = a + 1 /\ b = a + 1
    <2>1. Own(s, Head(one)) => /\ Head(one).chunk = a + 1 /\ a + 1 <= b
                              /\ InOrder(s, Tail(one), a + 1, b)
      BY <1>1, <1>4, TakeInOrder
    <2>2. e.chunk = a + 1 /\ a + 1 <= b /\ InOrder(s, none, a + 1, b)
      BY <2>1, <1>1, <1>4
    <2>3. PICK c \in Nat : c = a + 1
      OBVIOUS
    <2>4. c <= b /\ InOrder(s, none, c, b)
      BY <2>2, <2>3
    <2>5. c = b
      BY <2>4, <1>2
    <2> QED
      BY <2>2, <2>3, <2>5
  <1>5. ASSUME InOrder(s, one, a, b), ~ Own(s, e)
        PROVE  a = b
    <2>1. InOrder(s, none, a, b)
      BY <1>1, <1>5, TakeInOrder
    <2> QED
      BY <2>1, <1>2
  <1>6. ASSUME Own(s, e), e.chunk = a + 1
        PROVE  InOrder(s, one, a, a + 1)
    <2>1. a <= a
      OBVIOUS
    <2> QED
      BY <2>1, <1>1, <1>3, <1>6, AppendOwn
  <1>7. ASSUME ~ Own(s, e)
        PROVE  InOrder(s, one, a, a)
    BY <1>1, <1>3, <1>7, AppendOther
  <1>8. InOrder(s, one, a, b) <=>
          IF Own(s, e) THEN e.chunk = a + 1 /\ b = a + 1 ELSE a = b
    BY <1>4, <1>5, <1>6, <1>7
  <1> QED
    BY <1>8 DEF one

-----------------------------------------------------------------------------
(* The recorder. *)

\* Leaving Starting keeps what is had, or gives up.
LEMMA SettleKeeps ==
  ASSUME NEW r \in Recorder, NEW a
  PROVE  /\ Settle(r, a) \in Recorder
         /\ Bounded(Settle(r, a))
         /\ Settle(r, a).state # "starting"
         /\ \A s \in Streams : \A h \in Nat :
              Has(r, s, h) =>
                Settle(r, a).state = "off" \/ Has(Settle(r, a), s, h)
  <1> DEFINE q == Settle(r, a)
  <1>1. /\ r.state \in {"starting", "recording", "off"}
        /\ r.pending \in Seq(Event) /\ r.recorded \in Seq(Event)
    BY DEF Recorder
  <1>2. CASE a = "begun"
    <2>1. q = [state |-> "recording", pending |-> <<>>,
               recorded |-> r.recorded \o r.pending]
      BY <1>2 DEF Settle, Feed, Recorder
    <2>2. r.recorded \o r.pending \in Seq(Event) /\ <<>> \in Seq(Event)
      BY <1>1
    <2>3. q \in Recorder /\ q.pending = <<>> /\ q.state = "recording"
      BY <2>1, <2>2 DEF Recorder
    <2>4. Bounded(q)
      BY <2>3, RunCommandAssumption DEF Bounded
    <2>5. ASSUME NEW s \in Streams, NEW h \in Nat, Has(r, s, h)
          PROVE  Has(q, s, h)
      <3>1. PICK kept \in 0..h : /\ InOrder(s, r.recorded, 0, kept)
                                /\ InOrder(s, r.pending, kept, h)
        BY <2>5 DEF Has
      <3>2. kept \in Nat /\ 0 \in Nat /\ 0 <= kept /\ kept <= h /\ h \in 0..h
        BY <3>1
      <3>3. InOrder(s, r.recorded \o r.pending, 0, h)
        BY <3>1, <3>2, <1>1, JoinInOrder
      <3>4. InOrder(s, <<>>, h, h)
        BY EmptyInOrder
      <3> QED
        BY <2>1, <3>2, <3>3, <3>4 DEF Has
    <2> QED
      BY <2>3, <2>4, <2>5 DEF q
  <1>3. CASE a # "begun"
    <2>1. q = [state |-> "off", pending |-> <<>>, recorded |-> r.recorded]
      BY <1>3 DEF Settle, Recorder
    <2>2. q \in Recorder /\ q.pending = <<>> /\ q.state = "off"
      BY <2>1, <1>1 DEF Recorder
    <2> QED
      BY <2>2, RunCommandAssumption DEF Bounded, q
  <1> QED
    BY <1>2, <1>3

LEMMA PollKeeps ==
  ASSUME NEW r \in Recorder, Bounded(r)
  PROVE  /\ Poll(r) \in Recorder
         /\ Bounded(Poll(r))
         /\ r.state # "starting" => Poll(r) = r
         /\ \A s \in Streams : \A h \in Nat :
              Has(r, s, h) => Poll(r).state = "off" \/ Has(Poll(r), s, h)
  <1>1. CASE Poll(r) = r
    BY <1>1
  <1>2. CASE r.state = "starting" /\ Poll(r) = Settle(r, answer)
    BY <1>2, SettleKeeps
  <1> QED
    BY <1>1, <1>2 DEF Poll

\* One event more: it is had after those before it.
HasAfter(r, s, held, c) == Has(r, s, IF Own(s, c) THEN held + 1 ELSE held)

\* A recorder that has all up to a chunk, and takes the next.
LEMMA HoldKeeps ==
  ASSUME NEW r \in Recorder, Bounded(r), NEW c \in Event,
         r.state = "starting" => Len(r.pending) # PENDING_CHUNKS
  PROVE  /\ Hold(r, c) \in Recorder
         /\ Bounded(Hold(r, c))
         /\ Hold(r, c).state = r.state
         /\ \A s \in Streams : \A h \in Nat :
              /\ Has(r, s, h)
              /\ Own(s, c) => c.chunk = h + 1
              => r.state = "off" \/ HasAfter(Hold(r, c), s, h, c)
  <1> DEFINE q == Hold(r, c)
  <1>1. /\ r.state \in {"starting", "recording", "off"}
        /\ r.pending \in Seq(Event) /\ r.recorded \in Seq(Event)
    BY DEF Recorder
  <1>2. ASSUME NEW s \in Streams, NEW a \in Nat, NEW b \in Nat, a <= b,
               NEW x \in Seq(Event), InOrder(s, x, a, b),
               Own(s, c) => c.chunk = b + 1
        PROVE  InOrder(s, Append(x, c), a, IF Own(s, c) THEN b + 1 ELSE b)
    BY <1>2, AppendOwn, AppendOther
  <1>3. CASE r.state = "starting"
    <2>1. q = [state |-> "starting", pending |-> Append(r.pending, c),
               recorded |-> r.recorded]
      BY <1>3 DEF Hold, Recorder
    <2>2. /\ Append(r.pending, c) \in Seq(Event)
          /\ Len(Append(r.pending, c)) = Len(r.pending) + 1
          /\ Len(r.pending) \in Nat
      BY <1>1
    <2>3. q \in Recorder /\ q.state = r.state
      BY <2>1, <2>2, <1>1, <1>3 DEF Recorder
    <2>4. Bounded(q)
      BY <2>1, <2>2, <1>3, RunCommandAssumption DEF Bounded
    <2>5. ASSUME NEW s \in Streams, NEW h \in Nat, Has(r, s, h),
                 Own(s, c) => c.chunk = h + 1
          PROVE  HasAfter(q, s, h, c)
      <3>1. PICK kept \in 0..h : /\ InOrder(s, r.recorded, 0, kept)
                                /\ InOrder(s, r.pending, kept, h)
        BY <2>5 DEF Has
      <3>2. InOrder(s, Append(r.pending, c), kept, IF Own(s, c) THEN h + 1 ELSE h)
        BY <3>1, <2>5, <1>1, <1>2
      <3>3. kept \in 0..(IF Own(s, c) THEN h + 1 ELSE h)
        BY <3>1
      <3> QED
        BY <2>1, <3>1, <3>2, <3>3 DEF HasAfter, Has
    <2> QED
      BY <2>3, <2>4, <2>5 DEF q
  <1>4. CASE r.state = "recording"
    <2>1. r.pending = <<>> /\ r.recorded \o <<c>> = Append(r.recorded, c)
      BY <1>4, <1>1, AppendIsConcat DEF Bounded
    <2>2. q = [state |-> "recording", pending |-> <<>>,
               recorded |-> Append(r.recorded, c)]
      BY <1>4, <2>1 DEF Hold, Feed, Recorder
    <2>3. Append(r.recorded, c) \in Seq(Event) /\ <<>> \in Seq(Event)
      BY <1>1
    <2>4. q \in Recorder /\ q.state = r.state
      BY <2>2, <2>3, <1>4 DEF Recorder
    <2>5. Bounded(q)
      BY <2>2, RunCommandAssumption DEF Bounded
    <2>6. ASSUME NEW s \in Streams, NEW h \in Nat, Has(r, s, h),
                 Own(s, c) => c.chunk = h + 1
          PROVE  HasAfter(q, s, h, c)
      <3> DEFINE n == IF Own(s, c) THEN h + 1 ELSE h
      <3>1. PICK kept \in 0..h : /\ InOrder(s, r.recorded, 0, kept)
                                /\ InOrder(s, <<>>, kept, h)
        BY <2>6, <2>1 DEF Has
      <3>2. kept = h
        BY <3>1, EmptyInOrder
      <3>3. InOrder(s, Append(r.recorded, c), 0, n)
        BY <3>1, <3>2, <2>6, <1>1, <1>2
      <3>4. n \in Nat /\ n \in 0..n
        OBVIOUS
      <3>5. InOrder(s, <<>>, n, n)
        BY <3>4, EmptyInOrder
      <3> HIDE DEF n
      <3>6. Has(q, s, n)
        BY <2>2, <3>3, <3>4, <3>5 DEF Has
      <3> QED
        BY <3>6 DEF HasAfter, n
    <2> QED
      BY <2>4, <2>5, <2>6 DEF q
  <1>5. CASE r.state = "off"
    BY <1>5 DEF Hold
  <1> QED
    BY <1>1, <1>3, <1>4, <1>5

\* What the recorder had and the chunk it takes, or it gives up.
LEMMA TakeKeeps ==
  ASSUME NEW r \in Recorder, Bounded(r), NEW c \in Event
  PROVE  /\ Take(r, c) \in Recorder
         /\ Bounded(Take(r, c))
         /\ r.state = "off" => Take(r, c) = r
         /\ \A s \in Streams : \A h \in Nat :
              /\ Has(r, s, h)
              /\ Own(s, c) => c.chunk = h + 1
              => Take(r, c).state = "off" \/ HasAfter(Take(r, c), s, h, c)
  <1> DEFINE p == Poll(r)
             outgrown == p.state = "starting" /\ Len(p.pending) = PENDING_CHUNKS
             q == IF outgrown THEN Settle(p, "failed") ELSE p
  <1>1. /\ p \in Recorder /\ Bounded(p)
        /\ r.state # "starting" => p = r
        /\ \A s \in Streams : \A h \in Nat :
             Has(r, s, h) => p.state = "off" \/ Has(p, s, h)
    BY PollKeeps
  <1>2. Take(r, c) = Hold(q, c)
    BY DEF Take
  <1> HIDE DEF p
  <1>3. /\ q \in Recorder /\ Bounded(q)
        /\ q.state = "starting" => Len(q.pending) # PENDING_CHUNKS
        /\ r.state = "off" => q = r
        /\ \A s \in Streams : \A h \in Nat :
             Has(r, s, h) => q.state = "off" \/ Has(q, s, h)
    <2>1. CASE outgrown
      <3>1. /\ q \in Recorder /\ Bounded(q) /\ q.state # "starting"
            /\ \A s \in Streams : \A h \in Nat :
                 Has(p, s, h) => q.state = "off" \/ Has(q, s, h)
        BY <2>1, <1>1, SettleKeeps
      <3>2. p.state = "starting" /\ r.state # "off"
        BY <2>1, <1>1
      <3> QED
        BY <3>1, <3>2, <1>1
    <2>2. CASE ~ outgrown
      BY <2>2, <1>1
    <2> QED
      BY <2>1, <2>2
  <1> HIDE DEF q
  <1>4. /\ Hold(q, c) \in Recorder
        /\ Bounded(Hold(q, c))
        /\ Hold(q, c).state = q.state
        /\ \A s \in Streams : \A h \in Nat :
             /\ Has(q, s, h)
             /\ Own(s, c) => c.chunk = h + 1
             => q.state = "off" \/ HasAfter(Hold(q, c), s, h, c)
    BY <1>3, HoldKeeps
  <1>5. r.state = "off" => Hold(q, c) = r
    BY <1>3 DEF Hold
  <1> QED
    BY <1>2, <1>3, <1>4, <1>5

-----------------------------------------------------------------------------
(* The way of a chunk: each step moves one, or what is not the command's. *)

LEMMA InPipe ==
  ASSUME NEW s \in Streams, NEW r, NEW c, NEW h, NEW p \in Seq(Event), NEW w \in Nat,
         Along(s, r, c, h, p, w), NEW e \in Event
  PROVE  /\ Own(s, e) /\ e.chunk = w + 1 => Along(s, r, c, h, Append(p, e), w + 1)
         /\ ~ Own(s, e) => Along(s, r, c, h, Append(p, e), w)
  <1>1. PICK held, queued, read \in 0..w :
          /\ held <= queued /\ queued <= read
          /\ Has(r, s, held)
          /\ InOrder(s, c, held, queued)
          /\ InOrder(s, h, queued, read)
          /\ InOrder(s, p, read, w)
    BY DEF Along
  <1>2. /\ held \in 0..(w + 1) /\ queued \in 0..(w + 1) /\ read \in 0..(w + 1)
        /\ read \in Nat /\ read <= w
    OBVIOUS
  <1>3. ASSUME Own(s, e), e.chunk = w + 1
        PROVE  Along(s, r, c, h, Append(p, e), w + 1)
    <2>1. InOrder(s, Append(p, e), read, w + 1)
      BY <1>1, <1>2, <1>3, AppendOwn
    <2> QED
      BY <1>1, <1>2, <2>1 DEF Along
  <1>4. ASSUME ~ Own(s, e)
        PROVE  Along(s, r, c, h, Append(p, e), w)
    <2>1. InOrder(s, Append(p, e), read, w)
      BY <1>1, <1>2, <1>4, AppendOther
    <2> QED
      BY <1>1, <2>1 DEF Along
  <1> QED
    BY <1>3, <1>4

LEMMA FromPipe ==
  ASSUME NEW s \in Streams, NEW r, NEW c, NEW p \in Seq(Event), NEW w \in Nat,
         Along(s, r, c, <<>>, p, w), p # <<>>, Head(p) \in Event
  PROVE  Along(s, r, c, <<Head(p)>>, Tail(p), w)
  <1> DEFINE e == Head(p)
  <1>1. PICK held, queued, read \in 0..w :
          /\ held <= queued /\ queued <= read
          /\ Has(r, s, held)
          /\ InOrder(s, c, held, queued)
          /\ InOrder(s, <<>>, queued, read)
          /\ InOrder(s, p, read, w)
    BY DEF Along
  <1>2. /\ read \in Nat /\ queued \in Nat /\ read <= w
        /\ read <= read
    OBVIOUS
  <1>3. queued = read
    BY <1>1, <1>2, EmptyInOrder
  <1> HIDE DEF e
  <1>4. ASSUME Own(s, e)
        PROVE  Along(s, r, c, <<e>>, Tail(p), w)
    <2>1. /\ e.chunk = read + 1 /\ read + 1 <= w
          /\ InOrder(s, Tail(p), read + 1, w)
      BY <1>1, <1>2, <1>4, TakeInOrder DEF e
    <2>2. PICK n \in Nat : n = read + 1
      BY <1>2
    <2>3. InOrder(s, <<e>>, read, n)
      BY <1>2, <1>4, <2>1, <2>2, OneInOrder DEF e
    <2>4. n \in 0..w /\ queued <= n
      BY <1>2, <1>3, <2>1, <2>2
    <2>5. InOrder(s, Tail(p), n, w)
      BY <2>1, <2>2
    <2> QED
      BY <1>1, <1>3, <2>3, <2>4, <2>5 DEF Along
  <1>5. ASSUME ~ Own(s, e)
        PROVE  Along(s, r, c, <<e>>, Tail(p), w)
    <2>1. InOrder(s, Tail(p), read, w)
      BY <1>1, <1>2, <1>5, TakeInOrder DEF e
    <2>2. InOrder(s, <<e>>, read, read)
      BY <1>2, <1>5, OneInOrder DEF e
    <2> QED
      BY <1>1, <1>3, <2>1, <2>2 DEF Along
  <1> QED
    BY <1>4, <1>5 DEF e

LEMMA IntoQueue ==
  ASSUME NEW s \in Streams, NEW r, NEW c \in Seq(Event), NEW e \in Event, NEW p,
         NEW w \in Nat, Along(s, r, c, <<e>>, p, w)
  PROVE  Along(s, r, Append(c, e), <<>>, p, w)
  <1>1. PICK held, queued, read \in 0..w :
          /\ held <= queued /\ queued <= read
          /\ Has(r, s, held)
          /\ InOrder(s, c, held, queued)
          /\ InOrder(s, <<e>>, queued, read)
          /\ InOrder(s, p, read, w)
    BY DEF Along
  <1>2. /\ held \in Nat /\ read \in Nat /\ queued \in Nat
        /\ held <= read /\ read <= read
    BY <1>1
  <1>3. IF Own(s, e) THEN e.chunk = queued + 1 /\ read = queued + 1
        ELSE queued = read
    BY <1>1, <1>2, OneInOrder
  <1>4. InOrder(s, Append(c, e), held, read)
    <2>1. CASE Own(s, e)
      <3>1. InOrder(s, Append(c, e), held, queued + 1)
        BY <1>1, <1>2, <1>3, <2>1, AppendOwn
      <3> QED
        BY <3>1, <1>3, <2>1
    <2>2. CASE ~ Own(s, e)
      <3>1. InOrder(s, Append(c, e), held, queued)
        BY <1>1, <1>2, <2>2, AppendOther
      <3> QED
        BY <3>1, <1>3, <2>2
    <2> QED
      BY <2>1, <2>2
  <1>5. InOrder(s, <<>>, read, read)
    BY <1>2, EmptyInOrder
  <1> QED
    BY <1>1, <1>2, <1>4, <1>5 DEF Along

LEMMA BesideInQueue ==
  ASSUME NEW s \in Streams, NEW r, NEW c \in Seq(Event), NEW e \in Event,
         NEW h, NEW p, NEW w \in Nat, Along(s, r, c, h, p, w), ~ Own(s, e)
  PROVE  Along(s, r, Append(c, e), h, p, w)
  <1>1. PICK held, queued, read \in 0..w :
          /\ held <= queued /\ queued <= read
          /\ Has(r, s, held)
          /\ InOrder(s, c, held, queued)
          /\ InOrder(s, h, queued, read)
          /\ InOrder(s, p, read, w)
    BY DEF Along
  <1>2. InOrder(s, Append(c, e), held, queued)
    BY <1>1, AppendOther
  <1> QED
    BY <1>1, <1>2 DEF Along

\* The recorder changes, and has what it had.
LEMMA KeptAlong ==
  ASSUME NEW s \in Streams, NEW r, NEW q, NEW c, NEW h, NEW p, NEW w \in Nat,
         Along(s, r, c, h, p, w),
         \A n \in Nat : Has(r, s, n) => Has(q, s, n)
  PROVE  Along(s, q, c, h, p, w)
  <1>1. PICK held, queued, read \in 0..w :
          /\ held <= queued /\ queued <= read
          /\ Has(r, s, held)
          /\ InOrder(s, c, held, queued)
          /\ InOrder(s, h, queued, read)
          /\ InOrder(s, p, read, w)
    BY DEF Along
  <1>2. Has(q, s, held)
    BY <1>1
  <1> QED
    BY <1>1, <1>2 DEF Along

\* The next event of the queue leaves it, and the recorder has it if it is one
\* of the command's chunks.
LEMMA FromQueue ==
  ASSUME NEW s \in Streams, NEW r, NEW q, NEW c \in Seq(Event), c # <<>>,
         NEW h, NEW p, NEW w \in Nat, Along(s, r, c, h, p, w),
         \A n \in Nat :
           /\ Has(r, s, n)
           /\ Own(s, Head(c)) => Head(c).chunk = n + 1
           => HasAfter(q, s, n, Head(c))
  PROVE  Along(s, q, Tail(c), h, p, w)
  <1>1. PICK held, queued, read \in 0..w :
          /\ held <= queued /\ queued <= read
          /\ Has(r, s, held)
          /\ InOrder(s, c, held, queued)
          /\ InOrder(s, h, queued, read)
          /\ InOrder(s, p, read, w)
    BY DEF Along
  <1>2. held \in Nat /\ queued \in Nat
    OBVIOUS
  <1>3. CASE Own(s, Head(c))
    <2>1. /\ Head(c).chunk = held + 1 /\ held + 1 <= queued
          /\ InOrder(s, Tail(c), held + 1, queued)
      BY <1>1, <1>2, <1>3, TakeInOrder
    <2>2. Has(q, s, held + 1)
      BY <1>1, <1>2, <1>3, <2>1 DEF HasAfter
    <2>3. PICK n \in Nat : n = held + 1
      BY <1>2
    <2>4. n \in 0..w /\ n <= queued /\ Has(q, s, n) /\ InOrder(s, Tail(c), n, queued)
      BY <2>1, <2>2, <2>3
    <2> QED
      BY <1>1, <2>4 DEF Along
  <1>4. CASE ~ Own(s, Head(c))
    <2>1. InOrder(s, Tail(c), held, queued)
      BY <1>1, <1>2, <1>4, TakeInOrder
    <2>2. Has(q, s, held)
      BY <1>1, <1>2, <1>4 DEF HasAfter
    <2> QED
      BY <1>1, <2>1, <2>2 DEF Along
  <1> QED
    BY <1>3, <1>4

-----------------------------------------------------------------------------
(* Each step keeps the invariant, part by part. *)

\* The steps, one by one.
LEMMA Steps ==
  ASSUME [Next]_vars
  PROVE  \/ \E s \in Streams :
              \/ CommandWrites(s) \/ BackgroundWrites(s) \/ Read(s)
              \/ EndOfInput(s) \/ PassThrough(s) \/ QueueChunk(s)
              \/ QueueReaderGone(s)
         \/ CommandExits \/ BackgroundEnds \/ QueueExited \/ BeginRun
         \/ \E a \in {"begun", "failed"} : Answer(a)
         \/ Receive \/ ReceiveTimesOut \/ ReceiveDisconnected \/ Drain
         \/ IntoRecording \/ End \/ DeadlinePasses \/ GracePasses \/ Interrupt
         \/ HandleSignal \/ UNCHANGED vars
  BY DEF Next, Relay, Beginner, Main, Exit

\* What carries the output.
carried == <<wrote, pipe, relay, hand, chan, recorder>>

\* The steps that carry no output.
LEMMA StillSteps ==
  ASSUME \/ CommandExits \/ BackgroundEnds \/ BeginRun
         \/ \E a \in {"begun", "failed"} : Answer(a)
         \/ ReceiveDisconnected \/ Drain \/ End \/ DeadlinePasses \/ GracePasses
         \/ Interrupt \/ HandleSignal \/ UNCHANGED vars
  PROVE  UNCHANGED carried
  BY DEF CommandExits, BackgroundEnds, BeginRun, Answer, ReceiveDisconnected,
         Drain, End, DeadlinePasses, GracePasses, Interrupt, HandleSignal, vars,
         carried, world, relays, begins, loop

LEMMA ChunkTyped ==
  ASSUME NEW s \in Streams, NEW n \in Nat
  PROVE  Chunk(s, n) \in ChunksOf(s) /\ Chunk(s, n) \in Event
  BY DEF Chunk, ChunksOf, Event

\* What a step makes of the recorder: it polls, or takes the next event.
LEMMA RecorderSteps ==
  ASSUME [Next]_vars
  PROVE  \/ recorder' = recorder
         \/ recorder' = Poll(recorder) /\ UNCHANGED <<wrote, pipe, relay, hand, chan>>
         \/ /\ chan # <<>> /\ chan' = Tail(chan)
            /\ UNCHANGED <<wrote, pipe, relay, hand>>
            /\ \/ /\ Head(chan).event = "Chunk"
                  /\ recorder' = Poll(Take(recorder, Head(chan)))
               \/ /\ Head(chan) \in {ReaderGone, Exited}
                  /\ recorder' = Poll(recorder)
  <1>1. ASSUME NEW s \in Streams,
               \/ CommandWrites(s) \/ BackgroundWrites(s) \/ Read(s)
               \/ EndOfInput(s) \/ PassThrough(s) \/ QueueChunk(s)
               \/ QueueReaderGone(s)
        PROVE  recorder' = recorder
    BY <1>1 DEF CommandWrites, BackgroundWrites, Read, EndOfInput, PassThrough,
                QueueChunk, QueueReaderGone
  <1>2. ASSUME \/ CommandExits \/ BackgroundEnds \/ BeginRun
               \/ \E a \in {"begun", "failed"} : Answer(a)
               \/ ReceiveDisconnected \/ Drain \/ End \/ DeadlinePasses
               \/ GracePasses \/ Interrupt \/ HandleSignal \/ UNCHANGED vars
        PROVE  recorder' = recorder
    BY <1>2, StillSteps DEF carried
  <1>3. QueueExited => recorder' = recorder
    BY DEF QueueExited
  <1>4. ReceiveTimesOut \/ IntoRecording =>
          recorder' = Poll(recorder) /\ UNCHANGED <<wrote, pipe, relay, hand, chan>>
    BY DEF ReceiveTimesOut, IntoRecording, world, relays
  <1>5. Receive =>
          /\ chan # <<>> /\ chan' = Tail(chan)
          /\ UNCHANGED <<wrote, pipe, relay, hand>>
          /\ \/ /\ Head(chan).event = "Chunk"
                /\ recorder' = Poll(Take(recorder, Head(chan)))
             \/ /\ Head(chan) \in {ReaderGone, Exited}
                /\ recorder' = Poll(recorder)
    BY DEF Receive, world, relays
  <1> QED
    BY <1>1, <1>2, <1>3, <1>4, <1>5, Steps

LEMMA RecorderBounded ==
  ASSUME TypeOK, Bounded(recorder), [Next]_vars
  PROVE  recorder' \in Recorder /\ Bounded(recorder')
  <1>1. recorder \in Recorder /\ chan \in Seq(Event)
    BY DEF TypeOK
  <1>2. CASE recorder' = recorder
    BY <1>1, <1>2
  <1>3. CASE recorder' = Poll(recorder)
    BY <1>1, <1>3, PollKeeps
  <1>4. CASE chan # <<>> /\ recorder' = Poll(Take(recorder, Head(chan)))
    <2>1. Head(chan) \in Event
      BY <1>1, <1>4
    <2>2. /\ Take(recorder, Head(chan)) \in Recorder
          /\ Bounded(Take(recorder, Head(chan)))
      BY <1>1, <2>1, TakeKeeps
    <2> QED
      BY <1>4, <2>2, PollKeeps
  <1> QED
    BY <1>2, <1>3, <1>4, RecorderSteps

\* The queue takes no more than it has room for, and holds events only.
LEMMA QueueTyped ==
  ASSUME TypeOK, [Next]_vars
  PROVE  /\ chan' \in Seq(Event)
         /\ Len(chan) <= QUEUED_CHUNKS => Len(chan') <= QUEUED_CHUNKS
  <1>1. /\ chan \in Seq(Event) /\ hand \in [Streams -> Event]
        /\ ReaderGone \in Event /\ Exited \in Event
    BY DEF TypeOK, Event
  <1>2. ASSUME NEW e \in Event, Send(e)
        PROVE  /\ chan' \in Seq(Event)
               /\ Len(chan) <= QUEUED_CHUNKS => Len(chan') <= QUEUED_CHUNKS
    <2>1. /\ Append(chan, e) \in Seq(Event)
          /\ Len(Append(chan, e)) = Len(chan) + 1 /\ Len(chan) \in Nat
      BY <1>1
    <2> QED
      BY <1>2, <2>1, RunCommandAssumption DEF Send
  <1>3. ASSUME NEW s \in Streams, QueueChunk(s) \/ QueueReaderGone(s)
        PROVE  \E e \in Event : Send(e)
    BY <1>1, <1>3 DEF QueueChunk, QueueReaderGone
  <1>4. QueueExited => \E e \in Event : Send(e)
    BY <1>1 DEF QueueExited
  <1>5. chan # <<>> /\ chan' = Tail(chan) =>
          chan' \in Seq(Event) /\ (Len(chan) <= QUEUED_CHUNKS => Len(chan') <= QUEUED_CHUNKS)
    <2>1. chan # <<>> => /\ Tail(chan) \in Seq(Event) /\ Len(Tail(chan)) = Len(chan) - 1
                         /\ Len(chan) \in Nat
      BY <1>1
    <2> QED
      BY <2>1, RunCommandAssumption
  <1>6. Receive => chan # <<>> /\ chan' = Tail(chan)
    BY DEF Receive
  <1>7. ASSUME NEW s \in Streams,
               \/ CommandWrites(s) \/ BackgroundWrites(s) \/ Read(s)
               \/ EndOfInput(s) \/ PassThrough(s)
        PROVE  chan' = chan
    BY <1>7 DEF CommandWrites, BackgroundWrites, Read, EndOfInput, PassThrough
  <1>8. ReceiveTimesOut \/ IntoRecording => chan' = chan
    BY DEF ReceiveTimesOut, IntoRecording
  <1>9. UNCHANGED carried => chan' = chan
    BY DEF carried
  <1> QED
    BY <1>1, <1>2, <1>3, <1>4, <1>5, <1>6, <1>7, <1>8, <1>9, Steps, StillSteps

\* A stream's pipe and its relay hold chunks of that stream.
StreamsTyped ==
  /\ wrote \in [Streams -> Nat]
  /\ pipe \in [Streams -> Seq(Event)]
  /\ \A s \in Streams : pipe[s] \in Seq(ChunksOf(s))
  /\ relay \in [Streams -> {"reading", "passing", "queueing", "queueing last",
                            "leaving", "ended"}]
  /\ hand \in [Streams -> Event]
  /\ \A s \in Streams : hand[s] \in ChunksOf(s)

LEMMA FillTyped ==
  ASSUME StreamsTyped, NEW s \in Streams, NEW n \in Nat, Fill(s, n)
  PROVE  /\ pipe' \in [Streams -> Seq(Event)]
         /\ \A t \in Streams : pipe'[t] \in Seq(ChunksOf(t))
  <1> DEFINE e == Chunk(s, n)
  <1>1. e \in ChunksOf(s) /\ e \in Event
    BY ChunkTyped
  <1> HIDE DEF e
  <1>2. pipe' = [pipe EXCEPT ![s] = Append(pipe[s], e)]
    BY DEF Fill, e
  <1>3. /\ pipe[s] \in Seq(Event) /\ Append(pipe[s], e) \in Seq(Event)
        /\ Append(pipe[s], e) \in Seq(ChunksOf(s))
    <2>1. pipe[s] \in Seq(Event) /\ pipe[s] \in Seq(ChunksOf(s))
      BY DEF StreamsTyped
    <2> QED
      BY <1>1, <2>1, AppendProperties
  <1> QED
    BY <1>2, <1>3 DEF StreamsTyped

LEMMA StreamSteps ==
  ASSUME StreamsTyped, [Next]_vars
  PROVE  StreamsTyped'
  <1>1. ASSUME NEW s \in Streams, CommandWrites(s)
        PROVE  StreamsTyped'
    <2>1. wrote[s] + 1 \in Nat /\ Fill(s, wrote[s] + 1)
      <3>1. wrote[s] \in Nat
        BY DEF StreamsTyped
      <3> QED
        BY <1>1, <3>1 DEF CommandWrites
    <2>2. wrote' \in [Streams -> Nat] /\ UNCHANGED <<relay, hand>>
      BY <1>1, <2>1 DEF CommandWrites, StreamsTyped, relays
    <2> QED
      BY <2>1, <2>2, FillTyped DEF StreamsTyped
  <1>2. ASSUME NEW s \in Streams, BackgroundWrites(s)
        PROVE  StreamsTyped'
    <2>1. Noise \in Nat /\ Fill(s, Noise) /\ UNCHANGED <<wrote, relay, hand>>
      BY <1>2 DEF BackgroundWrites, relays, Noise
    <2> QED
      BY <2>1, FillTyped DEF StreamsTyped
  <1>3. ASSUME NEW s \in Streams, Read(s)
        PROVE  StreamsTyped'
    <2> DEFINE e == Head(pipe[s])
               rest == Tail(pipe[s])
    <2>1. /\ pipe[s] # <<>> /\ pipe[s] \in Seq(Event) /\ pipe[s] \in Seq(ChunksOf(s))
          /\ hand' = [hand EXCEPT ![s] = e]
          /\ pipe' = [pipe EXCEPT ![s] = rest]
          /\ relay' = [relay EXCEPT ![s] = "passing"]
          /\ wrote' = wrote
      BY <1>3 DEF Read, StreamsTyped, world
    <2>2. /\ e \in Event /\ e \in ChunksOf(s)
          /\ rest \in Seq(Event) /\ rest \in Seq(ChunksOf(s))
      BY <2>1
    <2> HIDE DEF e, rest
    <2> QED
      BY <2>1, <2>2 DEF StreamsTyped
  <1>4. ASSUME NEW s \in Streams,
               EndOfInput(s) \/ PassThrough(s) \/ QueueChunk(s) \/ QueueReaderGone(s)
        PROVE  StreamsTyped'
    <2>1. UNCHANGED <<wrote, pipe, hand>>
      BY <1>4 DEF EndOfInput, PassThrough, QueueChunk, QueueReaderGone, world
    <2>2. \E next \in {"reading", "queueing", "queueing last", "leaving", "ended"} :
            relay' = [relay EXCEPT ![s] = next]
      BY <1>4 DEF EndOfInput, PassThrough, QueueChunk, QueueReaderGone
    <2> QED
      BY <2>1, <2>2 DEF StreamsTyped
  <1>5. ASSUME QueueExited \/ Receive \/ ReceiveTimesOut \/ IntoRecording \/ UNCHANGED carried
        PROVE  StreamsTyped'
    <2>1. UNCHANGED <<wrote, pipe, hand, relay>>
      BY <1>5 DEF QueueExited, Receive, ReceiveTimesOut, IntoRecording, carried,
                  world, relays
    <2> QED
      BY <2>1 DEF StreamsTyped
  <1> QED
    BY <1>1, <1>2, <1>3, <1>4, <1>5, Steps, StillSteps

\* Each variable keeps its type.
LEMMA Typed ==
  ASSUME TypeOK, Bounded(recorder), [Next]_vars
  PROVE  TypeOK'
  <1>1. StreamsTyped
    BY DEF TypeOK, StreamsTyped
  <1>2. StreamsTyped'
    BY <1>1, StreamSteps
  <1> QED
    BY <1>2, QueueTyped, RecorderBounded DEF TypeOK, StreamsTyped

\* A chunk of another stream is not this one's.
LEMMA NotOwn ==
  ASSUME NEW s \in Streams, NEW t \in Streams, s # t, NEW e \in ChunksOf(t)
  PROVE  ~ Own(s, e)
  BY DEF Own, ChunksOf

\* Unless siftr gives up, a step leaves each stream's chunks where the next
\* reader of them finds them in order.
LEMMA Flowing ==
  ASSUME TypeOK, Bounded(recorder), NEW t \in Streams,
         recorder.state # "off" => Flow(t), recorder'.state # "off", [Next]_vars
  PROVE  Flow(t)'
  <1>1. /\ recorder \in Recorder /\ chan \in Seq(Event)
        /\ wrote \in [Streams -> Nat] /\ pipe \in [Streams -> Seq(Event)]
        /\ relay \in [Streams -> {"reading", "passing", "queueing",
                                 "queueing last", "leaving", "ended"}]
        /\ hand \in [Streams -> Event]
        /\ wrote[t] \in Nat /\ pipe[t] \in Seq(Event) /\ hand[t] \in Event
        /\ \A s \in Streams : hand[s] \in ChunksOf(s)
        /\ pipe[t] \in Seq(ChunksOf(t))
    BY DEF TypeOK
  <1>2. recorder' = recorder => Flow(t)
    OBVIOUS
  <1>3. ASSUME NEW s \in Streams, s # t,
               \/ CommandWrites(s) \/ BackgroundWrites(s) \/ Read(s)
               \/ EndOfInput(s) \/ PassThrough(s)
        PROVE  Flow(t)'
    <2>1. /\ wrote'[t] = wrote[t] /\ pipe'[t] = pipe[t] /\ relay'[t] = relay[t]
          /\ hand'[t] = hand[t] /\ chan' = chan /\ recorder' = recorder
      BY <1>1, <1>3 DEF CommandWrites, BackgroundWrites, Read, EndOfInput,
                        PassThrough, Fill, relays, world
    <2>2. InHand(t)' = InHand(t)
      BY <2>1 DEF InHand
    <2> QED
      BY <2>1, <2>2, <1>2 DEF Flow
  <1>4. CASE CommandWrites(t)
    <2> DEFINE e == Chunk(t, wrote[t] + 1)
    <2>1. /\ pipe'[t] = Append(pipe[t], e) /\ wrote'[t] = wrote[t] + 1
          /\ relay' = relay /\ hand' = hand /\ chan' = chan /\ recorder' = recorder
      BY <1>1, <1>4 DEF CommandWrites, Fill, relays
    <2>2. InHand(t)' = InHand(t)
      BY <2>1 DEF InHand
    <2>3. e \in Event /\ Own(t, e) /\ e.chunk = wrote[t] + 1
      <3> DEFINE n == wrote[t]
      <3>1. n + 1 \in Nat /\ n + 1 # 0
        <4>1. n \in Nat
          BY <1>1
        <4> HIDE DEF n
        <4> QED
          BY <4>1
      <3>2. e \in Event
        BY <3>1, ChunkTyped
      <3>3. e.event = "Chunk" /\ e.stream = t /\ e.chunk = wrote[t] + 1
        BY DEF Chunk
      <3> QED
        BY <3>1, <3>2, <3>3 DEF Own, Noise
    <2> HIDE DEF e
    <2>4. Along(t, recorder, chan, InHand(t), Append(pipe[t], e), wrote[t] + 1)
      BY <2>1, <2>3, <1>1, <1>2, InPipe DEF Flow
    <2> QED
      BY <2>1, <2>2, <2>4 DEF Flow
  <1>5. CASE BackgroundWrites(t)
    <2> DEFINE e == Chunk(t, Noise)
    <2>1. /\ pipe'[t] = Append(pipe[t], e) /\ wrote' = wrote
          /\ relay' = relay /\ hand' = hand /\ chan' = chan /\ recorder' = recorder
      BY <1>1, <1>5 DEF BackgroundWrites, Fill, relays
    <2>2. InHand(t)' = InHand(t)
      BY <2>1 DEF InHand
    <2>3. e \in Event /\ ~ Own(t, e)
      BY ChunkTyped DEF Own, Chunk, Noise
    <2> HIDE DEF e
    <2>4. Along(t, recorder, chan, InHand(t), Append(pipe[t], e), wrote[t])
      BY <2>1, <2>3, <1>1, <1>2, InPipe DEF Flow
    <2> QED
      BY <2>1, <2>2, <2>4 DEF Flow
  <1>6. CASE Read(t)
    <2> DEFINE e == Head(pipe[t])
    <2>1. /\ pipe[t] # <<>> /\ pipe'[t] = Tail(pipe[t]) /\ hand'[t] = e
          /\ relay[t] = "reading" /\ relay'[t] = "passing"
          /\ wrote' = wrote /\ chan' = chan /\ recorder' = recorder
      BY <1>1, <1>6 DEF Read, world
    <2>2. InHand(t) = <<>> /\ InHand(t)' = <<e>>
      BY <2>1 DEF InHand
    <2>3. e \in Event
      BY <2>1, <1>1, HeadTailProperties
    <2>4. Along(t, recorder, chan, <<e>>, Tail(pipe[t]), wrote[t])
      BY <2>1, <2>2, <2>3, <1>1, <1>2, FromPipe DEF Flow
    <2> HIDE DEF e
    <2> QED
      BY <2>1, <2>2, <2>4 DEF Flow
  <1>7. CASE EndOfInput(t) \/ PassThrough(t)
    <2>1. UNCHANGED <<wrote, pipe, hand, chan, recorder>>
      BY <1>7 DEF EndOfInput, PassThrough, world
    <2>2. InHand(t)' = InHand(t)
      BY <1>1, <1>7 DEF EndOfInput, PassThrough, InHand
    <2> QED
      BY <2>1, <2>2, <1>2 DEF Flow
  <1>8. ASSUME NEW s \in Streams, QueueChunk(s)
        PROVE  Flow(t)'
    <2>1. /\ chan' = Append(chan, hand[s]) /\ UNCHANGED <<wrote, pipe, hand, recorder>>
          /\ relay[s] \in {"queueing", "queueing last"}
          /\ relay' = [relay EXCEPT ![s] = IF @ = "queueing" THEN "reading" ELSE "leaving"]
      BY <1>8 DEF QueueChunk, Send, world
    <2>2. CASE s = t
      <3>1. InHand(t) = <<hand[t]>> /\ InHand(t)' = <<>>
        BY <1>1, <2>1, <2>2 DEF InHand
      <3>2. Along(t, recorder, Append(chan, hand[t]), <<>>, pipe[t], wrote[t])
        BY <1>1, <1>2, <2>1, <3>1, IntoQueue DEF Flow
      <3> QED
        BY <2>1, <2>2, <3>1, <3>2 DEF Flow
    <2>3. CASE s # t
      <3>1. InHand(t)' = InHand(t)
        BY <1>1, <2>1, <2>3 DEF InHand
      <3>2. hand[s] \in Event /\ hand[s] \in ChunksOf(s)
        BY <1>1
      <3>3. ~ Own(t, hand[s])
        BY <2>3, <3>2, NotOwn
      <3>4. Along(t, recorder, Append(chan, hand[s]), InHand(t), pipe[t], wrote[t])
        BY <1>1, <1>2, <2>1, <3>2, <3>3, BesideInQueue DEF Flow
      <3> QED
        BY <2>1, <3>1, <3>4 DEF Flow
    <2> QED
      BY <2>2, <2>3
  <1>9. ASSUME \/ QueueExited
               \/ \E s \in Streams : QueueReaderGone(s)
        PROVE  Flow(t)'
    <2>1. PICK e \in {ReaderGone, Exited} : chan' = Append(chan, e)
      BY <1>9 DEF QueueExited, QueueReaderGone, Send
    <2>2. UNCHANGED <<wrote, pipe, hand, recorder>>
      BY <1>9 DEF QueueExited, QueueReaderGone, world, relays
    <2>3. InHand(t)' = InHand(t)
      BY <1>1, <1>9 DEF QueueExited, QueueReaderGone, InHand, relays
    <2>4. e \in Event /\ ~ Own(t, e)
      BY DEF Event, Own, ReaderGone, Exited
    <2>5. Along(t, recorder, Append(chan, e), InHand(t), pipe[t], wrote[t])
      BY <1>1, <1>2, <2>2, <2>4, BesideInQueue DEF Flow
    <2> QED
      BY <2>1, <2>2, <2>3, <2>5 DEF Flow
  <1>10. UNCHANGED carried => Flow(t)'
    <2>1. UNCHANGED carried => InHand(t)' = InHand(t) /\ recorder' = recorder
      BY DEF carried, InHand
    <2> QED
      BY <2>1, <1>2 DEF carried, Flow
  <1>11. CASE ReceiveTimesOut \/ IntoRecording
    <2>1. /\ recorder' = Poll(recorder)
          /\ UNCHANGED <<wrote, pipe, relay, hand, chan>>
      BY <1>11 DEF ReceiveTimesOut, IntoRecording, world, relays
    <2>2. InHand(t)' = InHand(t)
      BY <2>1 DEF InHand
    <2>3. /\ recorder.state # "off"
          /\ \A n \in Nat : Has(recorder, t, n) => Has(recorder', t, n)
      BY <1>1, <2>1, PollKeeps
    <2>4. Along(t, recorder', chan, InHand(t), pipe[t], wrote[t])
      BY <1>1, <2>3, KeptAlong DEF Flow
    <2> QED
      BY <2>1, <2>2, <2>4 DEF Flow
  <1>12. CASE Receive
    <2> DEFINE e == Head(chan)
    <2>1. /\ chan # <<>> /\ chan' = Tail(chan)
          /\ UNCHANGED <<wrote, pipe, relay, hand>>
          /\ \/ recorder' = Poll(Take(recorder, e))
             \/ e \in {ReaderGone, Exited} /\ recorder' = Poll(recorder)
      BY <1>12 DEF Receive, world, relays
    <2>2. e \in Event
      BY <1>1, <2>1, HeadTailProperties
    <2>3. InHand(t)' = InHand(t)
      BY <2>1 DEF InHand
    <2>4. /\ recorder.state # "off"
          /\ \A n \in Nat :
               /\ Has(recorder, t, n)
               /\ Own(t, e) => e.chunk = n + 1
               => HasAfter(recorder', t, n, e)
      <3>1. CASE recorder' = Poll(Take(recorder, e))
        <4> DEFINE q == Take(recorder, e)
        <4>1. /\ q \in Recorder /\ Bounded(q)
              /\ recorder.state = "off" => q = recorder
              /\ \A n \in Nat :
                   /\ Has(recorder, t, n)
                   /\ Own(t, e) => e.chunk = n + 1
                   => q.state = "off" \/ HasAfter(q, t, n, e)
          BY <1>1, <2>2, TakeKeeps
        <4> HIDE DEF q
        <4>2. /\ q.state # "starting" => Poll(q) = q
              /\ \A n \in Nat : Has(q, t, n) => Has(Poll(q), t, n)
          BY <4>1, <3>1, PollKeeps DEF q
        <4>3. q.state # "off" /\ recorder.state # "off"
          BY <4>1, <4>2, <3>1 DEF q
        <4>4. ASSUME NEW n \in Nat, Has(recorder, t, n), Own(t, e) => e.chunk = n + 1
              PROVE  HasAfter(Poll(q), t, n, e)
          <5>1. HasAfter(q, t, n, e)
            BY <4>1, <4>3, <4>4
          <5> QED
            BY <5>1, <4>2 DEF HasAfter
        <4> QED
          BY <3>1, <4>3, <4>4 DEF q
      <3>2. CASE e \in {ReaderGone, Exited} /\ recorder' = Poll(recorder)
        <4>1. ~ Own(t, e)
          BY <3>2 DEF Own, ReaderGone, Exited
        <4>2. /\ recorder.state # "off"
              /\ \A n \in Nat : Has(recorder, t, n) => Has(recorder', t, n)
          BY <1>1, <3>2, PollKeeps
        <4> QED
          BY <4>1, <4>2 DEF HasAfter
      <3> QED
        BY <2>1, <3>1, <3>2
    <2>5. Along(t, recorder', Tail(chan), InHand(t), pipe[t], wrote[t])
      BY <1>1, <2>1, <2>4, FromQueue DEF Flow
    <2> QED
      BY <2>1, <2>3, <2>5 DEF Flow
  <1> QED
    BY <1>3, <1>4, <1>5, <1>6, <1>7, <1>8, <1>9, <1>10, <1>11, <1>12, Steps,
       StillSteps

-----------------------------------------------------------------------------
(* How siftr stops. *)

\* That its reader went away is not forgotten.
LEMMA StillTold ==
  ASSUME TypeOK, Told, [Next]_vars
  PROVE  Told'
  <1>1. chan \in Seq(Event)
    BY DEF TypeOK
  <1>2. CASE readerGone
    <2>1. readerGone' = readerGone \/ readerGone'
      <3>1. Receive => readerGone' = readerGone \/ readerGone'
        BY DEF Receive
      <3>2. ASSUME NEW s \in Streams,
                   \/ CommandWrites(s) \/ BackgroundWrites(s) \/ Read(s)
                   \/ EndOfInput(s) \/ PassThrough(s) \/ QueueChunk(s)
                   \/ QueueReaderGone(s)
            PROVE  readerGone' = readerGone
        BY <3>2 DEF CommandWrites, BackgroundWrites, Read, EndOfInput,
                    PassThrough, QueueChunk, QueueReaderGone, loop
      <3>3. \/ CommandExits \/ BackgroundEnds \/ QueueExited \/ BeginRun
            \/ \E a \in {"begun", "failed"} : Answer(a)
            \/ ReceiveTimesOut \/ ReceiveDisconnected \/ Drain \/ IntoRecording
            \/ End \/ DeadlinePasses \/ GracePasses \/ Interrupt
            \/ HandleSignal \/ UNCHANGED vars
            => readerGone' = readerGone
        BY DEF CommandExits, BackgroundEnds, QueueExited, BeginRun, Answer,
               ReceiveTimesOut, ReceiveDisconnected, Drain, IntoRecording, End,
               DeadlinePasses, GracePasses, Interrupt, HandleSignal, vars, loop
      <3> QED
        BY <3>1, <3>2, <3>3, Steps
    <2> QED
      BY <1>2, <2>1 DEF Told
  <1>3. CASE \E i \in DOMAIN chan : chan[i] = ReaderGone
    <2>1. PICK i \in DOMAIN chan : chan[i] = ReaderGone
      BY <1>3
    <2>2. chan' = chan => Told'
      BY <2>1 DEF Told
    <2>3. \A e \in Event : chan' = Append(chan, e) => Told'
      <3>1. \A e \in Event : i \in DOMAIN Append(chan, e) /\ Append(chan, e)[i] = chan[i]
        BY <1>1
      <3> QED
        BY <2>1, <3>1 DEF Told
    <2>4. Receive => Told'
      <3>1. CASE i = 1 /\ Receive
        <4>1. Head(chan) = ReaderGone
          BY <1>1, <2>1, <3>1
        <4>2. readerGone'
          BY <3>1, <4>1 DEF Receive, ReaderGone, Exited
        <4> QED
          BY <4>2 DEF Told
      <3>2. CASE i # 1 /\ Receive
        <4>1. chan' = Tail(chan)
          BY <3>2 DEF Receive
        <4>2. i - 1 \in DOMAIN Tail(chan) /\ Tail(chan)[i - 1] = chan[i]
          BY <1>1, <2>1, <3>2
        <4> QED
          BY <2>1, <4>1, <4>2 DEF Told
      <3> QED
        BY <3>1, <3>2
    <2>5. ReaderGone \in Event /\ Exited \in Event /\ \A s \in Streams : hand[s] \in Event
      BY DEF Event, TypeOK
    <2>6. ASSUME NEW s \in Streams,
                 \/ CommandWrites(s) \/ BackgroundWrites(s) \/ Read(s)
                 \/ EndOfInput(s) \/ PassThrough(s) \/ QueueChunk(s)
                 \/ QueueReaderGone(s)
          PROVE  chan' = chan \/ \E e \in Event : chan' = Append(chan, e)
      BY <2>5, <2>6 DEF CommandWrites, BackgroundWrites, Read, EndOfInput,
                        PassThrough, QueueChunk, QueueReaderGone, Send
    <2>7. QueueExited \/ ReceiveTimesOut \/ IntoRecording \/ UNCHANGED carried =>
            chan' = chan \/ \E e \in Event : chan' = Append(chan, e)
      BY <2>5 DEF QueueExited, ReceiveTimesOut, IntoRecording, carried, Send
    <2> QED
      BY <2>2, <2>3, <2>4, <2>6, <2>7, Steps, StillSteps
  <1> QED
    BY <1>2, <1>3 DEF Told

\* A relay ends with its stream, whose other end nobody takes up again, or
\* after it queued that the reader went away.
LEMMA RelaysEnding ==
  ASSUME TypeOK, RelaysEnd, [Next]_vars
  PROVE  RelaysEnd'
  <1>1. SUFFICES ASSUME NEW t \in Streams, relay'[t] = "ended", ~ Told'
                 PROVE  command' # "running" /\ ~ background' /\ pipe'[t] = <<>>
    BY DEF RelaysEnd
  <1>2. ~ Told
    BY <1>1, StillTold
  <1>3. chan \in Seq(Event) /\ relay \in [Streams -> {"reading", "passing", "queueing",
                                      "queueing last", "leaving", "ended"}]
        /\ pipe \in [Streams -> Seq(Event)]
    BY DEF TypeOK
  <1>4. relay[t] = "ended" => command # "running" /\ ~ background /\ pipe[t] = <<>>
    BY <1>2 DEF RelaysEnd
  <1>5. ASSUME NEW s \in Streams, CommandWrites(s) \/ BackgroundWrites(s)
        PROVE  command' # "running" /\ ~ background' /\ pipe'[t] = <<>>
    BY <1>1, <1>3, <1>4, <1>5 DEF CommandWrites, BackgroundWrites, Fill, relays
  <1>6. ASSUME NEW s \in Streams, Read(s)
        PROVE  command' # "running" /\ ~ background' /\ pipe'[t] = <<>>
    <2>1. s # t /\ relay[t] = "ended"
      BY <1>1, <1>3, <1>6 DEF Read
    <2> QED
      BY <1>3, <1>4, <1>6, <2>1 DEF Read, world
  <1>7. ASSUME NEW s \in Streams, EndOfInput(s)
        PROVE  command' # "running" /\ ~ background' /\ pipe'[t] = <<>>
    BY <1>1, <1>3, <1>4, <1>7 DEF EndOfInput, world
  <1>8. ASSUME NEW s \in Streams, PassThrough(s) \/ QueueChunk(s)
        PROVE  command' # "running" /\ ~ background' /\ pipe'[t] = <<>>
    <2>1. relay[t] = "ended"
      BY <1>1, <1>3, <1>8 DEF PassThrough, QueueChunk
    <2>2. UNCHANGED <<command, background, pipe>>
      BY <1>8 DEF PassThrough, QueueChunk, world
    <2> QED
      BY <1>4, <2>1, <2>2
  <1>9. ASSUME NEW s \in Streams, QueueReaderGone(s)
        PROVE  FALSE
    <2>1. chan' = Append(chan, ReaderGone) /\ ReaderGone \in Event
      BY <1>9 DEF QueueReaderGone, Send, Event
    <2> DEFINE e == ReaderGone
               i == Len(chan) + 1
    <2> HIDE DEF e
    <2>2. i \in DOMAIN Append(chan, e) /\ Append(chan, e)[i] = e
      <3>1. e \in Event /\ chan \in Seq(Event)
        BY <1>3, <2>1 DEF e
      <3>2. Append(chan, e) \in Seq(Event) /\ Len(Append(chan, e)) = i /\ i \in Nat \ {0}
        BY <3>1, AppendProperties
      <3> QED
        BY <3>1, <3>2, AppendProperties
    <2> QED
      BY <1>1, <2>1, <2>2 DEF Told, e
  <1>10. CASE CommandExits \/ BackgroundEnds
    BY <1>1, <1>3, <1>4, <1>10 DEF CommandExits, BackgroundEnds, relays
  <1>11. CASE \/ QueueExited \/ BeginRun
              \/ \E a \in {"begun", "failed"} : Answer(a)
              \/ Receive \/ ReceiveTimesOut \/ ReceiveDisconnected \/ Drain
              \/ IntoRecording \/ End \/ DeadlinePasses \/ GracePasses
              \/ Interrupt \/ HandleSignal \/ UNCHANGED vars
    <2>1. UNCHANGED <<command, background, pipe, relay>>
      BY <1>11 DEF QueueExited, BeginRun, Answer, Receive, ReceiveTimesOut,
                   ReceiveDisconnected, Drain, IntoRecording, End,
                   DeadlinePasses, GracePasses, Interrupt, HandleSignal, vars,
                   world, relays
    <2> QED
      BY <1>1, <1>4, <2>1
  <1> QED
    BY <1>5, <1>6, <1>7, <1>8, <1>9, <1>10, <1>11, Steps

\* Once siftr has stopped on its own, nothing is left to be queued.
LEMMA StoppingLast ==
  ASSUME TypeOK, StopsLast, [Next]_vars
  PROVE  StopsLast'
  <1>1. SUFFICES ASSUME Stopping', ~ stopped'
                 PROVE  /\ chan' = <<>> /\ waiter' = "ended"
                        /\ \A s \in Streams : relay'[s] = "ended"
    BY DEF StopsLast
  <1>2. CASE ReceiveDisconnected
    BY <1>2 DEF ReceiveDisconnected, Disconnected, relays
  <1>3. CASE Receive \/ ReceiveTimesOut \/ Drain
    BY <1>1, <1>3 DEF Receive, ReceiveTimesOut, Drain, Stopping
  <1>4. CASE UNCHANGED <<main, stopped>> \/ IntoRecording \/ End
    <2>1. Stopping /\ ~ stopped
      BY <1>1, <1>4 DEF Stopping, IntoRecording, End
    <2>2. chan = <<>> /\ waiter = "ended" /\ \A s \in Streams : relay[s] = "ended"
      BY <2>1 DEF StopsLast
    <2>3. ASSUME NEW s \in Streams,
                 \/ CommandWrites(s) \/ BackgroundWrites(s) \/ Read(s)
                 \/ EndOfInput(s) \/ PassThrough(s) \/ QueueChunk(s)
                 \/ QueueReaderGone(s)
          PROVE  FALSE
      BY <2>2, <2>3 DEF CommandWrites, BackgroundWrites, Fill, Read, EndOfInput,
                        PassThrough, QueueChunk, QueueReaderGone
    <2>4. ~ QueueExited
      BY <2>2 DEF QueueExited
    <2>5. \/ CommandExits \/ BackgroundEnds \/ BeginRun
          \/ \E a \in {"begun", "failed"} : Answer(a)
          \/ IntoRecording \/ End \/ DeadlinePasses \/ GracePasses
          \/ Interrupt \/ HandleSignal \/ UNCHANGED vars
          => UNCHANGED <<chan, waiter, relay>>
      BY DEF CommandExits, BackgroundEnds, BeginRun, Answer, IntoRecording, End,
             DeadlinePasses, GracePasses, Interrupt, HandleSignal, vars, relays
    <2>6. CASE Receive \/ ReceiveTimesOut \/ ReceiveDisconnected \/ Drain
      BY <1>2, <1>3, <2>6
    <2> QED
      BY <2>2, <2>3, <2>4, <2>5, <2>6, Steps
  <1>5. ReceiveDisconnected \/ Receive \/ ReceiveTimesOut \/ Drain \/ IntoRecording
        \/ End \/ UNCHANGED <<main, stopped>>
    <2>1. ASSUME NEW s \in Streams,
                 \/ CommandWrites(s) \/ BackgroundWrites(s) \/ Read(s)
                 \/ EndOfInput(s) \/ PassThrough(s) \/ QueueChunk(s)
                 \/ QueueReaderGone(s)
          PROVE  UNCHANGED <<main, stopped>>
      BY <2>1 DEF CommandWrites, BackgroundWrites, Read, EndOfInput, PassThrough,
                  QueueChunk, QueueReaderGone, loop
    <2>2. \/ CommandExits \/ BackgroundEnds \/ QueueExited \/ BeginRun
          \/ \E a \in {"begun", "failed"} : Answer(a)
          \/ DeadlinePasses \/ GracePasses \/ Interrupt \/ HandleSignal
          \/ UNCHANGED vars
          => UNCHANGED <<main, stopped>>
      BY DEF CommandExits, BackgroundEnds, QueueExited, BeginRun, Answer,
             DeadlinePasses, GracePasses, Interrupt, HandleSignal, vars, loop
    <2> QED
      BY <2>1, <2>2, Steps
  <1> QED
    BY <1>2, <1>3, <1>4, <1>5

\* A run is finished by the main thread's last step only, which changes
\* nothing it depends on.
LEMMA Finishing ==
  ASSUME TypeOK, Finished, [Next]_vars
  PROVE  Finished'
  <1>1. SUFFICES ASSUME row' = "finished"
                 PROVE  main' = "ended" /\ recorder'.state = "recording" /\ ~ readerGone'
    BY DEF Finished
  <1>2. CASE End
    <2>1. CASE row' = row
      BY <1>1, <1>2, <2>1 DEF End, Finished
    <2>2. CASE /\ recorder.state = "recording"
               /\ row' = IF Interrupted THEN "interrupted" ELSE "finished"
      BY <1>1, <1>2, <2>2 DEF End, Interrupted
    <2> QED
      BY <1>2, <2>1, <2>2 DEF End
  <1>3. CASE BeginRun
    BY <1>1, <1>3 DEF BeginRun
  <1>4. CASE row' = row
    <2>1. main = "ended" /\ recorder.state = "recording" /\ ~ readerGone
      BY <1>1, <1>4 DEF Finished
    <2>2. ASSUME NEW s \in Streams,
                 \/ CommandWrites(s) \/ BackgroundWrites(s) \/ Read(s)
                 \/ EndOfInput(s) \/ PassThrough(s) \/ QueueChunk(s)
                 \/ QueueReaderGone(s)
          PROVE  FALSE
      BY <2>1, <2>2 DEF CommandWrites, BackgroundWrites, Read, EndOfInput,
                        PassThrough, QueueChunk, QueueReaderGone, Alive
    <2>3. \/ CommandExits \/ BackgroundEnds \/ QueueExited \/ BeginRun
          \/ \E a \in {"begun", "failed"} : Answer(a)
          \/ Receive \/ ReceiveTimesOut \/ ReceiveDisconnected \/ Drain
          \/ IntoRecording \/ End \/ DeadlinePasses \/ GracePasses
          \/ Interrupt \/ HandleSignal
          => FALSE
      BY <2>1 DEF CommandExits, BackgroundEnds, QueueExited, BeginRun, Answer,
                  Receive, ReceiveTimesOut, ReceiveDisconnected, Drain,
                  IntoRecording, End, DeadlinePasses, GracePasses, Interrupt,
                  HandleSignal, Alive
    <2>4. UNCHANGED vars => UNCHANGED <<main, recorder, readerGone>>
      BY DEF vars, loop
    <2> QED
      BY <2>1, <2>2, <2>3, <2>4, Steps
  <1>5. End \/ BeginRun \/ row' = row
    <2>1. ASSUME NEW s \in Streams,
                 \/ CommandWrites(s) \/ BackgroundWrites(s) \/ Read(s)
                 \/ EndOfInput(s) \/ PassThrough(s) \/ QueueChunk(s)
                 \/ QueueReaderGone(s)
          PROVE  row' = row
      BY <2>1 DEF CommandWrites, BackgroundWrites, Read, EndOfInput, PassThrough,
                  QueueChunk, QueueReaderGone, begins
    <2>2. \/ CommandExits \/ BackgroundEnds \/ QueueExited
          \/ \E a \in {"begun", "failed"} : Answer(a)
          \/ Receive \/ ReceiveTimesOut \/ ReceiveDisconnected \/ Drain
          \/ IntoRecording \/ DeadlinePasses \/ GracePasses
          \/ Interrupt \/ HandleSignal \/ UNCHANGED vars
          => row' = row
      BY DEF CommandExits, BackgroundEnds, QueueExited, Answer, Receive,
             ReceiveTimesOut, ReceiveDisconnected, Drain, IntoRecording,
             DeadlinePasses, GracePasses, Interrupt, HandleSignal, vars, begins
    <2> QED
      BY <2>1, <2>2, Steps
  <1> QED
    BY <1>2, <1>3, <1>4, <1>5

-----------------------------------------------------------------------------

LEMMA InitIInv == Init => IInv
  <1>1. SUFFICES ASSUME Init PROVE IInv
    OBVIOUS
  <1>2. Noise \in Nat /\ \A s \in Streams :
          Chunk(s, Noise) \in ChunksOf(s) /\ Chunk(s, Noise) \in Event
    BY ChunkTyped DEF Noise
  <1>3. recorder = [state |-> "starting", pending |-> <<>>, recorded |-> <<>>]
        /\ recorder \in Recorder
    BY <1>1 DEF Init, Recorder
  <1>4. TypeOK
    BY <1>1, <1>2, <1>3 DEF Init, TypeOK
  <1>5. ASSUME NEW s \in Streams
        PROVE  Flow(s)
    <2>1. InHand(s) = <<>> /\ pipe[s] = <<>> /\ chan = <<>> /\ wrote[s] = 0
      BY <1>1 DEF Init, InHand
    <2>2. InOrder(s, <<>>, 0, 0)
      BY EmptyInOrder
    <2>3. 0 \in 0..0
      OBVIOUS
    <2>4. Has(recorder, s, 0)
      BY <1>3, <2>2, <2>3 DEF Has
    <2> QED
      BY <2>1, <2>2, <2>3, <2>4 DEF Flow, Along
  <1>6. Limits
    BY <1>1, <1>3, RunCommandAssumption DEF Init, Limits, Bounded
  <1>7. RelaysEnd /\ StopsLast /\ Finished
    BY <1>1 DEF Init, RelaysEnd, StopsLast, Stopping, Finished
  <1> QED
    BY <1>4, <1>5, <1>6, <1>7 DEF IInv

LEMMA NextIInv == IInv /\ [Next]_vars => IInv'
  <1>1. SUFFICES ASSUME IInv, [Next]_vars PROVE IInv'
    OBVIOUS
  <1>2. TypeOK /\ Bounded(recorder) /\ Len(chan) <= QUEUED_CHUNKS
    BY <1>1 DEF IInv, Limits
  <1>3. TypeOK'
    BY <1>1, <1>2, Typed
  <1>4. recorder'.state # "off" => \A s \in Streams : Flow(s)'
    BY <1>1, <1>2, Flowing DEF IInv
  <1>5. Limits'
    BY <1>1, <1>2, RecorderBounded, QueueTyped DEF Limits, Bounded
  <1>6. RelaysEnd' /\ StopsLast' /\ Finished'
    BY <1>1, <1>2, RelaysEnding, StoppingLast, Finishing DEF IInv
  <1> QED
    BY <1>3, <1>4, <1>5, <1>6 DEF IInv

\* The relays, the queue, the recorder and the main thread keep the invariant
\* (run.rs run, relay, Recorder).
THEOREM Invariant == Spec => []IInv
  BY InitIInv, NextIInv, PTL DEF Spec

\* Every variable the output passes through keeps its type.
THEOREM TypeCorrect == Spec => []TypeOK
  <1>1. IInv => TypeOK
    BY DEF IInv
  <1> QED
    BY <1>1, Invariant, PTL

\* For any number of streams and any limits: until siftr gives up recording,
\* no chunk the command wrote is lost, repeated or out of order (run.rs relay,
\* Recorder).
THEOREM NoChunkLost == Spec => []NothingLost
  <1>1. IInv => NothingLost
    <2>1. SUFFICES ASSUME IInv PROVE NothingLost
      OBVIOUS
    <2>2. SUFFICES ASSUME recorder.state # "off", NEW s \in Streams
                   PROVE  InOrder(s, recorder.recorded \o recorder.pending \o chan
                                       \o InHand(s) \o pipe[s], 0, wrote[s])
      BY <2>1 DEF NothingLost, IInv, Limits, Bounded
    <2> DEFINE x == recorder.recorded
               y == recorder.pending
               h == InHand(s)
               p == pipe[s]
    <2>3. /\ x \in Seq(Event) /\ y \in Seq(Event) /\ chan \in Seq(Event)
          /\ h \in Seq(Event) /\ p \in Seq(Event) /\ wrote[s] \in Nat
      <3>1. /\ recorder \in Recorder /\ chan \in Seq(Event) /\ p \in Seq(Event)
            /\ wrote[s] \in Nat /\ hand[s] \in Event
        BY <2>1 DEF IInv, TypeOK
      <3>2. <<>> \in Seq(Event) /\ <<hand[s]>> \in Seq(Event)
        BY <3>1
      <3> QED
        BY <3>1, <3>2 DEF Recorder, InHand
    <2>4. PICK held, queued, read \in 0..wrote[s] :
            /\ held <= queued /\ queued <= read
            /\ Has(recorder, s, held)
            /\ InOrder(s, chan, held, queued)
            /\ InOrder(s, h, queued, read)
            /\ InOrder(s, p, read, wrote[s])
      BY <2>1, <2>2 DEF IInv, Flow, Along
    <2>5. PICK kept \in 0..held : InOrder(s, x, 0, kept) /\ InOrder(s, y, kept, held)
      BY <2>4 DEF Has
    <2>6. /\ kept \in Nat /\ held \in Nat /\ queued \in Nat /\ read \in Nat /\ 0 \in Nat
          /\ 0 <= kept /\ kept <= held /\ 0 <= held /\ 0 <= queued /\ 0 <= read
          /\ read <= wrote[s]
      BY <2>3, <2>4, <2>5
    <2> HIDE DEF x, y, h, p
    <2>7. x \o y \in Seq(Event) /\ InOrder(s, x \o y, 0, held)
      BY <2>3, <2>5, <2>6, JoinInOrder, ConcatProperties
    <2>8. x \o y \o chan \in Seq(Event) /\ InOrder(s, x \o y \o chan, 0, queued)
      BY <2>3, <2>4, <2>6, <2>7, JoinInOrder, ConcatProperties
    <2>9. /\ x \o y \o chan \o h \in Seq(Event)
          /\ InOrder(s, x \o y \o chan \o h, 0, read)
      BY <2>3, <2>4, <2>6, <2>8, JoinInOrder, ConcatProperties
    <2>10. InOrder(s, x \o y \o chan \o h \o p, 0, wrote[s])
      BY <2>3, <2>4, <2>6, <2>9, JoinInOrder
    <2> QED
      BY <2>10 DEF x, y, h, p
  <1> QED
    BY <1>1, Invariant, PTL

\* For any number of streams and any limits: a run finished as comparable holds
\* all the command wrote, unless siftr said it stopped capturing (run.rs run).
THEOREM FinishedIsWhole == Spec => []FinishedWhole
  <1>1. IInv => FinishedWhole
    <2>1. SUFFICES ASSUME IInv, row = "finished", ~ stopped, NEW s \in Streams
                   PROVE  InOrder(s, recorder.recorded, 0, wrote[s])
      BY DEF FinishedWhole
    <2>2. main = "ended" /\ recorder.state = "recording" /\ ~ readerGone
      BY <2>1 DEF IInv, Finished
    <2>3. chan = <<>> /\ relay[s] = "ended"
      BY <2>1, <2>2 DEF IInv, StopsLast, Stopping
    <2>4. ~ Told
      BY <2>2, <2>3 DEF Told
    <2>5. pipe[s] = <<>> /\ InHand(s) = <<>> /\ recorder.pending = <<>>
      BY <2>1, <2>2, <2>3, <2>4 DEF IInv, RelaysEnd, InHand, Limits, Bounded
    <2>6. wrote[s] \in Nat
      BY <2>1 DEF IInv, TypeOK
    <2>7. PICK held, queued, read \in 0..wrote[s] :
            /\ held <= queued /\ queued <= read
            /\ Has(recorder, s, held)
            /\ InOrder(s, <<>>, held, queued)
            /\ InOrder(s, <<>>, queued, read)
            /\ InOrder(s, <<>>, read, wrote[s])
      BY <2>1, <2>2, <2>3, <2>5 DEF IInv, Flow, Along
    <2>8. PICK kept \in 0..held :
            InOrder(s, recorder.recorded, 0, kept) /\ InOrder(s, <<>>, kept, held)
      BY <2>5, <2>7 DEF Has
    <2>9. kept = held
      BY <2>7, <2>8, EmptyInOrder
    <2>10. held = queued /\ queued = read /\ read = wrote[s]
      BY <2>6, <2>7, EmptyInOrder
    <2> QED
      BY <2>8, <2>9, <2>10
  <1> QED
    BY <1>1, Invariant, PTL

=============================================================================
