------------------------------ MODULE IngestProofs ------------------------------
(***************************************************************************)
(* What is proved of Ingest for every input, size of a read and number of   *)
(* signals: a run that joins baselines was read to its end, and one that a  *)
(* signal ended has what was queued before the signal; and, of the bytes    *)
(* themselves, that nothing a run keeps has a credential or a private key   *)
(* in it, that within a run a mark's number stands for one value, that what *)
(* is recorded does not depend on how the reads cut it, and that its lines  *)
(* are those that lie in what was read.                                     *)
(***************************************************************************)
EXTENDS IngestInvariants, SequenceTheorems, FiniteSetTheorems, WellFoundedInduction, TLAPS

-----------------------------------------------------------------------------
(* What the actions do to what the invariant is about.                      *)

LEMMA MinOfTwo ==
  ASSUME NEW a \in Int, NEW b \in Int
  PROVE  Min({a, b}) \in {a, b} /\ Min({a, b}) <= a /\ Min({a, b}) <= b
  <1>1. \E m \in {a, b} : \A y \in {a, b} : m <= y
    <2>1. a <= b \/ b <= a
      OBVIOUS
    <2> QED
      BY <2>1
  <1> QED
    BY <1>1 DEF Min

LEMMA SizeIsNat ==
  ASSUME TypeOK, NEW n \in 1..Len(inputs)
  PROVE  Size(n) \in Nat
  <1> DEFINE Byte_ == [kind : STRING, value : Nat]
             Given == [stream : Streams, bytes : Seq(Byte_)]
  <1>1. inputs \in Seq(Given)
    BY DEF TypeOK
  <1>2. \A g \in Given : Len(g.bytes) \in Nat
    <2> HIDE DEF Byte_
    <2>1. ASSUME NEW g \in Given
          PROVE  Len(g.bytes) \in Nat
      <3>1. g.bytes \in Seq(Byte_)
        OBVIOUS
      <3> QED
        BY <3>1, LenProperties
    <2> QED
      BY <2>1
  <1> HIDE DEF Given
  <1>3. inputs[n] \in Given
    BY <1>1
  <1> QED
    BY <1>2, <1>3 DEF Size

LEMMA OneStream ==
  ASSUME TypeOK, ~ dir
  PROVE  /\ Len(inputs) = 1 /\ nth = 1 /\ Size(1) \in Nat
  <1>1. Len(inputs) = 1 /\ nth \in 1..Len(inputs)
    BY DEF TypeOK
  <1> QED
    BY <1>1, SizeIsNat

\* The reading thread takes what comes next in the input, or its end.
LEMMA Taking ==
  ASSUME TypeOK, Alone, Streamed, ReadChunk \/ ReadEof \/ ReadFails
  PROVE  /\ ~ dir /\ reader = "reading" /\ reader' = "sending"
         /\ hand' \in Message /\ hand'.msg # "Interrupted"
         /\ hand'.from = at /\ at' = hand'.to /\ hand'.from <= hand'.to /\ hand'.to <= Size(1)
         /\ hand'.msg # "Chunk" => hand'.to = at
         /\ hand'.msg = "Eof" => at = Size(1) \/ writer = "killed"
         /\ writer' \in {"writing", "closed", "killed"} /\ (writer' = "killed" => writer = "killed")
         /\ UNCHANGED <<given, queue, signal, main, nth, fed, run>>
  <1>1. /\ at \in Nat /\ writer \in {"writing", "closed", "killed"} /\ CHUNK_BYTES \in Nat
    BY IngestAssumption DEF TypeOK
  <1>2. ~ dir /\ reader = "reading"
    BY DEF ReadChunk, ReadEof, ReadFails, Take, Alone
  <1>3. at <= Size(1) /\ Size(1) \in Nat
    BY <1>2, OneStream DEF Streamed, Reading
  <1>4. CASE ReadChunk
    <2>1. PICK n \in 1..Min({CHUNK_BYTES, Size(1) - at}) :
            Take([msg |-> "Chunk", from |-> at, to |-> at + n], UNCHANGED writer)
      BY <1>4 DEF ReadChunk
    <2>2. n \in Nat /\ n <= Size(1) - at
      <3>1. PICK room \in Int : room = Size(1) - at
        BY <1>1, <1>3
      <3>2. Min({CHUNK_BYTES, room}) \in {CHUNK_BYTES, room} /\ Min({CHUNK_BYTES, room}) <= room
        <4>1. CHUNK_BYTES \in Int
          BY <1>1, <1>3
        <4> QED
          BY <4>1, MinOfTwo, Zenon
      <3>3. n \in 1..Min({CHUNK_BYTES, room})
        <4> DEFINE less == Size(1) - at
        <4>1. n \in 1..Min({CHUNK_BYTES, less}) /\ room = less
          BY <3>1
        <4> HIDE DEF less
        <4> QED
          BY <4>1
      <3> QED
        BY <1>1, <1>3, <3>1, <3>2, <3>3
    <2>3. /\ hand' = [msg |-> "Chunk", from |-> at, to |-> at + n] /\ at' = at + n
          /\ reader' = "sending" /\ writer' = writer
          /\ UNCHANGED <<given, queue, signal, main, nth, fed, run>>
      BY <2>1 DEF Take
    <2>4. at + n \in Nat /\ at <= at + n /\ at + n <= Size(1)
      BY <1>1, <1>3, <2>2
    <2>5. hand' \in Message
      BY <1>1, <2>3, <2>4 DEF Message
    <2> QED
      BY <1>1, <1>2, <2>3, <2>4, <2>5
  <1>5. CASE ReadEof
    <2>1. /\ hand' = [msg |-> "Eof", from |-> at, to |-> at] /\ at' = at
          /\ reader' = "sending"
          /\ writer' = IF writer = "writing" THEN "closed" ELSE writer
          /\ UNCHANGED <<given, queue, signal, main, nth, fed, run>>
      BY <1>5 DEF ReadEof, Take
    <2>2. hand' \in Message
      BY <1>1, <2>1 DEF Message
    <2>3. at = Size(1) \/ writer = "killed"
      BY <1>5 DEF ReadEof
    <2> QED
      BY <1>1, <1>2, <1>3, <2>1, <2>2, <2>3
  <1>6. CASE ReadFails
    <2>1. /\ hand' = [msg |-> "Failed", from |-> at, to |-> at] /\ at' = at
          /\ reader' = "sending" /\ writer' = writer
          /\ UNCHANGED <<given, queue, signal, main, nth, fed, run>>
      BY <1>6 DEF ReadFails, Take
    <2>2. hand' \in Message
      BY <1>1, <2>1 DEF Message
    <2> QED
      BY <1>1, <1>2, <1>3, <2>1, <2>2
  <1> QED
    BY <1>4, <1>5, <1>6

\* A chunk is taken from the queue and fed.
LEMMA Feeding ==
  ASSUME ReceiveChunk
  PROVE  /\ main = "receiving" /\ queue # <<>> /\ Head(queue).msg = "Chunk"
         /\ queue' = Tail(queue) /\ fed' = Head(queue).to
         /\ main' \in {"receiving", "exited"}
         /\ UNCHANGED <<given, writer, reading, signal, nth, run>>
  <1>1. /\ main = "receiving" /\ queue # <<>> /\ Head(queue).msg = "Chunk"
        /\ queue' = Tail(queue) /\ fed' = Head(queue).to
        /\ UNCHANGED <<given, writer, reading, signal, nth, run>>
    BY DEF ReceiveChunk, Received
  <1> DEFINE r == Chunk(rec, inputs[1].stream, Bytes(1, Head(queue).from, Head(queue).to))
  <1>2. IF streaming THEN Drain(r, "receiving")
        ELSE rec' = r /\ UNCHANGED <<shown, main>>
    BY DEF ReceiveChunk
  <1> HIDE DEF r
  <1>3. main' \in {main, "receiving", "exited"}
    BY <1>2 DEF Drain
  <1> QED
    BY <1>1, <1>3

\* The loop has ended, and the main thread goes on alone.
LEMMA Leaving ==
  ASSUME ReceiveEnd
  PROVE  /\ main = "receiving" /\ queue # <<>> /\ Head(queue).msg \in {"Eof", "Interrupted"}
         /\ queue' = Tail(queue) /\ main' = "ended"
         /\ UNCHANGED <<given, writer, reading, signal, nth, fed, run>>
  BY DEF ReceiveEnd, Received

LEMMA Showing ==
  ASSUME ShowLast
  PROVE  /\ main = "ended" /\ main' \in {"checking", "exited"}
         /\ UNCHANGED <<given, writer, reading, queue, signal, nth, fed, run>>
  <1>1. /\ main = "ended"
        /\ IF streaming THEN Drain(Flush(rec), "checking")
           ELSE main' = "checking" /\ UNCHANGED <<rec, shown>>
        /\ UNCHANGED <<given, writer, reading, queue, signal, nth, fed, run>>
    BY DEF ShowLast
  <1>2. main' \in {"checking", "exited"}
    BY <1>1 DEF Drain
  <1> QED
    BY <1>1, <1>2

\* A scenario's streams are read one after the other.
LEMMA Replaying ==
  ASSUME TypeOK, Alone, ReplayChunk \/ ReplayNext \/ ReplayFails
  PROVE  /\ dir /\ main = "replaying" /\ main' \in {"replaying", "finishing", "exited"}
         /\ nth' \in 1..Len(inputs) /\ fed' \in Nat /\ fed' <= Size(nth')
         /\ main' = "finishing" => nth' = Len(inputs) /\ fed' = Size(nth')
         /\ UNCHANGED <<given, writer, reading, queue, signal, run>>
  <1>1. main = "replaying" /\ nth \in 1..Len(inputs) /\ fed \in Nat /\ Len(inputs) \in Nat
    BY DEF TypeOK, ReplayChunk, ReplayNext, ReplayFails
  <1>2. dir /\ fed <= Size(nth) /\ Size(nth) \in Nat /\ CHUNK_BYTES \in Nat
    BY <1>1, SizeIsNat, IngestAssumption DEF Alone
  <1>3. CASE ReplayChunk
    <2>1. PICK n \in 1..Min({CHUNK_BYTES, Size(nth) - fed}) : fed' = fed + n
      BY <1>3 DEF ReplayChunk
    <2>2. n \in Nat /\ n <= Size(nth) - fed
      <3>1. PICK room \in Int : room = Size(nth) - fed
        BY <1>1, <1>2
      <3>2. Min({CHUNK_BYTES, room}) \in {CHUNK_BYTES, room} /\ Min({CHUNK_BYTES, room}) <= room
        <4>1. CHUNK_BYTES \in Int
          BY <1>1, <1>2
        <4> QED
          BY <4>1, MinOfTwo, Zenon
      <3>3. n \in 1..Min({CHUNK_BYTES, room})
        <4> DEFINE less == Size(nth) - fed
        <4>1. n \in 1..Min({CHUNK_BYTES, less}) /\ room = less
          BY <3>1
        <4> HIDE DEF less
        <4> QED
          BY <4>1
      <3> QED
        BY <1>1, <1>2, <3>1, <3>2, <3>3
    <2>3. fed' \in Nat /\ fed' <= Size(nth)
      BY <1>1, <1>2, <2>1, <2>2
    <2>4. nth' = nth /\ main' = main /\ UNCHANGED <<given, writer, reading, queue, signal, run>>
      BY <1>3 DEF ReplayChunk
    <2>5. fed' <= Size(nth')
      BY <2>3, <2>4
    <2> QED
      BY <1>1, <1>2, <2>3, <2>4, <2>5
  <1>4. CASE ReplayNext
    <2>1. /\ fed = Size(nth)
          /\ \/ nth < Len(inputs) /\ nth' = nth + 1 /\ fed' = 0 /\ main' = main
             \/ ~ nth < Len(inputs) /\ main' = "finishing" /\ nth' = nth /\ fed' = fed
          /\ UNCHANGED <<given, writer, reading, queue, signal, run>>
      BY <1>4 DEF ReplayNext
    <2>2. CASE nth < Len(inputs) /\ nth' = nth + 1 /\ fed' = 0 /\ main' = main
      <3>1. nth' \in 1..Len(inputs)
        BY <1>1, <2>2
      <3>2. Size(nth') \in Nat
        BY <3>1, SizeIsNat
      <3>3. fed' \in Nat /\ fed' <= Size(nth')
        BY <2>2, <3>2
      <3> QED
        BY <1>1, <1>2, <2>1, <2>2, <3>1, <3>3
    <2>3. CASE ~ nth < Len(inputs) /\ main' = "finishing" /\ nth' = nth /\ fed' = fed
      <3>1. nth = Len(inputs)
        BY <1>1, <2>3
      <3> QED
        BY <1>1, <1>2, <2>1, <2>3, <3>1
    <2> QED
      BY <2>1, <2>2, <2>3
  <1>5. CASE ReplayFails
    BY <1>1, <1>2, <1>5 DEF ReplayFails
  <1> QED
    BY <1>3, <1>4, <1>5

LEMMA Steps ==
  ASSUME [Next]_vars
  PROVE  \/ (ReadChunk \/ ReadEof \/ ReadFails) \/ Send
         \/ (\E sig \in Signals : Signal(sig))
         \/ (\E sig \in Signals : Wake(sig)) \/ (\E sig \in Signals : Abort(sig))
         \/ ReceiveChunk \/ ReceiveEnd \/ ReceiveFailed \/ ShowLast \/ CheckFlag
         \/ (ReplayChunk \/ ReplayNext \/ ReplayFails) \/ FinishRun \/ Report
         \/ UNCHANGED vars
  BY DEF Next, Watch, Main, Exited

LEMMA Typed ==
  ASSUME TypeOK, Streamed, Alone, [Next]_vars
  PROVE  TypeOK'
  <1>1. /\ hand \in Message \cup {NoMessage} /\ queue \in Seq(Message)
        /\ at \in Nat /\ fed \in Nat /\ heard \in Nat /\ signals \in Nat
        /\ caught \in BOOLEAN /\ pending \in SUBSET Signals
        /\ writer \in {"writing", "closed", "killed"}
        /\ reader \in {"none", "reading", "sending", "done"}
        /\ watcher \in {"first", "second"} /\ main \in Mains
        /\ run \in {"recording", "finished", "interrupted"}
        /\ nth \in 1..Len(inputs)
    BY DEF TypeOK
  <1>2. \A m \in Message : m.from \in Nat /\ m.to \in Nat
    BY DEF Message
  <1>3. queue # <<>> => Head(queue) \in Message /\ Tail(queue) \in Seq(Message)
    BY <1>1
  <1>4. CASE ReadChunk \/ ReadEof \/ ReadFails
    <2>1. /\ hand' \in Message /\ reader' = "sending" /\ at' = hand'.to
          /\ writer' \in {"writing", "closed", "killed"}
          /\ UNCHANGED <<given, queue, signal, main, nth, fed, run>>
      BY <1>4, Taking
    <2> QED
      BY <1>1, <1>2, <2>1 DEF TypeOK, given, signal
  <1>5. CASE Send
    <2>1. hand \in Message
      <3>1. reader = "sending" /\ ~ dir
        BY <1>5 DEF Send, Alone
      <3> QED
        BY <1>1, <3>1 DEF Streamed, Reading
    <2>2. Append(queue, hand) \in Seq(Message)
      BY <1>1, <2>1, AppendProperties
    <2>3. /\ queue' \in Seq(Message) /\ hand' = NoMessage /\ reader' \in {"reading", "done"}
          /\ UNCHANGED <<given, writer, at, signal, main, nth, fed, run>>
      BY <1>1, <1>5, <2>2 DEF Send
    <2> QED
      BY <1>1, <2>3 DEF TypeOK, given, signal
  <1>6. ASSUME NEW sig \in Signals, Signal(sig)
        PROVE  TypeOK'
    <2>1. /\ signals' \in Nat /\ caught' \in BOOLEAN /\ pending' \in SUBSET Signals
          /\ writer' \in {"writing", "closed", "killed"}
          /\ UNCHANGED <<given, reading, queue, watcher, heard, main, nth, fed, run>>
      BY <1>1, <1>6 DEF Signal
    <2> QED
      BY <1>1, <2>1 DEF TypeOK, given, reading
  <1>7. ASSUME NEW sig \in Signals, Wake(sig)
        PROVE  TypeOK'
    <2> DEFINE m == [msg |-> "Interrupted", from |-> at, to |-> at]
    <2>1. m \in Message
      BY <1>1 DEF Message
    <2>2. queue' = Append(queue, m)
      BY <1>7 DEF Wake
    <2> HIDE DEF m
    <2>3. queue' \in Seq(Message)
      BY <1>1, <2>1, <2>2, AppendProperties
    <2>4. heard' \in Nat
      BY <1>1, <1>2, <1>7 DEF Wake, Sent, NoMessage
    <2>5. /\ pending' \in SUBSET Signals /\ watcher' = "second"
          /\ UNCHANGED <<given, writer, reading, caught, signals, main, nth, fed, run>>
      BY <1>1, <1>7 DEF Wake
    <2> QED
      BY <1>1, <2>3, <2>4, <2>5 DEF TypeOK, given, reading
  <1>8. ASSUME NEW sig \in Signals, Abort(sig)
        PROVE  TypeOK'
    <2>1. /\ pending' \in SUBSET Signals /\ main' = "exited"
          /\ UNCHANGED <<given, writer, reading, queue, caught, watcher, signals, heard, nth, fed, run>>
      BY <1>1, <1>8 DEF Abort
    <2> QED
      BY <1>1, <2>1 DEF TypeOK, given, reading, Mains
  <1>9. CASE ReceiveChunk
    <2>1. /\ queue' \in Seq(Message) /\ fed' \in Nat /\ main' \in Mains
          /\ UNCHANGED <<given, writer, reading, signal, nth, run>>
      BY <1>2, <1>3, <1>9, Feeding DEF Mains
    <2> QED
      BY <1>1, <2>1 DEF TypeOK, given, reading, signal
  <1>10. CASE ReceiveEnd
    <2>1. /\ queue' \in Seq(Message) /\ main' \in Mains
          /\ UNCHANGED <<given, writer, reading, signal, nth, fed, run>>
      BY <1>3, <1>10, Leaving DEF Mains
    <2> QED
      BY <1>1, <2>1 DEF TypeOK, given, reading, signal
  <1>11. CASE ReceiveFailed
    <2>1. /\ queue' \in Seq(Message) /\ main' \in Mains
          /\ UNCHANGED <<given, writer, reading, signal, nth, fed, run>>
      BY <1>3, <1>11 DEF ReceiveFailed, Received, Mains
    <2> QED
      BY <1>1, <2>1 DEF TypeOK, given, reading, signal
  <1>12. CASE ShowLast
    <2>1. /\ main' \in Mains
          /\ UNCHANGED <<given, writer, reading, queue, signal, nth, fed, run>>
      BY <1>12, Showing DEF Mains
    <2> QED
      BY <1>1, <2>1 DEF TypeOK, given, reading, signal
  <1>13. CASE CheckFlag
    <2>1. /\ main' \in Mains
          /\ UNCHANGED <<given, writer, reading, queue, signal, nth, fed, run>>
      BY <1>13 DEF CheckFlag, Mains
    <2> QED
      BY <1>1, <2>1 DEF TypeOK, given, reading, signal
  <1>14. CASE ReplayChunk \/ ReplayNext \/ ReplayFails
    <2>1. /\ main' \in Mains /\ nth' \in 1..Len(inputs) /\ fed' \in Nat
          /\ UNCHANGED <<given, writer, reading, queue, signal, run>>
      BY <1>14, Replaying DEF Mains
    <2> QED
      BY <1>1, <2>1 DEF TypeOK, given, reading, signal
  <1>15. CASE FinishRun \/ Report
    <2>1. /\ main' \in Mains /\ run' \in {"recording", "finished", "interrupted"}
          /\ UNCHANGED <<given, writer, reading, queue, signal, nth, fed>>
      BY <1>1, <1>15 DEF FinishRun, Report, Mains
    <2> QED
      BY <1>1, <2>1 DEF TypeOK, given, reading, signal
  <1>16. CASE UNCHANGED vars
    BY <1>1, <1>16 DEF TypeOK, vars, given, reading, signal
  <1> QED
    BY <1>4, <1>5, <1>6, <1>7, <1>8, <1>9, <1>10, <1>11, <1>12, <1>13, <1>14, <1>15, <1>16, Steps

LEMMA StillAlone ==
  ASSUME TypeOK, Streamed, Alone, Ended, [Next]_vars
  PROVE  Alone'
  <1>1. CASE ReadChunk \/ ReadEof \/ ReadFails
    BY <1>1, Taking DEF Alone, given, signal
  <1>2. CASE Send
    BY <1>2 DEF Send, Alone, given, signal
  <1>3. CASE \E sig \in Signals : Signal(sig)
    BY <1>3 DEF Signal, Alone, given, reading
  <1>4. CASE \E sig \in Signals : Wake(sig)
    BY <1>4 DEF Wake, Alone, given, reading
  <1>5. CASE \E sig \in Signals : Abort(sig)
    BY <1>5 DEF Abort, Alone, given, reading, Size
  <1>6. CASE ReceiveChunk
    BY <1>6, Feeding DEF Alone, given, reading, signal
  <1>7. CASE ReceiveEnd \/ ReceiveFailed
    BY <1>7, Leaving DEF Alone, given, reading, signal, ReceiveFailed, Received
  <1>8. CASE ShowLast
    BY <1>8, Showing DEF Alone, given, reading, signal
  <1>9. CASE CheckFlag
    BY <1>9 DEF CheckFlag, Alone, given, reading, signal
  <1>10. CASE ReplayChunk \/ ReplayNext \/ ReplayFails
    <2>1. /\ dir /\ main' \in {"replaying", "finishing", "exited"} /\ fed' <= Size(nth')
          /\ UNCHANGED <<given, writer, reading, queue, signal, run>>
      BY <1>10, Replaying
    <2>2. Size(nth)' = Size(nth')
      BY <2>1 DEF Size, given
    <2> QED
      BY <2>1, <2>2 DEF Alone, given, reading, signal
  <1>11. CASE FinishRun
    BY <1>11 DEF FinishRun, Alone, given, reading, signal, Size
  <1>12. CASE Report
    BY <1>12 DEF Report, Alone, given, reading, signal, Size
  <1>13. CASE UNCHANGED vars
    BY <1>13 DEF vars, Alone, given, reading, signal, Size
  <1> QED
    BY <1>1, <1>2, <1>3, <1>4, <1>5, <1>6, <1>7, <1>8, <1>9, <1>10, <1>11, <1>12, <1>13, Steps

\* What has been sent was read, and all of it but what is in the hand.
LEMMA SentIsRead ==
  ASSUME TypeOK, Reading
  PROVE  /\ Sent \in Nat /\ Sent <= at /\ (hand.msg # "Chunk" => Sent = at)
  <1>1. hand \in Message \cup {NoMessage} /\ at \in Nat
    BY DEF TypeOK
  <1>2. hand.from \in Nat /\ hand.to \in Nat
    BY <1>1 DEF Message, NoMessage
  <1> QED
    BY <1>1, <1>2 DEF Sent, Reading

LEMMA StillEnded ==
  ASSUME TypeOK, Streamed, Alone, Ended, [Next]_vars
  PROVE  Ended'
  <1>1. at \in Nat /\ fed \in Nat /\ heard \in Nat /\ nth \in 1..Len(inputs)
    BY DEF TypeOK
  <1> DEFINE Rest == <<inputs, heard, fed, nth, run>>
  <1>2. CASE UNCHANGED Rest /\ main' = main /\ (caught => caught')
    BY <1>2 DEF Ended, Size
  <1>3. CASE UNCHANGED Rest /\ main' = "exited" /\ caught' = caught
    BY <1>3 DEF Ended, Size
  <1>4. CASE UNCHANGED <<inputs, run>> /\ main = "receiving" /\ main' \in {"receiving", "exited"}
    BY <1>4 DEF Ended
  <1>5. CASE ReceiveEnd
    <2>1. /\ main = "receiving" /\ queue # <<>> /\ Head(queue).msg \in {"Eof", "Interrupted"}
          /\ main' = "ended"
          /\ UNCHANGED <<given, writer, reading, signal, nth, fed, run>>
      BY <1>5, Leaving
    <2>2. ~ dir
      BY <2>1 DEF Alone
    <2>3. Reading /\ Closed /\ Size(1) \in Nat /\ Sent \in Nat /\ Sent <= at
      BY <2>2, OneStream, SentIsRead DEF Streamed
    <2>4. 1 \in DOMAIN queue /\ Head(queue) = queue[1] /\ queue \in Seq(Message)
      <3>1. queue \in Seq(Message) /\ queue # <<>>
        BY <2>1 DEF TypeOK
      <3> QED
        BY <3>1
    <2>5. \A n : Covered(1, n) => fed >= n
      BY DEF Covered
    <2>6. at <= Size(1) /\ fed <= Sent /\ heard <= Sent
      BY <2>3 DEF Reading, Closed
    <2>7. CASE queue[1].msg = "Eof"
      <3>1. (at = Size(1) \/ caught) /\ Covered(1, at)
        BY <2>1, <2>3, <2>4, <2>7 DEF Closed
      <3>2. fed >= at
        BY <2>5, <3>1
      <3>3. fed >= heard /\ (fed = Size(1) \/ caught)
        BY <1>1, <2>3, <2>6, <3>1, <3>2
      <3> QED
        BY <2>1, <3>3 DEF Ended, given, signal, Size
    <2>8. CASE queue[1].msg = "Interrupted"
      <3>1. caught /\ Covered(1, heard)
        BY <2>1, <2>3, <2>4, <2>8 DEF Closed
      <3>2. fed >= heard
        BY <2>5, <3>1
      <3> QED
        BY <2>1, <3>1, <3>2 DEF Ended, given, signal, Size
    <2> QED
      BY <2>1, <2>4, <2>7, <2>8
  <1>6. CASE ShowLast
    <2>1. main = "ended" /\ main' \in {"checking", "exited"} /\ UNCHANGED Rest /\ caught' = caught
      BY <1>6, Showing DEF given, signal
    <2> QED
      BY <2>1 DEF Ended, Size
  <1>7. CASE CheckFlag
    <2>1. /\ main = "checking" /\ main' = IF caught THEN "interrupted" ELSE "finishing"
          /\ UNCHANGED Rest /\ caught' = caught
      BY <1>7 DEF CheckFlag, given, signal
    <2>2. Len(inputs) = 1 /\ nth = 1
      BY <2>1, OneStream DEF Alone
    <2> QED
      BY <2>1, <2>2 DEF Ended, Size
  <1>8. CASE ReplayChunk \/ ReplayNext \/ ReplayFails
    <2>1. /\ main = "replaying" /\ main' \in {"replaying", "finishing", "exited"}
          /\ main' = "finishing" => nth' = Len(inputs) /\ fed' = Size(nth')
          /\ UNCHANGED <<inputs, run>>
      BY <1>8, Replaying DEF given
    <2>2. Size(nth)' = Size(nth')
      BY <2>1 DEF Size
    <2>3. run = "recording"
      BY <2>1 DEF Ended, TypeOK
    <2> QED
      BY <2>1, <2>2, <2>3 DEF Ended
  <1>9. CASE FinishRun
    <2>1. /\ main \in {"finishing", "interrupted"} /\ main' = "reporting"
          /\ run' = IF main = "finishing" THEN "finished" ELSE "interrupted"
          /\ UNCHANGED <<inputs, heard, fed, nth, caught>>
      BY <1>9 DEF FinishRun, given, signal
    <2> QED
      BY <2>1 DEF Ended, Size
  <1>10. CASE Report
    BY <1>3, <1>10 DEF Report, given, signal
  <1>11. CASE ReadChunk \/ ReadEof \/ ReadFails
    BY <1>2, <1>11, Taking DEF given, signal
  <1>12. Send => UNCHANGED Rest /\ main' = main /\ (caught => caught')
    BY DEF Send, given, signal
  <1>13. (\E sig \in Signals : Signal(sig)) => UNCHANGED Rest /\ main' = main /\ (caught => caught')
    BY DEF Signal, given
  <1>14. (\E sig \in Signals : Wake(sig)) => UNCHANGED <<inputs, run>> /\ main = "receiving" /\ main' = main
    BY DEF Wake, given
  <1>15. (\E sig \in Signals : Abort(sig)) => UNCHANGED Rest /\ main' = "exited" /\ caught' = caught
    BY DEF Abort, given
  <1>16. ReceiveChunk \/ ReceiveFailed
           => UNCHANGED <<inputs, run>> /\ main = "receiving" /\ main' \in {"receiving", "exited"}
    BY Feeding DEF ReceiveFailed, Received, given
  <1>17. UNCHANGED vars => UNCHANGED Rest /\ main' = main /\ (caught => caught')
    BY DEF vars, given, signal
  <1> HIDE DEF Rest
  <1> QED
    BY <1>2, <1>3, <1>4, <1>5, <1>6, <1>7, <1>8, <1>9, <1>10, <1>11, <1>12, <1>13, <1>14, <1>15,
       <1>16, <1>17, Steps

-----------------------------------------------------------------------------
(* The queue.                                                               *)

LEMMA QueueTail ==
  ASSUME TypeOK, queue # <<>>, queue' = Tail(queue)
  PROVE  /\ 1 \in DOMAIN queue /\ Head(queue) = queue[1] /\ DOMAIN queue = 1..Len(queue)
         /\ Len(queue') = Len(queue) - 1 /\ Len(queue) \in Nat
         /\ \A i \in DOMAIN queue' : i + 1 \in DOMAIN queue /\ queue'[i] = queue[i + 1]
         /\ DOMAIN queue' = 1..Len(queue')
  <1> DEFINE q == queue
             t == Tail(queue)
  <1>1. q \in Seq(Message) /\ q # <<>>
    BY DEF TypeOK
  <1>2. /\ 1 \in DOMAIN q /\ Head(q) = q[1] /\ DOMAIN q = 1..Len(q)
        /\ Len(t) = Len(q) - 1 /\ Len(q) \in Nat
        /\ \A i \in DOMAIN t : i + 1 \in DOMAIN q /\ t[i] = q[i + 1]
        /\ DOMAIN t = 1..Len(t)
    BY <1>1
  <1> QED
    BY <1>2

LEMMA QueueAppend ==
  ASSUME TypeOK, NEW m \in Message, queue' = Append(queue, m)
  PROVE  /\ Len(queue') = Len(queue) + 1 /\ Len(queue) \in Nat
         /\ DOMAIN queue = 1..Len(queue) /\ DOMAIN queue' = 1..Len(queue')
         /\ \A i \in DOMAIN queue : queue'[i] = queue[i]
         /\ queue'[Len(queue) + 1] = m
  <1> DEFINE q == queue
             a == Append(queue, m)
  <1>1. q \in Seq(Message)
    BY DEF TypeOK
  <1>2. /\ Len(a) = Len(q) + 1 /\ Len(q) \in Nat
        /\ DOMAIN q = 1..Len(q) /\ DOMAIN a = 1..Len(a)
        /\ \A i \in DOMAIN q : a[i] = q[i]
        /\ a[Len(q) + 1] = m
    BY <1>1, AppendProperties
  <1> QED
    BY <1>2

LEMMA QueueTyped ==
  ASSUME TypeOK
  PROVE  /\ DOMAIN queue = 1..Len(queue) /\ Len(queue) \in Nat
         /\ \A i \in DOMAIN queue : queue[i] \in Message /\ queue[i].from \in Nat /\ queue[i].to \in Nat
         /\ fed \in Nat /\ at \in Nat /\ heard \in Nat
  <1>1. queue \in Seq(Message) /\ fed \in Nat /\ at \in Nat /\ heard \in Nat
    BY DEF TypeOK
  <1>2. \A m \in Message : m.from \in Nat /\ m.to \in Nat
    BY DEF Message
  <1> QED
    BY <1>1, <1>2

\* What was covered stays so when a message is added.
LEMMA CoveredAppend ==
  ASSUME TypeOK, NEW m \in Message, queue' = Append(queue, m), fed' = fed,
         NEW i \in 1..(Len(queue) + 1), NEW n \in Nat, Covered(i, n)
  PROVE  Covered(i, n)'
  <1>1. CASE fed >= n
    BY <1>1 DEF Covered
  <1>2. CASE ~ fed >= n
    <2>1. PICK j \in 1..(i - 1) : queue[j].msg = "Chunk" /\ queue[j].to >= n
      BY <1>2 DEF Covered
    <2>2. j \in DOMAIN queue
      BY QueueAppend
    <2>3. queue'[j] = queue[j]
      BY <2>2, QueueAppend
    <2> QED
      BY <2>1, <2>3 DEF Covered
  <1> QED
    BY <1>1, <1>2

\* Nor does it matter that the first chunk is now fed.
LEMMA CoveredTail ==
  ASSUME TypeOK, queue # <<>>, queue' = Tail(queue), fed' = Head(queue).to, fed' >= fed,
         NEW i \in 1..Len(queue), NEW n \in Nat, Covered(i + 1, n)
  PROVE  Covered(i, n)'
  <1>1. /\ Head(queue) = queue[1] /\ Len(queue) \in Nat /\ DOMAIN queue = 1..Len(queue)
        /\ Len(queue') = Len(queue) - 1 /\ DOMAIN queue' = 1..Len(queue')
        /\ \A k \in DOMAIN queue' : queue'[k] = queue[k + 1]
    BY QueueTail
  <1>2. fed \in Nat /\ fed' \in Nat
    <2>1. queue[1] \in Message /\ queue[1].to \in Nat /\ fed \in Nat
      BY <1>1, QueueTyped
    <2> QED
      BY <1>1, <2>1
  <1>3. CASE fed >= n
    <2>1. fed' >= n
      BY <1>2, <1>3
    <2> QED
      BY <2>1 DEF Covered
  <1>4. CASE ~ fed >= n
    <2>1. PICK j \in 1..i : queue[j].msg = "Chunk" /\ queue[j].to >= n
      <3>1. i + 1 - 1 = i
        OBVIOUS
      <3> QED
        BY <1>4, <3>1 DEF Covered
    <2>2. CASE j = 1
      BY <1>1, <2>1, <2>2 DEF Covered
    <2>3. CASE j # 1
      <3>1. PICK k \in Nat : k + 1 = j
        BY <1>1, <2>3
      <3>2. k \in 1..(i - 1) /\ k \in DOMAIN queue'
        BY <1>1, <2>3, <3>1
      <3>3. queue'[k] = queue[j]
        BY <1>1, <3>1, <3>2
      <3> QED
        BY <2>1, <3>2, <3>3 DEF Covered
    <2> QED
      BY <2>2, <2>3
  <1> QED
    BY <1>3, <1>4

LEMMA StillFrame ==
  ASSUME Reading, InOrder, Closed,
         UNCHANGED <<inputs, at, hand, reader, queue, fed, heard>>,
         caught => caught', writer' = "killed" => caught',
         watcher = "second" => watcher' = "second",
         main' = "receiving" => main = "receiving"
  PROVE  (Reading /\ InOrder /\ Closed)'
  <1>1. Reading'
    BY DEF Reading, Size
  <1>2. InOrder'
    BY DEF InOrder, Sent
  <1>3. Closed'
    BY DEF Closed, Sent, Covered, Size
  <1> QED
    BY <1>1, <1>2, <1>3

LEMMA StillPopped ==
  ASSUME TypeOK, Reading, InOrder, Closed, queue # <<>>, queue' = Tail(queue),
         UNCHANGED <<inputs, at, hand, reader, fed, heard, caught, watcher, writer>>,
         main' # "receiving"
  PROVE  (Reading /\ InOrder /\ Closed)'
  <1>1. /\ \A i \in DOMAIN queue' : i + 1 \in DOMAIN queue /\ queue'[i] = queue[i + 1]
        /\ DOMAIN queue' = 1..Len(queue') /\ Len(queue) \in Nat /\ Len(queue') = Len(queue) - 1
    BY QueueTail
  <1>2. Reading'
    BY DEF Reading, Size
  <1>3. Sent' = Sent
    BY DEF Sent
  <1>4. InOrder'
    <2> SUFFICES ASSUME NEW i \in DOMAIN queue', queue'[i].msg = "Chunk"
                 PROVE  /\ fed <= queue'[i].from /\ queue'[i].from <= queue'[i].to
                        /\ queue'[i].to <= Sent
                        /\ \A j \in 1..(i - 1) : queue'[j].msg = "Chunk" => queue'[j].to <= queue'[i].from
      BY <1>3 DEF InOrder
    <2>1. i + 1 \in DOMAIN queue /\ queue'[i] = queue[i + 1]
      BY <1>1
    <2>2. \A j \in 1..(i - 1) : j + 1 \in 1..((i + 1) - 1) /\ queue'[j] = queue[j + 1]
      BY <1>1
    <2> QED
      BY <2>1, <2>2 DEF InOrder
  <1>5. Closed'
    BY <1>1, <1>3 DEF Closed, Size
  <1> QED
    BY <1>2, <1>4, <1>5

LEMMA StillFed ==
  ASSUME TypeOK, Reading, InOrder, Closed, ReceiveChunk
  PROVE  (Reading /\ InOrder /\ Closed)'
  <1>1. /\ main = "receiving" /\ queue # <<>> /\ Head(queue).msg = "Chunk"
        /\ queue' = Tail(queue) /\ fed' = Head(queue).to
        /\ UNCHANGED <<inputs, at, hand, reader, heard, caught, watcher, writer>>
    BY Feeding DEF given, reading, signal
  <1>2. /\ \A i \in DOMAIN queue' : i + 1 \in DOMAIN queue /\ queue'[i] = queue[i + 1]
        /\ 1 \in DOMAIN queue /\ Head(queue) = queue[1] /\ DOMAIN queue = 1..Len(queue)
        /\ DOMAIN queue' = 1..Len(queue') /\ Len(queue) \in Nat /\ Len(queue') = Len(queue) - 1
    BY <1>1, QueueTail
  <1>3. Reading'
    BY <1>1 DEF Reading, Size
  <1>4. Sent' = Sent /\ Sent \in Nat
    BY <1>1, SentIsRead DEF Sent
  <1>5. fed' >= fed /\ fed' <= Sent /\ fed' \in Nat
    <2>1. queue[1].from \in Nat /\ queue[1].to \in Nat /\ fed \in Nat
      BY <1>2, QueueTyped
    <2>2. fed <= queue[1].from /\ queue[1].from <= queue[1].to /\ queue[1].to <= Sent
      BY <1>1, <1>2 DEF InOrder
    <2> QED
      BY <1>1, <1>2, <1>4, <2>1, <2>2
  <1>6. InOrder'
    <2> SUFFICES ASSUME NEW i \in DOMAIN queue', queue'[i].msg = "Chunk"
                 PROVE  /\ fed' <= queue'[i].from /\ queue'[i].from <= queue'[i].to
                        /\ queue'[i].to <= Sent
                        /\ \A j \in 1..(i - 1) : queue'[j].msg = "Chunk" => queue'[j].to <= queue'[i].from
      BY <1>4 DEF InOrder
    <2>1. i + 1 \in DOMAIN queue /\ queue'[i] = queue[i + 1] /\ 1 \in 1..((i + 1) - 1)
      BY <1>2
    <2>2. \A j \in 1..(i - 1) : j + 1 \in 1..((i + 1) - 1) /\ queue'[j] = queue[j + 1]
      BY <1>2
    <2>3. queue[1].to <= queue[i + 1].from
      BY <1>1, <1>2, <2>1 DEF InOrder
    <2>4. /\ queue[i + 1].from <= queue[i + 1].to /\ queue[i + 1].to <= Sent
          /\ \A j \in 1..((i + 1) - 1) : queue[j].msg = "Chunk" => queue[j].to <= queue[i + 1].from
      BY <2>1 DEF InOrder
    <2> QED
      BY <1>1, <1>2, <2>1, <2>2, <2>3, <2>4
  <1>7. ASSUME NEW i \in 1..Len(queue), NEW n \in Nat, Covered(i + 1, n)
        PROVE  Covered(i, n)'
    BY <1>1, <1>5, <1>7, CoveredTail
  <1>8. heard \in Nat /\ at \in Nat
    BY QueueTyped
  <1>9. Covered(Len(queue) + 1, Sent)'
    <2>1. Covered(Len(queue) + 1, Sent) /\ Len(queue) \in 1..Len(queue)
      BY <1>1, <1>2 DEF Closed
    <2>2. Len(queue') + 1 = Len(queue)
      BY <1>2
    <2>3. PICK l \in Nat : l = Len(queue)
      BY <1>2
    <2>4. Covered(l, Sent)'
      <3>1. PICK n \in Nat : n = Sent
        BY <1>4
      <3>2. Covered(l + 1, n)
        BY <2>1, <2>3, <3>1
      <3>3. l \in 1..Len(queue)
        BY <2>1, <2>3
      <3>4. Covered(l, n)'
        BY <1>7, <3>2, <3>3
      <3> QED
        BY <1>4, <3>1, <3>4 DEF Covered
    <2> QED
      BY <2>2, <2>3, <2>4 DEF Covered
  <1>10. ASSUME NEW i \in DOMAIN queue'
         PROVE  /\ queue'[i].msg = "Interrupted" => caught' /\ watcher' = "second" /\ Covered(i, heard)'
                /\ queue'[i].msg = "Eof" =>
                     reader' = "done" /\ (at' = Size(1)' \/ caught') /\ Covered(i, at)'
    <2>1. i + 1 \in DOMAIN queue /\ queue'[i] = queue[i + 1] /\ i \in 1..Len(queue)
      BY <1>2
    <2>2. queue[i + 1].msg = "Interrupted" => caught /\ watcher = "second" /\ Covered(i + 1, heard)
      BY <1>1, <2>1 DEF Closed
    <2>3. queue[i + 1].msg = "Eof" => reader = "done" /\ (at = Size(1) \/ caught) /\ Covered(i + 1, at)
      BY <1>1, <2>1 DEF Closed
    <2>4. Covered(i + 1, heard) => Covered(i, heard)'
      <3>1. Covered(i + 1, heard) => \A h : h = heard => Covered(i, h)'
        BY <1>7, <1>8, <2>1
      <3> QED
        BY <1>1, <3>1 DEF Covered
    <2>5. Covered(i + 1, at) => Covered(i, at)'
      <3>1. Covered(i + 1, at) => \A h : h = at => Covered(i, h)'
        BY <1>7, <1>8, <2>1
      <3> QED
        BY <1>1, <3>1 DEF Covered
    <2> QED
      BY <1>1, <2>1, <2>2, <2>3, <2>4, <2>5 DEF Size
  <1>11. Closed'
    <2>1. fed' <= Sent' /\ heard' <= Sent'
      BY <1>1, <1>4, <1>5 DEF Closed
    <2> QED
      BY <1>9, <1>10, <2>1 DEF Closed
  <1> QED
    BY <1>3, <1>6, <1>11

LEMMA StillTaken ==
  ASSUME TypeOK, Alone, Streamed, ReadChunk \/ ReadEof \/ ReadFails
  PROVE  (Reading /\ InOrder /\ Closed)'
  <1>1. /\ ~ dir /\ reader = "reading" /\ reader' = "sending"
        /\ hand' \in Message /\ hand'.msg # "Interrupted"
        /\ hand'.from = at /\ at' = hand'.to /\ hand'.from <= hand'.to /\ hand'.to <= Size(1)
        /\ hand'.msg # "Chunk" => hand'.to = at
        /\ hand'.msg = "Eof" => at = Size(1) \/ writer = "killed"
        /\ writer' = "killed" => writer = "killed"
        /\ UNCHANGED <<inputs, queue, caught, watcher, heard, main, fed>>
    BY Taking DEF given, signal
  <1>2. Reading /\ InOrder /\ Closed
    BY <1>1 DEF Streamed
  <1>3. hand = NoMessage
    BY <1>1, <1>2 DEF Reading
  <1>4. Sent = at /\ Sent' = at
    BY <1>1, <1>3 DEF Sent, NoMessage
  <1>5. hand' # NoMessage
    BY <1>1 DEF Message, NoMessage
  <1>6. Reading'
    BY <1>1, <1>2, <1>5 DEF Reading, Size
  <1>7. InOrder'
    BY <1>1, <1>2, <1>4 DEF InOrder
  <1>8. \A i \in DOMAIN queue : queue[i].msg # "Eof"
    BY <1>1, <1>2 DEF Closed
  <1>9. Closed'
    BY <1>1, <1>2, <1>4, <1>8 DEF Closed, Covered
  <1> QED
    BY <1>6, <1>7, <1>9

LEMMA StillSent ==
  ASSUME TypeOK, Alone, Streamed, Send
  PROVE  (Reading /\ InOrder /\ Closed)'
  <1>1. /\ main # "exited" /\ reader = "sending"
        /\ queue' = IF main = "receiving" THEN Append(queue, hand) ELSE queue
        /\ reader' = IF hand.msg = "Chunk" /\ main = "receiving" THEN "reading" ELSE "done"
        /\ hand' = NoMessage
        /\ UNCHANGED <<inputs, dir, writer, at, caught, watcher, heard, main, fed>>
    BY DEF Send, given, signal
  <1>2. ~ dir
    BY <1>1 DEF Alone
  <1>3. Reading /\ InOrder /\ Closed /\ Size(1) \in Nat
    BY <1>2, OneStream DEF Streamed
  <1>4. hand \in Message /\ hand.from \in Nat /\ hand.to \in Nat
    BY <1>1, <1>3 DEF Reading, TypeOK, Message
  <1>5. Sent \in Nat /\ Sent <= at /\ Sent' = at /\ at \in Nat /\ fed \in Nat /\ heard \in Nat
    BY <1>1, <1>3, SentIsRead, QueueTyped DEF Sent, NoMessage
  <1>6. Reading'
    BY <1>1, <1>3 DEF Reading, Size, NoMessage
  <1>7. CASE main # "receiving"
    <2>1. queue' = queue /\ reader' = "done"
      BY <1>1, <1>7
    <2>2. InOrder'
      <3>1. \A i \in DOMAIN queue : queue[i].to \in Nat
        BY QueueTyped
      <3>2. \A i \in DOMAIN queue : queue[i].msg = "Chunk" => queue[i].to <= at
        BY <1>3, <1>5, <3>1 DEF InOrder
      <3> QED
        BY <1>1, <1>3, <1>5, <2>1, <3>2 DEF InOrder
    <2>3. Closed'
      <3>1. fed <= at /\ heard <= at
        BY <1>3, <1>5 DEF Closed
      <3> QED
        BY <1>1, <1>3, <1>5, <1>7, <2>1, <3>1 DEF Closed, Size
    <2> QED
      BY <1>6, <2>2, <2>3
  <1>8. CASE main = "receiving"
    <2>1. queue' = Append(queue, hand)
      BY <1>1, <1>8
    <2>2. /\ Len(queue') = Len(queue) + 1 /\ Len(queue) \in Nat
          /\ DOMAIN queue = 1..Len(queue) /\ DOMAIN queue' = 1..Len(queue')
          /\ \A i \in DOMAIN queue : queue'[i] = queue[i]
          /\ queue'[Len(queue) + 1] = hand
      BY <1>4, <2>1, QueueAppend
    <2>3. \A i \in DOMAIN queue' : i \in DOMAIN queue \/ i = Len(queue) + 1
      BY <2>2
    <2>4. \A i \in DOMAIN queue : queue[i].from \in Nat /\ queue[i].to \in Nat
      BY QueueTyped
    <2>5. InOrder'
      <3> SUFFICES ASSUME NEW i \in DOMAIN queue', queue'[i].msg = "Chunk"
                   PROVE  /\ fed <= queue'[i].from /\ queue'[i].from <= queue'[i].to
                          /\ queue'[i].to <= at
                          /\ \A j \in 1..(i - 1) : queue'[j].msg = "Chunk" => queue'[j].to <= queue'[i].from
        BY <1>1, <1>5 DEF InOrder
      <3>1. \A j \in 1..(i - 1) : j \in DOMAIN queue /\ queue'[j] = queue[j]
        BY <2>2
      <3>2. CASE i \in DOMAIN queue
        <4>1. /\ fed <= queue[i].from /\ queue[i].from <= queue[i].to /\ queue[i].to <= Sent
              /\ \A j \in 1..(i - 1) : queue[j].msg = "Chunk" => queue[j].to <= queue[i].from
          BY <1>3, <2>2, <3>2 DEF InOrder
        <4> QED
          BY <1>5, <2>2, <2>4, <3>1, <3>2, <4>1
      <3>3. CASE i = Len(queue) + 1
        <4>1. hand.msg = "Chunk" /\ queue'[i] = hand
          BY <2>2, <3>3
        <4>2. Sent = hand.from /\ hand.from <= hand.to /\ hand.to = at
          BY <1>3, <4>1 DEF Sent, Reading
        <4>3. fed <= Sent /\ \A j \in DOMAIN queue : queue[j].msg = "Chunk" => queue[j].to <= Sent
          BY <1>3 DEF Closed, InOrder
        <4> QED
          BY <1>4, <1>5, <3>1, <4>1, <4>2, <4>3
      <3> QED
        BY <2>3, <3>2, <3>3
    <2>6. ASSUME NEW i \in 1..(Len(queue) + 1), NEW n \in Nat, Covered(i, n)
          PROVE  Covered(i, n)'
      BY <1>1, <1>4, <2>1, <2>6, CoveredAppend
    <2>7. Covered(Len(queue) + 1, Sent)
      BY <1>3, <1>8 DEF Closed
    <2>8. Covered(Len(queue) + 1, Sent)'
      <3>1. Len(queue) + 1 \in 1..((Len(queue') + 1) - 1)
        BY <2>2
      <3>2. CASE hand.msg = "Chunk"
        <4>1. queue'[Len(queue) + 1].msg = "Chunk" /\ queue'[Len(queue) + 1].to >= at
          BY <1>3, <1>4, <1>5, <2>2, <3>2 DEF Reading
        <4> QED
          BY <1>5, <3>1, <4>1 DEF Covered
      <3>3. CASE hand.msg # "Chunk"
        <4>1. Sent = at
          BY <1>3, <3>3, SentIsRead
        <4>2. CASE fed >= at
          BY <1>1, <1>5, <4>2 DEF Covered
        <4>3. CASE ~ fed >= at
          <5>1. PICK j \in 1..((Len(queue) + 1) - 1) : queue[j].msg = "Chunk" /\ queue[j].to >= at
            BY <2>7, <4>1, <4>3 DEF Covered
          <5>2. j \in DOMAIN queue /\ j \in 1..((Len(queue') + 1) - 1)
            BY <2>2
          <5>3. queue'[j] = queue[j]
            BY <2>2, <5>2
          <5> QED
            BY <1>5, <5>1, <5>2, <5>3 DEF Covered
        <4> QED
          BY <4>2, <4>3
      <3> QED
        BY <3>2, <3>3
    <2>9. ASSUME NEW i \in DOMAIN queue'
          PROVE  /\ queue'[i].msg = "Interrupted" => caught' /\ watcher' = "second" /\ Covered(i, heard)'
                 /\ queue'[i].msg = "Eof" =>
                      reader' = "done" /\ (at' = Size(1)' \/ caught') /\ Covered(i, at)'
      <3>1. CASE i \in DOMAIN queue
        <4>1. queue'[i] = queue[i] /\ i \in 1..(Len(queue) + 1)
          BY <2>2, <3>1
        <4>2. queue[i].msg = "Interrupted" => caught /\ watcher = "second" /\ Covered(i, heard)
          BY <1>3, <1>8, <3>1 DEF Closed
        <4>3. Covered(i, heard) => Covered(i, heard)'
          <5>1. Covered(i, heard) => \A h : h = heard => Covered(i, h)'
            BY <1>5, <2>6, <4>1
          <5> QED
            BY <1>1, <5>1 DEF Covered
        <4>4. queue[i].msg # "Eof"
          BY <1>1, <1>3, <3>1 DEF Closed
        <4> QED
          BY <1>1, <4>1, <4>2, <4>3, <4>4
      <3>2. CASE i = Len(queue) + 1
        <4>1. queue'[i] = hand /\ hand.msg # "Interrupted"
          BY <1>3, <2>2, <3>2 DEF Reading
        <4>2. CASE hand.msg = "Eof"
          <5>1. reader' = "done" /\ (at = Size(1) \/ caught) /\ Sent = at
            BY <1>1, <1>3, <4>2, SentIsRead DEF Reading
          <5>2. PICK l \in Nat : l = Len(queue) + 1
            BY <2>2
          <5>3. Covered(l, at) /\ l \in 1..(Len(queue) + 1)
            BY <2>2, <2>7, <5>1, <5>2
          <5>4. \A h : h = at => Covered(l, h)'
            BY <1>5, <2>6, <5>3
          <5>5. Covered(i, at)'
            BY <1>1, <3>2, <5>2, <5>4 DEF Covered
          <5> QED
            BY <1>1, <4>1, <5>1, <5>5 DEF Size
        <4> QED
          BY <4>1, <4>2
      <3> QED
        BY <2>3, <3>1, <3>2
    <2>10. Closed'
      <3>1. fed' <= Sent' /\ heard' <= Sent'
        BY <1>1, <1>3, <1>5 DEF Closed
      <3> QED
        BY <2>8, <2>9, <3>1 DEF Closed
    <2> QED
      BY <1>6, <2>5, <2>10
  <1> QED
    BY <1>7, <1>8

LEMMA StillWoken ==
  ASSUME TypeOK, Alone, Streamed, NEW sig \in Signals, Wake(sig)
  PROVE  (Reading /\ InOrder /\ Closed)'
  <1> DEFINE m == [msg |-> "Interrupted", from |-> at, to |-> at]
  <1>1. /\ main = "receiving" /\ sig \in pending /\ watcher = "first" /\ watcher' = "second" /\ queue' = Append(queue, m) /\ heard' = Sent
        /\ UNCHANGED <<inputs, dir, at, reader, hand, writer, caught, main, fed>>
    BY DEF Wake, given, reading
  <1>2. ~ dir /\ caught
    BY <1>1 DEF Alone
  <1>3. Reading /\ InOrder /\ Closed
    BY <1>2 DEF Streamed
  <1>4. Sent \in Nat /\ Sent <= at /\ Sent' = Sent /\ fed \in Nat /\ heard \in Nat /\ at \in Nat
    BY <1>1, <1>3, SentIsRead, QueueTyped DEF Sent
  <1>5. m \in Message
    BY <1>4 DEF Message
  <1>6. m.msg = "Interrupted"
    OBVIOUS
  <1> HIDE DEF m
  <1>7. /\ Len(queue') = Len(queue) + 1 /\ Len(queue) \in Nat
        /\ DOMAIN queue = 1..Len(queue) /\ DOMAIN queue' = 1..Len(queue')
        /\ \A i \in DOMAIN queue : queue'[i] = queue[i]
        /\ queue'[Len(queue) + 1] = m
    BY <1>1, <1>5, QueueAppend
  <1>8. \A i \in DOMAIN queue' : i \in DOMAIN queue \/ i = Len(queue) + 1
    BY <1>7
  <1>9. Reading'
    BY <1>1, <1>3 DEF Reading, Size
  <1>10. InOrder'
    <2> SUFFICES ASSUME NEW i \in DOMAIN queue', queue'[i].msg = "Chunk"
                 PROVE  /\ fed <= queue'[i].from /\ queue'[i].from <= queue'[i].to
                        /\ queue'[i].to <= Sent
                        /\ \A j \in 1..(i - 1) : queue'[j].msg = "Chunk" => queue'[j].to <= queue'[i].from
      BY <1>1, <1>4 DEF InOrder
    <2>1. i \in DOMAIN queue
      BY <1>6, <1>7, <1>8
    <2>2. \A j \in 1..(i - 1) : j \in DOMAIN queue /\ queue'[j] = queue[j]
      BY <1>7, <2>1
    <2> QED
      BY <1>3, <1>7, <2>1, <2>2 DEF InOrder
  <1>11. ASSUME NEW i \in 1..(Len(queue) + 1), NEW n \in Nat, Covered(i, n)
         PROVE  Covered(i, n)'
    BY <1>1, <1>5, <1>11, CoveredAppend
  <1>12. PICK l \in Nat : l = Len(queue) + 1
    BY <1>7
  <1>13. Covered(l, Sent)' /\ Covered(l + 1, Sent)'
    <2>1. Covered(l, Sent) /\ l \in 1..(Len(queue) + 1)
      BY <1>1, <1>3, <1>7, <1>12 DEF Closed
    <2>2. \A h : h = Sent => Covered(l, h)'
      BY <1>4, <1>11, <2>1
    <2>3. Covered(l, Sent)'
      BY <1>4, <2>2 DEF Covered
    <2>4. \A j \in 1..(l - 1) : j \in 1..((l + 1) - 1)
      OBVIOUS
    <2> QED
      BY <2>3, <2>4 DEF Covered
  <1>14. ASSUME NEW i \in DOMAIN queue'
         PROVE  /\ queue'[i].msg = "Interrupted" => caught' /\ watcher' = "second" /\ Covered(i, heard)'
                /\ queue'[i].msg = "Eof" =>
                     reader' = "done" /\ (at' = Size(1)' \/ caught') /\ Covered(i, at)'
    <2>1. CASE i \in DOMAIN queue
      <3>1. queue'[i] = queue[i] /\ i \in 1..(Len(queue) + 1)
        BY <1>7, <2>1
      <3>2. queue[i].msg = "Eof" => reader = "done" /\ (at = Size(1) \/ caught) /\ Covered(i, at)
        BY <1>1, <1>3, <2>1 DEF Closed
      <3>3. queue[i].msg # "Interrupted"
        BY <1>1, <1>3, <2>1 DEF Closed
      <3>4. Covered(i, at) => Covered(i, at)'
        <4>1. Covered(i, at) => \A h : h = at => Covered(i, h)'
          BY <1>4, <1>11, <3>1
        <4> QED
          BY <1>1, <4>1 DEF Covered
      <3> QED
        BY <1>1, <3>1, <3>2, <3>3, <3>4 DEF Size
    <2>2. CASE i = Len(queue) + 1
      <3>1. queue'[i].msg = "Interrupted" /\ i = l
        BY <1>6, <1>7, <1>12, <2>2
      <3>2. Covered(i, heard)'
        BY <1>1, <1>4, <1>13, <3>1 DEF Covered
      <3> QED
        BY <1>1, <1>2, <3>1, <3>2
    <2> QED
      BY <1>8, <2>1, <2>2
  <1>15. Closed'
    <2>1. fed' <= Sent' /\ heard' <= Sent'
      BY <1>1, <1>3, <1>4 DEF Closed
    <2>2. Covered(Len(queue) + 1, Sent)'
      <3>1. Len(queue') + 1 = l + 1
        BY <1>7, <1>12
      <3> QED
        BY <1>13, <3>1 DEF Covered
    <2> QED
      BY <1>14, <2>1, <2>2 DEF Closed
  <1> QED
    BY <1>9, <1>10, <1>15

LEMMA StillStreamed ==
  ASSUME TypeOK, Streamed, Alone, [Next]_vars
  PROVE  Streamed'
  <1>1. CASE ReadChunk \/ ReadEof \/ ReadFails
    BY <1>1, StillTaken DEF Streamed
  <1>2. CASE Send
    BY <1>2, StillSent DEF Streamed
  <1>3. CASE \E sig \in Signals : Wake(sig)
    BY <1>3, StillWoken DEF Streamed
  <1>4. CASE dir /\ dir' = dir
    BY <1>4 DEF Streamed
  <1>5. CASE ReceiveChunk
    <2>1. dir' = dir
      BY <1>5, Feeding DEF given
    <2> QED
      BY <1>4, <1>5, <2>1, StillFed DEF Streamed, TypeOK
  <1>6. CASE ReceiveEnd \/ ReceiveFailed
    <2>1. /\ queue # <<>> /\ queue' = Tail(queue) /\ main' # "receiving"
          /\ UNCHANGED <<inputs, dir, at, hand, reader, fed, heard, caught, watcher, writer>>
      BY <1>6, Leaving DEF ReceiveFailed, Received, given, reading, signal
    <2> QED
      BY <1>4, <2>1, StillPopped DEF Streamed
  <1>7. CASE ReplayChunk \/ ReplayNext \/ ReplayFails
    <2>1. dir /\ dir' = dir
      BY <1>7, Replaying DEF given
    <2> QED
      BY <1>4, <2>1
  <1> DEFINE Frame == /\ UNCHANGED <<inputs, dir, at, hand, reader, queue, fed, heard>>
                      /\ caught => caught'
                      /\ writer' = "killed" => writer = "killed" \/ caught'
                      /\ watcher = "second" => watcher' = "second"
                      /\ main' = "receiving" => main = "receiving"
  <1>8. CASE Frame
    <2>1. CASE ~ dir
      <3>1. Reading /\ InOrder /\ Closed
        BY <2>1 DEF Streamed
      <3>2. writer' = "killed" => caught'
        BY <1>8, <3>1 DEF Reading
      <3> QED
        BY <1>8, <3>1, <3>2, StillFrame DEF Streamed
    <2> QED
      BY <1>4, <1>8, <2>1
  <1>9. (\E sig \in Signals : Signal(sig)) => Frame
    BY DEF Signal, given, reading
  <1>10. (\E sig \in Signals : Abort(sig)) => Frame
    BY DEF Abort, given, reading
  <1>11. ShowLast => Frame
    BY Showing DEF given, reading, signal
  <1>12. CheckFlag \/ FinishRun \/ Report => Frame
    BY DEF CheckFlag, FinishRun, Report, given, reading, signal
  <1>13. UNCHANGED vars => Frame
    BY DEF vars, given, reading, signal
  <1> HIDE DEF Frame
  <1> QED
    BY <1>1, <1>2, <1>3, <1>5, <1>6, <1>7, <1>8, <1>9, <1>10, <1>11, <1>12, <1>13, Steps

-----------------------------------------------------------------------------
(* The theorems.                                                            *)

LEMMA InitIInv == Init => IInv
  <1> SUFFICES ASSUME Init PROVE IInv
    OBVIOUS
  <1>1. /\ writer = "writing" /\ at = 0 /\ hand = NoMessage /\ queue = <<>> /\ caught = FALSE
        /\ reader = IF dir THEN "none" ELSE "reading"
        /\ main = IF dir THEN "replaying" ELSE "receiving"
        /\ pending = {} /\ watcher = "first" /\ nth = 1 /\ fed = 0 /\ run = "recording"
        /\ signals = 0 /\ heard = 0 /\ streaming \in BOOLEAN
    BY DEF Init
  <1>2. /\ dir \in BOOLEAN /\ (~ dir => Len(inputs) = 1)
        /\ inputs \in Seq([stream : Streams, bytes : Seq([kind : STRING, value : Nat])])
        /\ inputs # <<>>
    BY IngestAssumption DEF Init
  <1>3. 1 \in 1..Len(inputs)
    <2> DEFINE Given == [stream : Streams, bytes : Seq([kind : STRING, value : Nat])]
    <2>1. inputs \in Seq(Given) /\ inputs # <<>>
      BY <1>2
    <2> HIDE DEF Given
    <2> QED
      BY <2>1
  <1>4. TypeOK
    <2>1. <<>> \in Seq(Message)
      OBVIOUS
    <2>2. reader \in {"none", "reading", "sending", "done"} /\ main \in Mains
      BY <1>1 DEF Mains
    <2> QED
      BY <1>1, <1>2, <1>3, <2>1, <2>2 DEF TypeOK
  <1>5. Size(1) \in Nat
    BY <1>3, <1>4, SizeIsNat
  <1>6. Ended /\ Alone
    BY <1>1, <1>5 DEF Ended, Alone
  <1>7. Streamed
    <2> SUFFICES ASSUME ~ dir PROVE Reading /\ InOrder /\ Closed
      BY DEF Streamed
    <2>1. Sent = 0
      BY <1>1 DEF Sent, NoMessage
    <2>2. DOMAIN queue = {}
      BY <1>1
    <2>3. Reading
      BY <1>1, <1>5 DEF Reading, NoMessage
    <2>4. InOrder
      BY <2>2 DEF InOrder
    <2>5. Closed
      BY <1>1, <2>1, <2>2 DEF Closed, Covered
    <2> QED
      BY <2>3, <2>4, <2>5
  <1> QED
    BY <1>4, <1>6, <1>7 DEF IInv

LEMMA NextIInv == IInv /\ [Next]_vars => IInv'
  BY Typed, StillStreamed, StillEnded, StillAlone DEF IInv

\* Where the input is between the reading thread, the queue and the recording,
\* and what ends it (ingest.rs pump and read_into).
THEOREM Invariant == Spec => []IInv
  BY InitIInv, NextIInv, PTL DEF Spec

\* The state but for the recording keeps its types.
THEOREM TypeCorrect == Spec => []TypeOK
  <1>1. IInv => TypeOK
    BY DEF IInv
  <1> QED
    BY <1>1, Invariant, PTL

\* A run that joins baselines was read to its end, whoever died of the signal
\* first; an interrupted one had a signal (ingest.rs pump, where the flag decides).
THEOREM WholeRuns == Spec => []WholeIsWhole
  <1>1. IInv => WholeIsWhole
    BY DEF IInv, Ended, WholeIsWhole
  <1> QED
    BY <1>1, Invariant, PTL

\* What was queued before the signal is in the run it ends (ingest.rs watch, where the
\* signal takes its turn in the queue).
THEOREM QueuedIsKept == Spec => []KeepsWhatWasQueued
  <1>1. IInv => KeepsWhatWasQueued
    BY DEF IInv, Ended, KeepsWhatWasQueued
  <1> QED
    BY <1>1, Invariant, PTL

-----------------------------------------------------------------------------
(* Folds. Each is a walk along a sequence, whose steps are named here so    *)
(* that what holds of all walks is shown once.                              *)

\* Of the members of a set of naturals, one is the least.
LEMMA Least ==
  ASSUME NEW S \in SUBSET Nat, NEW s \in S
  PROVE  \E o \in S : \A p \in S : o <= p
<1> DEFINE R == OpToRel(<, Nat)
<1>1. R = {d \in Nat \X Nat : d[1] < d[2]}
  BY DEF OpToRel
<1> HIDE DEF R
<1>2. IsWellFoundedOn(R, Nat)
  BY NatLessThanWellFounded DEF R
<1>3. PICK o \in S : \A p \in S : <<p, o>> \notin R
  <2>1. S \subseteq Nat /\ S # {}
    OBVIOUS
  <2>2. \E o \in S : \A p \in S : ~ (<<p, o>> \in R)
    BY <1>2, <2>1, WFMin, Zenon
  <2> QED
    BY <2>2
<1>4. ASSUME NEW p \in S, p < o PROVE FALSE
  <2>1. PICK d : d = <<p, o>>
    OBVIOUS
  <2>2. d \in Nat \X Nat /\ d[1] < d[2]
    BY <1>4, <2>1
  <2> QED
    BY <1>1, <1>3, <2>1, <2>2
<1> QED
  BY <1>4

\* What holds of the first n numbers, if it holds of one when it does of those before.
LEMMA UpTo ==
  ASSUME NEW S, NEW n \in Nat, 0 \in S,
         \A k \in 1..n : k - 1 \in S => k \in S
  PROVE  \A k \in 0..n : k \in S
<1> SUFFICES ASSUME NEW k \in 0..n, k \notin S PROVE FALSE
  OBVIOUS
<1> DEFINE T == {j \in 0..n : j \notin S}
<1>1. T \in SUBSET Nat /\ k \in T
  OBVIOUS
<1>2. PICK o \in T : \A p \in T : o <= p
  BY <1>1, Least
<1>3. o # 0 /\ o \in 1..n /\ o - 1 \in 0..n
  BY <1>2
<1>4. o - 1 \notin T
  BY <1>2, <1>3
<1> QED
  BY <1>2, <1>3, <1>4

\* Of the members of a set of numbers up to n, one is the greatest.
LEMMA MaxIs ==
  ASSUME NEW n \in Nat, NEW s \in SUBSET (1..n), s # {}
  PROVE  Max(s) \in s /\ \A y \in s : Max(s) >= y
<1> DEFINE T == {n - i : i \in s}
<1>1. T \in SUBSET Nat
  OBVIOUS
<1>2. PICK i \in s : TRUE
  OBVIOUS
<1>3. PICK o \in T : \A p \in T : o <= p
  <2>1. PICK d : d = n - i
    OBVIOUS
  <2>2. d \in T
    BY <2>1
  <2> HIDE DEF T
  <2> QED
    BY <1>1, <2>2, Least
<1>4. PICK m \in s : o = n - m
  BY <1>3
<1>5. \A y \in s : m >= y
  <2> SUFFICES ASSUME NEW y \in s PROVE m >= y
    OBVIOUS
  <2>1. n - y \in T /\ y \in 1..n /\ m \in 1..n
    OBVIOUS
  <2>2. o <= n - y
    BY <1>3, <2>1
  <2> QED
    BY <1>4, <2>1, <2>2
<1> QED
  BY <1>4, <1>5, Zenon DEF Max

\* The greatest of the numbers up to k is k; without it they are those up to k - 1.
LEMMA MaxUpTo ==
  ASSUME NEW k \in Nat, k >= 1
  PROVE  Max(1..k) = k /\ (1..k) \ {Max(1..k)} = 1..(k - 1)
<1>1. 1..k # {} /\ 1..k \in SUBSET (1..k) /\ k \in 1..k
  OBVIOUS
<1>2. Max(1..k) \in 1..k /\ Max(1..k) >= k
  BY <1>1, MaxIs
<1> QED
  BY <1>2

\* A fold over places is defined: there is a function its equation describes.
LEMMA FoldExists ==
  ASSUME NEW by, NEW base, NEW seq, NEW n \in Nat
  PROVE  \E f : FoldEq(f, by, base, seq, n)
<1> DEFINE S == {k \in 0..n : \E f : FoldEq(f, by, base, seq, k)}
<1>1. 0 \in S
  <2>1. SUBSET (1..0) = {{}}
    OBVIOUS
  <2>2. FoldEq([s \in {{}} |-> base], by, base, seq, 0)
    BY <2>1 DEF FoldEq
  <2> QED
    BY <2>2
<1>2. ASSUME NEW k \in 1..n, k - 1 \in S PROVE k \in S
  <2>1. PICK f : FoldEq(f, by, base, seq, k - 1)
    BY <1>2
  <2> DEFINE g == [s \in SUBSET (1..k) |->
                     IF s = {} THEN base ELSE Step(by, f[s \ {Max(s)}], seq[Max(s)])]
  <2>2. ASSUME NEW s \in SUBSET (1..(k - 1)) PROVE g[s] = f[s]
    <3>1. s \in SUBSET (1..k)
      OBVIOUS
    <3>2. g[s] = IF s = {} THEN base ELSE Step(by, f[s \ {Max(s)}], seq[Max(s)])
      BY <3>1
    <3>3. f[s] = IF s = {} THEN base ELSE Step(by, f[s \ {Max(s)}], seq[Max(s)])
      BY <2>1 DEF FoldEq
    <3> QED
      BY <3>2, <3>3
  <2>3. ASSUME NEW s \in SUBSET (1..k), s # {} PROVE s \ {Max(s)} \in SUBSET (1..(k - 1))
    <3>1. Max(s) \in s /\ \A y \in s : Max(s) >= y
      BY <2>3, MaxIs
    <3> SUFFICES ASSUME NEW y \in s, y # Max(s) PROVE y \in 1..(k - 1)
      OBVIOUS
    <3>2. y \in 1..k /\ Max(s) \in 1..k /\ Max(s) >= y
      BY <3>1
    <3> QED
      BY <3>2
  <2> HIDE DEF g
  <2>4. \A s \in SUBSET (1..k) :
          g[s] = IF s = {} THEN base ELSE Step(by, g[s \ {Max(s)}], seq[Max(s)])
    <3> SUFFICES ASSUME NEW s \in SUBSET (1..k)
                 PROVE  g[s] = IF s = {} THEN base ELSE Step(by, g[s \ {Max(s)}], seq[Max(s)])
      OBVIOUS
    <3>1. g[s] = IF s = {} THEN base ELSE Step(by, f[s \ {Max(s)}], seq[Max(s)])
      BY DEF g
    <3>2. CASE s = {}
      BY <3>1, <3>2
    <3>3. CASE s # {}
      BY <3>1, <3>3, <2>2, <2>3
    <3> QED
      BY <3>2, <3>3
  <2>5. FoldEq(g, by, base, seq, k)
    BY <2>4, Zenon DEF FoldEq, g
  <2> QED
    BY <2>5
<1> HIDE DEF S
<1>3. n \in S
  BY <1>1, <1>2, UpTo
<1> QED
  BY <1>3 DEF S

\* A fold over all the places of a sequence is a walk along it.
LEMMA FoldWalks ==
  ASSUME NEW by, NEW base, NEW seq, NEW n \in Nat, NEW f, FoldEq(f, by, base, seq, n)
  PROVE  \E h : Walks(h, by, base, seq, n) /\ h[n] = f[1..n]
<1>1. PICK h : h = [k \in 0..n |-> f[1..k]]
  OBVIOUS
<1>2. h[0] = base
  <2>1. 1..0 = {} /\ {} \in SUBSET (1..n) /\ 0 \in 0..n
    OBVIOUS
  <2> QED
    BY <1>1, <2>1 DEF FoldEq
<1>3. ASSUME NEW k \in 1..n PROVE h[k] = Step(by, h[k - 1], seq[k])
  <2>1. 1..k \in SUBSET (1..n) /\ 1..k # {} /\ k - 1 \in 0..n /\ k \in 0..n
    OBVIOUS
  <2>2. Max(1..k) = k /\ (1..k) \ {Max(1..k)} = 1..(k - 1)
    BY MaxUpTo
  <2>3. f[1..k] = Step(by, f[(1..k) \ {Max(1..k)}], seq[Max(1..k)])
    BY <2>1 DEF FoldEq
  <2> QED
    BY <1>1, <2>1, <2>2, <2>3
<1>4. Walks(h, by, base, seq, n)
  BY <1>2, <1>3 DEF Walks
<1>5. h[n] = f[1..n]
  BY <1>1
<1> QED
  BY <1>4, <1>5

\* Two walks that take the same steps are at the same places.
LEMMA WalksAgree ==
  ASSUME NEW by, NEW by2, NEW base, NEW s, NEW t, NEW n \in Nat, NEW h, NEW g, NEW m \in Nat, m >= n,
         Walks(h, by, base, s, n), Walks(g, by2, base, t, m),
         \A k \in 1..n : \A r : Step(by, r, s[k]) = Step(by2, r, t[k])
  PROVE  h[n] = g[n]
<1> DEFINE S == {k \in 0..n : h[k] = g[k]}
<1>1. 0 \in S
  BY DEF Walks
<1>2. ASSUME NEW k \in 1..n, k - 1 \in S PROVE k \in S
  <2>1. h[k] = Step(by, h[k - 1], s[k]) /\ g[k] = Step(by2, g[k - 1], t[k])
    BY DEF Walks
  <2> QED
    BY <1>2, <2>1
<1> HIDE DEF S
<1>3. n \in S
  BY <1>1, <1>2, UpTo
<1> QED
  BY <1>3 DEF S

\* The lines of a chunk are sunk one after the other.
LEMMA LinesWalk ==
  ASSUME NEW r0, NEW stream, NEW raws, NEW n \in Nat, DOMAIN raws = 1..n
  PROVE  \E h : /\ Walks(h, [fold |-> "lines", stream |-> stream], r0, raws, n)
                /\ SinkLines(r0, stream, raws) = h[n]
<1> DEFINE by == [fold |-> "lines", stream |-> stream]
           list == raws
           fold == CHOOSE f : LinesEq(f, r0, stream, raws)
<1>1. DOMAIN list = 1..n
  OBVIOUS
<1>2. SinkLines(r0, stream, raws) = fold[DOMAIN list]
  BY Zenon DEF SinkLines, FoldLeft, MapThenFoldSet, LinesEq
<1>3. ASSUME NEW r, NEW x PROVE Step(by, r, x) = SinkLine(r, stream, x)
  BY DEF Step
<1>4. \A f : LinesEq(f, r0, stream, raws) <=> FoldEq(f, by, r0, list, n)
  <2> SUFFICES ASSUME NEW f PROVE LinesEq(f, r0, stream, raws) <=> FoldEq(f, by, r0, list, n)
    OBVIOUS
  <2>1. \A s \in SUBSET (1..n) :
          Step(by, f[s \ {Max(s)}], list[Max(s)]) = SinkLine(f[s \ {Max(s)}], stream, raws[Max(s)])
    BY <1>3, Zenon
  <2>2. \A s \in SUBSET DOMAIN list :
          (IF s = {} THEN r0 ELSE Step(by, f[s \ {Max(s)}], list[Max(s)]))
          = (IF s = {} THEN r0 ELSE SinkLine(f[s \ {Max(s)}], stream, raws[Max(s)]))
    BY <1>1, <2>1, Zenon
  <2> QED
    BY <1>1, <2>2, Zenon DEF LinesEq, FoldEq
<1>5. \E f : LinesEq(f, r0, stream, raws)
  BY <1>4, FoldExists
<1>6. LinesEq(fold, r0, stream, raws)
  BY <1>5, Zenon
<1> HIDE DEF fold, by, list
<1>7. PICK h : Walks(h, by, r0, list, n) /\ h[n] = fold[1..n]
  BY <1>4, <1>6, FoldWalks
<1> QED
  BY <1>1, <1>2, <1>7 DEF by, list

\* The newlines of a chunk are found from its first byte to its last.
LEMMA EndsWalk ==
  ASSUME NEW chunk, NEW n \in Nat, DOMAIN chunk = 1..n
  PROVE  \E h : /\ Walks(h, [fold |-> "ends", seq |-> chunk], <<>>, [i \in DOMAIN chunk |-> i], n)
                /\ Ends(chunk) = h[n]
<1> DEFINE by == [fold |-> "ends", seq |-> chunk]
           list == [i \in DOMAIN chunk |-> i]
           fold == CHOOSE f : EndsEq(f, chunk)
<1>1. DOMAIN list = 1..n
  OBVIOUS
<1>2. Ends(chunk) = fold[DOMAIN list]
  BY Zenon DEF Ends, Places, FoldLeftDomain, EndsStep, FoldLeft, MapThenFoldSet, EndsEq
<1>3. ASSUME NEW r, NEW x PROVE Step(by, r, x) = EndsStep(chunk, r, x)
  BY DEF Step
<1>4. \A f : EndsEq(f, chunk) <=> FoldEq(f, by, <<>>, list, n)
  <2> SUFFICES ASSUME NEW f PROVE EndsEq(f, chunk) <=> FoldEq(f, by, <<>>, list, n)
    OBVIOUS
  <2>1. \A s \in SUBSET (1..n) :
          Step(by, f[s \ {Max(s)}], list[Max(s)]) = EndsStep(chunk, f[s \ {Max(s)}], list[Max(s)])
    BY <1>3, Zenon
  <2>2. \A s \in SUBSET DOMAIN list :
          (IF s = {} THEN <<>> ELSE Step(by, f[s \ {Max(s)}], list[Max(s)]))
          = (IF s = {} THEN <<>> ELSE EndsStep(chunk, f[s \ {Max(s)}], list[Max(s)]))
    BY <1>1, <2>1, Zenon
  <2> QED
    BY <1>1, <2>2, Zenon DEF EndsEq, FoldEq
<1>5. \E f : EndsEq(f, chunk)
  BY <1>4, FoldExists
<1>6. EndsEq(fold, chunk)
  BY <1>5, Zenon
<1> HIDE DEF fold, by, list
<1>7. PICK h : Walks(h, by, <<>>, list, n) /\ h[n] = fold[1..n]
  BY <1>4, <1>6, FoldWalks
<1> QED
  BY <1>1, <1>2, <1>7 DEF by, list

\* The addresses of a line are found from its first byte to its last.
LEMMA AddressWalk ==
  ASSUME NEW line, NEW n \in Nat, DOMAIN line = 1..n
  PROVE  \E h : /\ Walks(h, [fold |-> "pii", seq |-> line], <<>>, [i \in DOMAIN line |-> i], n)
                /\ Addresses(line) = h[n]
<1> DEFINE by == [fold |-> "pii", seq |-> line]
           list == [i \in DOMAIN line |-> i]
           fold == CHOOSE f : AddressEq(f, line)
<1>1. DOMAIN list = 1..n
  OBVIOUS
<1>2. Addresses(line) = fold[DOMAIN list]
  BY Zenon DEF Addresses, Places, FoldLeftDomain, PiiStep, FoldLeft, MapThenFoldSet, AddressEq
<1>3. ASSUME NEW r, NEW x PROVE Step(by, r, x) = PiiStep(line, r, x)
  BY DEF Step
<1>4. \A f : AddressEq(f, line) <=> FoldEq(f, by, <<>>, list, n)
  <2> SUFFICES ASSUME NEW f PROVE AddressEq(f, line) <=> FoldEq(f, by, <<>>, list, n)
    OBVIOUS
  <2>1. \A s \in SUBSET (1..n) :
          Step(by, f[s \ {Max(s)}], list[Max(s)]) = PiiStep(line, f[s \ {Max(s)}], list[Max(s)])
    BY <1>3, Zenon
  <2>2. \A s \in SUBSET DOMAIN list :
          (IF s = {} THEN <<>> ELSE Step(by, f[s \ {Max(s)}], list[Max(s)]))
          = (IF s = {} THEN <<>> ELSE PiiStep(line, f[s \ {Max(s)}], list[Max(s)]))
    BY <1>1, <2>1, Zenon
  <2> QED
    BY <1>1, <2>2, Zenon DEF AddressEq, FoldEq
<1>5. \E f : AddressEq(f, line)
  BY <1>4, FoldExists
<1>6. AddressEq(fold, line)
  BY <1>5, Zenon
<1> HIDE DEF fold, by, list
<1>7. PICK h : Walks(h, by, <<>>, list, n) /\ h[n] = fold[1..n]
  BY <1>4, <1>6, FoldWalks
<1> QED
  BY <1>1, <1>2, <1>7 DEF by, list

\* At the end of the streams, the unfinished line of each is sunk, a stream after the other.
LEMMA LastWalk ==
  ASSUME NEW r0, NEW n \in Nat, DOMAIN r0.order = 1..n
  PROVE  \E h : /\ Walks(h, [fold |-> "last"], r0, r0.order, n)
                /\ SinkLast(r0) = h[n]
<1> DEFINE by == [fold |-> "last"]
           list == r0.order
           fold == CHOOSE f : LastEq(f, r0)
<1>1. DOMAIN list = 1..n
  OBVIOUS
<1>2. SinkLast(r0) = fold[DOMAIN list]
  BY Zenon DEF SinkLast, FoldLeft, MapThenFoldSet, LastEq
<1>3. ASSUME NEW r, NEW x PROVE Step(by, r, x) = SinkLines(r, x, LastLine(r.splitter[x]))
  BY DEF Step
<1>4. \A f : LastEq(f, r0) <=> FoldEq(f, by, r0, list, n)
  <2> SUFFICES ASSUME NEW f PROVE LastEq(f, r0) <=> FoldEq(f, by, r0, list, n)
    OBVIOUS
  <2>1. \A s \in SUBSET (1..n) :
          Step(by, f[s \ {Max(s)}], list[Max(s)]) = SinkLines(f[s \ {Max(s)}], r0.order[Max(s)], LastLine(f[s \ {Max(s)}].splitter[r0.order[Max(s)]]))
    BY <1>3, Zenon
  <2>2. \A s \in SUBSET DOMAIN list :
          (IF s = {} THEN r0 ELSE Step(by, f[s \ {Max(s)}], list[Max(s)]))
          = (IF s = {} THEN r0 ELSE SinkLines(f[s \ {Max(s)}], r0.order[Max(s)], LastLine(f[s \ {Max(s)}].splitter[r0.order[Max(s)]])))
    BY <1>1, <2>1, Zenon
  <2> QED
    BY <1>1, <2>2, Zenon DEF LastEq, FoldEq
<1>5. \E f : LastEq(f, r0)
  BY <1>4, FoldExists
<1>6. LastEq(fold, r0)
  BY <1>5, Zenon
<1> HIDE DEF fold, by, list
<1>7. PICK h : Walks(h, by, r0, list, n) /\ h[n] = fold[1..n]
  BY <1>4, <1>6, FoldWalks
<1> QED
  BY <1>1, <1>2, <1>7 DEF by, list

\* The spans of a line are replaced from the first to the last.
LEMMA MarksWalk ==
  ASSUME NEW line, NEW r0, NEW spans, NEW n \in Nat, DOMAIN spans = 1..n
  PROVE  \E h : /\ Walks(h, [fold |-> "render", line |-> line], r0, spans, n)
                /\ Marks(line, r0, spans) = h[n]
<1> DEFINE by == [fold |-> "render", line |-> line]
           list == spans
           fold == CHOOSE f : MarksEq(f, line, r0, spans)
<1>1. DOMAIN list = 1..n
  OBVIOUS
<1>2. Marks(line, r0, spans) = fold[DOMAIN list]
  BY Zenon DEF Marks, FoldLeft, MapThenFoldSet, MarksEq
<1>3. ASSUME NEW r, NEW x PROVE Step(by, r, x) = Marked(r, line, x)
  BY DEF Step
<1>4. \A f : MarksEq(f, line, r0, spans) <=> FoldEq(f, by, r0, list, n)
  <2> SUFFICES ASSUME NEW f PROVE MarksEq(f, line, r0, spans) <=> FoldEq(f, by, r0, list, n)
    OBVIOUS
  <2>1. \A s \in SUBSET (1..n) :
          Step(by, f[s \ {Max(s)}], list[Max(s)]) = Marked(f[s \ {Max(s)}], line, spans[Max(s)])
    BY <1>3, Zenon
  <2>2. \A s \in SUBSET DOMAIN list :
          (IF s = {} THEN r0 ELSE Step(by, f[s \ {Max(s)}], list[Max(s)]))
          = (IF s = {} THEN r0 ELSE Marked(f[s \ {Max(s)}], line, spans[Max(s)]))
    BY <1>1, <2>1, Zenon
  <2> QED
    BY <1>1, <2>2, Zenon DEF MarksEq, FoldEq
<1>5. \E f : MarksEq(f, line, r0, spans)
  BY <1>4, FoldExists
<1>6. MarksEq(fold, line, r0, spans)
  BY <1>5, Zenon
<1> HIDE DEF fold, by, list
<1>7. PICK h : Walks(h, by, r0, list, n) /\ h[n] = fold[1..n]
  BY <1>4, <1>6, FoldWalks
<1> QED
  BY <1>1, <1>2, <1>7 DEF by, list

-----------------------------------------------------------------------------
(* Sequences, whatever their elements are.                                  *)

\* Two sequences over a set make one over it.
LEMMA Concat ==
  ASSUME NEW S, NEW s \in Seq(S), NEW t \in Seq(S)
  PROVE  s \o t \in Seq(S)
OBVIOUS

\* What a sequence is with an element put before it.
LEMMA Prepended ==
  ASSUME NEW S, NEW x \in S, NEW t \in Seq(S), NEW c, c = <<x>> \o t
  PROVE  /\ c \in Seq(S) /\ Len(c) = Len(t) + 1 /\ c[1] = x
         /\ \A k \in 1..Len(t) : c[k + 1] = t[k]
<1>1. Len(t) \in Nat /\ <<x>> \in Seq(S) /\ Len(<<x>>) = 1 /\ <<x>>[1] = x
  OBVIOUS
<1>2. c \in Seq(S) /\ Len(c) = 1 + Len(t)
  BY <1>1
<1>3. c[1] = x
  BY <1>1, <1>2
<1>4. \A k \in 1..Len(t) : c[k + 1] = t[k]
  BY <1>1, <1>2
<1> QED
  BY <1>1, <1>2, <1>3, <1>4

\* A sequence over a set is one over a larger one.
LEMMA Larger ==
  ASSUME NEW S, NEW T, S \subseteq T, NEW s \in Seq(S)
  PROVE  s \in Seq(T)
OBVIOUS

-----------------------------------------------------------------------------
(* Lines of bytes, and where their credentials are.                         *)

\* What is masked as a credential, and that its mask is of another kind.
LEMMA MaskKinds ==
  /\ DOMAIN Mask = {"token", "password", "secret"}
  /\ \A kind \in DOMAIN Mask : Mask[kind] \in Kinds
BY DEF Mask, Kinds

\* Where the next byte of a kind is: not before the place it is looked for from.
LEMMA NextAt ==
  ASSUME NEW line \in Seq(Byte), NEW i \in Nat, NEW kind
  PROVE  LET spot == Next_(line, i, kind)
         IN spot = 0 \/ (spot \in i..Len(line) /\ line[spot].kind = kind)
<1> DEFINE found == {j \in i..Len(line) : line[j].kind = kind}
<1>1. CASE found = {}
  BY <1>1, Zenon DEF Next_
<1>2. CASE found # {}
  <2>1. PICK j : j \in found
    BY <1>2
  <2>2. found \in SUBSET Nat
    OBVIOUS
  <2>3. PICK o \in found : \A p \in found : o <= p
    <3> HIDE DEF found
    <3> QED
      BY <2>1, <2>2, Least
  <2>4. Min(found) \in found
    <3> HIDE DEF found
    <3> QED
      BY <2>3, Zenon DEF Min
  <2>5. Next_(line, i, kind) = Min(found)
    BY <1>2 DEF Next_
  <2> QED
    BY <2>4, <2>5
<1> QED
  BY <1>1, <1>2

\* A private key's span starts at its BEGIN and ends in the line.
LEMMA KeySpan ==
  ASSUME NEW line \in Seq(Byte), NEW i \in 1..Len(line)
  PROVE  /\ PrivateKey(line, i) \in SpanOf(Len(line))
         /\ PrivateKey(line, i).from = i /\ PrivateKey(line, i).to \in i..Len(line)
<1> DEFINE n == Len(line)
           e == Next_(line, i + 1, "END")
           q == Next_(line, i + 1, "quote")
<1>1. n \in Nat /\ i + 1 \in Nat
  OBVIOUS
<1>2. (e = 0 \/ e \in (i + 1)..n) /\ (q = 0 \/ q \in (i + 1)..n)
  BY <1>1, NextAt
<1>3. \A to \in i..n : /\ Span(i, to, "PRIVATE_KEY") \in SpanOf(n)
                       /\ Span(i, to, "PRIVATE_KEY").from = i
                       /\ Span(i, to, "PRIVATE_KEY").to = to
  BY <1>1 DEF Span, SpanOf, Kinds
<1> HIDE DEF e, q
<1>4. PICK to \in i..n : PrivateKey(line, i) = Span(i, to, "PRIVATE_KEY")
  <2>1. CASE e # 0
    <3>1. PrivateKey(line, i) = Span(i, e, "PRIVATE_KEY")
      <4>1. ~ KeyStaysOpen(line, i)
        BY <2>1 DEF KeyStaysOpen, e
      <4> QED
        BY <2>1, <4>1, Zenon DEF PrivateKey, e
    <3> QED
      BY <1>1, <1>2, <2>1, <3>1
  <2>2. CASE e = 0 /\ KeyStaysOpen(line, i)
    <3>1. PrivateKey(line, i) = Span(i, n, "PRIVATE_KEY")
      BY <2>2, Zenon DEF PrivateKey, e
    <3> QED
      BY <1>1, <3>1
  <2>3. CASE e = 0 /\ ~ KeyStaysOpen(line, i)
    <3>1. PrivateKey(line, i) = Span(i, q - 1, "PRIVATE_KEY")
      BY <2>3, Zenon DEF PrivateKey, e, q
    <3>2. q # 0
      BY <2>3 DEF KeyStaysOpen, e, q
    <3> QED
      BY <1>1, <1>2, <3>1, <3>2
  <2> QED
    BY <2>1, <2>2, <2>3
<1> QED
  BY <1>3, <1>4

\* Past the end of a line, no spans have nothing in between.
LEMMA SplitsNone ==
  ASSUME NEW T, NEW S, NEW line \in Seq(T)
  PROVE  Splits(<<>>, line, Len(line) + 1, S)
<1>1. Len(line) \in Nat /\ <<>> \in Seq(SpanOf(Len(line))) /\ Len(<<>>) = 0
  OBVIOUS
<1>2. EndsAt(<<>>, Len(line) + 1, 0) = Len(line) /\ NextStart(<<>>, Len(line), 0) = Len(line) + 1
  BY <1>1 DEF EndsAt, NextStart
<1> QED
  BY <1>1, <1>2 DEF Splits

\* A span before the others: what is between it and them is what was before.
LEMMA SplitsPrepend ==
  ASSUME NEW T, NEW S, NEW line \in Seq(T), NEW i \in 1..Len(line),
         NEW s \in SpanOf(Len(line)), s.from = i,
         NEW rest, Splits(rest, line, s.to + 1, S)
  PROVE  Splits(<<s>> \o rest, line, i, S)
<1> DEFINE n == Len(line)
<1>1. PICK c, m : c = <<s>> \o rest /\ m = Len(rest)
  OBVIOUS
<1>2. PICK P : P = SpanOf(n)
  OBVIOUS
<1>3. rest \in Seq(P) /\ s \in P /\ m \in Nat
  BY <1>1, <1>2 DEF Splits
<1>4. /\ c \in Seq(P) /\ Len(c) = m + 1 /\ c[1] = s
      /\ \A k \in 1..m : c[k + 1] = rest[k]
  BY <1>1, <1>3, Prepended
<1>5. ASSUME NEW k \in 0..(m + 1), NEW j \in (EndsAt(c, i, k) + 1)..(NextStart(c, n, k) - 1)
      PROVE  line[j] \in S
  <2>1. CASE k = 0
    <3>1. EndsAt(c, i, k) = i - 1 /\ NextStart(c, n, k) = i
      BY <1>3, <1>4, <2>1 DEF EndsAt, NextStart
    <3> QED
      BY <3>1
  <2>2. CASE k > 0
    <3>1. k - 1 \in 0..m
      BY <1>3, <2>2
    <3>2. EndsAt(c, i, k) = EndsAt(rest, s.to + 1, k - 1)
      <4>0. s.to \in 1..n /\ n \in Nat
        BY DEF SpanOf
      <4>1. CASE k = 1
        <5>1. EndsAt(c, i, k) = s.to
          <6>1. k # 0 /\ c[k] = s
            BY <1>4, <4>1
          <6> QED
            BY <6>1, Zenon DEF EndsAt
        <5>2. EndsAt(rest, s.to + 1, k - 1) = (s.to + 1) - 1
          <6>1. k - 1 = 0
            BY <4>1
          <6> QED
            BY <6>1, Zenon DEF EndsAt
        <5> QED
          BY <4>0, <5>1, <5>2
      <4>2. CASE k # 1
        <5>1. k - 1 \in 1..m /\ k = (k - 1) + 1 /\ k # 0 /\ k - 1 # 0
          BY <1>3, <2>2, <4>2
        <5>2. c[k] = rest[k - 1]
          BY <1>4, <5>1
        <5> QED
          BY <5>1, <5>2 DEF EndsAt
      <4> QED
        BY <4>1, <4>2
    <3>3. NextStart(c, n, k) = NextStart(rest, n, k - 1)
      <4>1. CASE k = m + 1
        BY <1>1, <1>3, <1>4, <4>1 DEF NextStart
      <4>2. CASE k # m + 1
        <5>1. k \in 1..m /\ k # Len(c) /\ k - 1 # Len(rest) /\ (k - 1) + 1 = k
          BY <1>1, <1>3, <1>4, <2>2, <4>2
        <5>2. c[k + 1] = rest[k]
          BY <1>4, <5>1
        <5> QED
          BY <5>1, <5>2 DEF NextStart
      <4> QED
        BY <4>1, <4>2
    <3> QED
      BY <1>1, <3>1, <3>2, <3>3 DEF Splits
  <2> QED
    BY <1>3, <2>1, <2>2
<1>6. Len(c) = m + 1 /\ c \in Seq(SpanOf(n))
  BY <1>2, <1>4
<1>7. Splits(c, line, i, S)
  BY <1>5, <1>6 DEF Splits
<1> QED
  BY <1>1, <1>7

\* A byte that needs no mask may be left between the spans.
LEMMA SplitsSkip ==
  ASSUME NEW T, NEW S, NEW line \in Seq(T), NEW i \in 1..Len(line), line[i] \in S,
         NEW rest, Splits(rest, line, i + 1, S)
  PROVE  Splits(rest, line, i, S)
<1> DEFINE n == Len(line)
<1>1. PICK m : m = Len(rest)
  OBVIOUS
<1>2. m \in Nat
  BY <1>1 DEF Splits
<1>3. ASSUME NEW k \in 0..m, NEW j \in (EndsAt(rest, i, k) + 1)..(NextStart(rest, n, k) - 1)
      PROVE  line[j] \in S
  <2>1. CASE k = 0
    <3>1. EndsAt(rest, i, k) = i - 1 /\ EndsAt(rest, i + 1, k) = i
      BY <2>1 DEF EndsAt
    <3>2. j = i \/ j \in (EndsAt(rest, i + 1, k) + 1)..(NextStart(rest, n, k) - 1)
      BY <3>1
    <3> QED
      BY <1>1, <3>2 DEF Splits
  <2>2. CASE k # 0
    <3>1. EndsAt(rest, i, k) = EndsAt(rest, i + 1, k)
      BY <2>2 DEF EndsAt
    <3> QED
      BY <1>1, <3>1 DEF Splits
  <2> QED
    BY <2>1, <2>2
<1> QED
  BY <1>1, <1>3 DEF Splits

\* What SpansFrom finds satisfies its recursive equation, when anything does.
LEMMA SpansAre ==
  ASSUME NEW line, NEW start, \E f : SpansEq(f, line, start)
  PROVE  \E f : SpansEq(f, line, start) /\ SpansFrom(line, start) = f[start]
<1> DEFINE f == CHOOSE f : SpansEq(f, line, start)
<1>1. SpansFrom(line, start) = f[start]
  BY Zenon DEF SpansFrom, SpansEq, SpanStep
<1>2. SpansEq(f, line, start)
  BY Zenon
<1> QED
  BY <1>1, <1>2

\* Only what comes later counts.
LEMMA StepLooksAhead ==
  ASSUME NEW line \in Seq(Byte), NEW i \in 1..(Len(line) + 1), NEW f, NEW g,
         \A j \in (i + 1)..(Len(line) + 1) : f[j] = g[j]
  PROVE  SpanStep(line, f, i) = SpanStep(line, g, i)
<1> DEFINE n == Len(line)
<1>1. n \in Nat
  OBVIOUS
<1>2. CASE i > n
  BY <1>2 DEF SpanStep
<1>3. CASE i <= n
  <2>1. i \in 1..n /\ i + 1 \in (i + 1)..(n + 1)
    BY <1>1, <1>3
  <2>2. PrivateKey(line, i).to + 1 \in (i + 1)..(n + 1)
    BY <1>1, <2>1, KeySpan
  <2>3. f[i + 1] = g[i + 1] /\ f[PrivateKey(line, i).to + 1] = g[PrivateKey(line, i).to + 1]
    BY <2>1, <2>2
  <2> QED
    BY <2>3, Zenon DEF SpanStep
<1> QED
  BY <1>1, <1>2, <1>3

\* The recursive equation of SpansFrom has a solution: each place looks ahead only.
LEMMA SpansExist ==
  ASSUME NEW line \in Seq(Byte), NEW start \in 1..(Len(line) + 1)
  PROVE  \E f : SpansEq(f, line, start)
<1> DEFINE n == Len(line)
           D == {d \in 0..n : \E f : SpansEq(f, line, (n + 1) - d)}
<1>1. n \in Nat
  OBVIOUS
<1>2. 0 \in D
  <2>1. SpansEq([i \in {n + 1} |-> <<>>], line, n + 1)
    <3>1. (n + 1)..(n + 1) = {n + 1} /\ n + 1 > n
      BY <1>1
    <3>2. \A f : SpanStep(line, f, n + 1) = <<>>
      BY <3>1 DEF SpanStep
    <3> HIDE DEF n
    <3> QED
      BY <3>1, <3>2 DEF SpansEq, n
  <2>2. (n + 1) - 0 = n + 1 /\ 0 \in 0..n
    BY <1>1
  <2> QED
    BY <2>1, <2>2
<1>3. ASSUME NEW d \in 1..n, d - 1 \in D PROVE d \in D
  <2> DEFINE s == (n + 1) - d
  <2>1. s \in 1..n /\ (n + 1) - (d - 1) = s + 1 /\ d \in 0..n
    BY <1>1
  <2>2. PICK f : SpansEq(f, line, s + 1)
    BY <1>3, <2>1
  <2> DEFINE g == [i \in s..(n + 1) |-> SpanStep(line, f, i)]
  <2> HIDE DEF s
  <2>3. \A j \in (s + 1)..(n + 1) : f[j] = SpanStep(line, f, j)
    BY <2>2 DEF SpansEq
  <2>4. \A j \in (s + 1)..(n + 1) : g[j] = f[j]
    <3>1. \A j \in (s + 1)..(n + 1) : j \in s..(n + 1)
      BY <1>1, <2>1
    <3> QED
      BY <2>3, <3>1
  <2>5. ASSUME NEW i \in s..(n + 1) PROVE SpanStep(line, f, i) = SpanStep(line, g, i)
    <3>1. i \in 1..(n + 1) /\ \A j \in (i + 1)..(n + 1) : j \in (s + 1)..(n + 1)
      BY <1>1, <2>1
    <3> HIDE DEF g
    <3>2. \A j \in (i + 1)..(n + 1) : f[j] = g[j]
      BY <2>4, <3>1
    <3> QED
      BY <3>1, <3>2, StepLooksAhead
  <2>6. SpansEq(g, line, s)
    <3>1. g = [i \in s..(n + 1) |-> SpanStep(line, g, i)]
      BY <2>5, Zenon
    <3> QED
      BY <3>1, Zenon DEF SpansEq
  <2> QED
    BY <2>1, <2>6 DEF s
<1>4. PICK d \in 0..n : start = (n + 1) - d
  <2>1. (n + 1) - start \in 0..n /\ start = (n + 1) - ((n + 1) - start)
    BY <1>1
  <2> QED
    BY <2>1
<1> HIDE DEF D
<1>5. d \in D
  BY <1>1, <1>2, <1>3, <1>4, UpTo
<1> QED
  BY <1>4, <1>5 DEF D

\* Between the spans of a line there is no credential.
LEMMA SpansSplit ==
  ASSUME NEW line \in Seq(Byte), NEW start \in 1..(Len(line) + 1)
  PROVE  Splits(SpansFrom(line, start), line, start, Unmasked)
<1> DEFINE n == Len(line)
<1>1. n \in Nat
  OBVIOUS
<1>2. PICK f : SpansEq(f, line, start) /\ SpansFrom(line, start) = f[start]
  BY SpansAre, SpansExist
<1> DEFINE D == {d \in 0..((n + 1) - start) : Splits(f[(n + 1) - d], line, (n + 1) - d, Unmasked)}
<1>3. \A i \in start..(n + 1) : f[i] = SpanStep(line, f, i)
  BY <1>2 DEF SpansEq
<1>4. 0 \in D
  <2>1. f[n + 1] = <<>>
    <3>1. n + 1 \in start..(n + 1) /\ n + 1 > n
      BY <1>1
    <3>2. f[n + 1] = SpanStep(line, f, n + 1)
      BY <1>3, <3>1
    <3>3. SpanStep(line, f, n + 1) = <<>>
      BY <3>1 DEF SpanStep
    <3> QED
      BY <3>2, <3>3
  <2>2. (n + 1) - 0 = n + 1 /\ 0 \in 0..((n + 1) - start)
    BY <1>1
  <2> QED
    BY <2>1, <2>2, SplitsNone
<1>5. ASSUME NEW d \in 1..((n + 1) - start), \A c \in 0..(d - 1) : c \in D PROVE d \in D
  <2>1. PICK i : i = (n + 1) - d
    OBVIOUS
  <2>2. i \in 1..n /\ i \in start..(n + 1) /\ d \in 0..((n + 1) - start) /\ i <= n
    BY <1>1, <2>1
  <2>3. ASSUME NEW j \in (i + 1)..(n + 1) PROVE Splits(f[j], line, j, Unmasked)
    <3>1. (n + 1) - j \in 0..(d - 1) /\ (n + 1) - ((n + 1) - j) = j
      BY <1>1, <2>1, <2>2
    <3> QED
      BY <1>5, <3>1
  <2>s. f[i] = SpanStep(line, f, i) /\ ~ (i > n)
    BY <1>1, <1>3, <2>2
  <2> HIDE DEF D
  <2>4. ASSUME line[i].kind = "BEGIN"
        PROVE  Splits(f[i], line, i, Unmasked)
    <3>1. f[i] = <<PrivateKey(line, i)>> \o f[PrivateKey(line, i).to + 1]
      <4>1. line[i].kind \notin DOMAIN Mask
        BY <2>4, MaskKinds
      <4> QED
        BY <2>2, <2>s, <2>4, <4>1, Zenon DEF SpanStep
    <3>2. PICK p : p = PrivateKey(line, i)
      OBVIOUS
    <3>3. p \in SpanOf(n) /\ p.from = i /\ p.to \in i..n
      BY <2>2, <3>2, KeySpan
    <3>4. p.to + 1 \in (i + 1)..(n + 1)
      BY <1>1, <2>2, <3>3
    <3>5. Splits(f[p.to + 1], line, p.to + 1, Unmasked)
      BY <2>3, <3>4
    <3>6. PICK rest : rest = f[p.to + 1]
      OBVIOUS
    <3>7. Splits(<<p>> \o rest, line, i, Unmasked)
      BY <2>2, <3>3, <3>5, <3>6, SplitsPrepend
    <3> QED
      BY <3>1, <3>2, <3>6, <3>7
  <2>5. ASSUME line[i].kind \in DOMAIN Mask
        PROVE  Splits(f[i], line, i, Unmasked)
    <3>1. PICK p : p = Span(i, i, Mask[line[i].kind])
      OBVIOUS
    <3>2. line[i].kind # "BEGIN"
      BY <2>5, MaskKinds
    <3>3. f[i] = <<p>> \o f[i + 1]
      BY <2>2, <2>s, <2>5, <3>1, <3>2, Zenon DEF SpanStep
    <3>4. p \in SpanOf(n) /\ p.from = i /\ p.to = i
      BY <2>2, <2>5, <3>1, MaskKinds DEF Span, SpanOf
    <3>5. i + 1 \in (i + 1)..(n + 1)
      BY <1>1, <2>2
    <3>6. Splits(f[p.to + 1], line, p.to + 1, Unmasked)
      BY <2>3, <3>4, <3>5
    <3>7. PICK rest : rest = f[p.to + 1]
      OBVIOUS
    <3>8. Splits(<<p>> \o rest, line, i, Unmasked)
      BY <2>2, <3>4, <3>6, <3>7, SplitsPrepend
    <3> QED
      BY <3>3, <3>4, <3>7, <3>8
  <2>6. ASSUME line[i].kind # "BEGIN" /\ line[i].kind \notin DOMAIN Mask
        PROVE  Splits(f[i], line, i, Unmasked)
    <3>1. f[i] = f[i + 1]
      BY <2>2, <2>s, <2>6, Zenon DEF SpanStep
    <3>2. line[i] \in Unmasked
      BY <2>2, <2>6 DEF Unmasked
    <3>3. i + 1 \in (i + 1)..(n + 1)
      BY <1>1, <2>2
    <3>4. PICK rest : rest = f[i + 1]
      OBVIOUS
    <3>5. Splits(rest, line, i + 1, Unmasked)
      BY <2>3, <3>3, <3>4
    <3>6. Splits(rest, line, i, Unmasked)
      BY <2>2, <3>2, <3>5, SplitsSkip
    <3> QED
      BY <3>1, <3>4, <3>6
  <2>7. Splits(f[i], line, i, Unmasked)
    BY <2>4, <2>5, <2>6
  <2> QED
    BY <2>1, <2>2, <2>7 DEF D
<1> HIDE DEF D
<1> DEFINE E == {d \in 0..((n + 1) - start) : \A c \in 0..d : c \in D}
<1>6. 0 \in E /\ (n + 1) - start \in Nat
  BY <1>1, <1>4
<1>7. ASSUME NEW d \in 1..((n + 1) - start), d - 1 \in E PROVE d \in E
  <2>1. d \in D
    BY <1>5, <1>7
  <2>2. \A c \in 0..d : c = d \/ c \in 0..(d - 1)
    OBVIOUS
  <2> QED
    BY <1>7, <2>1, <2>2
<1>8. \A d \in 0..((n + 1) - start) : d \in E
  <2> HIDE DEF E
  <2> QED
    BY <1>6, <1>7, UpTo
<1>9. (n + 1) - start \in D
  <2>1. (n + 1) - start \in 0..((n + 1) - start)
    BY <1>6
  <2> QED
    BY <1>8, <2>1
<1>10. (n + 1) - ((n + 1) - start) = start
  BY <1>1
<1> QED
  BY <1>2, <1>9, <1>10 DEF D

\* Between the spans of a line, an open private key's too, there is no credential.
LEMMA SecretsSplit ==
  ASSUME NEW line \in Seq(Byte), NEW key_lines \in Nat
  PROVE  Splits(Secrets(line, key_lines), line, 1, Unmasked)
<1> DEFINE n == Len(line)
           e == Next_(line, 1, "END")
<1>1. n \in Nat /\ (e = 0 \/ e \in 1..n)
  BY NextAt
<1> HIDE DEF e
<1>2. CASE key_lines = 0
  <2>1. Secrets(line, key_lines) = SpansFrom(line, 1)
    BY <1>2 DEF Secrets
  <2> QED
    BY <1>1, <2>1, SpansSplit
<1>3. CASE key_lines > 0 /\ e = 0
  <2>1. CASE line = <<>>
    <3>1. Secrets(line, key_lines) = <<>> /\ 1 = Len(line) + 1
      BY <1>3, <2>1 DEF Secrets, e
    <3> QED
      BY <3>1, SplitsNone
  <2>2. CASE line # <<>>
    <3>1. PICK p : p = Span(1, n, "PRIVATE_KEY")
      OBVIOUS
    <3>2. Secrets(line, key_lines) = <<p>>
      BY <1>3, <2>2, <3>1 DEF Secrets, e
    <3>3. p \in SpanOf(n) /\ p.from = 1 /\ p.to = n /\ 1 \in 1..n
      <4>1. n >= 1
        BY <2>2
      <4> QED
        BY <1>1, <3>1, <4>1 DEF Span, SpanOf, Kinds
    <3>4. Splits(<<>>, line, p.to + 1, Unmasked)
      BY <3>3, SplitsNone
    <3>5. Splits(<<p>> \o <<>>, line, 1, Unmasked)
      BY <3>3, <3>4, SplitsPrepend
    <3>6. <<p>> \o <<>> = <<p>>
      OBVIOUS
    <3> QED
      BY <3>2, <3>5, <3>6
  <2> QED
    BY <2>1, <2>2
<1>4. CASE key_lines > 0 /\ e # 0
  <2>1. PICK p : p = Span(1, e, "PRIVATE_KEY")
    OBVIOUS
  <2>2. Secrets(line, key_lines) = <<p>> \o SpansFrom(line, e + 1)
    BY <1>4, <2>1 DEF Secrets, e
  <2>3. p \in SpanOf(n) /\ p.from = 1 /\ p.to = e /\ 1 \in 1..n /\ e + 1 \in 1..(n + 1)
    BY <1>1, <1>4, <2>1 DEF Span, SpanOf, Kinds
  <2>4. Splits(SpansFrom(line, e + 1), line, p.to + 1, Unmasked)
    BY <2>3, SpansSplit
  <2> QED
    BY <2>2, <2>3, <2>4, SplitsPrepend
<1> QED
  BY <1>1, <1>2, <1>3, <1>4

-----------------------------------------------------------------------------
(* Numbers.                                                                 *)

\* No number is given to begin with.
LEMMA NewNumbersOk == NumbersOk(NewNumbers)
<1>1. DOMAIN <<>> = {}
  OBVIOUS
<1>2. IsFiniteSet(DOMAIN <<>>)
  BY <1>1, FS_EmptySet
<1> QED
  BY <1>1, <1>2 DEF NumbersOk, NewNumbers

\* A value that is numbered takes no number another value has, whether or not there is
\* room to remember it.
LEMMA NumberedOk ==
  ASSUME NEW numbers, NumbersOk(numbers), NEW v, v.kind \in Kinds
  PROVE  /\ NumbersOk(Numbered(numbers, v))
         /\ NumberOf(Numbered(numbers, v), v) \in Nat
<1> DEFINE new == Numbered(numbers, v)
           D == DOMAIN numbers.seen
           number == numbers.next[v.kind] + 1
           room == Cardinality(D) < MAX_REMEMBERED
<1>1. CASE v \in D
  <2>1. new = numbers
    BY <1>1 DEF Numbered
  <2> QED
    BY <1>1, <2>1 DEF NumberOf, Lookup, NumbersOk
<1>2. CASE v \notin D
  <2>1. /\ new.seen = IF room THEN Put(numbers.seen, v, number) ELSE numbers.seen
        /\ new.next = [numbers.next EXCEPT ![v.kind] = number]
        /\ new.given = numbers.given \cup {[value |-> v, number |-> number]}
    BY <1>2 DEF Numbered
  <2>2. numbers.next \in [Kinds -> Nat] /\ number \in Nat /\ number > numbers.next[v.kind]
    BY DEF NumbersOk
  <2>3. new.next \in [Kinds -> Nat] /\ new.next[v.kind] = number
    BY <2>1, <2>2
  <2>4. \A k \in Kinds : numbers.next[k] \in Nat /\ new.next[k] \in Nat /\ numbers.next[k] <= new.next[k]
    BY <2>1, <2>2
  <2>5. PICK one : one = [value |-> v, number |-> number]
    OBVIOUS
  <2>6. one.value = v /\ one.number = number /\ new.given = numbers.given \cup {one}
    BY <2>1, <2>5
  <2>7. PICK d : d = Cardinality(D) /\ d \in Nat
    BY FS_CardinalityType DEF NumbersOk
  <2> HIDE DEF number, new
  <2>8. /\ IsFiniteSet(DOMAIN new.seen)
        /\ \A w \in DOMAIN new.seen : new.seen[w] \in Nat
        /\ DOMAIN new.seen = IF room THEN D \cup {v} ELSE D
        /\ room => new.seen[v] = number
        /\ \A w \in D : new.seen[w] = numbers.seen[w]
    <3>0. IsFiniteSet(D) /\ \A w \in D : numbers.seen[w] \in Nat
      BY DEF NumbersOk
    <3>1. CASE room
      <4>1. new.seen = Put(numbers.seen, v, number)
        BY <2>1, <3>1
      <4>2. /\ DOMAIN new.seen = D \cup {v} /\ new.seen[v] = number
            /\ \A w \in D : w # v => new.seen[w] = numbers.seen[w]
        <5>1. PICK p, q : p = new.seen /\ q = numbers.seen
          OBVIOUS
        <5>2. p = Put(q, v, number)
          BY <4>1, <5>1
        <5>3. /\ DOMAIN p = DOMAIN q \cup {v} /\ p[v] = number
              /\ \A w \in DOMAIN q : w # v => p[w] = q[w]
          BY <5>2 DEF Put
        <5> QED
          BY <5>1, <5>3
      <4>3. IsFiniteSet(D \cup {v})
        BY <3>0, FS_AddElement
      <4> QED
        BY <1>2, <2>2, <3>0, <3>1, <4>2, <4>3
    <3>2. CASE ~ room
      BY <2>1, <3>0, <3>2
    <3> QED
      BY <3>1, <3>2
  <2>9. ASSUME NEW g \in new.given
        PROVE  /\ g = [value |-> g.value, number |-> g.number]
               /\ g.value.kind \in Kinds /\ g.number \in Nat
               /\ g.number <= new.next[g.value.kind]
               /\ g.value \in DOMAIN new.seen => g.number = new.seen[g.value]
               /\ g.value \notin DOMAIN new.seen =>
                    ~ (Cardinality(DOMAIN new.seen) < MAX_REMEMBERED)
    <3>1. CASE g = one
      <4>1. g = [value |-> g.value, number |-> g.number]
        BY <2>5, <3>1
      <4>2. g.value = v /\ g.number = number
        BY <2>6, <3>1
      <4>3. v \in DOMAIN new.seen <=> room
        BY <1>2, <2>8
      <4>4. ~ room => DOMAIN new.seen = D
        BY <2>8
      <4> QED
        BY <2>2, <2>3, <2>8, <4>1, <4>2, <4>3, <4>4
    <3>2. CASE g # one
      <4>1. g \in numbers.given
        BY <2>6, <3>2
      <4>2. /\ g = [value |-> g.value, number |-> g.number]
            /\ g.value.kind \in Kinds /\ g.number \in Nat
            /\ g.number <= numbers.next[g.value.kind]
            /\ g.value \in D => g.number = numbers.seen[g.value]
            /\ g.value \notin D => ~ room
        BY <4>1 DEF NumbersOk
      <4>3. g.number <= new.next[g.value.kind]
        BY <2>4, <4>2
      <4>4. CASE room
        BY <2>8, <4>2, <4>3, <4>4
      <4>5. CASE ~ room
        <5>1. DOMAIN new.seen = D
          BY <2>8, <4>5
        <5> QED
          BY <2>8, <4>2, <4>3, <4>5, <5>1
      <4> QED
        BY <4>4, <4>5
    <3> QED
      BY <3>1, <3>2
  <2>10. ASSUME NEW g \in new.given, NEW h \in new.given,
                g.value.kind = h.value.kind, g.number = h.number
         PROVE  g = h
    <3>1. ASSUME NEW o \in numbers.given, o.value.kind = v.kind PROVE o.number # number
      <4>1. o.number <= numbers.next[v.kind] /\ o.number \in Nat /\ numbers.next[v.kind] \in Nat
        BY <2>4, <3>1 DEF NumbersOk
      <4> QED
        BY <2>2, <4>1
    <3>2. CASE g \in numbers.given /\ h \in numbers.given
      BY <2>10, <3>2 DEF NumbersOk
    <3>3. CASE g \in numbers.given /\ h = one
      BY <2>6, <2>10, <3>1, <3>3
    <3>4. CASE h \in numbers.given /\ g = one
      BY <2>6, <2>10, <3>1, <3>4
    <3> QED
      BY <2>6, <3>2, <3>3, <3>4
  <2>11. NumbersOk(new)
    BY <2>3, <2>8, <2>9, <2>10 DEF NumbersOk
  <2>12. NumberOf(new, v) \in Nat
    BY <2>2, <2>3, <2>8 DEF NumberOf, Lookup
  <2> QED
    BY <2>11, <2>12 DEF new
<1> QED
  BY <1>1, <1>2

\* By what numbers satisfy, the same number of a kind is the same value.
LEMMA NumbersTellApart ==
  ASSUME NEW numbers, NumbersOk(numbers), NEW g \in numbers.given, NEW h \in numbers.given
  PROVE  /\ g.value.kind = h.value.kind /\ g.number = h.number => g = h
         /\ g.value = h.value /\ g.value \in DOMAIN numbers.seen => g = h
BY DEF NumbersOk

-----------------------------------------------------------------------------
(* A line with its spans replaced.                                          *)

\* Replacing a span adds a mark, and what is before the span, which is not a credential.
LEMMA MarkedOk ==
  ASSUME NEW S, NEW T, MarkBytes \subseteq S, NEW line \in Seq(T), NEW s \in SpanOf(Len(line)),
         NEW r, RenderedOk(r, Len(line), S),
         \A j \in (r.done + 1)..(s.from - 1) : line[j] \in S
  PROVE  RenderedOk(Marked(r, line, s), Len(line), S) /\ Marked(r, line, s).done = s.to
<1> DEFINE n == Len(line)
<1>1. PICK v : v = [kind |-> s.kind, text |-> SubSeq(line, s.from, s.to)]
  OBVIOUS
<1>2. PICK after : after = Numbered(r.numbers, v)
  OBVIOUS
<1>3. PICK mark : mark = [kind |-> s.kind, value |-> NumberOf(after, v)]
  OBVIOUS
<1>4. PICK part : part = SubSeq(line, r.done + 1, s.from - 1)
  OBVIOUS
<1>5. Marked(r, line, s) = [numbers |-> after, done |-> s.to, line |-> r.line \o part \o <<mark>>]
  BY <1>1, <1>2, <1>3, <1>4, Zenon DEF Marked
<1>6. v.kind \in Kinds /\ s.kind \in Kinds /\ s.from \in 1..n /\ s.to \in 1..n /\ n \in Nat
  BY <1>1 DEF SpanOf
<1>7. NumbersOk(after) /\ NumberOf(after, v) \in Nat
  BY <1>2, <1>6, NumberedOk DEF RenderedOk
<1>8. mark \in S
  BY <1>3, <1>6, <1>7 DEF MarkBytes
<1>9. part \in Seq(S)
  <2>1. r.done + 1 \in Int /\ s.from - 1 \in Int
    BY <1>6 DEF RenderedOk
  <2> QED
    BY <1>4, <2>1, SubSeqProperties
<1>10. r.line \in Seq(S)
  BY DEF RenderedOk
<1>11. r.line \o part \o <<mark>> \in Seq(S)
  <2>1. PICK q : q = r.line \o part /\ q \in Seq(S)
    BY <1>9, <1>10, Concat
  <2>2. <<mark>> \in Seq(S)
    BY <1>8
  <2>3. q \o <<mark>> \in Seq(S)
    BY <2>1, <2>2, Concat
  <2> QED
    BY <2>1, <2>3
<1>12. s.to \in 0..n
  BY <1>6
<1>13. PICK whole : whole = r.line \o part \o <<mark>> /\ whole \in Seq(S)
  BY <1>11
<1>14. PICK m : m = Marked(r, line, s) /\ m = [numbers |-> after, done |-> s.to, line |-> whole]
  BY <1>5, <1>13
<1>15. m.numbers = after /\ m.done = s.to /\ m.line = whole
  BY <1>14
<1> QED
  BY <1>7, <1>12, <1>13, <1>14, <1>15 DEF RenderedOk

\* A line whose spans are replaced is made of marks and of what was between the spans.
LEMMA RenderOk ==
  ASSUME NEW S, NEW T, MarkBytes \subseteq S, NEW line \in Seq(T),
         NEW spans, Splits(spans, line, 1, S), NEW numbers, NumbersOk(numbers)
  PROVE  /\ Render(numbers, line, spans).line \in Seq(S)
         /\ NumbersOk(Render(numbers, line, spans).numbers)
<1> DEFINE n == Len(line)
           m == Len(spans)
           by == [fold |-> "render", line |-> line]
<1>1. PICK r0 : r0 = [numbers |-> numbers, done |-> 0, line |-> <<>>]
  OBVIOUS
<1>2. n \in Nat /\ m \in Nat /\ DOMAIN spans = 1..m /\ spans \in Seq(SpanOf(n))
  <2>1. PICK P : P = SpanOf(n)
    OBVIOUS
  <2>2. spans \in Seq(P)
    BY <2>1 DEF Splits
  <2> QED
    BY <2>1, <2>2
<1>3. PICK last : last = Marks(line, r0, spans)
  OBVIOUS
<1>4. PICK h : Walks(h, by, r0, spans, m) /\ last = h[m]
  BY <1>2, <1>3, MarksWalk
<1>5. PICK rest : rest = SubSeq(line, last.done + 1, n)
  OBVIOUS
<1>6. Render(numbers, line, spans) = [numbers |-> last.numbers, line |-> last.line \o rest]
  BY <1>1, <1>3, <1>5, Zenon DEF Render, Marks
<1> DEFINE K == {k \in 0..m : RenderedOk(h[k], n, S) /\ h[k].done = EndsAt(spans, 1, k)}
<1>7. 0 \in K
  <2>1. <<>> \in Seq(S) /\ r0.numbers = numbers /\ r0.done = 0 /\ r0.line = <<>>
    BY <1>1
  <2>2. RenderedOk(r0, n, S)
    BY <1>2, <2>1 DEF RenderedOk
  <2>3. EndsAt(spans, 1, 0) = 0
    BY DEF EndsAt
  <2> QED
    BY <1>2, <1>4, <2>1, <2>2, <2>3 DEF Walks
<1>8. ASSUME NEW k \in 1..m, k - 1 \in K PROVE k \in K
  <2>1. PICK r, s : r = h[k - 1] /\ s = spans[k]
    OBVIOUS
  <2>2. s \in SpanOf(n)
    <3>1. PICK P : P = SpanOf(n)
      OBVIOUS
    <3> QED
      BY <1>2, <2>1, <3>1
  <2>3. h[k] = Marked(r, line, s)
    BY <1>4, <2>1 DEF Walks, Step
  <2>4. RenderedOk(r, n, S) /\ r.done = EndsAt(spans, 1, k - 1) /\ k - 1 \in 0..m
    BY <1>8, <2>1
  <2>5. NextStart(spans, n, k - 1) = s.from
    BY <1>2, <2>1 DEF NextStart
  <2>6. \A j \in (r.done + 1)..(s.from - 1) : line[j] \in S
    BY <2>4, <2>5 DEF Splits
  <2>7. RenderedOk(Marked(r, line, s), n, S) /\ Marked(r, line, s).done = s.to
    BY <2>2, <2>4, <2>6, MarkedOk
  <2>8. EndsAt(spans, 1, k) = s.to
    BY <2>1 DEF EndsAt
  <2> QED
    BY <1>2, <2>3, <2>7, <2>8
<1> HIDE DEF K, by, m
<1>9. m \in K
  <2>1. m \in 0..m
    BY <1>2
  <2> QED
    BY <1>2, <1>7, <1>8, <2>1, UpTo
<1>10. RenderedOk(last, n, S) /\ last.done = EndsAt(spans, 1, m)
  BY <1>4, <1>9 DEF K
<1>11. NextStart(spans, n, m) = n + 1
  BY DEF NextStart, m
<1>12. \A j \in (last.done + 1)..n : line[j] \in S
  <2>1. m \in 0..Len(spans) /\ (n + 1) - 1 = n
    BY <1>2 DEF m
  <2> QED
    BY <1>10, <1>11, <2>1 DEF Splits
<1>13. rest \in Seq(S)
  <2>1. last.done + 1 \in Int /\ n \in Int
    BY <1>2, <1>10 DEF RenderedOk
  <2> QED
    BY <1>5, <1>12, <2>1, SubSeqProperties
<1>14. last.line \o rest \in Seq(S)
  BY <1>10, <1>13, Concat DEF RenderedOk
<1> QED
  BY <1>6, <1>10, <1>14 DEF RenderedOk

-----------------------------------------------------------------------------
(* A splitter, a byte at a time.                                            *)

\* An empty chunk has no newline.
LEMMA EndsNone == Ends(<<>>) = <<>>
<1>1. DOMAIN <<>> = 1..0 /\ 0 \in Nat
  OBVIOUS
<1>2. PICK h : /\ Walks(h, [fold |-> "ends", seq |-> <<>>], <<>>, [i \in DOMAIN <<>> |-> i], 0)
               /\ Ends(<<>>) = h[0]
  BY <1>1, EndsWalk
<1> QED
  BY <1>2 DEF Walks

\* A byte more is a newline more, if it is one.
LEMMA EndsAppend ==
  ASSUME NEW S, NEW c \in Seq(S), NEW x \in S
  PROVE  Ends(Append(c, x)) = IF x = Newline THEN Append(Ends(c), Len(c) + 1) ELSE Ends(c)
<1> DEFINE n == Len(c)
           d == Append(c, x)
           by == [fold |-> "ends", seq |-> c]
           by2 == [fold |-> "ends", seq |-> d]
           s == [i \in DOMAIN c |-> i]
           t == [i \in DOMAIN d |-> i]
<1>1. /\ n \in Nat /\ n + 1 \in Nat /\ DOMAIN c = 1..n /\ DOMAIN d = 1..(n + 1)
      /\ d[n + 1] = x /\ \A k \in 1..n : d[k] = c[k]
  OBVIOUS
<1> HIDE DEF d
<1>2. PICK h : Walks(h, by, <<>>, s, n) /\ Ends(c) = h[n]
  BY <1>1, EndsWalk
<1>3. PICK g : Walks(g, by2, <<>>, t, n + 1) /\ Ends(d) = g[n + 1]
  BY <1>1, EndsWalk
<1>4. \A k \in 1..n : \A r : Step(by, r, s[k]) = Step(by2, r, t[k])
  BY <1>1 DEF Step, EndsStep
<1>5. h[n] = g[n]
  <2>1. n + 1 >= n
    BY <1>1
  <2> HIDE DEF by, by2, s, t
  <2> QED
    BY <1>1, <1>2, <1>3, <1>4, <2>1, WalksAgree
<1>6. g[n + 1] = Step(by2, g[n], n + 1)
  <2>1. n + 1 \in 1..(n + 1) /\ (n + 1) - 1 = n /\ t[n + 1] = n + 1
    BY <1>1
  <2> QED
    BY <1>3, <2>1 DEF Walks
<1>7. Step(by2, g[n], n + 1) = IF x = Newline THEN Append(g[n], n + 1) ELSE g[n]
  BY <1>1 DEF Step, EndsStep
<1> QED
  BY <1>2, <1>3, <1>5, <1>6, <1>7 DEF d

\* Where newlines are: in the chunk, as far as it goes.
LEMMA EndsThere ==
  ASSUME NEW S, NEW c \in Seq(S)
  PROVE  Ends(c) \in Seq(1..Len(c))
<1> DEFINE n == Len(c)
           p(k) == SubSeq(c, 1, k)
           T == {k \in 0..n : Ends(p(k)) \in Seq(1..k)}
<1>1. n \in Nat /\ p(0) = <<>> /\ p(n) = c
  OBVIOUS
<1>2. \A k : k \in T <=> k \in 0..n /\ Ends(p(k)) \in Seq(1..k)
  OBVIOUS
<1>3. ASSUME NEW k \in 1..n, k - 1 \in T PROVE k \in T
  <2>1. p(k) = Append(p(k - 1), c[k]) /\ c[k] \in S /\ p(k - 1) \in Seq(S) /\ Len(p(k - 1)) + 1 = k
    OBVIOUS
  <2>2. PICK e, f : e = Ends(p(k)) /\ f = Ends(p(k - 1))
    OBVIOUS
  <2>3. e = IF c[k] = Newline THEN Append(f, k) ELSE f
    BY <2>1, <2>2, EndsAppend
  <2>4. f \in Seq(1..(k - 1)) /\ k - 1 \in Nat
    BY <1>2, <1>3, <2>2
  <2> HIDE DEF T, p
  <2>5. f \in Seq(1..k) /\ k \in 1..k /\ k \in 0..n
    BY <2>4
  <2>6. e \in Seq(1..k)
    <3>1. PICK s, x : s = f /\ x = k /\ s \in Seq(1..k) /\ x \in 1..k
      BY <2>5
    <3>2. Append(s, x) \in Seq(1..k)
      BY <3>1
    <3> QED
      BY <2>3, <3>1, <3>2
  <2> QED
    BY <1>2, <2>2, <2>5, <2>6
<1> HIDE DEF T, p
<1>4. 0 \in T
  <2>1. Ends(p(0)) = <<>> /\ 0 \in 0..n
    BY <1>1, EndsNone
  <2>2. <<>> \in Seq(1..0)
    OBVIOUS
  <2> QED
    <3>1. Ends(p(0)) \in Seq(1..0)
      BY <2>1, <2>2, Zenon
    <3> QED
      BY <1>2, <2>1, <3>1
<1>5. \A k \in 0..n : k \in T
  BY <1>1, <1>3, <1>4, UpTo
<1>6. n \in T
  BY <1>1, <1>5
<1> QED
  BY <1>1, <1>2, <1>6

\* The smaller of two naturals.
LEMMA LesserNat ==
  ASSUME NEW a \in Nat, NEW b \in Nat
  PROVE  Min({a, b}) = IF a <= b THEN a ELSE b
<1> DEFINE m == IF a <= b THEN a ELSE b
<1>1. m \in {a, b} /\ \A y \in {a, b} : m <= y
  OBVIOUS
<1>2. Min({a, b}) \in {a, b} /\ \A y \in {a, b} : Min({a, b}) <= y
  <2> HIDE DEF m
  <2> QED
    BY <1>1, Zenon DEF Min
<1> QED
  BY <1>2

\* A prefix of a sequence is one over the same set, of the length it is cut to.
LEMMA Prefix ==
  ASSUME NEW S, NEW s \in Seq(S), NEW k \in Nat, k <= Len(s)
  PROVE  SubSeq(s, 1, k) \in Seq(S) /\ Len(SubSeq(s, 1, k)) = k
<1>1. \A i \in 1..k : s[i] \in S
  BY Len(s) \in Nat
<1>2. /\ SubSeq(s, 1, k) \in Seq(S)
      /\ Len(SubSeq(s, 1, k)) = IF 1 <= k THEN (k - 1) + 1 ELSE 0
  BY <1>1, SubSeqProperties
<1>3. (IF 1 <= k THEN (k - 1) + 1 ELSE 0) = k
  OBVIOUS
<1> QED
  BY <1>2, <1>3

\* What a splitter carries stays within the length of a line, whatever it is fed.
LEMMA KeepTyped ==
  ASSUME NEW sp \in Splitter, NEW c \in Seq(Byte)
  PROVE  /\ Keep(sp, c) \in Splitter
         /\ Keep(sp, c).seq = sp.seq
<1> DEFINE room == MAX_LINE - Len(sp.carry)
           m == Min({Len(c), room})
           more == SubSeq(c, 1, m)
<1>1. /\ room \in Nat /\ Len(sp.carry) \in Nat /\ Len(c) \in Nat /\ MAX_LINE \in Nat
      /\ sp.carry \in Seq(Byte) /\ sp.carry_len \in Nat /\ sp.seq \in Nat
  BY RecordingAssumption DEF Splitter
<1>2. m \in {Len(c), room} /\ m <= Len(c) /\ m <= room /\ m \in Nat
  BY <1>1, LesserNat
<1>3. more \in Seq(Byte) /\ Len(more) = m
  <2>1. PICK k \in Nat : k = m /\ k <= Len(c)
    BY <1>2
  <2>2. SubSeq(c, 1, k) \in Seq(Byte) /\ Len(SubSeq(c, 1, k)) = k
    BY <2>1, Prefix
  <2> QED
    BY <2>1, <2>2
<1>4. Keep(sp, c) = [sp EXCEPT !.carry = sp.carry \o more, !.carry_len = sp.carry_len + Len(c)]
  BY DEF Keep
<1> DEFINE both == sp.carry \o more
           len == sp.carry_len + Len(c)
<1>5. both \in Seq(Byte) /\ Len(both) <= MAX_LINE /\ len \in Nat
  <2> HIDE DEF more, m
  <2>1. both \in Seq(Byte) /\ Len(both) = Len(sp.carry) + m
    <3>1. PICK a, b : a = sp.carry /\ b = more /\ a \in Seq(Byte) /\ b \in Seq(Byte)
      BY <1>1, <1>3
    <3>2. a \o b \in Seq(Byte) /\ Len(a \o b) = Len(a) + Len(b)
      BY <3>1
    <3> QED
      BY <1>3, <3>1, <3>2
  <2> QED
    BY <1>1, <1>2, <2>1
<1>6. sp = [carry |-> sp.carry, carry_len |-> sp.carry_len, seq |-> sp.seq]
  BY DEF Splitter
<1> HIDE DEF both, len
<1>7. Keep(sp, c) = [carry |-> both, carry_len |-> len, seq |-> sp.seq]
  BY <1>4, <1>6 DEF both, len
<1> QED
  BY <1>1, <1>5, <1>7 DEF Splitter

\* The types of a splitter's fields.
LEMMA SplitterField ==
  ASSUME NEW sp \in Splitter
  PROVE  sp.carry \in Seq(Byte) /\ sp.carry_len \in Nat /\ sp.seq \in Nat
BY DEF Splitter

\* A new splitter carries nothing.
LEMMA NewSplitterTyped == NewSplitter \in Splitter
<1>1. <<>> \in Seq(Byte) /\ Len(<<>>) = 0 /\ 0 <= MAX_LINE
  BY RecordingAssumption
<1> QED
  BY <1>1 DEF NewSplitter, Splitter

\* What is between two newlines of a chunk is bytes of it.
LEMMA HeadTyped ==
  ASSUME NEW c \in Seq(Byte), NEW i \in 1..(Len(Ends(c)) + 1)
  PROVE  Head_(c, i) \in Seq(Byte)
<1> DEFINE n == Len(c)
           m == Len(Ends(c))
           from == IF i = 1 THEN 1 ELSE Ends(c)[i - 1] + 1
           to == IF i > m THEN n ELSE Ends(c)[i] - 1
<1>1. PICK e, R : e = Ends(c) /\ R = 1..n /\ e \in Seq(R)
  BY EndsThere
<1>2. n \in Nat /\ m \in Nat /\ m = Len(e) /\ \A k \in 1..m : e[k] \in R
  BY <1>1
<1>3. from \in Int /\ 1 <= from
  <2>1. CASE i = 1
    BY <2>1
  <2>2. CASE i # 1
    <3>1. i - 1 \in 1..m
      BY <1>2, <2>2
    <3>2. e[i - 1] \in 1..n
      BY <1>1, <1>2, <3>1
    <3> QED
      BY <1>1, <2>2, <3>2
  <2> QED
    BY <2>1, <2>2
<1>4. to \in Int /\ to <= n
  <2>1. CASE i > m
    BY <1>2, <2>1
  <2>2. CASE ~ (i > m)
    <3>1. i \in 1..m
      BY <1>2, <2>2
    <3>2. e[i] \in 1..n
      BY <1>1, <1>2, <3>1
    <3> QED
      BY <1>1, <2>2, <3>2
  <2> QED
    BY <2>1, <2>2
<1>5. Head_(c, i) = SubSeq(c, from, to)
  BY Zenon DEF Head_
<1> HIDE DEF from, to
<1>6. PICK B : B = Byte
  OBVIOUS
<1>7. \A j \in from..to : c[j] \in B
  <2>1. c \in Seq(B)
    BY <1>6
  <2>2. \A j \in from..to : j \in 1..n
    BY <1>2, <1>3, <1>4
  <2> QED
    BY <2>1, <2>2
<1> QED
  BY <1>3, <1>4, <1>5, <1>6, <1>7, SubSeqProperties

\* The lines a chunk ends are lines, one for each of its newlines.
LEMMA RawLinesTyped ==
  ASSUME NEW sp \in Splitter, NEW c \in Seq(Byte)
  PROVE  \E n \in Nat : /\ DOMAIN RawLines(sp, c) = 1..n
                        /\ \A i \in 1..n : RawLines(sp, c)[i] \in RawLine
<1>1. PICK e, R : e = Ends(c) /\ R = 1..Len(c) /\ e \in Seq(R)
  BY EndsThere
<1>2. PICK n \in Nat : n = Len(e) /\ DOMAIN e = 1..n
  BY <1>1
<1>3. PICK raws : raws = RawLines(sp, c)
  OBVIOUS
<1>4. DOMAIN raws = 1..n
  BY <1>1, <1>2, <1>3 DEF RawLines
<1>5. ASSUME NEW i \in 1..n PROVE raws[i] \in RawLine
  <2>1. PICK carried : carried = IF i = 1 THEN sp ELSE NewSplitter
    OBVIOUS
  <2>2. carried \in Splitter
    BY <2>1, NewSplitterTyped
  <2>3. PICK kept : kept = Keep(carried, Head_(c, i))
    OBVIOUS
  <2>4. kept \in Splitter
    <3>1. i \in 1..(Len(Ends(c)) + 1)
      BY <1>1, <1>2
    <3> QED
      BY <2>2, <2>3, <3>1, HeadTyped, KeepTyped
  <2>5. raws[i] = [seq |-> sp.seq + i, bytes |-> kept.carry, raw_len |-> kept.carry_len + 1,
                   terminated |-> TRUE]
    BY <1>1, <1>2, <1>3, <2>1, <2>3, Zenon DEF RawLines
  <2>6. kept.carry \in Seq(Byte) /\ kept.carry_len + 1 \in Nat /\ sp.seq + i \in Nat
    BY <2>4, SplitterField
  <2>7. PICK bytes, len, seq : bytes = kept.carry /\ len = kept.carry_len + 1 /\ seq = sp.seq + i
    OBVIOUS
  <2>8. [seq |-> seq, bytes |-> bytes, raw_len |-> len, terminated |-> TRUE] \in RawLine
    BY <2>6, <2>7 DEF RawLine
  <2> QED
    BY <2>5, <2>7, <2>8
<1> QED
  BY <1>3, <1>4, <1>5

\* A splitter that is fed is a splitter.
LEMMA FedTyped ==
  ASSUME NEW sp \in Splitter, NEW c \in Seq(Byte)
  PROVE  Fed(sp, c) \in Splitter
<1>1. PICK e, R : e = Ends(c) /\ R = 1..Len(c) /\ e \in Seq(R)
  BY EndsThere
<1>2. Len(e) \in Nat
  BY <1>1
<1>3. Head_(c, Len(e) + 1) \in Seq(Byte)
  <2>1. Len(e) + 1 \in 1..(Len(Ends(c)) + 1)
    BY <1>1, <1>2
  <2> QED
    BY <2>1, HeadTyped
<1>4. PICK base : base = IF e = <<>> THEN sp ELSE [NewSplitter EXCEPT !.seq = sp.seq + Len(e)]
  OBVIOUS
<1>5. base \in Splitter
  <2>1. [NewSplitter EXCEPT !.seq = sp.seq + Len(e)]
        = [carry |-> <<>>, carry_len |-> 0, seq |-> sp.seq + Len(e)]
    BY DEF NewSplitter
  <2>2. sp.seq + Len(e) \in Nat
    BY <1>2, SplitterField
  <2>3. <<>> \in Seq(Byte) /\ Len(<<>>) = 0 /\ 0 <= MAX_LINE
    BY RecordingAssumption
  <2>4. [carry |-> <<>>, carry_len |-> 0, seq |-> sp.seq + Len(e)] \in Splitter
    BY <2>2, <2>3 DEF Splitter
  <2> QED
    BY <1>4, <2>1, <2>4
<1>6. Fed(sp, c) = Keep(base, Head_(c, Len(e) + 1))
  BY <1>1, <1>4, Zenon DEF Fed
<1> QED
  BY <1>3, <1>5, <1>6, KeepTyped

\* The line a stream does not end is a line, and what is left is a splitter.
LEMMA LastTyped ==
  ASSUME NEW sp \in Splitter
  PROVE  /\ Flushed(sp) \in Splitter
         /\ \E n \in Nat : /\ DOMAIN LastLine(sp) = 1..n
                           /\ \A i \in 1..n : LastLine(sp)[i] \in RawLine
<1>1. sp.carry \in Seq(Byte) /\ sp.carry_len \in Nat /\ sp.seq \in Nat
  BY SplitterField
<1>2. Flushed(sp) \in Splitter
  <2>1. [NewSplitter EXCEPT !.seq = sp.seq + 1] = [carry |-> <<>>, carry_len |-> 0, seq |-> sp.seq + 1]
    BY DEF NewSplitter
  <2>2. <<>> \in Seq(Byte) /\ Len(<<>>) = 0 /\ 0 <= MAX_LINE
    BY RecordingAssumption
  <2>3. [carry |-> <<>>, carry_len |-> 0, seq |-> sp.seq + 1] \in Splitter
    BY <1>1, <2>2 DEF Splitter
  <2> QED
    BY <2>1, <2>3 DEF Flushed
<1>3. \E n \in Nat : /\ DOMAIN LastLine(sp) = 1..n
                     /\ \A i \in 1..n : LastLine(sp)[i] \in RawLine
  <2>1. CASE sp.carry_len = 0
    <3>1. LastLine(sp) = <<>> /\ DOMAIN <<>> = 1..0
      BY <2>1 DEF LastLine
    <3> QED
      BY <3>1
  <2>2. CASE sp.carry_len # 0
    <3>1. PICK bytes, len, seq : bytes = sp.carry /\ len = sp.carry_len /\ seq = sp.seq + 1
      OBVIOUS
    <3>2. PICK raw : raw = [seq |-> seq, bytes |-> bytes, raw_len |-> len, terminated |-> FALSE]
      OBVIOUS
    <3>3. raw \in RawLine
      BY <1>1, <3>1, <3>2 DEF RawLine
    <3>4. LastLine(sp) = <<raw>>
      BY <2>2, <3>1, <3>2, Zenon DEF LastLine
    <3>5. DOMAIN <<raw>> = 1..1 /\ <<raw>>[1] = raw
      OBVIOUS
    <3> QED
      BY <3>3, <3>4, <3>5
  <2> QED
    BY <2>1, <2>2
<1> QED
  BY <1>2, <1>3

\* What a sequence is with an element added.
LEMMA Appended ==
  ASSUME NEW S, NEW s \in Seq(S), NEW x \in S, NEW t, t = Append(s, x)
  PROVE  /\ t \in Seq(S) /\ Len(t) = Len(s) + 1 /\ t[Len(s) + 1] = x
         /\ \A k \in 1..Len(s) : t[k] = s[k]
OBVIOUS

\* One byte further along a line, an address is a place and anything else is in between.
LEMMA BetweenNext ==
  ASSUME NEW line, NEW k \in Nat, k >= 1, line[k] \in Unmasked,
         NEW places, Between(places, line, k - 1)
  PROVE  Between(PiiStep(line, places, k), line, k)
<1> DEFINE m == Len(places)
<1>1. PICK R, R1 : R = 1..k /\ R1 = 1..(k - 1)
  OBVIOUS
<1>2. places \in Seq(R1)
  BY <1>1 DEF Between
<1>3. R1 \subseteq R /\ k \in R
  BY <1>1
<1>4. places \in Seq(R)
  BY <1>2, <1>3, Larger
<1>5. m \in Nat /\ \A q \in 1..m : places[q] \in R1
  BY <1>2
<1>6. CASE line[k].kind = "address"
  <2>1. PICK t : t = Append(places, k)
    OBVIOUS
  <2>2. /\ t \in Seq(R) /\ Len(t) = m + 1 /\ t[m + 1] = k
        /\ \A q \in 1..m : t[q] = places[q]
    BY <1>3, <1>4, <2>1, Appended
  <2>3. ASSUME NEW q \in 0..(m + 1),
               NEW j \in ((IF q = 0 THEN 0 ELSE t[q]) + 1)
                         ..((IF q = m + 1 THEN k + 1 ELSE t[q + 1]) - 1)
        PROVE  line[j] \in Private
    <3>1. q # m + 1
      BY <1>5, <2>2
    <3>2. q \in 0..m /\ (q # 0 => t[q] = places[q])
      BY <1>5, <2>2, <3>1
    <3>3. CASE q = m
      <4>1. j \in ((IF q = 0 THEN 0 ELSE places[q]) + 1)..(((k - 1) + 1) - 1)
        BY <2>2, <3>1, <3>2, <3>3
      <4> QED
        BY <3>2, <3>3, <4>1 DEF Between
    <3>4. CASE q # m
      <4>1. q + 1 \in 1..m /\ t[q + 1] = places[q + 1]
        BY <1>5, <2>2, <3>2, <3>4
      <4>2. j \in ((IF q = 0 THEN 0 ELSE places[q]) + 1)..(places[q + 1] - 1)
        BY <3>1, <3>2, <4>1
      <4> QED
        BY <3>2, <3>4, <4>2 DEF Between
    <3> QED
      BY <3>3, <3>4
  <2>4. PiiStep(line, places, k) = t
    BY <1>6, <2>1 DEF PiiStep
  <2> QED
    BY <1>1, <2>2, <2>3, <2>4 DEF Between
<1>7. CASE line[k].kind # "address"
  <2>1. line[k] \in Private
    BY <1>7 DEF Private
  <2>2. ASSUME NEW q \in 0..m,
               NEW j \in ((IF q = 0 THEN 0 ELSE places[q]) + 1)
                         ..((IF q = m THEN k + 1 ELSE places[q + 1]) - 1)
        PROVE  line[j] \in Private
    <3>1. CASE q = m
      <4>0. (IF q = 0 THEN 0 ELSE places[q]) \in Int
        BY <1>1, <1>5, <3>1
      <4>1. j = k \/ j \in ((IF q = 0 THEN 0 ELSE places[q]) + 1)..(((k - 1) + 1) - 1)
        BY <3>1, <4>0
      <4> QED
        BY <2>1, <3>1, <4>1 DEF Between
    <3>2. CASE q # m
      <4>1. j \in ((IF q = 0 THEN 0 ELSE places[q]) + 1)..(places[q + 1] - 1)
        BY <3>2
      <4> QED
        BY <3>2, <4>1 DEF Between
    <3> QED
      BY <3>1, <3>2
  <2>3. PiiStep(line, places, k) = places
    BY <1>7 DEF PiiStep
  <2> QED
    BY <1>1, <1>4, <2>2, <2>3 DEF Between
<1> QED
  BY <1>6, <1>7

\* Between the addresses of a line without credentials there is nothing private.
LEMMA PiiSplits ==
  ASSUME NEW line \in Seq(Unmasked)
  PROVE  Splits(Pii(line), line, 1, Private)
<1> DEFINE n == Len(line)
           by == [fold |-> "pii", seq |-> line]
           list == [i \in DOMAIN line |-> i]
<1>1. PICK U : U = Unmasked /\ line \in Seq(U)
  OBVIOUS
<1>2. n \in Nat /\ DOMAIN line = 1..n /\ \A k \in 1..n : line[k] \in U
  BY <1>1
<1>3. PICK h : Walks(h, by, <<>>, list, n) /\ Addresses(line) = h[n]
  BY <1>2, AddressWalk
<1> DEFINE K == {k \in 0..n : Between(h[k], line, k)}
<1>4. 0 \in K
  <2>1. <<>> \in Seq(1..0) /\ Len(<<>>) = 0
    OBVIOUS
  <2>2. Between(<<>>, line, 0)
    BY <2>1 DEF Between
  <2> QED
    BY <1>2, <1>3, <2>2 DEF Walks
<1>5. ASSUME NEW k \in 1..n, k - 1 \in K PROVE k \in K
  <2>1. h[k] = PiiStep(line, h[k - 1], k)
    <3>1. h[k] = Step(by, h[k - 1], list[k]) /\ list[k] = k
      BY <1>2, <1>3 DEF Walks
    <3> QED
      BY <3>1 DEF Step
  <2>2. line[k] \in Unmasked /\ k \in Nat /\ k >= 1 /\ k \in 0..n
    BY <1>1, <1>2
  <2>3. PICK places : places = h[k - 1]
    OBVIOUS
  <2>4. Between(places, line, k - 1)
    BY <1>5, <2>3
  <2>5. Between(PiiStep(line, places, k), line, k)
    BY <2>2, <2>4, BetweenNext
  <2> QED
    BY <2>1, <2>2, <2>3, <2>5
<1> HIDE DEF K, by, list
<1>6. n \in K
  <2>1. n \in 0..n
    BY <1>2
  <2> QED
    BY <1>2, <1>4, <1>5, <2>1, UpTo
<1>7. PICK places : places = Addresses(line) /\ Between(places, line, n)
  BY <1>3, <1>6 DEF K
<1>8. PICK R : R = 1..n /\ places \in Seq(R)
  BY <1>7 DEF Between
<1>9. PICK m \in Nat : m = Len(places) /\ DOMAIN places = 1..m /\ \A q \in 1..m : places[q] \in R
  BY <1>8
<1>10. PICK spans : spans = Pii(line) /\ spans = [i \in 1..m |-> Span(places[i], places[i], "EMAIL")]
  BY <1>7, <1>9 DEF Pii, Addresses
<1>11. \A i \in 1..m : /\ spans[i] \in SpanOf(n)
                       /\ spans[i].from = places[i] /\ spans[i].to = places[i]
  BY <1>8, <1>9, <1>10 DEF Span, SpanOf, Kinds
<1>12. spans \in Seq(SpanOf(n)) /\ Len(spans) = m
  BY <1>9, <1>10, <1>11
<1>13. ASSUME NEW q \in 0..m, NEW j \in (EndsAt(spans, 1, q) + 1)..(NextStart(spans, n, q) - 1)
       PROVE  line[j] \in Private
  <2>1. EndsAt(spans, 1, q) = IF q = 0 THEN 0 ELSE places[q]
    BY <1>11 DEF EndsAt
  <2>2. NextStart(spans, n, q) = IF q = Len(places) THEN n + 1 ELSE places[q + 1]
    <3>1. CASE q = m
      BY <1>9, <1>12, <3>1 DEF NextStart
    <3>2. CASE q # m
      <4>1. q + 1 \in 1..m
        BY <1>9, <3>2
      <4> QED
        BY <1>9, <1>11, <1>12, <3>2, <4>1 DEF NextStart
    <3> QED
      BY <3>1, <3>2
  <2> QED
    BY <1>7, <1>9, <2>1, <2>2 DEF Between
<1> QED
  BY <1>10, <1>12, <1>13 DEF Splits

-----------------------------------------------------------------------------
(* What the analysis keeps of a recording.                                  *)

\* A behavior nothing was recorded of keeps nothing.
LEMMA NewAccOk == AccOk(NewAccumulator)
<1>1. <<>> \in Seq(Source)
  OBVIOUS
<1> QED
  BY <1>1 DEF AccOk, NewAccumulator, AccFields

\* A sequence stays one over its set when one of its elements is replaced from it.
LEMMA Replaced ==
  ASSUME NEW S, NEW s \in Seq(S), NEW x \in S, NEW i
  PROVE  [s EXCEPT ![i] = x] \in Seq(S)
<1>1. PICK n \in Nat : n = Len(s) /\ s \in [1..n -> S]
  OBVIOUS
<1>2. [s EXCEPT ![i] = x] \in [1..n -> S]
  BY <1>1
<1> QED
  BY <1>1, <1>2

\* What is kept as an exemplar, first or sampled, is what it is given.
LEMMA KeepsOk ==
  ASSUME NEW acc, AccOk(acc), NEW source \in Source, NEW draw
  PROVE  AccOk(KeepExemplar(acc, source, draw))
<1>1. PICK S : S = Source
  OBVIOUS
<1>2. acc.first \in Seq(S) /\ acc.sampled \in Seq(S) /\ source \in S /\ DOMAIN acc = AccFields
  BY <1>1 DEF AccOk
<1>3. PICK f, s, slot : f = acc.first /\ s = acc.sampled
                        /\ slot = below(draw, acc.count - FIRST_EXEMPLARS)
  OBVIOUS
<1>4. Append(f, source) \in Seq(S) /\ Append(s, source) \in Seq(S)
  BY <1>2, <1>3
<1>5. [s EXCEPT ![slot + 1] = source] \in Seq(S)
  BY <1>2, <1>3, Replaced
<1>6. \A v \in Seq(S) : AccOk([acc EXCEPT !.first = v]) /\ AccOk([acc EXCEPT !.sampled = v])
  BY <1>1, <1>2 DEF AccOk, AccFields
<1>7. KeepExemplar(acc, source, draw) \in
        {acc, [acc EXCEPT !.first = Append(f, source)],
         [acc EXCEPT !.sampled = Append(s, source)],
         [acc EXCEPT !.sampled = [s EXCEPT ![slot + 1] = source]]}
  BY <1>3 DEF KeepExemplar
<1> QED
  BY <1>4, <1>5, <1>6, <1>7

\* An event without a credential leaves the analysis without one, past its limit too.
LEMMA RecordOk ==
  ASSUME NEW a, AnalysisOk(a), NEW event, event.source \in Source,
         ~ Has(event.behavior.template, DOMAIN Mask)
  PROVE  AnalysisOk(Record(a, event))
<1>1. PICK id : id = IF Admitted(a, event.behavior) THEN event.behavior ELSE overflow_behavior
  OBVIOUS
<1>2. PICK acc : acc = Lookup(a.behaviors, id, NewAccumulator)
  OBVIOUS
<1>3. PICK counted : counted = [acc EXCEPT !.count = @ + 1,
                                           !.errors = @ + IF event.failure THEN 1 ELSE 0]
  OBVIOUS
<1>4. PICK draw : draw = IF Draws(acc) THEN Head(a.rng) ELSE 0
  OBVIOUS
<1>5. PICK kept : kept = KeepExemplar(counted, event.source, draw)
  OBVIOUS
<1>6. PICK measured : measured = [kept EXCEPT !.measures = RecordMeasures(@, event.measures)]
  OBVIOUS
<1>7. PICK final : final = IF Admitted(a, event.behavior) THEN RecordScope(a, measured, event) ELSE kept
  OBVIOUS
<1>8. Record(a, event).behaviors = Put(a.behaviors, id, final)
  BY <1>1, <1>2, <1>3, <1>4, <1>5, <1>6, <1>7 DEF Record
<1>9. AccOk(acc)
  BY <1>2, NewAccOk DEF Lookup, AnalysisOk
<1>10. AccOk(counted)
  BY <1>3, <1>9 DEF AccOk, AccFields
<1>11. AccOk(kept)
  BY <1>5, <1>10, KeepsOk
<1>12. AccOk(measured)
  BY <1>6, <1>11 DEF AccOk, AccFields
<1>13. AccOk(RecordScope(a, measured, event))
  <2>1. \A v : AccOk([measured EXCEPT !.scopes = v]) /\ AccOk([measured EXCEPT !.unattributed = v])
    BY <1>12 DEF AccOk, AccFields
  <2>2. \/ RecordScope(a, measured, event) = measured
        \/ \E v : RecordScope(a, measured, event) = [measured EXCEPT !.scopes = v]
        \/ \E v : RecordScope(a, measured, event) = [measured EXCEPT !.unattributed = v]
    BY DEF RecordScope
  <2> QED
    BY <1>12, <2>1, <2>2
<1>14. AccOk(final)
  BY <1>7, <1>11, <1>13
<1>15. ~ Has(id.template, DOMAIN Mask)
  <2>1. ~ Has(overflow_behavior.template, DOMAIN Mask)
    BY RecordingAssumption, MaskKinds DEF Has, overflow_behavior
  <2> QED
    BY <1>1, <2>1
<1>16. PICK D : D = DOMAIN a.behaviors /\ IsFiniteSet(D)
  BY DEF AnalysisOk
<1>17. DOMAIN Record(a, event).behaviors = D \cup {id} /\ IsFiniteSet(D \cup {id})
  BY <1>8, <1>16, FS_AddElement DEF Put
<1>18. ASSUME NEW b \in D \cup {id}
       PROVE  ~ Has(b.template, DOMAIN Mask) /\ AccOk(Record(a, event).behaviors[b])
  <2>1. CASE b = id
    BY <1>8, <1>14, <1>15, <2>1 DEF Put
  <2>2. CASE b # id
    <3>1. b \in D /\ Record(a, event).behaviors[b] = a.behaviors[b]
      BY <1>8, <1>16, <2>2 DEF Put
    <3> QED
      BY <1>16, <3>1 DEF AnalysisOk
  <2> QED
    BY <2>1, <2>2
<1>19. "behaviors" \in DOMAIN Record(a, event)
  BY DEF Record
<1> QED
  BY <1>17, <1>18, <1>19 DEF AnalysisOk

\* The event of a line without credentials has none, in its source or its template.
LEMMA EventOk ==
  ASSUME NEW stream \in Streams, NEW seq \in Nat, NEW line \in Seq(Unmasked)
  PROVE  /\ LogEvent(stream, seq, line).source \in Source
         /\ ~ Has(LogEvent(stream, seq, line).behavior.template, DOMAIN Mask)
<1>1. PICK event : event = LogEvent(stream, seq, line)
  OBVIOUS
<1>2. event.source = [stream |-> stream, seq |-> seq, line |-> line]
  BY <1>1 DEF LogEvent
<1>3. [stream |-> stream, seq |-> seq, line |-> line] \in Source
  BY DEF Source
<1>4. event.behavior.template = Template(line)
  BY <1>1 DEF LogEvent
<1>5. PICK U : U = Unmasked /\ line \in Seq(U)
  OBVIOUS
<1>6. \A i \in DOMAIN line : line[i] \in U
  BY <1>5
<1>7. \A x \in Unmasked : x.kind \notin DOMAIN Mask /\ [x EXCEPT !.value = 0].kind = x.kind
  BY DEF Unmasked, Byte
<1>8. \A i \in DOMAIN line : Template(line)[i].kind = line[i].kind
  BY <1>5, <1>6, <1>7 DEF Template
<1>9. DOMAIN Template(line) = DOMAIN line
  BY DEF Template
<1>10. ~ Has(Template(line), DOMAIN Mask)
  BY <1>5, <1>6, <1>7, <1>8, <1>9 DEF Has
<1> QED
  BY <1>1, <1>2, <1>3, <1>4, <1>10

\* Which bytes are which: masks and line endings are never private.
LEMMA ByteSets ==
  /\ Private \subseteq Unmasked /\ Unmasked \subseteq Byte
  /\ MarkBytes \subseteq Private
  /\ Newline \in Private /\ Return \in Private
<1>1. Private \subseteq Unmasked /\ Unmasked \subseteq Byte
  BY DEF Private, Unmasked
<1>2. \A b \in Byte : b.kind \notin {"token", "password", "secret", "address"} => b \in Private
  BY MaskKinds DEF Private, Unmasked
<1>3. ASSUME NEW m \in MarkBytes PROVE m \in Private
  <2>1. m \in Byte /\ m.kind \in Kinds
    BY DEF MarkBytes, Byte, ByteKinds
  <2>2. m.kind \notin {"token", "password", "secret", "address"}
    BY <2>1 DEF Kinds
  <2> QED
    BY <1>2, <2>1, <2>2
<1>4. Newline \in Byte /\ Return \in Byte /\ Newline.kind = "newline" /\ Return.kind = "return"
  <2>1. \A k \in ByteKinds : [kind |-> k, value |-> 0] \in Byte /\ [kind |-> k, value |-> 0].kind = k
    BY DEF Byte
  <2>2. "newline" \in ByteKinds /\ "return" \in ByteKinds
    BY DEF ByteKinds
  <2> QED
    BY <2>1, <2>2, Zenon DEF Newline, Return
<1> QED
  BY <1>1, <1>2, <1>3, <1>4

\* All but the last of a sequence is one over the same set.
LEMMA FrontTyped ==
  ASSUME NEW S, NEW s \in Seq(S), s # <<>>
  PROVE  Front(s) \in Seq(S)
<1>1. Len(s) \in Nat /\ Len(s) # 0
  OBVIOUS
<1>2. PICK k \in Nat : k = Len(s) - 1 /\ k <= Len(s)
  <2>1. PICK n \in Nat : n = Len(s) /\ n # 0
    BY <1>1
  <2>2. n - 1 \in Nat /\ n - 1 <= n
    BY <2>1
  <2> QED
    BY <2>1, <2>2
<1>3. SubSeq(s, 1, k) \in Seq(S)
  BY <1>2, Prefix
<1> QED
  BY <1>2, <1>3 DEF Front

\* What each mode of redaction allows in a capture.
LEMMA AllowedBytes ==
  ASSUME NEW redact \in Modes
  PROVE  /\ Private \subseteq Allowed(redact)
         /\ redact = "off" => Allowed(redact) = Byte
         /\ redact = "secrets" => Allowed(redact) = Unmasked
         /\ redact = "pii" => Allowed(redact) = Private
BY ByteSets DEF Modes, Allowed

\* A line's body and what ends it are bytes, and no ending is private.
LEMMA BodyTyped ==
  ASSUME NEW raw \in RawLine
  PROVE  Body(raw) \in Seq(Byte) /\ Ending(raw) \in Seq(Private)
<1>1. raw.bytes \in Seq(Byte)
  BY DEF RawLine
<1>2. PICK B, b : B = Byte /\ b = raw.bytes /\ b \in Seq(B)
  BY <1>1
<1>3. Body(raw) \in Seq(B)
  <2>1. b # <<>> => Front(b) \in Seq(B)
    BY <1>2, FrontTyped
  <2> QED
    BY <1>2, <2>1 DEF Body
<1>4. PICK P : P = Private /\ Newline \in P /\ Return \in P
  BY ByteSets
<1>5. <<>> \in Seq(P) /\ <<Newline>> \in Seq(P) /\ <<Return>> \in Seq(P)
  BY <1>4
<1>6. PICK s, t : /\ s = IF Body(raw) = raw.bytes THEN <<>> ELSE <<Return>>
                  /\ t = IF raw.terminated THEN <<Newline>> ELSE <<>>
  OBVIOUS
<1>7. s \in Seq(P) /\ t \in Seq(P)
  BY <1>5, <1>6
<1>8. Ending(raw) = s \o t
  BY <1>6 DEF Ending
<1>9. s \o t \in Seq(P)
  BY <1>7, Concat
<1> QED
  BY <1>2, <1>3, <1>4, <1>8, <1>9

\* Of any redaction: what the analysis is given, what the capture is, and the numbers.
LEMMA ViewsOk ==
  ASSUME NEW r, RecOk(r), NEW stream \in Streams, NEW body \in Seq(Byte)
  PROVE  LET masked == Masked(r, stream, body)
             evidence == Evidence(r.redact, masked, body)
         IN /\ masked.line \in Seq(Unmasked) /\ NumbersOk(masked.numbers)
            /\ evidence.line \in Seq(Allowed(r.redact)) /\ NumbersOk(evidence.numbers)
<1>1. PICK spans : spans = Secrets(body, r.key_lines[stream])
  OBVIOUS
<1>2. r.key_lines[stream] \in Nat /\ NumbersOk(r.numbers) /\ r.redact \in Modes
  BY DEF RecOk
<1>3. Splits(spans, body, 1, Unmasked)
  BY <1>1, <1>2, SecretsSplit
<1>4. PICK masked : masked = Masked(r, stream, body) /\ masked = Render(r.numbers, body, spans)
  BY <1>1 DEF Masked
<1>5. MarkBytes \subseteq Unmasked /\ MarkBytes \subseteq Private
  BY ByteSets
<1>6. masked.line \in Seq(Unmasked) /\ NumbersOk(masked.numbers)
  BY <1>2, <1>3, <1>4, <1>5, RenderOk
<1>7. masked = [numbers |-> masked.numbers, line |-> masked.line]
  BY <1>4 DEF Render
<1>8. PICK evidence : evidence = Evidence(r.redact, masked, body)
  OBVIOUS
<1>9. evidence.line \in Seq(Allowed(r.redact)) /\ NumbersOk(evidence.numbers)
  <2>1. CASE r.redact = "off"
    <3>1. evidence = [masked EXCEPT !.line = body]
      BY <1>8, <2>1 DEF Evidence
    <3>2. evidence.line = body /\ evidence.numbers = masked.numbers
      BY <1>7, <3>1
    <3> QED
      BY <1>2, <1>6, <2>1, <3>2, AllowedBytes
  <2>2. CASE r.redact = "secrets"
    <3>1. evidence = masked
      BY <1>8, <2>2 DEF Evidence
    <3> QED
      BY <1>2, <1>6, <2>2, <3>1, AllowedBytes
  <2>3. CASE r.redact = "pii"
    <3>1. evidence = Render(masked.numbers, masked.line, Pii(masked.line))
      BY <1>8, <2>3 DEF Evidence
    <3>2. PICK line, numbers, pii : /\ line = masked.line /\ numbers = masked.numbers
                                    /\ pii = Pii(line)
      OBVIOUS
    <3>3. line \in Seq(Unmasked) /\ NumbersOk(numbers)
      BY <1>6, <3>2
    <3>4. Splits(pii, line, 1, Private)
      BY <3>2, <3>3, PiiSplits
    <3>5. /\ Render(numbers, line, pii).line \in Seq(Private)
          /\ NumbersOk(Render(numbers, line, pii).numbers)
      BY <1>5, <3>3, <3>4, RenderOk
    <3> QED
      BY <1>2, <2>3, <3>1, <3>2, <3>5, AllowedBytes
  <2> QED
    BY <1>2, <2>1, <2>2, <2>3 DEF Modes
<1> QED
  BY <1>4, <1>6, <1>8, <1>9

\* How many lines a private key may go on for is a natural.
LEMMA KeyLinesTyped ==
  ASSUME NEW line, NEW key_lines \in Nat
  PROVE  KeyLines(line, key_lines) \in Nat
<1>1. CASE key_lines > 0 /\ Next_(line, 1, "END") = 0
  <2>1. KeyLines(line, key_lines) = key_lines - 1
    BY <1>1, Zenon DEF KeyLines
  <2> QED
    BY <1>1, <2>1
<1>2. CASE ~ (key_lines > 0 /\ Next_(line, 1, "END") = 0)
  <2>1. KeyLines(line, key_lines) \in {MAX_KEY_LINES, 0}
    BY <1>2, Zenon DEF KeyLines
  <2> QED
    BY <2>1, RecordingAssumption
<1> QED
  BY <1>1, <1>2

\* A line that is sunk leaves nothing secret in the analysis and the capture.
LEMMA SinkLineOk ==
  ASSUME NEW r, RecOk(r), NEW stream \in Streams, NEW raw \in RawLine
  PROVE  /\ RecOk(SinkLine(r, stream, raw))
         /\ SinkLine(r, stream, raw).redact = r.redact
         /\ SinkLine(r, stream, raw).splitter = r.splitter
         /\ SinkLine(r, stream, raw).order = r.order
<1>1. PICK body, masked, evidence :
        /\ body = Body(raw) /\ masked = Masked(r, stream, body)
        /\ evidence = Evidence(r.redact, masked, body)
  OBVIOUS
<1>2. PICK line, ending, A : line = evidence.line /\ ending = Ending(raw) /\ A = Allowed(r.redact)
  OBVIOUS
<1>3. body \in Seq(Byte) /\ ending \in Seq(Private)
  BY <1>1, <1>2, BodyTyped
<1>4. /\ masked.line \in Seq(Unmasked) /\ line \in Seq(A) /\ NumbersOk(evidence.numbers)
  BY <1>1, <1>2, <1>3, ViewsOk
<1>5. r.redact \in Modes /\ r.written \in [Streams -> Seq(A)] /\ r.key_lines \in [Streams -> Nat]
  BY <1>2 DEF RecOk
<1>6. ending \in Seq(A)
  <2>1. PICK P : P = Private /\ P \subseteq A
    BY <1>2, <1>5, AllowedBytes
  <2> QED
    BY <1>3, <2>1, Larger
<1>7. PICK kl : kl = [r.key_lines EXCEPT ![stream] = KeyLines(body, @)]
  OBVIOUS
<1>8. kl \in [Streams -> Nat]
  <2>1. KeyLines(body, r.key_lines[stream]) \in Nat
    BY <1>5, KeyLinesTyped
  <2> QED
    BY <1>5, <1>7, <2>1
<1>9. PICK written : written = [r.written EXCEPT ![stream] =
                                  IF Captures(r) THEN write_line(@, line, ending) ELSE @]
  OBVIOUS
<1>10. written \in [Streams -> Seq(A)]
  <2>1. PICK w : w = r.written[stream] /\ w \in Seq(A)
    BY <1>5
  <2>2. PICK q : q = w \o line /\ q \in Seq(A)
    BY <1>4, <2>1, Concat
  <2>3. q \o ending \in Seq(A)
    BY <1>6, <2>2, Concat
  <2>4. write_line(w, line, ending) \in Seq(A)
    BY <2>2, <2>3 DEF write_line
  <2>5. PICK v : v = (IF Captures(r) THEN write_line(w, line, ending) ELSE w) /\ v \in Seq(A)
    BY <2>1, <2>4
  <2>6. written = [r.written EXCEPT ![stream] = v]
    BY <1>9, <2>1, <2>5
  <2> QED
    BY <1>5, <2>5, <2>6
<1>11. PICK event : event = LogEvent(stream, raw.seq, masked.line)
  OBVIOUS
<1>12. PICK analysis : analysis = Record(r.analysis, event)
  OBVIOUS
<1>13. AnalysisOk(analysis)
  <2>1. raw.seq \in Nat
    BY DEF RawLine
  <2>2. event.source \in Source /\ ~ Has(event.behavior.template, DOMAIN Mask)
    BY <1>4, <1>11, <2>1, EventOk
  <2> QED
    BY <1>12, <2>2, RecordOk DEF RecOk
<1>14. PICK observed, stopped :
         /\ observed = [r.observed EXCEPT ![stream] =
              Append(@, [seq |-> raw.seq, raw_len |-> raw.raw_len, line |-> masked.line])]
         /\ stopped = ~ Captures(r)
  OBVIOUS
<1>20. SinkLine(r, stream, raw) =
           [r EXCEPT !.key_lines = kl, !.numbers = evidence.numbers, !.stopped = stopped,
                     !.written = written, !.observed = observed, !.analysis = analysis]
  BY <1>1, <1>2, <1>7, <1>9, <1>11, <1>12, <1>14, Zenon DEF SinkLine
<1>15. {"key_lines", "numbers", "stopped", "written", "observed", "analysis", "order", "splitter"}
         \subseteq DOMAIN r
  BY DEF RecOk
<1>16. PICK q : q = SinkLine(r, stream, raw)
  OBVIOUS
<1>17. /\ DOMAIN q = DOMAIN r
       /\ q.key_lines = kl /\ q.numbers = evidence.numbers /\ q.written = written
       /\ q.analysis = analysis /\ q.redact = r.redact /\ q.order = r.order /\ q.splitter = r.splitter
  BY <1>15, <1>16, <1>20
<1>18. r.order \in Seq(Streams) /\ r.splitter \in [Streams -> Splitter]
  BY DEF RecOk
<1>19. RecOk(q)
  BY <1>2, <1>4, <1>5, <1>8, <1>10, <1>13, <1>15, <1>17, <1>18 DEF RecOk
<1> QED
  BY <1>16, <1>17, <1>19

\* The same of any number of lines of a stream.
LEMMA SinkLinesOk ==
  ASSUME NEW r0, RecOk(r0), NEW stream \in Streams, NEW raws, NEW n \in Nat, DOMAIN raws = 1..n,
         \A i \in 1..n : raws[i] \in RawLine
  PROVE  /\ RecOk(SinkLines(r0, stream, raws))
         /\ SinkLines(r0, stream, raws).redact = r0.redact
         /\ SinkLines(r0, stream, raws).splitter = r0.splitter
         /\ SinkLines(r0, stream, raws).order = r0.order
<1> DEFINE by == [fold |-> "lines", stream |-> stream]
           Same(r) == /\ RecOk(r) /\ r.redact = r0.redact
                      /\ r.splitter = r0.splitter /\ r.order = r0.order
<1>1. PICK h : Walks(h, by, r0, raws, n) /\ SinkLines(r0, stream, raws) = h[n]
  BY LinesWalk
<1> DEFINE K == {k \in 0..n : Same(h[k])}
<1>2. 0 \in K
  BY <1>1 DEF Walks
<1>3. ASSUME NEW k \in 1..n, k - 1 \in K PROVE k \in K
  <2>1. h[k] = SinkLine(h[k - 1], stream, raws[k])
    BY <1>1 DEF Walks, Step
  <2>2. PICK r : r = h[k - 1] /\ Same(r)
    BY <1>3
  <2>3. Same(SinkLine(r, stream, raws[k]))
    BY <2>2, SinkLineOk
  <2> QED
    BY <2>1, <2>2, <2>3
<1>4. n \in K
  <2> HIDE DEF K
  <2>1. n \in 0..n
    OBVIOUS
  <2> QED
    BY <1>2, <1>3, <2>1, UpTo
<1> QED
  BY <1>1, <1>4

\* The same of a chunk, wherever it was cut.
LEMMA ChunkOk ==
  ASSUME NEW r, RecOk(r), NEW stream \in Streams, NEW bytes \in Seq(Byte)
  PROVE  RecOk(Chunk(r, stream, bytes)) /\ Chunk(r, stream, bytes).redact = r.redact
<1>1. PICK opened : opened = Opened(r, stream)
  OBVIOUS
<1>2. RecOk(opened) /\ opened.redact = r.redact /\ opened.splitter = r.splitter
  <2>1. CASE opened = r
    BY <2>1
  <2>2. CASE opened = [r EXCEPT !.order = Append(@, stream)]
    <3>0. PICK S, s : S = Streams /\ s = r.order /\ s \in Seq(S) /\ stream \in S
      BY DEF RecOk
    <3>1. PICK o : o = Append(r.order, stream) /\ o \in Seq(Streams)
      BY <3>0, Appended
    <3> QED
      BY <2>2, <3>1 DEF RecOk
  <2> QED
    BY <1>1, <2>1, <2>2 DEF Opened
<1>3. PICK sp : sp = r.splitter[stream] /\ sp \in Splitter /\ r.splitter \in [Streams -> Splitter]
  BY DEF RecOk
<1>4. PICK raws : raws = RawLines(sp, bytes)
  OBVIOUS
<1>5. PICK n \in Nat : DOMAIN raws = 1..n /\ \A i \in 1..n : raws[i] \in RawLine
  BY <1>3, <1>4, RawLinesTyped
<1>6. PICK sunk : sunk = SinkLines(opened, stream, raws)
  OBVIOUS
<1>7. RecOk(sunk) /\ sunk.redact = r.redact /\ sunk.splitter = r.splitter
  BY <1>2, <1>5, <1>6, SinkLinesOk
<1>8. PICK fed_ : fed_ = Fed(sp, bytes) /\ fed_ \in Splitter
  BY <1>3, FedTyped
<1>9. Chunk(r, stream, bytes) = [sunk EXCEPT !.splitter = [sunk.splitter EXCEPT ![stream] = fed_]]
  BY <1>1, <1>3, <1>4, <1>6, <1>8 DEF Chunk
<1>10. PICK all : all = [sunk.splitter EXCEPT ![stream] = fed_] /\ all \in [Streams -> Splitter]
  <2>1. PICK f, P : f = sunk.splitter /\ P = Splitter /\ f \in [Streams -> P] /\ fed_ \in P
    BY <1>3, <1>7, <1>8
  <2>2. [f EXCEPT ![stream] = fed_] \in [Streams -> P]
    BY <2>1
  <2> QED
    BY <2>1, <2>2
<1> QED
  BY <1>7, <1>9, <1>10 DEF RecOk

\* The same of the lines that are unfinished at the end.
LEMMA FlushOk ==
  ASSUME NEW r0, RecOk(r0)
  PROVE  RecOk(Flush(r0)) /\ Flush(r0).redact = r0.redact
<1> DEFINE by == [fold |-> "last"]
           Same(r) == RecOk(r) /\ r.redact = r0.redact /\ r.splitter = r0.splitter
<1>1. r0.order \in Seq(Streams) /\ r0.splitter \in [Streams -> Splitter]
  BY DEF RecOk
<1>2. PICK n \in Nat : n = Len(r0.order) /\ DOMAIN r0.order = 1..n
                       /\ \A i \in 1..n : r0.order[i] \in Streams
  BY <1>1
<1>3. PICK h : Walks(h, by, r0, r0.order, n) /\ SinkLast(r0) = h[n]
  BY <1>2, LastWalk
<1> DEFINE K == {k \in 0..n : Same(h[k])}
<1>4. 0 \in K
  BY <1>3 DEF Walks
<1>5. ASSUME NEW k \in 1..n, k - 1 \in K PROVE k \in K
  <2>1. PICK r, s : r = h[k - 1] /\ s = r0.order[k]
    OBVIOUS
  <2>2. h[k] = SinkLines(r, s, LastLine(r.splitter[s]))
    BY <1>3, <2>1 DEF Walks, Step
  <2>3. Same(r) /\ s \in Streams
    BY <1>2, <1>5, <2>1
  <2>4. PICK raws : raws = LastLine(r.splitter[s])
    OBVIOUS
  <2>5. r.splitter[s] \in Splitter
    BY <2>3 DEF RecOk
  <2>6. PICK m \in Nat : DOMAIN raws = 1..m /\ \A i \in 1..m : raws[i] \in RawLine
    BY <2>4, <2>5, LastTyped
  <2>7. Same(SinkLines(r, s, raws))
    BY <2>3, <2>6, SinkLinesOk
  <2> QED
    BY <2>2, <2>4, <2>7
<1>6. Same(h[n])
  <2>1. n \in K
    <3> HIDE DEF K
    <3>1. n \in 0..n
      OBVIOUS
    <3> QED
      BY <1>4, <1>5, <3>1, UpTo
  <2> QED
    BY <2>1
<1>7. PICK all : all = [s \in Streams |-> Flushed(r0.splitter[s])]
  OBVIOUS
<1>8. all \in [Streams -> Splitter]
  BY <1>1, <1>7, LastTyped
<1>9. Flush(r0) = [h[n] EXCEPT !.splitter = all]
  BY <1>3, <1>7, Zenon DEF Flush, SinkLast
<1> QED
  BY <1>6, <1>8, <1>9 DEF RecOk

\* A recording of nothing has nothing secret.
LEMMA NewRecordingOk ==
  ASSUME NEW redact \in Modes, NEW fails, NEW rng
  PROVE  RecOk(NewRecording(redact, fails, rng)) /\ NewRecording(redact, fails, rng).redact = redact
<1>1. PICK r : r = NewRecording(redact, fails, rng)
  OBVIOUS
<1>2. /\ {"key_lines", "numbers", "stopped", "written", "observed", "analysis", "order", "splitter"}
           \subseteq DOMAIN r
      /\ r.redact = redact /\ r.numbers = NewNumbers /\ r.order = <<>>
      /\ r.analysis = NewAggregator(rng)
      /\ r.key_lines = [s \in Streams |-> 0] /\ r.splitter = [s \in Streams |-> NewSplitter]
      /\ r.written = [s \in Streams |-> <<>>]
  BY <1>1 DEF NewRecording
<1>3. AnalysisOk(r.analysis)
  <2>1. DOMAIN NewAggregator(rng).behaviors = {} /\ "behaviors" \in DOMAIN NewAggregator(rng)
    BY DEF NewAggregator
  <2> QED
    BY <1>2, <2>1, FS_EmptySet DEF AnalysisOk
<1>4. r.order \in Seq(Streams)
  BY <1>2
<1>5. r.splitter \in [Streams -> Splitter]
  BY <1>2, NewSplitterTyped
<1>6. r.written \in [Streams -> Seq(Allowed(r.redact))]
  <2>1. PICK A : A = Allowed(r.redact)
    OBVIOUS
  <2>2. <<>> \in Seq(A)
    OBVIOUS
  <2> QED
    BY <1>2, <2>1, <2>2
<1>7. r.key_lines \in [Streams -> Nat]
  BY <1>2
<1> QED
  BY <1>1, <1>2, <1>3, <1>4, <1>5, <1>6, <1>7, NewNumbersOk DEF RecOk

-----------------------------------------------------------------------------
(* The end of a recording, when the lines the analysis kept are masked.     *)

\* A finite set without a member of it.
LEMMA OneLess ==
  ASSUME NEW S, IsFiniteSet(S), NEW s \in SUBSET S, s # {}
  PROVE  /\ One(s) \in s /\ s \ {One(s)} \in SUBSET S
         /\ Cardinality(s) \in Nat /\ Cardinality(s) # 0
         /\ Cardinality(s \ {One(s)}) = Cardinality(s) - 1
<1>1. One(s) \in s
  BY DEF One
<1>2. IsFiniteSet(s)
  BY FS_Subset
<1>3. Cardinality(s) \in Nat /\ Cardinality(s) # 0
  BY <1>2, FS_CardinalityType, FS_EmptySet
<1> QED
  BY <1>1, <1>2, <1>3, FS_RemoveElement

\* A fold over the small subsets of a finite set is defined.
LEMMA SmallExists ==
  ASSUME NEW S, IsFiniteSet(S), NEW r, NEW n \in Nat
  PROVE  \E f : SmallEq(f, r, S, n)
<1> DEFINE T == {k \in 0..n : \E f : SmallEq(f, r, S, k)}
<1>1. 0 \in T
  <2>1. ASSUME NEW s \in Small(S, 0) PROVE s = {}
    <3>1. s \in SUBSET S /\ Cardinality(s) <= 0
      BY DEF Small
    <3> SUFFICES ASSUME s # {} PROVE FALSE
      OBVIOUS
    <3>2. Cardinality(s) \in Nat /\ Cardinality(s) # 0
      BY <3>1, OneLess
    <3> QED
      BY <3>1, <3>2
  <2>2. {} \in Small(S, 0)
    BY FS_EmptySet DEF Small
  <2>3. PICK f : f = [s \in Small(S, 0) |-> r]
    OBVIOUS
  <2>4. SmallEq(f, r, S, 0)
    BY <2>1, <2>3 DEF SmallEq
  <2> QED
    BY <2>4
<1>2. ASSUME NEW k \in 1..n, k - 1 \in T PROVE k \in T
  <2>1. PICK f : SmallEq(f, r, S, k - 1)
    BY <1>2
  <2>2. PICK g : g = [s \in Small(S, k) |-> IF s = {} THEN r ELSE MaskKept(One(s), f[s \ {One(s)}])]
    OBVIOUS
  <2>3. ASSUME NEW s \in Small(S, k - 1) PROVE s \in Small(S, k) /\ g[s] = f[s]
    <3>1. s \in SUBSET S /\ Cardinality(s) <= k - 1
      BY DEF Small
    <3>2. Cardinality(s) \in Nat
      BY <3>1, FS_Subset, FS_CardinalityType
    <3>3. s \in Small(S, k)
      BY <3>1, <3>2 DEF Small
    <3>4. g[s] = IF s = {} THEN r ELSE MaskKept(One(s), f[s \ {One(s)}])
      BY <2>2, <3>3
    <3>5. f[s] = IF s = {} THEN r ELSE MaskKept(One(s), f[s \ {One(s)}])
      BY <2>1 DEF SmallEq
    <3> QED
      BY <3>3, <3>4, <3>5
  <2>4. ASSUME NEW s \in Small(S, k), s # {} PROVE s \ {One(s)} \in Small(S, k - 1)
    <3>1. s \in SUBSET S /\ Cardinality(s) <= k
      BY DEF Small
    <3> QED
      BY <2>4, <3>1, OneLess DEF Small
  <2>5. \A s \in Small(S, k) :
          g[s] = IF s = {} THEN r ELSE MaskKept(One(s), g[s \ {One(s)}])
    <3> SUFFICES ASSUME NEW s \in Small(S, k)
                 PROVE  g[s] = IF s = {} THEN r ELSE MaskKept(One(s), g[s \ {One(s)}])
      OBVIOUS
    <3>1. g[s] = IF s = {} THEN r ELSE MaskKept(One(s), f[s \ {One(s)}])
      BY <2>2
    <3>2. CASE s = {}
      BY <3>1, <3>2
    <3>3. CASE s # {}
      BY <3>1, <3>3, <2>3, <2>4
    <3> QED
      BY <3>2, <3>3
  <2>6. g = [s \in Small(S, k) |-> g[s]]
    BY <2>2
  <2>7. SmallEq(g, r, S, k)
    BY <2>5, <2>6 DEF SmallEq
  <2> QED
    BY <2>7
<1> HIDE DEF T
<1>3. n \in T
  BY <1>1, <1>2, UpTo
<1> QED
  BY <1>3 DEF T

\* A fold over a finite set is defined by its equation.
LEMMA KeptIs ==
  ASSUME NEW S, IsFiniteSet(S), NEW r
  PROVE  \E f : KeptEq(f, r, S) /\ FoldSet(MaskKept, r, S) = f[S]
<1>1. \E f : KeptEq(f, r, S)
  <2>1. PICK n \in Nat : n = Cardinality(S)
    BY FS_CardinalityType
  <2>2. Small(S, n) = SUBSET S
    BY <2>1, FS_Subset DEF Small
  <2>3. PICK f : SmallEq(f, r, S, n)
    BY SmallExists
  <2>4. KeptEq(f, r, S)
    BY <2>2, <2>3 DEF SmallEq, KeptEq
  <2> QED
    BY <2>4
<1> DEFINE fold == CHOOSE f : KeptEq(f, r, S)
<1>2. FoldSet(MaskKept, r, S) = fold[S]
  BY Zenon DEF FoldSet, MapThenFoldSet, KeptEq, One
<1>3. KeptEq(fold, r, S)
  BY <1>1, Zenon
<1> QED
  BY <1>2, <1>3

\* The image of a finite set is finite.
LEMMA ImageFinite ==
  ASSUME NEW S, IsFiniteSet(S), NEW f
  PROVE  IsFiniteSet({f[x] : x \in S})
<1>1. PICK T, g : T = {f[x] : x \in S} /\ g = [x \in S |-> f[x]]
  OBVIOUS
<1>2. g \in Surjection(S, T)
  BY <1>1 DEF Surjection
<1> QED
  BY <1>1, <1>2, FS_Surjection

\* The places of the lines that are kept are all of them.
LEMMA KeptAre ==
  ASSUME NEW r
  PROVE  /\ \A k \in Kept(r) : IsKept(r, k)
         /\ \A b \in DOMAIN r.analysis.behaviors : \A list \in Lists :
              \A i \in DOMAIN LinesOf(r, b, list) :
                [behavior |-> b, list |-> list, at |-> i] \in Kept(r)
BY DEF Kept, IsKept, Lists, LinesOf

\* There are finitely many lines that are kept.
LEMMA KeptFinite ==
  ASSUME NEW r, RecOk(r)
  PROVE  IsFiniteSet(Kept(r))
<1>1. PICK D : D = DOMAIN r.analysis.behaviors /\ IsFiniteSet(D)
  BY DEF RecOk, AnalysisOk
<1>2. ASSUME NEW b \in D, NEW list \in Lists
      PROVE  IsFiniteSet([behavior : {b}, list : {list}, at : DOMAIN LinesOf(r, b, list)])
  <2>1. PICK s, S : s = LinesOf(r, b, list) /\ S = Source /\ s \in Seq(S)
    BY <1>1 DEF RecOk, AnalysisOk, AccOk, Lists, LinesOf
  <2>2. PICK n \in Nat : DOMAIN s = 1..n
    BY <2>1
  <2>3. IsFiniteSet(1..n)
    BY <2>2, FS_Interval
  <2>4. PICK f : f = [i \in 1..n |-> [behavior |-> b, list |-> list, at |-> i]]
    OBVIOUS
  <2>5. IsFiniteSet({f[i] : i \in 1..n})
    BY <2>3, ImageFinite
  <2>6. {f[i] : i \in 1..n} = [behavior : {b}, list : {list}, at : DOMAIN s]
    <3>1. \A i \in 1..n : f[i] = [behavior |-> b, list |-> list, at |-> i]
      BY <2>4
    <3>2. ASSUME NEW m \in [behavior : {b}, list : {list}, at : DOMAIN s]
          PROVE  m \in {f[i] : i \in 1..n}
      <4>1. m.at \in 1..n /\ m = [behavior |-> b, list |-> list, at |-> m.at]
        BY <2>2
      <4> QED
        BY <3>1, <4>1
    <3>3. ASSUME NEW i \in 1..n PROVE f[i] \in [behavior : {b}, list : {list}, at : DOMAIN s]
      <4>1. PICK A, B, L : A = DOMAIN s /\ B = {b} /\ L = {list} /\ i \in A /\ b \in B /\ list \in L
        BY <2>2
      <4>2. [behavior |-> b, list |-> list, at |-> i] \in [behavior : B, list : L, at : A]
        BY <4>1
      <4> QED
        BY <3>1, <4>1, <4>2
    <3> QED
      BY <3>2, <3>3
  <2> QED
    BY <2>1, <2>5, <2>6
<1>3. PICK of : of = [b \in D |-> [behavior : {b}, list : {"first"}, at : DOMAIN LinesOf(r, b, "first")]
                               \cup [behavior : {b}, list : {"sampled"}, at : DOMAIN LinesOf(r, b, "sampled")]]
  OBVIOUS
<1>4. \A b \in D : IsFiniteSet(of[b])
  BY <1>2, <1>3, FS_Union DEF Lists
<1>5. IsFiniteSet({of[b] : b \in D})
  BY <1>1, ImageFinite
<1>6. IsFiniteSet(UNION {of[b] : b \in D})
  BY <1>4, <1>5, FS_UNION
<1>7. Kept(r) = UNION {of[b] : b \in D}
  BY <1>1, <1>3 DEF Kept, LinesOf
<1> QED
  BY <1>6, <1>7

\* Masking a line that is kept masks it, and puts nothing private anywhere else.
LEMMA MaskKeptOk ==
  ASSUME NEW r, RecOk(r), NEW k, IsKept(r, k)
  PROVE  /\ RecOk(MaskKept(k, r)) /\ Alike(r, MaskKept(k, r))
         /\ LineAt(MaskKept(k, r), k) \in Seq(Private)
         /\ \A o : IsKept(r, o) =>
              \/ LineAt(MaskKept(k, r), o) = LineAt(r, o)
              \/ LineAt(MaskKept(k, r), o) \in Seq(Private)
<1>1. PICK q : q = MaskKept(k, r)
  OBVIOUS
<1>2. PICK b, list, i : b = k.behavior /\ list = k.list /\ i = k.at
  OBVIOUS
<1>3. PICK all, acc, s : /\ all = r.analysis.behaviors /\ acc = all[b] /\ s = acc[list]
  OBVIOUS
<1>4. b \in DOMAIN all /\ list \in Lists /\ i \in DOMAIN s
  BY <1>2, <1>3 DEF IsKept, LinesOf
<1>5. AnalysisOk(r.analysis) /\ NumbersOk(r.numbers) /\ AccOk(acc)
  BY <1>3, <1>4 DEF RecOk, AnalysisOk
<1>6. PICK S : S = Source /\ s \in Seq(S)
  BY <1>3, <1>4, <1>5 DEF AccOk, Lists
<1>7. PICK line, pii : line = s[i].line /\ pii = Render(r.numbers, line, Pii(line))
  OBVIOUS
<1>8. s[i] \in Source
  BY <1>4, <1>6
<1>9. line \in Seq(Unmasked)
  BY <1>7, <1>8 DEF Source
<1>10. pii.line \in Seq(Private) /\ NumbersOk(pii.numbers)
  <2>1. Splits(Pii(line), line, 1, Private)
    BY <1>9, PiiSplits
  <2>2. MarkBytes \subseteq Private
    BY ByteSets
  <2> QED
    BY <1>5, <1>7, <1>9, <2>1, <2>2, RenderOk
<1>11. PICK x : x = [s[i] EXCEPT !.line = pii.line]
  OBVIOUS
<1>12. x \in Source /\ x.line = pii.line
  <2>1. PICK P, U : P = Private /\ U = Unmasked /\ P \subseteq U
    BY ByteSets
  <2>2. pii.line \in Seq(U)
    BY <1>10, <2>1, Larger
  <2>3. PICK l, L : l = pii.line /\ L = Seq(Unmasked) /\ l \in L
    BY <2>1, <2>2
  <2> QED
    BY <1>8, <1>11, <2>3 DEF Source
<1>13. PICK t : t = [s EXCEPT ![i] = x]
  OBVIOUS
<1>14. t \in Seq(S) /\ DOMAIN t = DOMAIN s /\ t[i] = x /\ \A j \in DOMAIN s : j # i => t[j] = s[j]
  BY <1>4, <1>6, <1>12, <1>13, Replaced
<1>15. PICK acc2 : acc2 = [acc EXCEPT ![list] = t]
  OBVIOUS
<1>16. /\ AccOk(acc2) /\ acc2[list] = t
       /\ \A other \in Lists : other # list => acc2[other] = acc[other]
  BY <1>4, <1>5, <1>6, <1>14, <1>15 DEF AccOk, AccFields, Lists
<1>17. PICK all2 : all2 = [all EXCEPT ![b] = acc2]
  OBVIOUS
<1>18. DOMAIN all2 = DOMAIN all /\ all2[b] = acc2 /\ \A c \in DOMAIN all : c # b => all2[c] = all[c]
  BY <1>4, <1>17
<1>19. q = [r EXCEPT !.numbers = pii.numbers, !.analysis = [@ EXCEPT !.behaviors = all2]]
  BY <1>1, <1>2, <1>3, <1>7, <1>11, <1>13, <1>15, <1>17, Zenon DEF MaskKept
<1>20. PICK analysis : analysis = [r.analysis EXCEPT !.behaviors = all2]
  OBVIOUS
<1>21. analysis.behaviors = all2 /\ "behaviors" \in DOMAIN analysis
  BY <1>5, <1>20 DEF AnalysisOk
<1>22. AnalysisOk(analysis)
  BY <1>3, <1>5, <1>16, <1>18, <1>21 DEF AnalysisOk
<1>23. /\ DOMAIN q = DOMAIN r /\ q.numbers = pii.numbers /\ q.analysis = analysis
       /\ q.redact = r.redact /\ q.order = r.order /\ q.key_lines = r.key_lines
       /\ q.splitter = r.splitter /\ q.written = r.written
  BY <1>19, <1>20 DEF RecOk
<1>24. RecOk(q)
  BY <1>10, <1>22, <1>23 DEF RecOk
<1>25. Alike(r, q)
  BY <1>3, <1>4, <1>14, <1>16, <1>18, <1>21, <1>23 DEF Alike, LinesOf
<1>26. LineAt(q, k) \in Seq(Private)
  BY <1>2, <1>10, <1>12, <1>14, <1>16, <1>18, <1>21, <1>23 DEF LineAt, LinesOf
<1>27. ASSUME NEW o, IsKept(r, o)
       PROVE  LineAt(q, o) = LineAt(r, o) \/ LineAt(q, o) \in Seq(Private)
  <2>1. CASE o.behavior = b /\ o.list = list /\ o.at = i
    BY <1>2, <1>26, <2>1 DEF LineAt
  <2>2. CASE o.behavior = b /\ o.list = list /\ o.at # i
    <3>1. LinesOf(q, b, list) = t /\ LinesOf(r, b, list) = s
      BY <1>3, <1>16, <1>18, <1>21, <1>23 DEF LinesOf
    <3>2. o.at \in DOMAIN s
      BY <1>27, <2>2, <3>1 DEF IsKept
    <3> QED
      BY <1>14, <2>2, <3>1, <3>2 DEF LineAt
  <2>3. CASE ~ (o.behavior = b /\ o.list = list)
    <3>1. LinesOf(q, o.behavior, o.list) = LinesOf(r, o.behavior, o.list)
      BY <1>3, <1>16, <1>18, <1>21, <1>23, <1>27, <2>3 DEF LinesOf, IsKept
    <3> QED
      BY <3>1 DEF LineAt
  <2> QED
    BY <2>1, <2>2, <2>3
<1> QED
  BY <1>1, <1>24, <1>25, <1>26, <1>27

\* Once a recording is finished nothing that pii masks is left in what it keeps.
LEMMA FinishOk ==
  ASSUME NEW r, RecOk(r)
  PROVE  /\ RecOk(Finish(r)) /\ Finish(r).redact = r.redact
         /\ r.redact = "pii" => KeptPrivate(Finish(r))
<1>1. PICK flushed : flushed = Flush(r)
  OBVIOUS
<1>2. RecOk(flushed) /\ flushed.redact = r.redact
  BY <1>1, FlushOk
<1>3. CASE r.redact # "pii"
  BY <1>1, <1>2, <1>3 DEF Finish
<1>4. CASE r.redact = "pii"
  <2>1. PICK S : S = Kept(flushed)
    OBVIOUS
  <2>2. IsFiniteSet(S) /\ \A k \in S : IsKept(flushed, k)
    BY <1>2, <2>1, KeptFinite, KeptAre
  <2>3. PICK f : KeptEq(f, flushed, S) /\ FoldSet(MaskKept, flushed, S) = f[S]
    BY <2>2, KeptIs
  <2>4. Finish(r) = f[S]
    BY <1>1, <1>4, <2>1, <2>3 DEF Finish
  <2> DEFINE Good(q, s) == /\ RecOk(q) /\ Alike(flushed, q)
                           /\ \A k \in s : LineAt(q, k) \in Seq(Private)
             n == Cardinality(S)
             K == {k \in 0..n : \A s \in SUBSET S : Cardinality(s) = k => Good(f[s], s)}
  <2>5. n \in Nat
    BY <2>2, FS_CardinalityType
  <2>6. 0 \in K
    <3>1. Good(flushed, {})
      BY <1>2 DEF Alike
    <3>2. f[{}] = flushed
      BY <2>3 DEF KeptEq
    <3>3. ASSUME NEW s \in SUBSET S, Cardinality(s) = 0 PROVE s = {}
      BY <2>2, <3>3, FS_Subset, FS_EmptySet
    <3> HIDE DEF Good
    <3> QED
      BY <2>5, <3>1, <3>2, <3>3
  <2>7. ASSUME NEW k \in 1..n, k - 1 \in K PROVE k \in K
    <3> SUFFICES ASSUME NEW s \in SUBSET S, Cardinality(s) = k PROVE Good(f[s], s)
      BY <2>5
    <3>1. s # {}
      BY FS_EmptySet
    <3>2. PICK x, t : x = One(s) /\ t = s \ {x}
      OBVIOUS
    <3>3. x \in s /\ t \in SUBSET S /\ Cardinality(t) = k - 1
      BY <2>2, <3>1, <3>2, OneLess
    <3>4. PICK q : q = f[t] /\ Good(q, t)
      BY <2>7, <3>3
    <3>5. f[s] = MaskKept(x, q)
      BY <2>3, <3>1, <3>2, <3>4 DEF KeptEq
    <3>6. \A o \in S : IsKept(q, o)
      BY <2>2, <3>4 DEF IsKept, Alike
    <3>7. PICK p : p = MaskKept(x, q)
      OBVIOUS
    <3>8. /\ RecOk(p) /\ Alike(q, p) /\ LineAt(p, x) \in Seq(Private)
          /\ \A o : IsKept(q, o) => LineAt(p, o) = LineAt(q, o) \/ LineAt(p, o) \in Seq(Private)
      BY <3>3, <3>4, <3>6, <3>7, MaskKeptOk
    <3>9. Alike(flushed, p)
      BY <3>4, <3>8 DEF Alike
    <3>10. \A o \in s : LineAt(p, o) \in Seq(Private)
      BY <3>2, <3>3, <3>4, <3>6, <3>8
    <3> QED
      BY <3>5, <3>7, <3>8, <3>9, <3>10
  <2>8. n \in K
    <3> HIDE DEF K, n
    <3>1. n \in 0..n
      BY <2>5
    <3> QED
      BY <2>5, <2>6, <2>7, <3>1, UpTo
  <2>9. PICK q : q = f[S] /\ Good(q, S)
    <3>1. S \in SUBSET S
      OBVIOUS
    <3> QED
      BY <2>8, <3>1
  <2>10. ASSUME NEW b \in DOMAIN q.analysis.behaviors, NEW list \in Lists,
                NEW i \in DOMAIN LinesOf(q, b, list)
         PROVE  LinesOf(q, b, list)[i].line \in Seq(Private)
    <3>1. PICK k : k = [behavior |-> b, list |-> list, at |-> i]
      OBVIOUS
    <3>2. b \in DOMAIN flushed.analysis.behaviors /\ i \in DOMAIN LinesOf(flushed, b, list)
      BY <2>9 DEF Alike
    <3>3. k \in S
      BY <2>1, <3>1, <3>2, KeptAre
    <3>4. LineAt(q, k) \in Seq(Private)
      BY <2>9, <3>3
    <3> QED
      BY <3>1, <3>4 DEF LineAt
  <2>11. KeptPrivate(q)
    BY <2>10 DEF KeptPrivate
  <2>12. q.redact = r.redact
    BY <1>2, <2>9 DEF Alike
  <2> QED
    BY <2>4, <2>9, <2>11, <2>12
<1> QED
  BY <1>3, <1>4

\* A stretch of a stream.
LEMMA Stretch ==
  ASSUME TypeOK, NEW n \in 1..Len(inputs), NEW from \in Nat, NEW to \in Nat, to <= Size(n)
  PROVE  inputs[n].stream \in Streams /\ Bytes(n, from, to) \in Seq(Byte)
<1> DEFINE Given == [stream : Streams, bytes : Seq([kind : STRING, value : Nat])]
<1>1. inputs \in Seq(Given)
  BY DEF TypeOK
<1>2. inputs[n] \in Given
  <2> HIDE DEF Given
  <2> QED
    BY <1>1
<1>3. PICK b, B : b = inputs[n].bytes /\ B = [kind : STRING, value : Nat] /\ b \in Seq(B)
  BY <1>2
<1>4. B \subseteq Byte
  BY <1>3 DEF Byte, ByteKinds
<1>5. PICK C : C = Byte /\ B \subseteq C
  BY <1>4
<1>6. b \in Seq(C)
  <2>1. b \in Seq(B)
    BY <1>3
  <2>2. B \subseteq C
    BY <1>5
  <2> QED
    BY <2>1, <2>2, Larger
<1>7. to <= Len(b) /\ Len(b) \in Nat
  BY <1>3 DEF Size
<1>8. \A i \in (from + 1)..to : b[i] \in C
  BY <1>6, <1>7
<1>9. SubSeq(b, from + 1, to) \in Seq(C)
  <2>1. PICK m : m = from + 1 /\ m \in Int /\ to \in Int
    OBVIOUS
  <2> QED
    BY <1>8, <2>1, SubSeqProperties
<1> QED
  BY <1>2, <1>3, <1>5, <1>9 DEF Bytes

\* What is shown of a recording is not in what is kept of it.
LEMMA DrainedIsOk ==
  ASSUME NEW r, RecOk(r)
  PROVE  RecOk(DrainedOf(r)) /\ DrainedOf(r).redact = r.redact
<1>1. PICK q, a : q = DrainedOf(r) /\ a = [r.analysis EXCEPT !.fresh = <<>>]
  OBVIOUS
<1>2. q = [r EXCEPT !.analysis = a]
  BY <1>1 DEF DrainedOf, Drained
<1>3. AnalysisOk(r.analysis)
  BY DEF RecOk
<1>4. AnalysisOk(a)
  <2>1. a.behaviors = r.analysis.behaviors /\ "behaviors" \in DOMAIN a
    BY <1>1, <1>3 DEF AnalysisOk
  <2> QED
    BY <1>3, <2>1 DEF AnalysisOk
<1> QED
  BY <1>1, <1>2, <1>4 DEF RecOk

\* Showing what is new leaves the recording as it was, but for what is new.
LEMMA DrainKeeps ==
  ASSUME NEW r, RecOk(r), NEW next, Drain(r, next)
  PROVE  RecOk(rec') /\ rec'.redact = r.redact
<1>1. rec' = DrainedOf(r)
  BY DEF Drain
<1> QED
  BY <1>1, DrainedIsOk

\* A run starts with nothing recorded.
LEMMA InitHidden == Init => Hidden
<1> SUFFICES ASSUME Init PROVE Hidden
  OBVIOUS
<1>1. PICK input \in Inputs : rec = NewRecording(input.redact, input.fails, RNG)
  BY DEF Init
<1>2. input.redact \in Modes /\ run = "recording"
  BY IngestAssumption DEF Init
<1> QED
  BY <1>1, <1>2, NewRecordingOk DEF Hidden

\* Every step records what Ingest's own steps give it, and keeps it masked.
LEMMA NextHidden == IInv /\ Hidden /\ [Next]_vars => Hidden'
<1> SUFFICES ASSUME IInv, Hidden, [Next]_vars PROVE Hidden'
  OBVIOUS
<1>1. RecOk(rec) /\ TypeOK /\ Alone /\ Streamed /\ (run # "recording" => main \in {"reporting", "exited"})
  BY DEF Hidden, IInv, Ended
<1>2. ASSUME RecOk(rec'), run' = "recording" PROVE Hidden'
  <2>1. rec'.redact = "pii" /\ run' # "recording" => KeptPrivate(rec')
    BY <1>2
  <2> QED
    BY <1>2, <2>1, Zenon DEF Hidden, RecOk, KeptPrivate, AnalysisOk, NumbersOk, LinesOf
<1>3. CASE rec' = rec /\ run' = run
  <2>1. RecOk(rec') /\ (rec'.redact = "pii" /\ run' # "recording" => KeptPrivate(rec'))
    BY <1>3 DEF Hidden
  <2> QED
    BY <2>1, Zenon DEF Hidden, RecOk, KeptPrivate, AnalysisOk, NumbersOk, LinesOf
<1>4. CASE ReceiveChunk
  <2>1. /\ main = "receiving" /\ run' = run /\ queue # <<>>
    BY <1>4, Feeding
  <2>2. ~ dir
    BY <1>1, <2>1 DEF Alone
  <2>3. PICK m : m = Head(queue) /\ m \in Message
    BY <1>1, <2>1 DEF TypeOK
  <2>4. m.from \in Nat /\ m.to \in Nat
    BY <2>3 DEF Message
  <2>5. m.to <= Size(1)
    <3>1. InOrder /\ Reading
      BY <1>1, <2>2 DEF Streamed
    <3>2. m = queue[1] /\ 1 \in DOMAIN queue
      BY <1>1, <2>1, <2>3 DEF TypeOK
    <3>3. m.msg = "Chunk"
      BY <1>4, <2>3, Feeding
    <3>4. m.to <= Sent
      BY <3>1, <3>2, <3>3 DEF InOrder
    <3>5. Sent \in Nat /\ Sent <= at /\ at \in Nat /\ at <= Size(1) /\ Size(1) \in Nat
      BY <1>1, <2>2, <3>1, SentIsRead, OneStream DEF TypeOK, Reading
    <3> QED
      BY <2>4, <3>4, <3>5
  <2>6. 1 \in 1..Len(inputs)
    BY <1>1, <2>2, OneStream
  <2>7. PICK stream, bytes, r : /\ stream = inputs[1].stream /\ bytes = Bytes(1, m.from, m.to)
                                /\ r = Chunk(rec, stream, bytes)
    OBVIOUS
  <2>8. stream \in Streams /\ bytes \in Seq(Byte)
    BY <1>1, <2>4, <2>5, <2>6, <2>7, Stretch
  <2>9. RecOk(r)
    BY <1>1, <2>7, <2>8, ChunkOk
  <2>10. Drain(r, "receiving") \/ rec' = r
    BY <1>4, <2>3, <2>7, Zenon DEF ReceiveChunk
  <2>11. RecOk(rec')
    BY <2>9, <2>10, DrainKeeps
  <2>12. run' = "recording"
    BY <1>1, <2>1
  <2> QED
    BY <1>2, <2>11, <2>12
<1>5. CASE ShowLast
  <2>1. main = "ended" /\ run' = run
    BY <1>5, Showing
  <2>2. PICK r : r = Flush(rec) /\ RecOk(r)
    BY <1>1, FlushOk
  <2>3. Drain(r, "checking") \/ rec' = rec
    BY <1>5, <2>2, Zenon DEF ShowLast
  <2>4. RecOk(rec')
    BY <1>1, <2>2, <2>3, DrainKeeps
  <2>5. run' = "recording"
    BY <1>1, <2>1
  <2> QED
    BY <1>2, <2>4, <2>5
<1>6. CASE ReplayChunk
  <2>1. PICK n \in 1..Min({CHUNK_BYTES, Size(nth) - fed}) :
          rec' = Chunk(rec, inputs[nth].stream, Bytes(nth, fed, fed + n)) /\ fed' = fed + n
    BY <1>6 DEF ReplayChunk
  <2>2. /\ main = "replaying" /\ run' = run /\ nth' = nth /\ fed' \in Nat /\ fed' <= Size(nth')
        /\ nth' \in 1..Len(inputs)
    BY <1>1, <1>6, Replaying DEF ReplayChunk
  <2>3. fed \in Nat
    BY <1>1 DEF TypeOK
  <2>4. PICK stream, bytes, to : /\ stream = inputs[nth].stream /\ to = fed + n
                                 /\ bytes = Bytes(nth, fed, to)
    OBVIOUS
  <2>5. stream \in Streams /\ bytes \in Seq(Byte)
    <3>1. to \in Nat /\ to <= Size(nth) /\ nth \in 1..Len(inputs)
      BY <2>1, <2>2, <2>4
    <3> QED
      BY <1>1, <2>3, <2>4, <3>1, Stretch
  <2>6. RecOk(rec')
    BY <1>1, <2>1, <2>4, <2>5, ChunkOk
  <2>7. run' = "recording"
    BY <1>1, <2>2
  <2> QED
    BY <1>2, <2>6, <2>7
<1>7. CASE FinishRun
  <2>1. rec' = Finish(rec)
    BY <1>7 DEF FinishRun
  <2>2. PICK r : r = Finish(rec)
    OBVIOUS
  <2>3. RecOk(r) /\ r.redact = rec.redact /\ (rec.redact = "pii" => KeptPrivate(r))
    BY <1>1, <2>2, FinishOk
  <2>4. RecOk(rec') /\ (rec'.redact = "pii" /\ run' # "recording" => KeptPrivate(rec'))
    BY <2>1, <2>2, <2>3
  <2> QED
    BY <2>4, Zenon DEF Hidden, RecOk, KeptPrivate, AnalysisOk, NumbersOk, LinesOf
<1>8. ReceiveChunk \/ ShowLast \/ ReplayChunk \/ FinishRun \/ (rec' = rec /\ run' = run)
  BY DEF Next, ReadChunk, ReadEof, ReadFails, Take, Send, Signal, Watch, Wake, Abort, Main,
         ReceiveEnd, ReceiveFailed, CheckFlag, ReplayNext, ReplayFails, Report, Exited, vars
<1> QED
  BY <1>3, <1>4, <1>5, <1>6, <1>7, <1>8

\* In every run, nothing secret is in the analysis or the capture.
LEMMA HiddenInvariant == Spec => []Hidden
<1>1. Init => IInv /\ Hidden
  BY InitIInv, InitHidden
<1>2. IInv /\ Hidden /\ [Next]_vars => (IInv /\ Hidden)'
  BY NextIInv, NextHidden
<1> QED
  BY <1>1, <1>2, PTL DEF Spec

\* Bytes without credentials have none, and those that are private no address.
LEMMA NothingHas ==
  ASSUME NEW line,
         line \in Seq(Unmasked) \/ line \in Seq(Private)
  PROVE  /\ ~ Has(line, DOMAIN Mask)
         /\ line \in Seq(Private) => ~ Has(line, {"address"})
<1>1. PICK U, P : U = Unmasked /\ P = Private /\ P \subseteq U
  BY ByteSets
<1>2. \A x \in U : x.kind \notin DOMAIN Mask
  BY <1>1 DEF Unmasked
<1>3. \A x \in P : x.kind # "address"
  BY <1>1 DEF Private
<1>4. line \in Seq(U) \/ line \in Seq(P)
  BY <1>1
<1>5. /\ \A i \in DOMAIN line : line[i] \in U
      /\ line \in Seq(P) => \A i \in DOMAIN line : line[i] \in P
  BY <1>1, <1>4
<1> QED
  BY <1>1, <1>2, <1>3, <1>5 DEF Has

\* What the proofs keep to, in the words of the properties.
LEMMA HiddenIs == Hidden => CredentialsHidden /\ SameNumber
<1> SUFFICES ASSUME Hidden PROVE CredentialsHidden /\ SameNumber
  OBVIOUS
<1>1. PICK r : r = rec /\ RecOk(r) /\ (r.redact = "pii" /\ run # "recording" => KeptPrivate(r))
  BY DEF Hidden
<1>2. AnalysisOk(r.analysis) /\ NumbersOk(r.numbers) /\ r.redact \in Modes
  BY <1>1 DEF RecOk
<1>3. SameNumber
  BY <1>1, <1>2, NumbersTellApart DEF SameNumber
<1>4. ASSUME NEW b \in DOMAIN r.analysis.behaviors, NEW list \in Lists,
             NEW i \in DOMAIN LinesOf(r, b, list)
      PROVE  LET l == LinesOf(r, b, list)[i]
             IN /\ ~ Has(l.line, DOMAIN Mask)
                /\ r.redact = "pii" /\ run # "recording" => ~ Has(l.line, {"address"})
  <2>1. PICK s, S : s = LinesOf(r, b, list) /\ S = Source /\ s \in Seq(S)
    BY <1>2 DEF AnalysisOk, AccOk, Lists, LinesOf
  <2>2. PICK l : l = s[i] /\ l \in Source
    BY <2>1
  <2>3. PICK line : line = l.line /\ line \in Seq(Unmasked)
    BY <2>2 DEF Source
  <2>4. r.redact = "pii" /\ run # "recording" => line \in Seq(Private)
    BY <1>1, <2>1, <2>2, <2>3 DEF KeptPrivate
  <2> QED
    BY <2>1, <2>2, <2>3, <2>4, NothingHas
<1>5. ASSUME NEW s \in Streams
      PROVE  /\ r.redact # "off" => ~ Has(r.written[s], DOMAIN Mask)
             /\ r.redact = "pii" => ~ Has(r.written[s], {"address"})
  <2>1. PICK w : w = r.written[s] /\ w \in Seq(Allowed(r.redact))
    BY <1>1 DEF RecOk
  <2> QED
    BY <1>2, <2>1, AllowedBytes, NothingHas DEF Modes
<1>6. CredentialsHidden
  <2>1. ASSUME NEW b \in DOMAIN r.analysis.behaviors
        PROVE  ~ Has(b.template, DOMAIN Mask)
    BY <1>2 DEF AnalysisOk
  <2>2. ASSUME NEW b \in DOMAIN r.analysis.behaviors,
               NEW l \in ToSet(r.analysis.behaviors[b].first) \cup ToSet(r.analysis.behaviors[b].sampled)
        PROVE  /\ ~ Has(l.line, DOMAIN Mask)
               /\ r.redact = "pii" /\ run # "recording" => ~ Has(l.line, {"address"})
    <3>1. PICK list \in Lists : l \in ToSet(LinesOf(r, b, list))
      BY DEF Lists, LinesOf
    <3>2. PICK i \in DOMAIN LinesOf(r, b, list) : l = LinesOf(r, b, list)[i]
      BY <3>1 DEF ToSet
    <3> QED
      BY <1>4, <3>2
  <2> QED
    BY <1>1, <1>5, <2>1, <2>2 DEF CredentialsHidden
<1> QED
  BY <1>3, <1>6

\* Whatever is read, however the reads cut it: no credential is in the capture of a
\* redacted run nor in what is kept of any run, and under pii no address either.
THEOREM NoCredentials == Spec => []CredentialsHidden
<1>1. Hidden => CredentialsHidden
  BY HiddenIs
<1> QED
  BY <1>1, HiddenInvariant, PTL

\* Within a run the same mark stands for the same value, past the number of values
\* the redaction remembers too.
THEOREM NumbersTell == Spec => []SameNumber
<1>1. Hidden => SameNumber
  BY HiddenIs
<1> QED
  BY <1>1, HiddenInvariant, PTL

-----------------------------------------------------------------------------
(* A stream in two chunks.                                                  *)

\* A stretch of a sequence.
LEMMA SubIs ==
  ASSUME NEW S, NEW s \in Seq(S), NEW a \in Int, NEW b \in Int, 1 <= a, b <= Len(s),
         NEW u, u = SubSeq(s, a, b)
  PROVE  /\ u \in Seq(S)
         /\ Len(u) = IF a <= b THEN b - a + 1 ELSE 0
         /\ \A i \in 1..(b - a + 1) : u[i] = s[a + i - 1]
<1>1. PICK n \in Nat : n = Len(s) /\ s \in [1..n -> S]
  OBVIOUS
<1>2. \A i \in a..b : s[i] \in S
  BY <1>1
<1> QED
  BY <1>2, SubSeqProperties

\* Two sequences one after the other.
LEMMA JoinIs ==
  ASSUME NEW S, NEW c \in Seq(S), NEW d \in Seq(S), NEW w, w = c \o d
  PROVE  /\ w \in Seq(S) /\ Len(c) \in Nat /\ Len(d) \in Nat /\ Len(w) = Len(c) + Len(d)
         /\ \A i \in 1..Len(c) : w[i] = c[i]
         /\ \A i \in 1..Len(d) : w[Len(c) + i] = d[i]
<1>1. Len(c) \in Nat /\ Len(d) \in Nat
  OBVIOUS
<1>2. /\ w \in Seq(S)
      /\ Len(w) = Len(c) + Len(d)
      /\ \A i \in 1 .. Len(c) + Len(d) : w[i] = IF i <= Len(c) THEN c[i] ELSE d[i - Len(c)]
  BY ConcatProperties, Zenon
<1>3. \A i \in 1..Len(c) : w[i] = c[i]
  BY <1>1, <1>2
<1>4. ASSUME NEW i \in 1..Len(d) PROVE w[Len(c) + i] = d[i]
  <2>1. Len(c) + i \in 1 .. Len(c) + Len(d) /\ ~ (Len(c) + i <= Len(c)) /\ (Len(c) + i) - Len(c) = i
    BY <1>1
  <2> QED
    BY <1>2, <2>1
<1> QED
  BY <1>1, <1>2, <1>3, <1>4

LEMMA SameSeq ==
  ASSUME NEW S, NEW s \in Seq(S), NEW t \in Seq(S), NEW n, Len(s) = n, Len(t) = n,
         \A i \in 1..n : s[i] = t[i]
  PROVE  s = t
BY SeqEqual, Zenon

\* A stretch of the first of two sequences.
LEMMA JoinLeft ==
  ASSUME NEW S, NEW c \in Seq(S), NEW d \in Seq(S), NEW a \in Int, NEW b \in Int, 1 <= a, b <= Len(c)
  PROVE  SubSeq(c \o d, a, b) = SubSeq(c, a, b)
<1>1. PICK w, u, v : w = c \o d /\ u = SubSeq(w, a, b) /\ v = SubSeq(c, a, b)
  OBVIOUS
<1>2. /\ w \in Seq(S) /\ Len(c) \in Nat /\ Len(d) \in Nat /\ Len(w) = Len(c) + Len(d)
      /\ \A i \in 1..Len(c) : w[i] = c[i]
  BY <1>1, JoinIs
<1>3. /\ u \in Seq(S) /\ Len(u) = IF a <= b THEN b - a + 1 ELSE 0
      /\ \A i \in 1..(b - a + 1) : u[i] = w[a + i - 1]
  <2>1. b <= Len(w)
    BY <1>2
  <2> QED
    BY <1>1, <1>2, <2>1, SubIs
<1>4. /\ v \in Seq(S) /\ Len(v) = IF a <= b THEN b - a + 1 ELSE 0
      /\ \A i \in 1..(b - a + 1) : v[i] = c[a + i - 1]
  BY <1>1, SubIs
<1>5. PICK k : k = (IF a <= b THEN b - a + 1 ELSE 0)
  OBVIOUS
<1>6. ASSUME NEW i \in 1..k PROVE u[i] = v[i]
  <2>1. i \in 1..(b - a + 1) /\ a + i - 1 \in 1..Len(c)
    BY <1>2, <1>5
  <2> QED
    BY <1>2, <1>3, <1>4, <2>1
<1>7. u = v
  BY <1>3, <1>4, <1>5, <1>6, SameSeq
<1> QED
  BY <1>1, <1>7

\* A stretch of the second.
LEMMA JoinRight ==
  ASSUME NEW S, NEW c \in Seq(S), NEW d \in Seq(S), NEW x \in Int, NEW y \in Int,
         Len(c) < x, y <= Len(c) + Len(d)
  PROVE  SubSeq(c \o d, x, y) = SubSeq(d, x - Len(c), y - Len(c))
<1>1. PICK n \in Nat : n = Len(c)
  OBVIOUS
<1>2. PICK w : w = c \o d
  OBVIOUS
<1>3. /\ w \in Seq(S) /\ Len(w) = Len(c) + Len(d) /\ Len(d) \in Nat
      /\ \A i \in 1..Len(d) : w[Len(c) + i] = d[i]
  BY <1>2, JoinIs
<1>4. PICK a, b : a = x - n /\ b = y - n
  OBVIOUS
<1>5. /\ a \in Int /\ b \in Int /\ x = n + a /\ y = n + b /\ 1 <= a /\ b <= Len(d)
      /\ a = x - Len(c) /\ b = y - Len(c)
  BY <1>1, <1>3, <1>4
<1>6. x \in Int /\ y \in Int /\ 1 <= x /\ y <= Len(w)
  BY <1>1, <1>3, <1>5
<1>7. PICK u, v : u = SubSeq(w, x, y) /\ v = SubSeq(d, a, b)
  OBVIOUS
<1>8. /\ u \in Seq(S) /\ Len(u) = IF x <= y THEN y - x + 1 ELSE 0
      /\ \A i \in 1..(y - x + 1) : u[i] = w[x + i - 1]
  <2>1. w \in Seq(S)
    BY <1>3
  <2>2. u = SubSeq(w, x, y)
    BY <1>7
  <2> QED
    BY <1>6, <2>1, <2>2, SubIs
<1>9. /\ v \in Seq(S) /\ Len(v) = IF a <= b THEN b - a + 1 ELSE 0
      /\ \A i \in 1..(b - a + 1) : v[i] = d[a + i - 1]
  <2>1. a \in Int /\ b \in Int /\ 1 <= a /\ b <= Len(d)
    BY <1>5
  <2> QED
    BY <1>7, <2>1, SubIs
<1>10. PICK k : k = (IF a <= b THEN b - a + 1 ELSE 0)
  OBVIOUS
<1>11. ASSUME NEW i \in 1..k PROVE u[i] = v[i]
  <2>1. k = b - a + 1 /\ i \in Int /\ 1 <= i /\ i <= k
    BY <1>5, <1>10
  <2>2. PICK j : j = a + i - 1 /\ j \in 1..Len(d) /\ x + i - 1 = Len(c) + j
    <3>1. a + i - 1 \in 1..Len(d)
      BY <1>3, <1>5, <2>1
    <3>2. x + i - 1 = Len(c) + (a + i - 1)
      BY <1>1, <1>3, <1>5, <2>1
    <3> QED
      BY <3>1, <3>2
  <2>3. i \in 1..(b - a + 1) /\ i \in 1..(y - x + 1)
    BY <1>5, <1>10
  <2>4. u[i] = w[Len(c) + j] /\ v[i] = d[j]
    BY <1>8, <1>9, <2>2, <2>3
  <2> QED
    BY <1>3, <2>2, <2>4
<1>12. Len(u) = k /\ Len(v) = k
  <2>1. Len(u) = (IF x <= y THEN y - x + 1 ELSE 0) /\ Len(v) = (IF a <= b THEN b - a + 1 ELSE 0)
    BY <1>8, <1>9
  <2>2. (IF x <= y THEN y - x + 1 ELSE 0) = (IF a <= b THEN b - a + 1 ELSE 0)
    BY <1>1, <1>5
  <2> QED
    BY <1>10, <2>1, <2>2
<1>13. u = v
  BY <1>8, <1>9, <1>11, <1>12, SameSeq
<1> QED
  BY <1>2, <1>5, <1>7, <1>13

\* A stretch that reaches from the first into the second.
LEMMA JoinAcross ==
  ASSUME NEW S, NEW c \in Seq(S), NEW d \in Seq(S), NEW a \in Int, NEW y \in Int,
         1 <= a, a <= Len(c) + 1, Len(c) <= y, y <= Len(c) + Len(d)
  PROVE  SubSeq(c \o d, a, y) = SubSeq(c, a, Len(c)) \o SubSeq(d, 1, y - Len(c))
<1>1. PICK b \in Nat : b = y - Len(c) /\ y = Len(c) + b /\ b <= Len(d)
  <2>1. Len(c) \in Nat /\ Len(d) \in Nat
    OBVIOUS
  <2>2. y - Len(c) \in Nat /\ y = Len(c) + (y - Len(c)) /\ y - Len(c) <= Len(d)
    BY <2>1
  <2> QED
    BY <2>2
<1>2. PICK w, u, s, t, v : /\ w = c \o d /\ u = SubSeq(w, a, y)
                           /\ s = SubSeq(c, a, Len(c)) /\ t = SubSeq(d, 1, y - Len(c)) /\ v = s \o t
  OBVIOUS
<1>3. /\ w \in Seq(S) /\ Len(c) \in Nat /\ Len(d) \in Nat /\ Len(w) = Len(c) + Len(d)
      /\ \A i \in 1..Len(c) : w[i] = c[i]
      /\ \A i \in 1..Len(d) : w[Len(c) + i] = d[i]
  BY <1>2, JoinIs
<1>4. /\ u \in Seq(S) /\ Len(u) = IF a <= y THEN y - a + 1 ELSE 0
      /\ \A i \in 1..(y - a + 1) : u[i] = w[a + i - 1]
  <2>1. y <= Len(w) /\ w \in Seq(S)
    BY <1>3
  <2>2. u = SubSeq(w, a, y)
    BY <1>2
  <2> QED
    BY <2>1, <2>2, SubIs
<1>5. /\ s \in Seq(S) /\ Len(s) = IF a <= Len(c) THEN Len(c) - a + 1 ELSE 0
      /\ \A i \in 1..(Len(c) - a + 1) : s[i] = c[a + i - 1]
  <2>1. Len(c) \in Int /\ Len(c) <= Len(c)
    BY <1>3
  <2> QED
    BY <1>2, <2>1, SubIs
<1>6. /\ t \in Seq(S) /\ Len(t) = b
      /\ \A i \in 1..b : t[i] = d[i]
  <2>1. /\ t \in Seq(S) /\ Len(t) = IF 1 <= b THEN b - 1 + 1 ELSE 0
        /\ \A i \in 1..(b - 1 + 1) : t[i] = d[1 + i - 1]
    <3>1. b \in Int /\ b <= Len(d)
      BY <1>1
    <3>2. t = SubSeq(d, 1, b)
      BY <1>1, <1>2
    <3> QED
      BY <3>1, <3>2, SubIs
  <2>2. b \in Nat
    BY <1>1
  <2> QED
    BY <2>1, <2>2
<1>7. PICK k \in Nat : k = Len(s) /\ k = Len(c) - a + 1
  <2>1. Len(c) \in Nat /\ Len(s) = (IF a <= Len(c) THEN Len(c) - a + 1 ELSE 0)
    BY <1>3, <1>5
  <2>2. Len(c) - a + 1 \in Nat /\ Len(s) = Len(c) - a + 1
    BY <2>1
  <2> QED
    BY <2>2
<1>8. /\ v \in Seq(S) /\ Len(v) = k + b
      /\ \A i \in 1..k : v[i] = s[i]
      /\ \A i \in 1..b : v[k + i] = t[i]
  <2>1. v = s \o t /\ s \in Seq(S) /\ t \in Seq(S)
    BY <1>2, <1>5, <1>6
  <2>2. /\ v \in Seq(S) /\ Len(v) = Len(s) + Len(t)
        /\ \A i \in 1..Len(s) : v[i] = s[i]
        /\ \A i \in 1..Len(t) : v[Len(s) + i] = t[i]
    BY <2>1, JoinIs
  <2>3. k = Len(s) /\ b = Len(t) /\ b \in Nat
    BY <1>1, <1>6, <1>7
  <2>4. \A i \in 1..Len(t) : v[Len(s) + i] = t[i]
    BY <2>2
  <2>5. \A i \in 1..b : v[k + i] = t[i]
    BY <2>3, <2>4
  <2> QED
    BY <2>2, <2>3, <2>5
<1>9. Len(u) = k + b
  <2>1. Len(u) = (IF a <= y THEN y - a + 1 ELSE 0) /\ Len(c) \in Nat
    BY <1>3, <1>4
  <2>2. (IF a <= y THEN y - a + 1 ELSE 0) = k + b
    BY <1>1, <1>7, <2>1
  <2> QED
    BY <2>1, <2>2
<1>10. ASSUME NEW i \in 1..(k + b) PROVE u[i] = v[i]
  <2>1. i \in 1..(y - a + 1)
    BY <1>1, <1>3, <1>7
  <2>2. u[i] = w[a + i - 1]
    BY <1>4, <2>1
  <2>3. CASE i <= k
    <3>1. i \in 1..k /\ i \in 1..(Len(c) - a + 1) /\ a + i - 1 \in 1..Len(c)
      BY <1>3, <1>7, <2>3
    <3> QED
      BY <1>3, <1>5, <1>8, <2>2, <3>1
  <2>4. CASE ~ (i <= k)
    <3>1. PICK j : j = i - k /\ j \in 1..b /\ k + j = i /\ a + i - 1 = Len(c) + j /\ j \in 1..Len(d)
      BY <1>1, <1>3, <1>7, <2>4
    <3>2. v[i] = t[j] /\ t[j] = d[j]
      BY <1>6, <1>8, <3>1
    <3>3. w[a + i - 1] = d[j]
      BY <1>3, <3>1
    <3> QED
      BY <2>2, <3>2, <3>3
  <2> QED
    BY <2>3, <2>4
<1>11. u = v
  BY <1>4, <1>8, <1>9, <1>10, SameSeq
<1> QED
  BY <1>2, <1>11

\* A sequence that is short enough is kept whole.
LEMMA ClipIs ==
  ASSUME NEW S, NEW s \in Seq(S), NEW m \in Nat
  PROVE  /\ Len(s) <= m => Clip(s, m) = s
         /\ Clip(s, m) \in Seq(S) /\ Len(Clip(s, m)) <= m
         /\ Len(s) >= m => Clip(s, m) = SubSeq(s, 1, m) /\ Len(Clip(s, m)) = m
<1>1. PICK n \in Nat : n = Len(s)
  OBVIOUS
<1>2. PICK k \in Nat : k = (IF n <= m THEN n ELSE m)
  BY <1>1
<1>3. k <= n /\ k <= m
  BY <1>2
<1>4. PICK t : t = SubSeq(s, 1, k)
  OBVIOUS
<1>5. t \in Seq(S) /\ Len(t) = k
  BY <1>1, <1>3, <1>4, Prefix
<1>6. Clip(s, m) = t
  BY <1>1, <1>2, <1>4 DEF Clip
<1>7. SubSeq(s, 1, n) = s
  BY <1>1, SubSeqFull
<1>8. n <= m => t = s
  BY <1>2, <1>4, <1>7
<1>9. n >= m => k = m
  BY <1>2
<1>10. n >= m => t = SubSeq(s, 1, m)
  BY <1>4, <1>9, SMTT(20)
<1> QED
  BY <1>1, <1>3, <1>5, <1>6, <1>8, <1>9, <1>10

\* The first of two sequences, and some of the second.
LEMMA JoinStart ==
  ASSUME NEW S, NEW a \in Seq(S), NEW c \in Seq(S), NEW y \in Int,
         Len(a) <= y, y <= Len(a) + Len(c)
  PROVE  SubSeq(a \o c, 1, y) = a \o SubSeq(c, 1, y - Len(a))
<1>1. PICK one : one = 1
  OBVIOUS
<1>2. one \in Int /\ 1 <= one /\ one <= Len(a) + 1
  <2>1. Len(a) \in Nat
    OBVIOUS
  <2> QED
    BY <1>1, <2>1
<1>3. SubSeq(a \o c, 1, y) = SubSeq(a, 1, Len(a)) \o SubSeq(c, 1, y - Len(a))
  <2>1. SubSeq(a \o c, one, y) = SubSeq(a, one, Len(a)) \o SubSeq(c, 1, y - Len(a))
    BY <1>2, JoinAcross
  <2> QED
    BY <1>1, <2>1
<1>4. SubSeq(a, 1, Len(a)) = a
  BY SubSeqFull
<1> QED
  BY <1>3, <1>4

\* A line is clipped by keeping as much of what comes as there is room for.
LEMMA ClipJoin ==
  ASSUME NEW S, NEW a \in Seq(S), NEW c \in Seq(S), NEW m \in Nat, Len(a) <= m,
         NEW k, k = IF Len(c) <= m - Len(a) THEN Len(c) ELSE m - Len(a)
  PROVE  a \o SubSeq(c, 1, k) = Clip(a \o c, m)
<1>1. Len(a) \in Nat /\ Len(c) \in Nat
  OBVIOUS
<1>2. PICK y \in Int : y = IF Len(a) + Len(c) <= m THEN Len(a) + Len(c) ELSE m
  BY <1>1
<1>3. y \in Int /\ Len(a) <= y /\ y <= Len(a) + Len(c)
  BY <1>1, <1>2
<1>4. y - Len(a) = k
  BY <1>1, <1>2
<1>5. SubSeq(a \o c, 1, y) = a \o SubSeq(c, 1, y - Len(a))
  BY <1>3, JoinStart
<1>6. Len(a \o c) = Len(a) + Len(c)
  BY JoinIs
<1>7. Clip(a \o c, m) = SubSeq(a \o c, 1, y)
  BY <1>2, <1>6 DEF Clip
<1> QED
  BY <1>4, <1>5, <1>7

\* Clipping before more comes makes no difference.
LEMMA ClipTwice ==
  ASSUME NEW S, NEW s \in Seq(S), NEW d \in Seq(S), NEW m \in Nat
  PROVE  Clip(Clip(s, m) \o d, m) = Clip(s \o d, m)
<1>1. Len(s) \in Nat /\ Len(d) \in Nat
  OBVIOUS
<1>2. CASE Len(s) <= m
  BY <1>2, ClipIs
<1>3. CASE ~ (Len(s) <= m)
  <2>1. PICK t, u, v : t = Clip(s, m) /\ u = t \o d /\ v = s \o d
    OBVIOUS
  <2>2. Len(s) >= m
    BY <1>1, <1>3
  <2>3. t \in Seq(S) /\ Len(t) = m /\ t = SubSeq(s, 1, m)
    BY <2>1, <2>2, ClipIs
  <2>4. u \in Seq(S) /\ Len(u) = Len(t) + Len(d)
    BY <2>1, <2>3, JoinIs
  <2>5. v \in Seq(S) /\ Len(v) = Len(s) + Len(d)
    BY <2>1, JoinIs
  <2>6. Clip(u, m) = SubSeq(u, 1, m)
    <3>1. Len(u) >= m
      BY <1>1, <2>3, <2>4
    <3> QED
      BY <2>4, <3>1, ClipIs
  <2>7. Clip(v, m) = SubSeq(v, 1, m)
    <3>1. Len(v) >= m
      BY <1>1, <2>2, <2>5
    <3> QED
      BY <2>5, <3>1, ClipIs
  <2>8. SubSeq(u, 1, m) = SubSeq(t, 1, m)
    <3>1. m <= Len(t)
      BY <2>3
    <3> QED
      BY <2>1, <2>3, <3>1, JoinLeft
  <2>9. SubSeq(t, 1, m) = t
    BY <2>3, SubSeqFull
  <2>10. SubSeq(v, 1, m) = SubSeq(s, 1, m)
    BY <2>1, <2>2, JoinLeft
  <2> QED
    BY <2>1, <2>3, <2>6, <2>7, <2>8, <2>9, <2>10
<1> QED
  BY <1>2, <1>3

\* A splitter is what is carried, its length, and a number.
LEMMA SplitterIs ==
  ASSUME NEW sp \in Splitter, NEW carry, NEW len, NEW q, q = [sp EXCEPT !.carry = carry, !.carry_len = len]
  PROVE  q = [carry |-> carry, carry_len |-> len, seq |-> sp.seq]
<1>1. DOMAIN sp = {"carry", "carry_len", "seq"}
  BY DEF Splitter
<1>2. q = [x \in {"carry", "carry_len", "seq"} |-> q[x]] /\ q.carry = carry /\ q.carry_len = len /\ q.seq = sp.seq
  BY <1>1
<1> QED
  BY <1>2

\* A splitter after bytes that end no line.
LEMMA KeepIs ==
  ASSUME NEW sp \in Splitter, NEW c \in Seq(Byte)
  PROVE  Keep(sp, c) = [carry |-> Clip(sp.carry \o c, MAX_LINE),
                        carry_len |-> sp.carry_len + Len(c), seq |-> sp.seq]
<1>1. PICK m \in Nat : m = MAX_LINE
  BY RecordingAssumption
<1>2. PICK S, a : S = Byte /\ a = sp.carry
  OBVIOUS
<1>3. a \in Seq(S) /\ c \in Seq(S) /\ Len(a) <= m
  BY <1>1, <1>2 DEF Splitter
<1>4. PICK k : k = IF Len(c) <= m - Len(a) THEN Len(c) ELSE m - Len(a)
  OBVIOUS
<1>5. Min({Len(c), m - Len(a)}) = k
  <2>1. PICK p \in Nat, q \in Nat : p = Len(c) /\ q = m - Len(a)
    <3>1. Len(c) \in Nat /\ Len(a) \in Nat
      BY <1>3
    <3>2. m - Len(a) \in Nat
      BY <1>3, <3>1
    <3> QED
      BY <3>1, <3>2
  <2>2. p \in Nat /\ q \in Nat
    BY <2>1
  <2>3. Min({p, q}) = IF p <= q THEN p ELSE q
    BY <2>2, LesserNat
  <2> QED
    BY <1>4, <2>1, <2>3
<1>6. a \o SubSeq(c, 1, k) = Clip(a \o c, m)
  <2>1. a \in Seq(S) /\ c \in Seq(S)
    BY <1>3
  <2> QED
    BY <1>3, <1>4, <2>1, ClipJoin
<1>7. PICK carry, len : carry = a \o SubSeq(c, 1, k) /\ len = sp.carry_len + Len(c)
  OBVIOUS
<1>8. Keep(sp, c) = [sp EXCEPT !.carry = carry, !.carry_len = len]
  BY <1>1, <1>2, <1>5, <1>7 DEF Keep
<1>9. Keep(sp, c) = [carry |-> carry, carry_len |-> len, seq |-> sp.seq]
  <2>1. PICK q : q = Keep(sp, c) /\ q = [sp EXCEPT !.carry = carry, !.carry_len = len]
    BY <1>8
  <2> QED
    BY <2>1, SplitterIs
<1> QED
  BY <1>1, <1>2, <1>6, <1>7, <1>9

\* What a splitter keeps of bytes in two chunks is what it keeps of them in one.
LEMMA KeepJoin ==
  ASSUME NEW sp \in Splitter, NEW c \in Seq(Byte), NEW d \in Seq(Byte)
  PROVE  Keep(sp, c \o d) = Keep(Keep(sp, c), d)
<1>1. PICK m \in Nat : m = MAX_LINE
  BY RecordingAssumption
<1>2. PICK S, a : S = Byte /\ a = sp.carry
  OBVIOUS
<1>3. a \in Seq(S) /\ c \in Seq(S) /\ d \in Seq(S)
  BY <1>2 DEF Splitter
<1>4. PICK b : b = a \o c
  OBVIOUS
<1>5. b \in Seq(S)
  BY <1>3, <1>4, Concat
<1>6. c \o d \in Seq(S) /\ Len(c \o d) = Len(c) + Len(d) /\ Len(c) \in Nat /\ Len(d) \in Nat
  BY <1>3, JoinIs
<1>7. PICK k : k = Keep(sp, c)
  OBVIOUS
<1>8. k = [carry |-> Clip(b, m), carry_len |-> sp.carry_len + Len(c), seq |-> sp.seq]
  BY <1>1, <1>2, <1>4, <1>7, KeepIs
<1>9. k \in Splitter
  BY <1>7, KeepTyped
<1>10. Keep(k, d) = [carry |-> Clip(Clip(b, m) \o d, m),
                     carry_len |-> (sp.carry_len + Len(c)) + Len(d), seq |-> sp.seq]
  BY <1>1, <1>8, <1>9, KeepIs
<1>11. c \o d \in Seq(Byte)
  BY <1>2, <1>6
<1>12. Keep(sp, c \o d) = [carry |-> Clip(a \o (c \o d), m),
                           carry_len |-> sp.carry_len + Len(c \o d), seq |-> sp.seq]
  BY <1>1, <1>2, <1>11, KeepIs
<1>13. Clip(Clip(b, m) \o d, m) = Clip(b \o d, m)
  <2>1. m \in Nat
    BY <1>1
  <2> QED
    BY <1>3, <1>5, <2>1, ClipTwice
<1>14. b \o d = a \o (c \o d)
  BY <1>3, <1>4, ConcatAssociative
<1>15. (sp.carry_len + Len(c)) + Len(d) = sp.carry_len + Len(c \o d)
  <2>1. sp.carry_len \in Nat
    BY SplitterField
  <2> QED
    BY <1>6, <2>1
<1> QED
  BY <1>7, <1>10, <1>12, <1>13, <1>14, <1>15

\* What is carried does not depend on the number of the line.
LEMMA KeepSeq ==
  ASSUME NEW sp \in Splitter, NEW q \in Splitter, sp.carry = q.carry, sp.carry_len = q.carry_len,
         NEW c \in Seq(Byte)
  PROVE  Keep(sp, c).carry = Keep(q, c).carry /\ Keep(sp, c).carry_len = Keep(q, c).carry_len
BY KeepIs

LEMMA EndsAre ==
  ASSUME NEW S, NEW c \in Seq(S)
  PROVE  /\ Ends(c) \in Seq(Nat) /\ Len(c) \in Nat /\ Len(Ends(c)) \in Nat
         /\ \A i \in 1..Len(Ends(c)) : Ends(c)[i] \in 1..Len(c)
<1>1. PICK e, R : e = Ends(c) /\ R = 1..Len(c)
  OBVIOUS
<1>2. e \in Seq(R)
  BY <1>1, EndsThere
<1>3. Len(c) \in Nat /\ R \subseteq Nat
  BY <1>1
<1>4. e \in Seq(Nat)
  BY <1>2, <1>3, Larger
<1>5. Len(e) \in Nat /\ \A i \in 1..Len(e) : e[i] \in R
  BY <1>2
<1> QED
  BY <1>1, <1>3, <1>4, <1>5

\* One newline more, at the end.
LEMMA JoinedNext ==
  ASSUME NEW g, NEW e \in Seq(Nat), NEW f \in Seq(Nat), NEW n \in Nat, NEW x \in Nat, NEW y,
         y = n + x, Joined(g, e, f, n)
  PROVE  Joined(Append(g, y), e, Append(f, x), n)
<1>1. PICK h, k : h = Append(g, y) /\ k = Append(f, x)
  OBVIOUS
<1>2. g \in Seq(Nat) /\ Len(g) = Len(e) + Len(f) /\ Len(e) \in Nat /\ Len(f) \in Nat /\ y \in Nat
  BY DEF Joined
<1>3. /\ h \in Seq(Nat) /\ Len(h) = Len(g) + 1 /\ h[Len(g) + 1] = y
      /\ \A i \in 1..Len(g) : h[i] = g[i]
  <2>1. PICK S : S = Nat
    OBVIOUS
  <2>2. g \in Seq(S) /\ y \in S /\ h = Append(g, y)
    BY <1>1, <1>2, <2>1
  <2> QED
    BY <2>1, <2>2, Appended
<1>4. /\ k \in Seq(Nat) /\ Len(k) = Len(f) + 1 /\ k[Len(f) + 1] = x
      /\ \A i \in 1..Len(f) : k[i] = f[i]
  <2>1. PICK S : S = Nat
    OBVIOUS
  <2>2. f \in Seq(S) /\ x \in S /\ k = Append(f, x)
    BY <1>1, <2>1
  <2> QED
    BY <2>1, <2>2, Appended
<1>5. ASSUME NEW i \in 1..Len(e) PROVE h[i] = e[i]
  <2>1. i \in 1..Len(g)
    BY <1>2
  <2> QED
    BY <1>3, <2>1 DEF Joined
<1>6. ASSUME NEW i \in 1..Len(k) PROVE h[Len(e) + i] = n + k[i]
  <2>1. CASE i \in 1..Len(f)
    <3>1. Len(e) + i \in 1..Len(g)
      BY <1>2, <2>1
    <3>2. g[Len(e) + i] = n + f[i]
      BY <2>1 DEF Joined
    <3> QED
      BY <1>3, <1>4, <2>1, <3>1, <3>2
  <2>2. CASE i \notin 1..Len(f)
    <3>1. i = Len(f) + 1 /\ Len(e) + i = Len(g) + 1
      BY <1>2, <1>4, <2>2
    <3> QED
      BY <1>3, <1>4, <3>1
  <2> QED
    BY <2>1, <2>2
<1>7. Len(h) = Len(e) + Len(k)
  BY <1>2, <1>3, <1>4
<1> QED
  BY <1>1, <1>3, <1>5, <1>6, <1>7 DEF Joined

\* The newlines of two chunks are those of one and of the other.
LEMMA EndsJoin ==
  ASSUME NEW S, NEW c \in Seq(S), NEW d \in Seq(S)
  PROVE  Joined(Ends(c \o d), Ends(c), Ends(d), Len(c))
<1> DEFINE p(k) == SubSeq(d, 1, k)
           T == {k \in 0..Len(d) : Joined(Ends(c \o p(k)), Ends(c), Ends(p(k)), Len(c))}
<1>1. Len(d) \in Nat /\ p(0) = <<>> /\ p(Len(d)) = d
  OBVIOUS
<1>2. \A k : k \in T <=> k \in 0..Len(d) /\ Joined(Ends(c \o p(k)), Ends(c), Ends(p(k)), Len(c))
  OBVIOUS
<1>3. 0 \in T
  <2>1. Ends(p(0)) = <<>> /\ c \o p(0) = c
    BY <1>1, EndsNone, ConcatEmptySeq
  <2>2. Ends(c) \in Seq(Nat) /\ Len(Ends(c)) \in Nat
    BY EndsAre
  <2>3. Joined(Ends(c), Ends(c), <<>>, Len(c))
    <3>1. Len(<<>>) = 0
      OBVIOUS
    <3> QED
      BY <2>2, <3>1 DEF Joined
  <2>4. 0 \in 0..Len(d)
    BY <1>1
  <2> HIDE DEF T, p
  <2> QED
    BY <1>2, <2>1, <2>3, <2>4
<1>4. ASSUME NEW k \in 1..Len(d), k - 1 \in T PROVE k \in T
  <2>1. p(k) = Append(p(k - 1), d[k]) /\ d[k] \in S /\ p(k - 1) \in Seq(S) /\ Len(p(k - 1)) + 1 = k
        /\ k \in 0..Len(d)
    OBVIOUS
  <2>2. PICK q, x : q = p(k - 1) /\ x = d[k]
    OBVIOUS
  <2>3. Joined(Ends(c \o q), Ends(c), Ends(q), Len(c))
    BY <1>2, <1>4, <2>2
  <2> HIDE DEF T, p
  <2>4. q \in Seq(S) /\ x \in S /\ p(k) = Append(q, x) /\ Len(q) + 1 = k
    BY <2>1, <2>2
  <2>5. PICK w : w = c \o q
    OBVIOUS
  <2>6. w \in Seq(S) /\ Len(w) = Len(c) + Len(q) /\ Len(c) \in Nat /\ Len(q) \in Nat
    BY <2>4, <2>5, JoinIs
  <2>7. c \o Append(q, x) = Append(w, x)
    BY <2>4, <2>5
  <2>8. Ends(Append(w, x)) = IF x = Newline THEN Append(Ends(w), Len(w) + 1) ELSE Ends(w)
    BY <2>4, <2>6, EndsAppend
  <2>9. Ends(Append(q, x)) = IF x = Newline THEN Append(Ends(q), Len(q) + 1) ELSE Ends(q)
    BY <2>4, EndsAppend
  <2>10. Joined(Append(Ends(w), Len(w) + 1), Ends(c), Append(Ends(q), Len(q) + 1), Len(c))
    <3>1. PICK g, e, f, y, z : g = Ends(w) /\ e = Ends(c) /\ f = Ends(q) /\ y = Len(w) + 1 /\ z = Len(q) + 1
      OBVIOUS
    <3>2. e \in Seq(Nat) /\ f \in Seq(Nat)
      BY <2>4, <3>1, EndsAre
    <3>3. y = Len(c) + z /\ z \in Nat /\ Len(c) \in Nat
      BY <2>6, <3>1
    <3>4. Joined(g, e, f, Len(c))
      BY <2>3, <2>5, <3>1
    <3>5. Joined(Append(g, y), e, Append(f, z), Len(c))
      BY <3>2, <3>3, <3>4, JoinedNext
    <3> QED
      BY <3>1, <3>5
  <2>11. Joined(Ends(c \o p(k)), Ends(c), Ends(p(k)), Len(c))
    BY <2>3, <2>4, <2>5, <2>7, <2>8, <2>9, <2>10
  <2> QED
    BY <1>2, <2>1, <2>11
<1> HIDE DEF T, p
<1>5. \A k \in 0..Len(d) : k \in T
  BY <1>1, <1>3, <1>4, UpTo
<1>6. Len(d) \in T
  BY <1>1, <1>5
<1> QED
  BY <1>1, <1>2, <1>6

LEMMA HeadIs ==
  ASSUME NEW c, NEW i
  PROVE  Head_(c, i) = SubSeq(c, HeadFrom(Ends(c), i), HeadTo(Ends(c), Len(c), i))
BY Zenon DEF Head_, HeadFrom, HeadTo

\* The bounds of a stretch are in the chunk.
LEMMA HeadBounds ==
  ASSUME NEW S, NEW c \in Seq(S), NEW i \in 1..(Len(Ends(c)) + 1)
  PROVE  /\ HeadFrom(Ends(c), i) \in Int /\ 1 <= HeadFrom(Ends(c), i)
         /\ HeadFrom(Ends(c), i) <= Len(c) + 1
         /\ HeadTo(Ends(c), Len(c), i) \in Int /\ HeadTo(Ends(c), Len(c), i) <= Len(c)
<1>1. PICK e, n, m : e = Ends(c) /\ n = Len(c) /\ m = Len(e)
  OBVIOUS
<1>2. n \in Nat /\ m \in Nat /\ \A k \in 1..m : e[k] \in 1..n
  BY <1>1, EndsAre
<1>3. i \in 1..(m + 1)
  BY <1>1
<1>4. HeadFrom(e, i) \in Int /\ 1 <= HeadFrom(e, i) /\ HeadFrom(e, i) <= n + 1
  <2>1. CASE i = 1
    BY <1>2, <2>1 DEF HeadFrom
  <2>2. CASE i # 1
    <3>1. i - 1 \in 1..m
      BY <1>2, <1>3, <2>2
    <3>2. e[i - 1] \in 1..n
      BY <1>2, <3>1
    <3> QED
      BY <1>2, <2>2, <3>2 DEF HeadFrom
  <2> QED
    BY <2>1, <2>2
<1>5. HeadTo(e, n, i) \in Int /\ HeadTo(e, n, i) <= n
  <2>1. CASE i > m
    BY <1>1, <1>2, <2>1 DEF HeadTo
  <2>2. CASE ~ (i > m)
    <3>1. i \in 1..m
      BY <1>2, <1>3, <2>2
    <3>2. e[i] \in 1..n
      BY <1>2, <3>1
    <3> QED
      BY <1>1, <1>2, <2>2, <3>2 DEF HeadTo
  <2> QED
    BY <2>1, <2>2
<1> QED
  BY <1>1, <1>4, <1>5

\* A line that ends in the first of two chunks.
LEMMA HeadBefore ==
  ASSUME NEW S, NEW c \in Seq(S), NEW d \in Seq(S), NEW i \in 1..Len(Ends(c))
  PROVE  Head_(c \o d, i) = Head_(c, i)
<1>1. PICK g, e, f, n, w : /\ g = Ends(c \o d) /\ e = Ends(c) /\ f = Ends(d) /\ n = Len(c)
                           /\ w = c \o d
  OBVIOUS
<1>2. Joined(g, e, f, n)
  BY <1>1, EndsJoin
<1>3. /\ Len(e) \in Nat /\ Len(f) \in Nat /\ n \in Nat /\ Len(g) = Len(e) + Len(f)
      /\ \A k \in 1..Len(e) : g[k] = e[k]
  BY <1>1, <1>2, EndsAre DEF Joined
<1>4. i \in 1..Len(e)
  BY <1>1
<1>5. HeadFrom(g, i) = HeadFrom(e, i)
  <2>1. CASE i = 1
    BY <2>1 DEF HeadFrom
  <2>2. CASE i # 1
    <3>1. i - 1 \in 1..Len(e)
      BY <1>3, <1>4, <2>2
    <3> QED
      BY <1>3, <2>2, <3>1 DEF HeadFrom
  <2> QED
    BY <2>1, <2>2
<1>6. HeadTo(g, Len(w), i) = HeadTo(e, n, i)
  <2>1. ~ (i > Len(e)) /\ ~ (i > Len(g))
    BY <1>3, <1>4
  <2> QED
    BY <1>3, <1>4, <2>1 DEF HeadTo
<1>7. PICK a, b : a = HeadFrom(e, i) /\ b = HeadTo(e, n, i)
  OBVIOUS
<1>8. a \in Int /\ b \in Int /\ 1 <= a /\ b <= Len(c)
  <2>1. i \in 1..(Len(Ends(c)) + 1)
    BY <1>1, <1>3, <1>4
  <2> QED
    BY <1>1, <1>7, <2>1, HeadBounds
<1>9. SubSeq(c \o d, a, b) = SubSeq(c, a, b)
  BY <1>8, JoinLeft
<1> QED
  BY <1>1, <1>5, <1>6, <1>7, <1>9, HeadIs

\* The line that begins in the first and goes on in the second.
LEMMA HeadAcross ==
  ASSUME NEW S, NEW c \in Seq(S), NEW d \in Seq(S)
  PROVE  Head_(c \o d, Len(Ends(c)) + 1) = Head_(c, Len(Ends(c)) + 1) \o Head_(d, 1)
<1>1. PICK g, e, f, n, w : /\ g = Ends(c \o d) /\ e = Ends(c) /\ f = Ends(d) /\ n = Len(c)
                           /\ w = c \o d
  OBVIOUS
<1>2. Joined(g, e, f, n)
  BY <1>1, EndsJoin
<1>3. /\ Len(e) \in Nat /\ Len(f) \in Nat /\ n \in Nat /\ Len(g) = Len(e) + Len(f)
      /\ \A k \in 1..Len(e) : g[k] = e[k]
      /\ \A k \in 1..Len(f) : g[Len(e) + k] = n + f[k]
  BY <1>1, <1>2, EndsAre DEF Joined
<1>4. Len(w) = n + Len(d) /\ Len(d) \in Nat /\ \A k \in 1..Len(f) : f[k] \in 1..Len(d)
  <2>1. Len(w) = Len(c) + Len(d) /\ Len(d) \in Nat
    BY <1>1, JoinIs
  <2>2. \A k \in 1..Len(f) : f[k] \in 1..Len(d)
    BY <1>1, EndsAre
  <2> QED
    BY <1>1, <2>1, <2>2
<1>5. PICK i : i = Len(e) + 1
  OBVIOUS
<1>6. HeadFrom(g, i) = HeadFrom(e, i)
  <2>1. CASE i = 1
    BY <2>1 DEF HeadFrom
  <2>2. CASE i # 1
    <3>1. i - 1 \in 1..Len(e)
      BY <1>3, <1>5, <2>2
    <3> QED
      BY <1>3, <2>2, <3>1 DEF HeadFrom
  <2> QED
    BY <2>1, <2>2
<1>7. HeadTo(e, n, i) = n
  BY <1>3, <1>5 DEF HeadTo
<1>8. PICK one : one = 1
  OBVIOUS
<1>9. PICK y, b : y = HeadTo(g, Len(w), i) /\ b = HeadTo(f, Len(d), one)
  OBVIOUS
<1>10. y \in Int /\ n <= y /\ y <= n + Len(d) /\ y - n = b
  <2>1. CASE Len(f) = 0
    <3>1. i > Len(g) /\ 1 > Len(f)
      BY <1>3, <1>5, <2>1
    <3>2. y = Len(w) /\ b = Len(d)
      BY <1>8, <1>9, <3>1 DEF HeadTo
    <3> QED
      BY <1>3, <1>4, <3>2
  <2>2. CASE Len(f) # 0
    <3>1. ~ (i > Len(g)) /\ ~ (1 > Len(f)) /\ 1 \in 1..Len(f)
      BY <1>3, <1>5, <2>2
    <3>2. y = g[i] - 1 /\ b = f[1] - 1
      BY <1>8, <1>9, <3>1 DEF HeadTo
    <3>3. g[i] = n + f[1] /\ f[1] \in 1..Len(d)
      BY <1>3, <1>4, <1>5, <3>1
    <3> QED
      BY <1>3, <1>4, <3>2, <3>3
  <2> QED
    BY <2>1, <2>2
<1>11. PICK a : a = HeadFrom(e, i)
  OBVIOUS
<1>12. a \in Int /\ 1 <= a /\ a <= Len(c) + 1 /\ Len(c) <= y /\ y <= Len(c) + Len(d)
  <2>1. i \in 1..(Len(Ends(c)) + 1)
    BY <1>1, <1>3, <1>5
  <2> QED
    BY <1>1, <1>10, <1>11, <2>1, HeadBounds
<1>13. SubSeq(c \o d, a, y) = SubSeq(c, a, Len(c)) \o SubSeq(d, 1, y - Len(c))
  BY <1>10, <1>12, JoinAcross
<1>14. Head_(c \o d, i) = SubSeq(c \o d, a, y)
  BY <1>1, <1>6, <1>9, <1>11, HeadIs
<1>15. Head_(c, i) = SubSeq(c, a, Len(c))
  BY <1>1, <1>7, <1>11, HeadIs
<1>16. Head_(d, 1) = SubSeq(d, 1, y - Len(c))
  <2>1. HeadFrom(f, one) = 1
    BY <1>8 DEF HeadFrom
  <2>2. Head_(d, one) = SubSeq(d, HeadFrom(f, one), b)
    BY <1>1, <1>9, HeadIs
  <2>3. b = y - Len(c)
    BY <1>1, <1>10
  <2> QED
    BY <1>8, <2>1, <2>2, <2>3
<1> QED
  BY <1>1, <1>5, <1>13, <1>14, <1>15, <1>16

\* A line of the second only.
LEMMA HeadAfter ==
  ASSUME NEW S, NEW c \in Seq(S), NEW d \in Seq(S), NEW j \in 1..Len(Ends(d))
  PROVE  Head_(c \o d, Len(Ends(c)) + (j + 1)) = Head_(d, j + 1)
<1>1. PICK g, e, f, n, w : /\ g = Ends(c \o d) /\ e = Ends(c) /\ f = Ends(d) /\ n = Len(c)
                           /\ w = c \o d
  OBVIOUS
<1>2. Joined(g, e, f, n)
  BY <1>1, EndsJoin
<1>3. /\ Len(e) \in Nat /\ Len(f) \in Nat /\ n \in Nat /\ Len(g) = Len(e) + Len(f)
      /\ \A k \in 1..Len(f) : g[Len(e) + k] = n + f[k]
  BY <1>1, <1>2, EndsAre DEF Joined
<1>4. Len(w) = n + Len(d) /\ Len(d) \in Nat /\ \A k \in 1..Len(f) : f[k] \in 1..Len(d)
  <2>1. Len(w) = Len(c) + Len(d) /\ Len(d) \in Nat
    BY <1>1, JoinIs
  <2>2. \A k \in 1..Len(f) : f[k] \in 1..Len(d)
    BY <1>1, EndsAre
  <2> QED
    BY <1>1, <2>1, <2>2
<1>5. PICK i, l : l = j + 1 /\ i = Len(e) + l
  OBVIOUS
<1>6. j \in 1..Len(f) /\ l \in 1..(Len(f) + 1) /\ l # 1 /\ i # 1 /\ i - 1 = Len(e) + j /\ l - 1 = j
  BY <1>1, <1>3, <1>5
<1>7. PICK x, y, a, b : /\ x = HeadFrom(g, i) /\ y = HeadTo(g, Len(w), i)
                        /\ a = HeadFrom(f, l) /\ b = HeadTo(f, Len(d), l)
  OBVIOUS
<1>8. a \in Int /\ 1 <= a /\ b \in Int /\ b <= Len(d)
  <2>1. l \in 1..(Len(Ends(d)) + 1)
    BY <1>1, <1>6
  <2> QED
    BY <1>1, <1>7, <2>1, HeadBounds
<1>9. x = n + a
  <2>1. x = g[i - 1] + 1 /\ a = f[j] + 1
    BY <1>6, <1>7 DEF HeadFrom
  <2>2. g[i - 1] = n + f[j] /\ f[j] \in 1..Len(d)
    BY <1>3, <1>4, <1>6
  <2> QED
    BY <1>3, <1>4, <2>1, <2>2
<1>10. y = n + b
  <2>1. CASE l > Len(f)
    <3>1. i > Len(g)
      BY <1>3, <1>5, <1>6, <2>1
    <3> QED
      BY <1>4, <1>7, <2>1, <3>1 DEF HeadTo
  <2>2. CASE ~ (l > Len(f))
    <3>1. ~ (i > Len(g)) /\ l \in 1..Len(f)
      BY <1>3, <1>5, <1>6, <2>2
    <3>2. y = g[i] - 1 /\ b = f[l] - 1
      BY <1>7, <2>2, <3>1 DEF HeadTo
    <3>3. g[i] = n + f[l] /\ f[l] \in 1..Len(d)
      BY <1>3, <1>4, <1>5, <3>1
    <3> QED
      BY <1>3, <1>4, <3>2, <3>3
  <2> QED
    BY <2>1, <2>2
<1>11. /\ x \in Int /\ y \in Int /\ Len(c) < x /\ y <= Len(c) + Len(d)
       /\ x - Len(c) = a /\ y - Len(c) = b
  BY <1>1, <1>3, <1>4, <1>8, <1>9, <1>10
<1>12. SubSeq(c \o d, x, y) = SubSeq(d, x - Len(c), y - Len(c))
  BY <1>11, JoinRight
<1>13. Head_(c \o d, i) = SubSeq(c \o d, x, y)
  BY <1>1, <1>7, HeadIs
<1>14. Head_(d, l) = SubSeq(d, a, b)
  BY <1>1, <1>7, HeadIs
<1> QED
  BY <1>1, <1>5, <1>11, <1>12, <1>13, <1>14

LEMMA CarriedIs ==
  ASSUME NEW sp \in Splitter, NEW n \in Nat
  PROVE  /\ Carried(sp, n) \in Splitter /\ Carried(sp, n).seq = sp.seq + n
         /\ n # 0 => Carried(sp, n).carry = <<>> /\ Carried(sp, n).carry_len = 0
<1>1. sp.seq \in Nat
  BY SplitterField
<1>2. PICK k : k = sp.seq + n /\ k \in Nat
  BY <1>1
<1>3. [NewSplitter EXCEPT !.seq = k] = [carry |-> <<>>, carry_len |-> 0, seq |-> k]
  BY DEF NewSplitter
<1>4. PICK q : q = [carry |-> <<>>, carry_len |-> 0, seq |-> k]
  OBVIOUS
<1>5. q \in Splitter /\ q.seq = k /\ q.carry = <<>> /\ q.carry_len = 0
  <2>1. <<>> \in Seq(Byte) /\ Len(<<>>) = 0 /\ 0 <= MAX_LINE
    BY RecordingAssumption
  <2> QED
    BY <1>2, <1>4, <2>1 DEF Splitter
<1>6. CASE n = 0
  BY <1>1, <1>6 DEF Carried
<1>7. CASE n # 0
  <2>1. Carried(sp, n) = q
    BY <1>2, <1>3, <1>4, <1>7 DEF Carried
  <2> QED
    BY <1>2, <1>5, <1>7, <2>1
<1> QED
  BY <1>6, <1>7

\* A splitter after a chunk, by the number of its lines.
LEMMA FedIs ==
  ASSUME NEW sp \in Splitter, NEW c \in Seq(Byte)
  PROVE  Fed(sp, c) = Keep(Carried(sp, Len(Ends(c))), Head_(c, Len(Ends(c)) + 1))
<1>1. PICK e : e = Ends(c)
  OBVIOUS
<1>2. e \in Seq(Nat)
  BY <1>1, EndsAre
<1>3. e = <<>> <=> Len(e) = 0
  BY <1>2
<1>4. Fed(sp, c) = Keep(IF e = <<>> THEN sp ELSE [NewSplitter EXCEPT !.seq = sp.seq + Len(e)],
                        Head_(c, Len(e) + 1))
  BY <1>1, Zenon DEF Fed
<1>5. (IF e = <<>> THEN sp ELSE [NewSplitter EXCEPT !.seq = sp.seq + Len(e)]) = Carried(sp, Len(e))
  BY <1>3, Zenon DEF Carried
<1> QED
  BY <1>1, <1>4, <1>5

\* The lines of a chunk.
LEMMA RawLinesAre ==
  ASSUME NEW sp \in Splitter, NEW c \in Seq(Byte)
  PROVE  /\ DOMAIN RawLines(sp, c) = 1..Len(Ends(c))
         /\ Len(Ends(c)) >= 1 => RawLines(sp, c)[1] = RawOf(sp.seq + 1, Keep(sp, Head_(c, 1)))
         /\ \A i \in 2..Len(Ends(c)) :
              RawLines(sp, c)[i] = RawOf(sp.seq + i, Keep(NewSplitter, Head_(c, i)))
<1>1. PICK e : e = Ends(c)
  OBVIOUS
<1>2. e \in Seq(Nat) /\ Len(e) \in Nat
  BY <1>1, EndsAre
<1>3. PICK n \in Nat : n = Len(e) /\ DOMAIN e = 1..n
  BY <1>2
<1>4. PICK raws : raws = RawLines(sp, c)
  OBVIOUS
<1>5. DOMAIN raws = 1..n
  BY <1>1, <1>3, <1>4 DEF RawLines
<1>6. ASSUME NEW i \in 1..n
      PROVE  raws[i] = RawOf(sp.seq + i, Keep(IF i = 1 THEN sp ELSE NewSplitter, Head_(c, i)))
  BY <1>1, <1>3, <1>4, Zenon DEF RawLines, RawOf
<1>7. n >= 1 => raws[1] = RawOf(sp.seq + 1, Keep(sp, Head_(c, 1)))
  <2>1. n >= 1 => 1 \in 1..n
    OBVIOUS
  <2> QED
    BY <1>6, <2>1
<1>8. ASSUME NEW i \in 2..n PROVE raws[i] = RawOf(sp.seq + i, Keep(NewSplitter, Head_(c, i)))
  <2>1. i \in 1..n /\ i # 1
    OBVIOUS
  <2> QED
    BY <1>6, <2>1
<1> QED
  BY <1>1, <1>3, <1>4, <1>5, <1>7, <1>8

\* A splitter fed with a chunk and another is fed with both.
LEMMA FedJoin ==
  ASSUME NEW sp \in Splitter, NEW c \in Seq(Byte), NEW d \in Seq(Byte)
  PROVE  Fed(sp, c \o d) = Fed(Fed(sp, c), d)
<1>1. PICK B : B = Byte
  OBVIOUS
<1>2. PICK w, m, p : w = c \o d /\ m = Len(Ends(c)) /\ p = Len(Ends(d))
  OBVIOUS
<1>3. w \in Seq(Byte) /\ m \in Nat /\ p \in Nat
  <2>1. w \in Seq(B)
    BY <1>1, <1>2, Concat
  <2> QED
    BY <1>1, <1>2, <2>1, EndsAre
<1>4. Len(Ends(w)) = m + p
  BY <1>2, EndsJoin DEF Joined
<1>5. PICK x, h : x = Carried(sp, m) /\ h = Head_(c, m + 1)
  OBVIOUS
<1>6. x \in Splitter /\ h \in Seq(Byte) /\ x.seq = sp.seq + m
  <2>1. m + 1 \in 1..(Len(Ends(c)) + 1)
    BY <1>2, <1>3
  <2> QED
    BY <1>2, <1>3, <1>5, <2>1, CarriedIs, HeadTyped
<1>7. PICK q : q = Keep(x, h) /\ q = Fed(sp, c)
  BY <1>2, <1>5, FedIs
<1>8. q \in Splitter /\ q.seq = sp.seq + m
  BY <1>6, <1>7, KeepTyped
<1>9. Fed(q, d) = Keep(Carried(q, p), Head_(d, p + 1))
  BY <1>2, <1>8, FedIs
<1>10. Fed(sp, w) = Keep(Carried(sp, m + p), Head_(w, m + p + 1))
  BY <1>2, <1>3, <1>4, FedIs
<1>11. CASE p = 0
  <2>1. PICK t : t = Head_(d, 1)
    OBVIOUS
  <2>2. t \in Seq(Byte)
    <3>1. PICK one : one = 1
      OBVIOUS
    <3>2. one \in 1..(Len(Ends(d)) + 1)
      BY <1>2, <1>11, <3>1
    <3> QED
      BY <2>1, <3>1, <3>2, HeadTyped
  <2>3. Head_(w, m + 1) = h \o t
    BY <1>1, <1>2, <1>5, <2>1, HeadAcross
  <2>4. Keep(x, h \o t) = Keep(Keep(x, h), t)
    BY <1>6, <2>2, KeepJoin
  <2>5. Carried(q, p) = q /\ m + p = m /\ p + 1 = 1 /\ m + p + 1 = m + 1
    BY <1>3, <1>11 DEF Carried
  <2> QED
    BY <1>2, <1>5, <1>7, <1>9, <1>10, <2>1, <2>3, <2>4, <2>5
<1>12. CASE p # 0
  <2>1. p \in 1..Len(Ends(d))
    BY <1>2, <1>3, <1>12
  <2>2. Head_(w, m + (p + 1)) = Head_(d, p + 1)
    BY <1>1, <1>2, <2>1, HeadAfter
  <2>3. Carried(q, p) = Carried(sp, m + p)
    <3>1. sp.seq \in Nat
      BY SplitterField
    <3>2. q.seq + p = sp.seq + (m + p) /\ m + p # 0
      BY <1>3, <1>8, <1>12, <3>1
    <3> QED
      BY <1>12, <3>2 DEF Carried
  <2>4. m + p + 1 = m + (p + 1)
    BY <1>3
  <2> QED
    BY <1>2, <1>7, <1>9, <1>10, <2>2, <2>3, <2>4
<1> QED
  BY <1>11, <1>12

\* The lines of two chunks are those of the one and then those of the other.
LEMMA RawLinesJoin ==
  ASSUME NEW sp \in Splitter, NEW c \in Seq(Byte), NEW d \in Seq(Byte)
  PROVE  /\ Len(Ends(c)) \in Nat /\ Len(Ends(d)) \in Nat
         /\ DOMAIN RawLines(sp, c) = 1..Len(Ends(c))
         /\ DOMAIN RawLines(Fed(sp, c), d) = 1..Len(Ends(d))
         /\ DOMAIN RawLines(sp, c \o d) = 1..(Len(Ends(c)) + Len(Ends(d)))
         /\ \A i \in 1..Len(Ends(c)) : RawLines(sp, c \o d)[i] = RawLines(sp, c)[i]
         /\ \A i \in 1..Len(Ends(d)) :
              RawLines(sp, c \o d)[Len(Ends(c)) + i] = RawLines(Fed(sp, c), d)[i]
<1>1. PICK B : B = Byte
  OBVIOUS
<1>2. PICK w, m, p, q : w = c \o d /\ m = Len(Ends(c)) /\ p = Len(Ends(d)) /\ q = Fed(sp, c)
  OBVIOUS
<1>3. w \in Seq(Byte) /\ m \in Nat /\ p \in Nat /\ q \in Splitter /\ sp.seq \in Nat
  <2>1. w \in Seq(B)
    BY <1>1, <1>2, Concat
  <2> QED
    BY <1>1, <1>2, <2>1, EndsAre, FedTyped, SplitterField
<1>4. Len(Ends(w)) = m + p
  BY <1>2, EndsJoin DEF Joined
<1>5. PICK r, s, t : r = RawLines(sp, w) /\ s = RawLines(sp, c) /\ t = RawLines(q, d)
  OBVIOUS
<1>6. /\ DOMAIN r = 1..(m + p)
      /\ m + p >= 1 => r[1] = RawOf(sp.seq + 1, Keep(sp, Head_(w, 1)))
      /\ \A i \in 2..(m + p) : r[i] = RawOf(sp.seq + i, Keep(NewSplitter, Head_(w, i)))
  BY <1>3, <1>4, <1>5, RawLinesAre
<1>7. /\ DOMAIN s = 1..m
      /\ m >= 1 => s[1] = RawOf(sp.seq + 1, Keep(sp, Head_(c, 1)))
      /\ \A i \in 2..m : s[i] = RawOf(sp.seq + i, Keep(NewSplitter, Head_(c, i)))
  BY <1>2, <1>5, RawLinesAre
<1>8. /\ DOMAIN t = 1..p
      /\ p >= 1 => t[1] = RawOf(q.seq + 1, Keep(q, Head_(d, 1)))
      /\ \A i \in 2..p : t[i] = RawOf(q.seq + i, Keep(NewSplitter, Head_(d, i)))
  BY <1>2, <1>3, <1>5, RawLinesAre
<1>9. ASSUME NEW i \in 1..m PROVE r[i] = s[i]
  <2>1. Head_(w, i) = Head_(c, i)
    BY <1>1, <1>2, HeadBefore
  <2>2. CASE i = 1
    BY <1>3, <1>6, <1>7, <2>1, <2>2
  <2>3. CASE i # 1
    <3>1. i \in 2..m /\ i \in 2..(m + p)
      BY <1>3, <2>3
    <3> QED
      BY <1>6, <1>7, <2>1, <3>1
  <2> QED
    BY <2>2, <2>3
<1>10. PICK x, h : x = Carried(sp, m) /\ h = Head_(c, m + 1)
  OBVIOUS
<1>11. x \in Splitter /\ h \in Seq(Byte) /\ x.seq = sp.seq + m
  <2>1. m + 1 \in 1..(Len(Ends(c)) + 1)
    BY <1>2, <1>3
  <2> QED
    BY <1>2, <1>3, <1>10, <2>1, CarriedIs, HeadTyped
<1>12. q = Keep(x, h) /\ q.seq = sp.seq + m
  <2>1. q = Keep(x, h)
    BY <1>2, <1>10, FedIs
  <2> QED
    BY <1>11, <2>1, KeepTyped
<1>13. ASSUME NEW i \in 1..p PROVE r[m + i] = t[i]
  <2>1. CASE i = 1
    <3>1. PICK y : y = Head_(d, 1)
      OBVIOUS
    <3>2. y \in Seq(Byte)
      <4>1. PICK one : one = 1
        OBVIOUS
      <4>2. one \in 1..(Len(Ends(d)) + 1)
        BY <1>2, <1>3, <4>1
      <4> QED
        BY <3>1, <4>1, <4>2, HeadTyped
    <3>3. Head_(w, m + 1) = h \o y
      BY <1>1, <1>2, <1>10, <3>1, HeadAcross
    <3>4. Keep(x, h \o y) = Keep(q, y)
      BY <1>11, <1>12, <3>2, KeepJoin
    <3>5. t[1] = RawOf(q.seq + 1, Keep(q, y))
      BY <1>8, <2>1, <3>1
    <3>6. r[m + 1] = RawOf(sp.seq + m + 1, Keep(x, h \o y))
      <4>1. CASE m = 0
        <5>1. x = sp /\ m + 1 = 1 /\ sp.seq + m + 1 = sp.seq + 1 /\ m + p >= 1
          BY <1>3, <1>10, <2>1, <4>1 DEF Carried
        <5> QED
          BY <1>6, <3>3, <5>1
      <4>2. CASE m # 0
        <5>1. m + 1 \in 2..(m + p) /\ sp.seq + (m + 1) = sp.seq + m + 1
          BY <1>3, <2>1, <4>2
        <5>2. r[m + 1] = RawOf(sp.seq + m + 1, Keep(NewSplitter, h \o y))
          BY <1>6, <3>3, <5>1
        <5>3. x.carry = <<>> /\ x.carry_len = 0
          BY <1>3, <1>10, <4>2, CarriedIs
        <5>4. NewSplitter \in Splitter /\ NewSplitter.carry = <<>> /\ NewSplitter.carry_len = 0
          <6>1. NewSplitter.carry = <<>> /\ NewSplitter.carry_len = 0
            BY DEF NewSplitter
          <6> QED
            BY <6>1, NewSplitterTyped
        <5>5. PICK z : z = h \o y /\ z \in Seq(Byte)
          <6>1. h \in Seq(B) /\ y \in Seq(B)
            BY <1>1, <1>11, <3>2
          <6> QED
            BY <1>1, <6>1, Concat
        <5>6. /\ Keep(NewSplitter, z).carry = Keep(x, z).carry
              /\ Keep(NewSplitter, z).carry_len = Keep(x, z).carry_len
          <6>1. NewSplitter.carry = x.carry /\ NewSplitter.carry_len = x.carry_len
            BY <5>3, <5>4
          <6> QED
            BY <1>11, <5>4, <5>5, <6>1, KeepSeq
        <5> QED
          BY <5>2, <5>5, <5>6 DEF RawOf
      <4> QED
        BY <4>1, <4>2
    <3> QED
      BY <1>12, <2>1, <3>4, <3>5, <3>6
  <2>2. CASE i # 1
    <3>1. PICK j : j = i - 1 /\ j \in 1..Len(Ends(d)) /\ j + 1 = i
      BY <1>2, <1>3, <2>2
    <3>2. Head_(w, m + (j + 1)) = Head_(d, j + 1)
      BY <1>1, <1>2, <3>1, HeadAfter
    <3>3. i \in 2..p /\ m + i \in 2..(m + p)
      BY <1>3, <2>2
    <3>4. sp.seq + (m + i) = q.seq + i
      BY <1>3, <1>12
    <3>5. r[m + i] = RawOf(sp.seq + (m + i), Keep(NewSplitter, Head_(w, m + i)))
      BY <1>6, <3>3
    <3>6. t[i] = RawOf(q.seq + i, Keep(NewSplitter, Head_(d, i)))
      BY <1>8, <3>3
    <3> QED
      BY <3>1, <3>2, <3>4, <3>5, <3>6
  <2> QED
    BY <2>1, <2>2
<1> QED
  BY <1>2, <1>3, <1>5, <1>6, <1>7, <1>8, <1>9, <1>13

-----------------------------------------------------------------------------
(* A recording, field by field.                                             *)

LEMMA SameRec ==
  ASSUME NEW r, NEW q, Shaped(r), Shaped(q),
         r.redact = q.redact, r.fails = q.fails, r.stopped = q.stopped, r.order = q.order,
         r.splitter = q.splitter, r.key_lines = q.key_lines, r.numbers = q.numbers,
         r.written = q.written, r.observed = q.observed, r.analysis = q.analysis
  PROVE  r = q
<1>1. \A x \in RecFields : r[x] = q[x]
  BY DEF RecFields
<1>2. [x \in RecFields |-> r[x]] = [x \in RecFields |-> q[x]]
  BY <1>1
<1> QED
  BY <1>2, Zenon DEF Shaped

LEMMA ShapedIs ==
  ASSUME NEW r, Shaped(r)
  PROVE  DOMAIN r = RecFields
BY Zenon DEF Shaped

LEMMA SinkLineIs ==
  ASSUME NEW r, Shaped(r), NEW stream, NEW raw
  PROVE  Sunk(SinkLine(r, stream, raw), r, stream, raw)
<1>1. PICK q : q = SinkLine(r, stream, raw)
  OBVIOUS
<1>2. PICK kl, ns, st, wr, ob, an :
        /\ kl = [r.key_lines EXCEPT ![stream] = KeyLines(Body(raw), @)]
        /\ ns = EvidenceOf(r, stream, raw).numbers
        /\ st = ~ Captures(r)
        /\ wr = [r.written EXCEPT ![stream] =
              IF Captures(r) THEN write_line(@, EvidenceOf(r, stream, raw).line, Ending(raw)) ELSE @]
        /\ ob = [r.observed EXCEPT ![stream] =
              Append(@, [seq |-> raw.seq, raw_len |-> raw.raw_len,
                         line |-> Masked(r, stream, Body(raw)).line])]
        /\ an = Record(r.analysis, LogEvent(stream, raw.seq, Masked(r, stream, Body(raw)).line))
  OBVIOUS
<1>3. q = [r EXCEPT !.key_lines = kl, !.numbers = ns, !.stopped = st, !.written = wr,
                    !.observed = ob, !.analysis = an]
  BY <1>1, <1>2, Zenon DEF SinkLine, EvidenceOf
<1>4. DOMAIN r = RecFields
  BY ShapedIs
<1>5. /\ q.key_lines = kl /\ q.numbers = ns /\ q.stopped = st /\ q.written = wr
      /\ q.observed = ob /\ q.analysis = an
      /\ q.redact = r.redact /\ q.fails = r.fails /\ q.order = r.order /\ q.splitter = r.splitter
  BY <1>3, <1>4 DEF RecFields
<1>6. q = [x \in RecFields |-> q[x]]
  BY <1>3, <1>4
<1>7. Shaped(q)
  BY <1>6, Zenon DEF Shaped
<1>8. Sunk(q, r, stream, raw)
  BY <1>2, <1>5, <1>7 DEF Sunk
<1> QED
  BY <1>1, <1>8

LEMMA ResplitIs ==
  ASSUME NEW r, Shaped(r), NEW all, NEW q, q = Resplit(r, all)
  PROVE  /\ Shaped(q) /\ q.splitter = all
         /\ q.redact = r.redact /\ q.fails = r.fails /\ q.stopped = r.stopped /\ q.order = r.order
         /\ q.key_lines = r.key_lines /\ q.numbers = r.numbers /\ q.written = r.written
         /\ q.observed = r.observed /\ q.analysis = r.analysis
<1>1. DOMAIN r = RecFields
  BY ShapedIs
<1>2. q = [x \in RecFields |-> q[x]]
  BY <1>1 DEF Resplit
<1>3. Shaped(q)
  BY <1>2, Zenon DEF Shaped
<1> QED
  BY <1>1, <1>3 DEF Resplit, RecFields

LEMMA SinkLineResplit ==
  ASSUME NEW r, Shaped(r), NEW all, NEW stream, NEW raw
  PROVE  /\ Shaped(SinkLine(r, stream, raw))
         /\ SinkLine(Resplit(r, all), stream, raw) = Resplit(SinkLine(r, stream, raw), all)
<1>1. PICK q, t, u, v : /\ q = Resplit(r, all) /\ t = SinkLine(r, stream, raw)
                        /\ u = SinkLine(q, stream, raw) /\ v = Resplit(t, all)
  OBVIOUS
<1>2. /\ Shaped(q) /\ q.splitter = all
      /\ q.redact = r.redact /\ q.fails = r.fails /\ q.stopped = r.stopped /\ q.order = r.order
      /\ q.key_lines = r.key_lines /\ q.numbers = r.numbers /\ q.written = r.written
      /\ q.observed = r.observed /\ q.analysis = r.analysis
  BY <1>1, ResplitIs
<1>3. Masked(q, stream, Body(raw)) = Masked(r, stream, Body(raw))
  BY <1>2 DEF Masked
<1>4. EvidenceOf(q, stream, raw) = EvidenceOf(r, stream, raw)
  BY <1>2, <1>3 DEF EvidenceOf
<1>5. Captures(q) = Captures(r)
  BY <1>2 DEF Captures
<1>6. Sunk(t, r, stream, raw) /\ Sunk(u, q, stream, raw)
  BY <1>1, <1>2, SinkLineIs
<1>7. Shaped(t)
  BY <1>6 DEF Sunk
<1>8. u = v
  <2>1. /\ Shaped(u) /\ u.splitter = q.splitter /\ u.redact = q.redact /\ u.fails = q.fails /\ u.order = q.order
        /\ u.key_lines = [q.key_lines EXCEPT ![stream] = KeyLines(Body(raw), @)]
        /\ u.numbers = EvidenceOf(q, stream, raw).numbers
        /\ u.stopped = ~ Captures(q)
    BY <1>6, Zenon DEF Sunk
  <2>2. /\ u.written = [q.written EXCEPT ![stream] =
              IF Captures(q) THEN write_line(@, EvidenceOf(q, stream, raw).line, Ending(raw)) ELSE @]
        /\ u.observed = [q.observed EXCEPT ![stream] =
              Append(@, [seq |-> raw.seq, raw_len |-> raw.raw_len,
                         line |-> Masked(q, stream, Body(raw)).line])]
        /\ u.analysis = Record(q.analysis, LogEvent(stream, raw.seq, Masked(q, stream, Body(raw)).line))
    BY <1>6, Zenon DEF Sunk
  <2>3. /\ t.redact = r.redact /\ t.fails = r.fails /\ t.order = r.order
        /\ t.key_lines = [r.key_lines EXCEPT ![stream] = KeyLines(Body(raw), @)]
        /\ t.numbers = EvidenceOf(r, stream, raw).numbers
        /\ t.stopped = ~ Captures(r)
    BY <1>6, Zenon DEF Sunk
  <2>4. /\ t.written = [r.written EXCEPT ![stream] =
              IF Captures(r) THEN write_line(@, EvidenceOf(r, stream, raw).line, Ending(raw)) ELSE @]
        /\ t.observed = [r.observed EXCEPT ![stream] =
              Append(@, [seq |-> raw.seq, raw_len |-> raw.raw_len,
                         line |-> Masked(r, stream, Body(raw)).line])]
        /\ t.analysis = Record(r.analysis, LogEvent(stream, raw.seq, Masked(r, stream, Body(raw)).line))
    BY <1>6, Zenon DEF Sunk
  <2>5. /\ Shaped(v) /\ v.splitter = all
        /\ v.redact = t.redact /\ v.fails = t.fails /\ v.stopped = t.stopped /\ v.order = t.order
        /\ v.key_lines = t.key_lines /\ v.numbers = t.numbers /\ v.written = t.written
        /\ v.observed = t.observed /\ v.analysis = t.analysis
    BY <1>1, <1>7, ResplitIs
  <2>6. /\ u.redact = v.redact /\ u.fails = v.fails /\ u.order = v.order /\ u.splitter = v.splitter
        /\ u.key_lines = v.key_lines /\ u.stopped = v.stopped
    BY <1>2, <1>5, <2>1, <2>3, <2>5
  <2>7. u.numbers = v.numbers
    BY <1>4, <2>1, <2>3, <2>5
  <2>8. u.written = v.written
    BY <1>2, <1>4, <1>5, <2>2, <2>4, <2>5
  <2>9. u.observed = v.observed
    BY <1>2, <1>3, <2>2, <2>4, <2>5
  <2>10. u.analysis = v.analysis
    BY <1>2, <1>3, <2>2, <2>4, <2>5
  <2> QED
    BY <2>1, <2>5, <2>6, <2>7, <2>8, <2>9, <2>10, SameRec
<1> QED
  BY <1>1, <1>8, <1>7

\* Any number of lines.
LEMMA SinkLinesResplit ==
  ASSUME NEW r0, Shaped(r0), NEW all, NEW stream, NEW raws, NEW n \in Nat, DOMAIN raws = 1..n
  PROVE  /\ Shaped(SinkLines(r0, stream, raws))
         /\ SinkLines(r0, stream, raws).splitter = r0.splitter
         /\ SinkLines(r0, stream, raws).order = r0.order
         /\ SinkLines(r0, stream, raws).redact = r0.redact
         /\ SinkLines(r0, stream, raws).fails = r0.fails
         /\ SinkLines(Resplit(r0, all), stream, raws) = Resplit(SinkLines(r0, stream, raws), all)
<1> DEFINE by == [fold |-> "lines", stream |-> stream]
           Good(r, q) == /\ Shaped(r) /\ r.splitter = r0.splitter /\ r.order = r0.order
                         /\ r.redact = r0.redact /\ r.fails = r0.fails
                         /\ q = Resplit(r, all)
<1>1. PICK h : Walks(h, by, r0, raws, n) /\ SinkLines(r0, stream, raws) = h[n]
  BY LinesWalk
<1>2. PICK g : Walks(g, by, Resplit(r0, all), raws, n) /\ SinkLines(Resplit(r0, all), stream, raws) = g[n]
  BY LinesWalk
<1> DEFINE K == {k \in 0..n : Good(h[k], g[k])}
<1>3. 0 \in K
  BY <1>1, <1>2 DEF Walks
<1>4. ASSUME NEW k \in 1..n, k - 1 \in K PROVE k \in K
  <2>1. h[k] = SinkLine(h[k - 1], stream, raws[k]) /\ g[k] = SinkLine(g[k - 1], stream, raws[k])
    BY <1>1, <1>2 DEF Walks, Step
  <2>2. PICK r, q, raw : r = h[k - 1] /\ q = g[k - 1] /\ Good(r, q) /\ raw = raws[k]
    BY <1>4
  <2>3. PICK t : t = SinkLine(r, stream, raw)
    OBVIOUS
  <2>4. /\ Shaped(t) /\ t.splitter = r.splitter /\ t.order = r.order
        /\ t.redact = r.redact /\ t.fails = r.fails
    <3>1. Sunk(t, r, stream, raw)
      BY <2>2, <2>3, SinkLineIs
    <3> QED
      BY <3>1, Zenon DEF Sunk
  <2>5. SinkLine(q, stream, raw) = Resplit(t, all)
    BY <2>2, <2>3, SinkLineResplit
  <2>6. Good(h[k], g[k])
    BY <2>1, <2>2, <2>3, <2>4, <2>5
  <2> QED
    BY <2>6
<1>5. n \in K
  <2> HIDE DEF K
  <2>1. n \in 0..n
    OBVIOUS
  <2> QED
    BY <1>3, <1>4, <2>1, UpTo
<1> QED
  BY <1>1, <1>2, <1>5

\* Lines of two chunks are sunk one chunk after the other.
LEMMA SinkLinesJoin ==
  ASSUME NEW r0, NEW stream, NEW m \in Nat, NEW p \in Nat, NEW raws, NEW s, NEW t,
         InTwo(raws, s, t, m, p)
  PROVE  SinkLines(r0, stream, raws) = SinkLines(SinkLines(r0, stream, s), stream, t)
<1> DEFINE by == [fold |-> "lines", stream |-> stream]
<1>1. m + p \in Nat /\ m + p >= m
  OBVIOUS
<1>2. /\ DOMAIN raws = 1..(m + p) /\ DOMAIN s = 1..m /\ DOMAIN t = 1..p
      /\ \A i \in 1..m : raws[i] = s[i]
      /\ \A i \in 1..p : raws[m + i] = t[i]
  BY DEF InTwo
<1>3. PICK g : Walks(g, by, r0, raws, m + p) /\ SinkLines(r0, stream, raws) = g[m + p]
  BY <1>1, <1>2, LinesWalk
<1>4. PICK h : Walks(h, by, r0, s, m) /\ SinkLines(r0, stream, s) = h[m]
  BY <1>2, LinesWalk
<1>5. PICK k : Walks(k, by, h[m], t, p) /\ SinkLines(h[m], stream, t) = k[p]
  BY <1>2, LinesWalk
<1> HIDE DEF by
<1>6. h[m] = g[m]
  <2>1. \A i \in 1..m : \A r : Step(by, r, s[i]) = Step(by, r, raws[i])
    BY <1>2
  <2> QED
    BY <1>1, <1>3, <1>4, <2>1, WalksAgree
<1> DEFINE K == {i \in 0..p : g[m + i] = k[i]}
<1>7. 0 \in K
  BY <1>5, <1>6 DEF Walks
<1>8. ASSUME NEW i \in 1..p, i - 1 \in K PROVE i \in K
  <2>1. m + i \in 1..(m + p) /\ (m + i) - 1 = m + (i - 1)
    OBVIOUS
  <2>2. g[m + i] = Step(by, g[m + (i - 1)], raws[m + i])
    BY <1>3, <2>1 DEF Walks
  <2>3. k[i] = Step(by, k[i - 1], t[i])
    BY <1>5 DEF Walks
  <2> QED
    BY <1>8, <1>2, <2>2, <2>3
<1>9. p \in K
  <2> HIDE DEF K
  <2>1. p \in 0..p
    OBVIOUS
  <2> QED
    BY <1>7, <1>8, <2>1, UpTo
<1> QED
  BY <1>3, <1>4, <1>5, <1>9

-----------------------------------------------------------------------------
(* A recording in two chunks.                                               *)

LEMMA OpenedIs ==
  ASSUME NEW r, Shaped(r), r.order \in Seq(Streams), NEW stream \in Streams
  PROVE  OpenedAs(Opened(r, stream), r, stream)
<1>1. CASE Contains(r.order, stream)
  <2>1. Opened(r, stream) = r
    BY <1>1 DEF Opened
  <2> QED
    BY <1>1, <2>1 DEF OpenedAs
<1>2. CASE ~ Contains(r.order, stream)
  <2>1. PICK o : o = Append(r.order, stream)
    OBVIOUS
  <2>2. o \in Seq(Streams) /\ Len(o) \in Nat /\ Len(o) >= 1 /\ o[Len(o)] = stream
    BY <2>1
  <2>3. Contains(o, stream)
    <3>1. Len(o) \in 1..Len(o)
      BY <2>2
    <3> QED
      BY <2>2, <3>1 DEF Contains
  <2>4. PICK q : q = [r EXCEPT !.order = o]
    OBVIOUS
  <2>5. Opened(r, stream) = q
    BY <1>2, <2>1, <2>4 DEF Opened
  <2>6. DOMAIN r = RecFields
    BY ShapedIs
  <2>7. q = [x \in RecFields |-> q[x]]
    BY <2>4, <2>6
  <2>8. Shaped(q)
    BY <2>7, Zenon DEF Shaped
  <2>9. /\ q.order = o
        /\ q.redact = r.redact /\ q.fails = r.fails /\ q.splitter = r.splitter
        /\ q.stopped = r.stopped /\ q.key_lines = r.key_lines /\ q.numbers = r.numbers
        /\ q.written = r.written /\ q.observed = r.observed /\ q.analysis = r.analysis
    BY <2>4, <2>6 DEF RecFields
  <2> QED
    BY <2>2, <2>3, <2>5, <2>8, <2>9 DEF OpenedAs
<1> QED
  BY <1>1, <1>2

\* A splitter of its own in place of a stream's.
LEMMA ResplitTwice ==
  ASSUME NEW r, Shaped(r), NEW all, NEW other
  PROVE  Resplit(Resplit(r, all), other) = Resplit(r, other)
<1>1. PICK q, t, u : q = Resplit(r, all) /\ t = Resplit(q, other) /\ u = Resplit(r, other)
  OBVIOUS
<1>2. /\ Shaped(q)
      /\ q.redact = r.redact /\ q.fails = r.fails /\ q.stopped = r.stopped /\ q.order = r.order
      /\ q.key_lines = r.key_lines /\ q.numbers = r.numbers /\ q.written = r.written
      /\ q.observed = r.observed /\ q.analysis = r.analysis
  BY <1>1, ResplitIs
<1>3. /\ Shaped(t) /\ t.splitter = other
      /\ t.redact = q.redact /\ t.fails = q.fails /\ t.stopped = q.stopped /\ t.order = q.order
      /\ t.key_lines = q.key_lines /\ t.numbers = q.numbers /\ t.written = q.written
      /\ t.observed = q.observed /\ t.analysis = q.analysis
  BY <1>1, <1>2, ResplitIs
<1>4. /\ Shaped(u) /\ u.splitter = other
      /\ u.redact = r.redact /\ u.fails = r.fails /\ u.stopped = r.stopped /\ u.order = r.order
      /\ u.key_lines = r.key_lines /\ u.numbers = r.numbers /\ u.written = r.written
      /\ u.observed = r.observed /\ u.analysis = r.analysis
  BY <1>1, ResplitIs
<1>5. t = u
  BY <1>2, <1>3, <1>4, SameRec
<1> QED
  BY <1>1, <1>5

LEMMA ChunkIs ==
  ASSUME NEW r, Splitting(r), NEW stream \in Streams, NEW bytes \in Seq(Byte)
  PROVE  /\ Shaped(SunkOf(r, stream, bytes))
         /\ SunkOf(r, stream, bytes).splitter = r.splitter
         /\ SunkOf(r, stream, bytes).order = Opened(r, stream).order
         /\ SunkOf(r, stream, bytes).redact = r.redact /\ SunkOf(r, stream, bytes).fails = r.fails
         /\ Chunk(r, stream, bytes) = Resplit(SunkOf(r, stream, bytes), SplitterOf(r, stream, bytes))
<1>1. PICK o, sp, raws, t : /\ o = Opened(r, stream) /\ sp = r.splitter[stream]
                            /\ raws = RawLines(sp, bytes) /\ t = SunkOf(r, stream, bytes)
  OBVIOUS
<1>2. OpenedAs(o, r, stream)
  BY <1>1, OpenedIs DEF Splitting
<1>3. Shaped(o) /\ o.splitter = r.splitter /\ o.redact = r.redact /\ o.fails = r.fails
  BY <1>2 DEF OpenedAs
<1>4. sp \in Splitter
  BY <1>1 DEF Splitting
<1>5. PICK n \in Nat : DOMAIN raws = 1..n
  BY <1>1, <1>4, RawLinesTyped
<1>6. Shaped(t) /\ t.splitter = o.splitter /\ t.order = o.order /\ t.redact = o.redact /\ t.fails = o.fails
  <2>1. t = SinkLines(o, stream, raws)
    BY <1>1 DEF SunkOf
  <2> QED
    BY <1>3, <1>5, <2>1, SinkLinesResplit
<1>7. PICK all : all = SplitterOf(r, stream, bytes)
  OBVIOUS
<1>8. Chunk(r, stream, bytes) = [t EXCEPT !.splitter = all]
  <2>1. Chunk(r, stream, bytes) = [t EXCEPT !.splitter[stream] = Fed(r.splitter[stream], bytes)]
    BY <1>1, Zenon DEF Chunk, SunkOf
  <2>2. [t EXCEPT !.splitter[stream] = Fed(r.splitter[stream], bytes)]
          = [t EXCEPT !.splitter = [t.splitter EXCEPT ![stream] = Fed(r.splitter[stream], bytes)]]
    OBVIOUS
  <2> QED
    BY <1>3, <1>6, <1>7, <2>1, <2>2 DEF SplitterOf
<1> QED
  BY <1>1, <1>3, <1>6, <1>7, <1>8 DEF Resplit

LEMMA ChunkKeeps ==
  ASSUME NEW r, Splitting(r), NEW stream \in Streams, NEW bytes \in Seq(Byte)
  PROVE  /\ Splitting(Chunk(r, stream, bytes))
         /\ Chunk(r, stream, bytes).splitter = SplitterOf(r, stream, bytes)
         /\ Contains(Chunk(r, stream, bytes).order, stream)
         /\ Chunk(r, stream, bytes).redact = r.redact /\ Chunk(r, stream, bytes).fails = r.fails
<1>1. PICK o, t, all, q : /\ o = Opened(r, stream) /\ t = SunkOf(r, stream, bytes)
                          /\ all = SplitterOf(r, stream, bytes) /\ q = Chunk(r, stream, bytes)
  OBVIOUS
<1>2. /\ Shaped(t) /\ t.order = o.order /\ q = Resplit(t, all)
      /\ t.redact = r.redact /\ t.fails = r.fails
  BY <1>1, ChunkIs
<1>3. /\ Shaped(q) /\ q.splitter = all /\ q.order = t.order
      /\ q.redact = t.redact /\ q.fails = t.fails
  BY <1>2, ResplitIs
<1>4. OpenedAs(o, r, stream)
  BY <1>1, OpenedIs DEF Splitting
<1>5. q.order \in Seq(Streams) /\ Contains(q.order, stream)
  BY <1>2, <1>3, <1>4 DEF OpenedAs
<1>6. all \in [Streams -> Splitter]
  <2>1. r.splitter \in [Streams -> Splitter] /\ Fed(r.splitter[stream], bytes) \in Splitter
    BY FedTyped DEF Splitting
  <2> QED
    BY <1>1, <2>1 DEF SplitterOf
<1> QED
  BY <1>1, <1>2, <1>3, <1>5, <1>6 DEF Splitting

\* Two chunks of a stream are one.
LEMMA ChunkConcat ==
  ASSUME NEW r, Splitting(r), NEW stream \in Streams, NEW c \in Seq(Byte), NEW d \in Seq(Byte)
  PROVE  Chunk(Chunk(r, stream, c), stream, d) = Chunk(r, stream, c \o d)
<1>1. PICK w, B : w = c \o d /\ B = Byte
  OBVIOUS
<1>2. w \in Seq(Byte)
  <2>1. w \in Seq(B)
    BY <1>1, Concat
  <2> QED
    BY <1>1, <2>1
<1>3. PICK o, sp, sp1 : o = Opened(r, stream) /\ sp = r.splitter[stream] /\ sp1 = Fed(sp, c)
  OBVIOUS
<1>4. sp \in Splitter /\ sp1 \in Splitter /\ r.splitter \in [Streams -> Splitter]
  BY <1>3, FedTyped DEF Splitting
<1>5. PICK t, all1, x : /\ t = SunkOf(r, stream, c) /\ all1 = SplitterOf(r, stream, c)
                        /\ x = Chunk(r, stream, c)
  OBVIOUS
<1>6. Shaped(t) /\ x = Resplit(t, all1)
  BY <1>5, ChunkIs
<1>7. Splitting(x) /\ x.splitter = all1 /\ Contains(x.order, stream)
  BY <1>5, ChunkKeeps
<1>8. all1 = [r.splitter EXCEPT ![stream] = sp1] /\ all1[stream] = sp1
  BY <1>3, <1>4, <1>5 DEF SplitterOf
<1>9. Opened(x, stream) = x
  BY <1>7 DEF Opened
<1>10. PICK rc, rd, rw : rc = RawLines(sp, c) /\ rd = RawLines(sp1, d) /\ rw = RawLines(sp, w)
  OBVIOUS
<1>11. t = SinkLines(o, stream, rc)
  BY <1>3, <1>5, <1>10 DEF SunkOf
<1>12. PICK m \in Nat, p \in Nat :
         DOMAIN rc = 1..m /\ DOMAIN rd = 1..p /\ InTwo(rw, rc, rd, m, p)
  <2>1. PICK m, p : m = Len(Ends(c)) /\ p = Len(Ends(d))
    OBVIOUS
  <2>2. /\ m \in Nat /\ p \in Nat
        /\ DOMAIN rc = 1..m /\ DOMAIN rd = 1..p /\ DOMAIN rw = 1..(m + p)
        /\ \A i \in 1..m : rw[i] = rc[i]
        /\ \A i \in 1..p : rw[m + i] = rd[i]
    BY <1>1, <1>3, <1>4, <1>10, <2>1, RawLinesJoin
  <2>3. InTwo(rw, rc, rd, m, p)
    BY <2>2 DEF InTwo
  <2> QED
    BY <2>2, <2>3
<1>13. PICK a : a = SinkLines(t, stream, rd)
  OBVIOUS
<1>14. a = SinkLines(o, stream, rw)
  BY <1>11, <1>12, <1>13, SinkLinesJoin
<1>15. Shaped(a) /\ SinkLines(x, stream, rd) = Resplit(a, all1)
  BY <1>6, <1>12, <1>13, SinkLinesResplit
<1>16. PICK all2 : all2 = [all1 EXCEPT ![stream] = Fed(sp1, d)]
  OBVIOUS
<1>17. SunkOf(x, stream, d) = Resplit(a, all1) /\ SplitterOf(x, stream, d) = all2
  BY <1>7, <1>8, <1>9, <1>10, <1>15, <1>16 DEF SunkOf, SplitterOf
<1>18. Chunk(x, stream, d) = Resplit(a, all2)
  <2>1. Chunk(x, stream, d) = Resplit(Resplit(a, all1), all2)
    BY <1>7, <1>17, ChunkIs
  <2> QED
    BY <1>15, <2>1, ResplitTwice
<1>19. SunkOf(r, stream, w) = a
  BY <1>3, <1>10, <1>14 DEF SunkOf
<1>20. SplitterOf(r, stream, w) = all2
  <2>1. Fed(sp, w) = Fed(sp1, d)
    BY <1>1, <1>3, <1>4, FedJoin
  <2>2. [[r.splitter EXCEPT ![stream] = sp1] EXCEPT ![stream] = Fed(sp1, d)]
          = [r.splitter EXCEPT ![stream] = Fed(sp1, d)]
    BY <1>4
  <2> QED
    BY <1>3, <1>8, <1>16, <2>1, <2>2 DEF SplitterOf
<1>21. Chunk(r, stream, w) = Resplit(a, all2)
  BY <1>2, <1>19, <1>20, ChunkIs
<1> QED
  BY <1>1, <1>5, <1>18, <1>21

-----------------------------------------------------------------------------
(* A recording of whole streams, and one more chunk of the last.            *)

\* What was read is recorded from the first stream to the last.
LEMMA PiecesWalk ==
  ASSUME NEW new, NEW streams, NEW read, NEW n \in Nat, DOMAIN streams = 1..n
  PROVE  \E h : /\ Walks(h, [fold |-> "pieces", seq |-> streams, read |-> read], new,
                         [i \in DOMAIN streams |-> i], n)
                /\ InOnePiece(new, streams, read) = h[n]
<1> DEFINE by == [fold |-> "pieces", seq |-> streams, read |-> read]
           list == [i \in DOMAIN streams |-> i]
           fold == CHOOSE f : PiecesEq(f, new, streams, read)
<1>1. DOMAIN list = 1..n
  OBVIOUS
<1>2. InOnePiece(new, streams, read) = fold[DOMAIN list]
  BY Zenon DEF InOnePiece, FoldLeftDomain, PieceStep, FoldLeft, MapThenFoldSet, PiecesEq
<1>3. ASSUME NEW r, NEW x PROVE Step(by, r, x) = PieceStep(streams, read, r, x)
  BY DEF Step
<1>4. \A f : PiecesEq(f, new, streams, read) <=> FoldEq(f, by, new, list, n)
  <2> SUFFICES ASSUME NEW f PROVE PiecesEq(f, new, streams, read) <=> FoldEq(f, by, new, list, n)
    OBVIOUS
  <2>1. \A s \in SUBSET (1..n) :
          Step(by, f[s \ {Max(s)}], list[Max(s)])
            = PieceStep(streams, read, f[s \ {Max(s)}], list[Max(s)])
    BY <1>3, Zenon
  <2>2. \A s \in SUBSET DOMAIN list :
          (IF s = {} THEN new ELSE Step(by, f[s \ {Max(s)}], list[Max(s)]))
          = (IF s = {} THEN new ELSE PieceStep(streams, read, f[s \ {Max(s)}], list[Max(s)]))
    BY <1>1, <2>1, Zenon
  <2> QED
    BY <1>1, <2>2, Zenon DEF PiecesEq, FoldEq
<1>5. \E f : PiecesEq(f, new, streams, read)
  BY <1>4, FoldExists
<1>6. PiecesEq(fold, new, streams, read)
  BY <1>5, Zenon
<1> HIDE DEF fold, by, list
<1>7. PICK h : Walks(h, by, new, list, n) /\ h[n] = fold[1..n]
  BY <1>4, <1>6, FoldWalks
<1> QED
  BY <1>1, <1>2, <1>7 DEF by, list

LEMMA PiecesAre ==
  ASSUME NEW new, NEW streams, NEW read, NEW n \in Nat, DOMAIN streams = 1..n
  PROVE  \E h : Pieces(h, new, streams, read, n) /\ InOnePiece(new, streams, read) = h[n]
<1> DEFINE by == [fold |-> "pieces", seq |-> streams, read |-> read]
           list == [i \in DOMAIN streams |-> i]
<1>1. PICK h : Walks(h, by, new, list, n) /\ InOnePiece(new, streams, read) = h[n]
  BY PiecesWalk
<1>2. ASSUME NEW r, NEW x PROVE Step(by, r, x) = PieceStep(streams, read, r, x)
  BY DEF Step
<1>3. \A k \in 1..n : list[k] = k
  OBVIOUS
<1> HIDE DEF by, list
<1>4. Pieces(h, new, streams, read, n)
  BY <1>1, <1>2, <1>3, Zenon DEF Walks, Pieces
<1> QED
  BY <1>1, <1>4

LEMMA PieceOk ==
  ASSUME NEW n \in Nat, NEW streams, NEW read, OfStreams(streams, read, n),
         NEW r, Splitting(r), NEW k \in 1..n, NEW q, q = PieceStep(streams, read, r, k)
  PROVE  Splitting(q) /\ q.redact = r.redact /\ q.fails = r.fails
<1>1. PICK s, c : s = streams[k].stream /\ c = read[k] /\ s \in Streams /\ c \in Seq(Byte)
  BY DEF OfStreams
<1>2. q = IF c = <<>> THEN r ELSE Chunk(r, s, c)
  BY <1>1 DEF PieceStep
<1>3. Splitting(Chunk(r, s, c)) /\ Chunk(r, s, c).redact = r.redact /\ Chunk(r, s, c).fails = r.fails
  BY <1>1, ChunkKeeps
<1> QED
  BY <1>2, <1>3

LEMMA PiecesOk ==
  ASSUME NEW n \in Nat, NEW streams, NEW read, OfStreams(streams, read, n),
         NEW new, Splitting(new), NEW h, Pieces(h, new, streams, read, n)
  PROVE  \A k \in 0..n : Splitting(h[k]) /\ h[k].redact = new.redact /\ h[k].fails = new.fails
<1> DEFINE K == {k \in 0..n : Splitting(h[k]) /\ h[k].redact = new.redact /\ h[k].fails = new.fails}
<1>1. 0 \in K
  BY DEF Pieces
<1>2. ASSUME NEW k \in 1..n, k - 1 \in K PROVE k \in K
  <2>1. PICK r : r = h[k - 1] /\ Splitting(r) /\ r.redact = new.redact /\ r.fails = new.fails
    BY <1>2
  <2>2. PICK q : q = h[k] /\ q = PieceStep(streams, read, r, k)
    BY <2>1 DEF Pieces
  <2>3. Splitting(q) /\ q.redact = r.redact /\ q.fails = r.fails
    BY <2>1, <2>2, PieceOk
  <2>4. k \in 0..n
    OBVIOUS
  <2>5. Splitting(h[k]) /\ h[k].redact = new.redact /\ h[k].fails = new.fails
    BY <2>1, <2>2, <2>3, Zenon
  <2> QED
    BY <2>4, <2>5
<1>3. \A k \in 0..n : k \in K
  <2> HIDE DEF K
  <2> QED
    BY <1>1, <1>2, UpTo
<1> QED
  BY <1>3

\* What is read of the next stretch of a stream is one more chunk.
LEMMA PiecesGrow ==
  ASSUME NEW n \in Nat, NEW streams, DOMAIN streams = 1..n, NEW read, OfStreams(streams, read, n),
         NEW new, Splitting(new), NEW more, NEW d \in Seq(Byte), d # <<>>, NEW at_ \in 1..n,
         GrowsBy(read, more, n, at_, d)
  PROVE  /\ Splitting(InOnePiece(new, streams, read))
         /\ InOnePiece(new, streams, more)
              = Chunk(InOnePiece(new, streams, read), streams[at_].stream, d)
<1>1. /\ more[at_] = read[at_] \o d
      /\ \A k \in 1..n : k # at_ => more[k] = read[k]
      /\ \A k \in 1..n : k > at_ => read[k] = <<>>
  BY DEF GrowsBy
<1>2. PICK h : Pieces(h, new, streams, read, n) /\ InOnePiece(new, streams, read) = h[n]
  BY PiecesAre
<1>3. PICK g : Pieces(g, new, streams, more, n) /\ InOnePiece(new, streams, more) = g[n]
  BY PiecesAre
<1>4. \A k \in 0..n : Splitting(h[k])
  BY <1>2, PiecesOk
<1>5. PICK m : m = at_ - 1 /\ m \in 0..n /\ m \in Nat /\ m + 1 = at_
  OBVIOUS
<1>6. g[m] = h[m]
  <2> DEFINE K == {k \in 0..m : g[k] = h[k]}
  <2>1. 0 \in K
    BY <1>2, <1>3, <1>5 DEF Pieces
  <2>2. ASSUME NEW k \in 1..m, k - 1 \in K PROVE k \in K
    <3>1. k \in 1..n /\ k # at_
      BY <1>5
    <3>2. h[k] = PieceStep(streams, read, h[k - 1], k) /\ g[k] = PieceStep(streams, more, g[k - 1], k)
      BY <1>2, <1>3, <3>1 DEF Pieces
    <3>3. more[k] = read[k] /\ g[k - 1] = h[k - 1]
      BY <1>1, <2>2, <3>1
    <3> QED
      BY <3>2, <3>3 DEF PieceStep
  <2>3. m \in K
    <3> HIDE DEF K
    <3>1. m \in 0..m
      BY <1>5
    <3> QED
      BY <1>5, <2>1, <2>2, <3>1, UpTo
  <2> QED
    BY <2>3
<1>7. PICK s, c, r : s = streams[at_].stream /\ c = read[at_] /\ r = h[m]
  OBVIOUS
<1>8. s \in Streams /\ c \in Seq(Byte) /\ Splitting(r)
  BY <1>4, <1>5, <1>7 DEF OfStreams
<1>9. c \o d # <<>>
  BY <1>8
<1>10. h[at_] = (IF c = <<>> THEN r ELSE Chunk(r, s, c)) /\ g[at_] = Chunk(r, s, c \o d)
  <2>1. h[at_] = PieceStep(streams, read, h[m], at_) /\ g[at_] = PieceStep(streams, more, g[m], at_)
    BY <1>2, <1>3, <1>5 DEF Pieces
  <2> QED
    BY <1>1, <1>6, <1>7, <1>9, <2>1, Zenon DEF PieceStep
<1>11. g[at_] = Chunk(h[at_], s, d)
  <2>1. CASE c = <<>>
    <3>1. c \o d = d
      BY <1>8, <2>1
    <3> QED
      BY <1>10, <2>1, <3>1
  <2>2. CASE c # <<>>
    BY <1>8, <1>10, <2>2, ChunkConcat
  <2> QED
    BY <2>1, <2>2
<1>12. h[n] = h[at_] /\ g[n] = g[at_]
  <2> DEFINE K == {k \in 0..n : k >= at_ => h[k] = h[at_] /\ g[k] = g[at_]}
  <2>1. 0 \in K
    OBVIOUS
  <2>2. ASSUME NEW k \in 1..n, k - 1 \in K PROVE k \in K
    <3>1. CASE k <= at_
      BY <3>1
    <3>2. CASE k > at_
      <4>1. h[k] = PieceStep(streams, read, h[k - 1], k) /\ g[k] = PieceStep(streams, more, g[k - 1], k)
        BY <1>2, <1>3 DEF Pieces
      <4>2. more[k] = <<>> /\ read[k] = <<>>
        BY <1>1, <3>2
      <4>3. h[k - 1] = h[at_] /\ g[k - 1] = g[at_]
        BY <2>2, <3>2
      <4> QED
        BY <4>1, <4>2, <4>3 DEF PieceStep
    <3> QED
      BY <3>1, <3>2
  <2>3. n \in K
    <3> HIDE DEF K
    <3>1. n \in 0..n
      OBVIOUS
    <3> QED
      BY <2>1, <2>2, <3>1, UpTo
  <2> QED
    BY <2>3
<1>13. Splitting(h[n])
  <2>1. n \in 0..n
    OBVIOUS
  <2> QED
    BY <1>4, <2>1
<1> QED
  BY <1>2, <1>3, <1>7, <1>11, <1>12, <1>13

-----------------------------------------------------------------------------
(* What was shown of a recording changes nothing else of it.                *)

\* What is recorded of an event does not depend on what was shown.
LEMMA RecordLike ==
  ASSUME NEW a, NEW b, SameStats(a, b), NEW event
  PROVE  SameStats(Record(a, event), Record(b, event))
<1>1. a.behaviors = b.behaviors /\ a.cells = b.cells /\ a.rng = b.rng
  BY DEF SameStats
<1>2. PICK p, q : p = Record(a, event) /\ q = Record(b, event)
  OBVIOUS
<1>3. Admitted(a, event.behavior) = Admitted(b, event.behavior)
  BY <1>1 DEF Admitted
<1>4. ASSUME NEW acc PROVE RecordScope(a, acc, event) = RecordScope(b, acc, event)
  BY <1>1 DEF RecordScope, Attributed
<1>5. /\ p = [x \in AggFields |-> p[x]] /\ q = [x \in AggFields |-> q[x]]
      /\ p.behaviors = q.behaviors /\ p.cells = q.cells /\ p.rng = q.rng
  <2>1. PICK ad : ad = Admitted(a, event.behavior)
    OBVIOUS
  <2>2. PICK id : id = IF ad THEN event.behavior ELSE overflow_behavior
    OBVIOUS
  <2>3. PICK acc : acc = Lookup(a.behaviors, id, NewAccumulator)
    OBVIOUS
  <2>4. PICK counted :
          counted = [acc EXCEPT !.count = @ + 1, !.errors = @ + IF event.failure THEN 1 ELSE 0]
    OBVIOUS
  <2>5. PICK kept :
          kept = KeepExemplar(counted, event.source, IF Draws(acc) THEN Head(a.rng) ELSE 0)
    OBVIOUS
  <2>6. PICK measured : measured = [kept EXCEPT !.measures = RecordMeasures(@, event.measures)]
    OBVIOUS
  <2>7. PICK final : final = IF ad THEN RecordScope(a, measured, event) ELSE kept
    OBVIOUS
  <2>8. p = [behaviors |-> Put(a.behaviors, id, final),
             cells |-> a.cells + Cardinality(DOMAIN final.scopes) - Cardinality(DOMAIN acc.scopes),
             fresh |-> IF id \notin DOMAIN a.behaviors THEN Append(a.fresh, id) ELSE a.fresh,
             rng |-> IF Draws(acc) THEN Tail(a.rng) ELSE a.rng]
    BY <1>2, <2>1, <2>2, <2>3, <2>4, <2>5, <2>6, <2>7, Zenon DEF Record
  <2>9. q = [behaviors |-> Put(b.behaviors, id, final),
             cells |-> b.cells + Cardinality(DOMAIN final.scopes) - Cardinality(DOMAIN acc.scopes),
             fresh |-> IF id \notin DOMAIN b.behaviors THEN Append(b.fresh, id) ELSE b.fresh,
             rng |-> IF Draws(acc) THEN Tail(b.rng) ELSE b.rng]
    <3>1. /\ ad = Admitted(b, event.behavior)
          /\ acc = Lookup(b.behaviors, id, NewAccumulator)
          /\ kept = KeepExemplar(counted, event.source, IF Draws(acc) THEN Head(b.rng) ELSE 0)
          /\ final = IF ad THEN RecordScope(b, measured, event) ELSE kept
      BY <1>1, <1>3, <1>4, <2>1, <2>3, <2>5, <2>7, Zenon
    <3> QED
      BY <1>2, <2>2, <2>4, <2>6, <3>1, Zenon DEF Record
  <2>10. PICK bs, cs, rs, fa, fb :
          /\ p = [behaviors |-> bs, cells |-> cs, fresh |-> fa, rng |-> rs]
          /\ q = [behaviors |-> bs, cells |-> cs, fresh |-> fb, rng |-> rs]
    BY <1>1, <2>8, <2>9, Zenon
  <2> QED
    BY <2>10 DEF AggFields
<1> QED
  BY <1>2, <1>5 DEF SameStats

LEMMA SinkLineLike ==
  ASSUME NEW r, NEW q, Like(r, q), NEW stream, NEW raw
  PROVE  Like(SinkLine(r, stream, raw), SinkLine(q, stream, raw))
<1>1. PICK t, u : t = SinkLine(r, stream, raw) /\ u = SinkLine(q, stream, raw)
  OBVIOUS
<1>2. /\ Shaped(r) /\ Shaped(q)
      /\ r.redact = q.redact /\ r.fails = q.fails /\ r.stopped = q.stopped /\ r.order = q.order
      /\ r.splitter = q.splitter /\ r.key_lines = q.key_lines /\ r.numbers = q.numbers
      /\ r.written = q.written /\ r.observed = q.observed
      /\ SameStats(r.analysis, q.analysis)
  BY Zenon DEF Like
<1>3. Sunk(t, r, stream, raw) /\ Sunk(u, q, stream, raw)
  BY <1>1, <1>2, SinkLineIs
<1>4. Masked(q, stream, Body(raw)) = Masked(r, stream, Body(raw))
  BY <1>2 DEF Masked
<1>5. EvidenceOf(q, stream, raw) = EvidenceOf(r, stream, raw)
  BY <1>2, <1>4 DEF EvidenceOf
<1>6. Captures(q) = Captures(r)
  BY <1>2 DEF Captures
<1>7. /\ Shaped(t) /\ Shaped(u) /\ t.redact = u.redact /\ t.fails = u.fails /\ t.order = u.order
      /\ t.splitter = u.splitter
  <2>1. Shaped(t) /\ t.redact = r.redact /\ t.fails = r.fails /\ t.order = r.order /\ t.splitter = r.splitter
    BY <1>3, Zenon DEF Sunk
  <2>2. Shaped(u) /\ u.redact = q.redact /\ u.fails = q.fails /\ u.order = q.order /\ u.splitter = q.splitter
    BY <1>3, Zenon DEF Sunk
  <2> QED
    BY <1>2, <2>1, <2>2
<1>8. t.key_lines = u.key_lines /\ t.numbers = u.numbers /\ t.stopped = u.stopped
  <2>1. /\ t.key_lines = [r.key_lines EXCEPT ![stream] = KeyLines(Body(raw), @)]
        /\ t.numbers = EvidenceOf(r, stream, raw).numbers /\ t.stopped = ~ Captures(r)
    BY <1>3, Zenon DEF Sunk
  <2>2. /\ u.key_lines = [q.key_lines EXCEPT ![stream] = KeyLines(Body(raw), @)]
        /\ u.numbers = EvidenceOf(q, stream, raw).numbers /\ u.stopped = ~ Captures(q)
    BY <1>3, Zenon DEF Sunk
  <2> QED
    BY <1>2, <1>5, <1>6, <2>1, <2>2
<1>9. t.written = u.written
  <2>1. t.written = [r.written EXCEPT ![stream] =
          IF Captures(r) THEN write_line(@, EvidenceOf(r, stream, raw).line, Ending(raw)) ELSE @]
    BY <1>3, Zenon DEF Sunk
  <2>2. u.written = [q.written EXCEPT ![stream] =
          IF Captures(q) THEN write_line(@, EvidenceOf(q, stream, raw).line, Ending(raw)) ELSE @]
    BY <1>3, Zenon DEF Sunk
  <2> QED
    BY <1>2, <1>5, <1>6, <2>1, <2>2
<1>10. t.observed = u.observed
  <2>1. t.observed = [r.observed EXCEPT ![stream] =
          Append(@, [seq |-> raw.seq, raw_len |-> raw.raw_len,
                     line |-> Masked(r, stream, Body(raw)).line])]
    BY <1>3, Zenon DEF Sunk
  <2>2. u.observed = [q.observed EXCEPT ![stream] =
          Append(@, [seq |-> raw.seq, raw_len |-> raw.raw_len,
                     line |-> Masked(q, stream, Body(raw)).line])]
    BY <1>3, Zenon DEF Sunk
  <2> QED
    BY <1>2, <1>4, <2>1, <2>2
<1>11. SameStats(t.analysis, u.analysis)
  <2>1. PICK e : e = LogEvent(stream, raw.seq, Masked(r, stream, Body(raw)).line)
    OBVIOUS
  <2>2. t.analysis = Record(r.analysis, e)
    BY <1>3, <2>1, Zenon DEF Sunk
  <2>3. u.analysis = Record(q.analysis, e)
    BY <1>3, <1>4, <2>1, Zenon DEF Sunk
  <2> QED
    BY <1>2, <2>2, <2>3, RecordLike
<1>12. Like(t, u)
  BY <1>7, <1>8, <1>9, <1>10, <1>11, Zenon DEF Like
<1> QED
  BY <1>1, <1>12

LEMMA SinkLinesLike ==
  ASSUME NEW r, NEW q, Like(r, q), NEW stream, NEW raws, NEW n \in Nat, DOMAIN raws = 1..n
  PROVE  Like(SinkLines(r, stream, raws), SinkLines(q, stream, raws))
<1> DEFINE by == [fold |-> "lines", stream |-> stream]
<1>1. PICK h : Walks(h, by, r, raws, n) /\ SinkLines(r, stream, raws) = h[n]
  BY LinesWalk
<1>2. PICK g : Walks(g, by, q, raws, n) /\ SinkLines(q, stream, raws) = g[n]
  BY LinesWalk
<1> DEFINE K == {k \in 0..n : Like(h[k], g[k])}
<1>3. 0 \in K
  BY <1>1, <1>2 DEF Walks
<1>4. ASSUME NEW k \in 1..n, k - 1 \in K PROVE k \in K
  <2>1. h[k] = SinkLine(h[k - 1], stream, raws[k]) /\ g[k] = SinkLine(g[k - 1], stream, raws[k])
    BY <1>1, <1>2 DEF Walks, Step
  <2>2. Like(h[k - 1], g[k - 1])
    BY <1>4
  <2>3. Like(h[k], g[k])
    BY <2>1, <2>2, SinkLineLike
  <2> QED
    BY <2>3
<1>5. n \in K
  <2> HIDE DEF K
  <2>1. n \in 0..n
    OBVIOUS
  <2> QED
    BY <1>3, <1>4, <2>1, UpTo
<1> QED
  BY <1>1, <1>2, <1>5

LEMMA ResplitLike ==
  ASSUME NEW r, NEW q, Like(r, q), NEW all
  PROVE  Like(Resplit(r, all), Resplit(q, all))
<1>1. PICK t, u : t = Resplit(r, all) /\ u = Resplit(q, all)
  OBVIOUS
<1>2. /\ Shaped(r) /\ Shaped(q)
      /\ r.redact = q.redact /\ r.fails = q.fails /\ r.stopped = q.stopped /\ r.order = q.order
      /\ r.key_lines = q.key_lines /\ r.numbers = q.numbers
      /\ r.written = q.written /\ r.observed = q.observed
      /\ SameStats(r.analysis, q.analysis)
  BY Zenon DEF Like
<1>3. /\ Shaped(t) /\ t.splitter = all
      /\ t.redact = r.redact /\ t.fails = r.fails /\ t.stopped = r.stopped /\ t.order = r.order
      /\ t.key_lines = r.key_lines /\ t.numbers = r.numbers /\ t.written = r.written
      /\ t.observed = r.observed /\ t.analysis = r.analysis
  BY <1>1, <1>2, ResplitIs
<1>4. /\ Shaped(u) /\ u.splitter = all
      /\ u.redact = q.redact /\ u.fails = q.fails /\ u.stopped = q.stopped /\ u.order = q.order
      /\ u.key_lines = q.key_lines /\ u.numbers = q.numbers /\ u.written = q.written
      /\ u.observed = q.observed /\ u.analysis = q.analysis
  BY <1>1, <1>2, ResplitIs
<1>5. Like(t, u)
  BY <1>2, <1>3, <1>4 DEF Like
<1> QED
  BY <1>1, <1>5

LEMMA ChunkLike ==
  ASSUME NEW r, NEW q, Like(r, q), Splitting(r), NEW stream \in Streams, NEW bytes \in Seq(Byte)
  PROVE  Like(Chunk(r, stream, bytes), Chunk(q, stream, bytes))
<1>1. /\ Shaped(r) /\ Shaped(q) /\ r.order = q.order /\ r.splitter = q.splitter
      /\ r.redact = q.redact /\ r.fails = q.fails /\ r.stopped = q.stopped
      /\ r.key_lines = q.key_lines /\ r.numbers = q.numbers
      /\ r.written = q.written /\ r.observed = q.observed /\ SameStats(r.analysis, q.analysis)
  BY Zenon DEF Like
<1>2. Splitting(q)
  BY <1>1 DEF Splitting
<1>3. PICK o, u : o = Opened(r, stream) /\ u = Opened(q, stream)
  OBVIOUS
<1>4. Like(o, u)
  <2>1. OpenedAs(o, r, stream) /\ OpenedAs(u, q, stream)
    BY <1>1, <1>2, <1>3, OpenedIs DEF Splitting
  <2>2. o.order = u.order
    <3>1. CASE Contains(r.order, stream)
      <4>1. o = r /\ u = q
        BY <1>1, <1>3, <3>1 DEF Opened
      <4> QED
        BY <1>1, <4>1
    <3>2. CASE ~ Contains(r.order, stream)
      <4>1. o = [r EXCEPT !.order = Append(@, stream)] /\ u = [q EXCEPT !.order = Append(@, stream)]
        BY <1>1, <1>3, <3>2, Zenon DEF Opened
      <4>2. "order" \in DOMAIN r /\ "order" \in DOMAIN q
        BY <1>1, ShapedIs DEF RecFields
      <4> QED
        BY <1>1, <4>1, <4>2
    <3> QED
      BY <3>1, <3>2
  <2> QED
    BY <1>1, <2>1, <2>2 DEF OpenedAs, Like
<1>5. PICK sp, raws, all : /\ sp = r.splitter[stream] /\ raws = RawLines(sp, bytes)
                           /\ all = SplitterOf(r, stream, bytes)
  OBVIOUS
<1>6. PICK n \in Nat : DOMAIN raws = 1..n
  <2>1. sp \in Splitter
    BY <1>5 DEF Splitting
  <2> QED
    BY <1>5, <2>1, RawLinesTyped
<1>7. Like(SinkLines(o, stream, raws), SinkLines(u, stream, raws))
  BY <1>4, <1>6, SinkLinesLike
<1>8. PICK t, v : t = SunkOf(r, stream, bytes) /\ v = SunkOf(q, stream, bytes)
  OBVIOUS
<1>9. Like(t, v)
  BY <1>1, <1>3, <1>5, <1>7, <1>8 DEF SunkOf
<1>10. Chunk(r, stream, bytes) = Resplit(t, all) /\ Chunk(q, stream, bytes) = Resplit(v, all)
  <2>1. SplitterOf(q, stream, bytes) = all
    BY <1>1, <1>5 DEF SplitterOf
  <2> QED
    BY <1>2, <1>5, <1>8, <2>1, ChunkIs
<1> QED
  BY <1>9, <1>10, ResplitLike

LEMMA LastsAre ==
  ASSUME NEW r, r.order \in Seq(Streams)
  PROVE  \E h : Lasts(h, r) /\ SinkLast(r) = h[Len(r.order)]
<1> DEFINE by == [fold |-> "last"]
<1>1. PICK n \in Nat : n = Len(r.order) /\ DOMAIN r.order = 1..n
  OBVIOUS
<1>2. PICK h : Walks(h, by, r, r.order, n) /\ SinkLast(r) = h[n]
  BY <1>1, LastWalk
<1>3. ASSUME NEW q, NEW x PROVE Step(by, q, x) = SinkLines(q, x, LastLine(q.splitter[x]))
  BY DEF Step
<1> HIDE DEF by
<1>4. Lasts(h, r)
  BY <1>1, <1>2, <1>3, Zenon DEF Walks, Lasts
<1> QED
  BY <1>1, <1>2, <1>4

LEMMA LastLineIs ==
  ASSUME NEW sp \in Splitter
  PROVE  \E n \in Nat : DOMAIN LastLine(sp) = 1..n
<1>1. CASE sp.carry_len = 0
  <2>1. LastLine(sp) = <<>>
    BY <1>1 DEF LastLine
  <2>2. PICK zero \in Nat : zero = 0
    OBVIOUS
  <2>3. DOMAIN <<>> = 1..zero
    BY <2>2
  <2> QED
    BY <2>1, <2>3
<1>2. CASE sp.carry_len # 0
  <2>1. PICK x : LastLine(sp) = <<x>>
    BY <1>2, Zenon DEF LastLine
  <2>2. PICK one \in Nat : one = 1
    OBVIOUS
  <2>3. DOMAIN <<x>> = 1..one
    BY <2>2
  <2> QED
    BY <2>1, <2>3
<1> QED
  BY <1>1, <1>2

LEMMA LastsOk ==
  ASSUME NEW r, Splitting(r), NEW h, Lasts(h, r)
  PROVE  \A k \in 0..Len(r.order) :
           /\ Shaped(h[k]) /\ h[k].splitter = r.splitter /\ h[k].order = r.order
           /\ h[k].redact = r.redact /\ h[k].fails = r.fails
<1> DEFINE Good(q) == /\ Shaped(q) /\ q.splitter = r.splitter /\ q.order = r.order
                      /\ q.redact = r.redact /\ q.fails = r.fails
<1>1. PICK n \in Nat : n = Len(r.order) /\ \A k \in 1..n : r.order[k] \in Streams
  BY DEF Splitting
<1> DEFINE K == {k \in 0..n : Good(h[k])}
<1>2. 0 \in K
  BY DEF Lasts, Splitting
<1>3. ASSUME NEW k \in 1..n, k - 1 \in K PROVE k \in K
  <2>1. PICK q, s, raws : q = h[k - 1] /\ s = r.order[k] /\ raws = LastLine(q.splitter[s])
    OBVIOUS
  <2>2. Good(q) /\ s \in Streams
    BY <1>1, <1>3, <2>1
  <2>3. h[k] = SinkLines(q, s, raws)
    BY <1>1, <2>1 DEF Lasts
  <2>4. q.splitter[s] \in Splitter
    BY <2>2 DEF Splitting
  <2>5. PICK m \in Nat : DOMAIN raws = 1..m
    BY <2>1, <2>4, LastLineIs
  <2>6. PICK t : t = SinkLines(q, s, raws)
    OBVIOUS
  <2>7. /\ Shaped(t) /\ t.splitter = q.splitter /\ t.order = q.order
        /\ t.redact = q.redact /\ t.fails = q.fails
    BY <2>2, <2>5, <2>6, SinkLinesResplit
  <2>8. Good(h[k])
    BY <2>2, <2>3, <2>6, <2>7, Zenon
  <2>9. k \in 0..n
    OBVIOUS
  <2> QED
    BY <2>8, <2>9
<1>4. \A k \in 0..n : k \in K
  <2> HIDE DEF K
  <2> QED
    BY <1>2, <1>3, UpTo
<1> QED
  BY <1>1, <1>4

LEMMA FlushIs ==
  ASSUME NEW r, Splitting(r)
  PROVE  /\ Flush(r) = Resplit(SinkLast(r), FlushedOf(r))
         /\ Shaped(SinkLast(r)) /\ SinkLast(r).splitter = r.splitter /\ SinkLast(r).order = r.order
         /\ SinkLast(r).redact = r.redact /\ SinkLast(r).fails = r.fails
<1>1. Flush(r) = Resplit(SinkLast(r), FlushedOf(r))
  BY Zenon DEF Flush, SinkLast, Resplit, FlushedOf
<1>2. PICK h : Lasts(h, r) /\ SinkLast(r) = h[Len(r.order)]
  BY LastsAre DEF Splitting
<1>3. Len(r.order) \in 0..Len(r.order)
  BY DEF Splitting
<1> QED
  BY <1>1, <1>2, <1>3, LastsOk

LEMMA FlushKeeps ==
  ASSUME NEW r, Splitting(r), NEW q, q = Flush(r)
  PROVE  /\ Splitting(q) /\ q.splitter = FlushedOf(r) /\ q.order = r.order
         /\ q.redact = r.redact /\ q.fails = r.fails
<1>1. PICK t, all : t = SinkLast(r) /\ all = FlushedOf(r)
  OBVIOUS
<1>2. /\ q = Resplit(t, all) /\ Shaped(t) /\ t.order = r.order
      /\ t.redact = r.redact /\ t.fails = r.fails
  BY <1>1, FlushIs
<1>3. Shaped(q) /\ q.splitter = all /\ q.order = t.order /\ q.redact = t.redact /\ q.fails = t.fails
  BY <1>2, ResplitIs
<1>4. all \in [Streams -> Splitter]
  BY <1>1, LastTyped DEF FlushedOf, Splitting
<1> QED
  BY <1>1, <1>2, <1>3, <1>4 DEF Splitting

LEMMA FlushLike ==
  ASSUME NEW r, NEW q, Like(r, q), Splitting(r)
  PROVE  Like(Flush(r), Flush(q)) /\ Splitting(q)
<1>1. Shaped(r) /\ Shaped(q) /\ r.order = q.order /\ r.splitter = q.splitter
  BY Zenon DEF Like
<1>2. Splitting(q)
  BY <1>1 DEF Splitting
<1>3. PICK h : Lasts(h, r) /\ SinkLast(r) = h[Len(r.order)]
  BY LastsAre DEF Splitting
<1>4. PICK g : Lasts(g, q) /\ SinkLast(q) = g[Len(q.order)]
  BY <1>2, LastsAre DEF Splitting
<1>5. PICK n \in Nat : n = Len(r.order) /\ n = Len(q.order) /\ \A k \in 1..n : r.order[k] \in Streams
  BY <1>1 DEF Splitting
<1> DEFINE K == {k \in 0..n : Like(h[k], g[k])}
<1>6. 0 \in K
  BY <1>3, <1>4 DEF Lasts
<1>7. ASSUME NEW k \in 1..n, k - 1 \in K PROVE k \in K
  <2>1. PICK x, y, s, raws : /\ x = h[k - 1] /\ y = g[k - 1] /\ s = r.order[k]
                             /\ raws = LastLine(x.splitter[s])
    OBVIOUS
  <2>2. Like(x, y) /\ s \in Streams
    BY <1>5, <1>7, <2>1
  <2>3. x.splitter = r.splitter /\ y.splitter = r.splitter
    <3>1. k - 1 \in 0..Len(r.order)
      BY <1>5
    <3>2. x.splitter = r.splitter
      BY <1>3, <2>1, <3>1, LastsOk
    <3> QED
      BY <2>2, <3>2, Zenon DEF Like
  <2>4. h[k] = SinkLines(x, s, raws) /\ g[k] = SinkLines(y, s, raws)
    BY <1>1, <1>3, <1>4, <1>5, <2>1, <2>3 DEF Lasts
  <2>5. x.splitter[s] \in Splitter
    BY <2>2, <2>3 DEF Splitting
  <2>6. PICK m \in Nat : DOMAIN raws = 1..m
    BY <2>1, <2>5, LastLineIs
  <2>7. Like(h[k], g[k])
    BY <2>2, <2>4, <2>6, SinkLinesLike
  <2> QED
    BY <2>7
<1>8. n \in K
  <2> HIDE DEF K
  <2>1. n \in 0..n
    OBVIOUS
  <2> QED
    BY <1>6, <1>7, <2>1, UpTo
<1>9. Like(SinkLast(r), SinkLast(q))
  BY <1>3, <1>4, <1>5, <1>8
<1>10. PICK all : all = FlushedOf(r) /\ all = FlushedOf(q)
  BY <1>1 DEF FlushedOf
<1>11. Flush(r) = Resplit(SinkLast(r), all) /\ Flush(q) = Resplit(SinkLast(q), all)
  BY <1>2, <1>10, FlushIs
<1> QED
  BY <1>2, <1>9, <1>11, ResplitLike

LEMMA SinkNone ==
  ASSUME NEW r, NEW stream
  PROVE  SinkLines(r, stream, <<>>) = r
<1>1. PICK zero \in Nat : zero = 0
  OBVIOUS
<1>2. DOMAIN <<>> = 1..zero
  BY <1>1
<1>3. PICK h : Walks(h, [fold |-> "lines", stream |-> stream], r, <<>>, zero)
               /\ SinkLines(r, stream, <<>>) = h[zero]
  BY <1>2, LinesWalk
<1> QED
  BY <1>1, <1>3 DEF Walks

\* A flushed recording has nothing left to flush.
LEMMA FlushTwice ==
  ASSUME NEW r, Splitting(r)
  PROVE  Flush(Flush(r)) = Flush(r)
<1>1. PICK q : q = Flush(r)
  OBVIOUS
<1>2. Splitting(q) /\ q.splitter = FlushedOf(r)
  BY <1>1, FlushKeeps
<1>3. ASSUME NEW s \in Streams
      PROVE  LastLine(q.splitter[s]) = <<>> /\ Flushed(q.splitter[s]) = q.splitter[s]
  <2>1. PICK sp : sp = r.splitter[s] /\ sp \in Splitter
    BY DEF Splitting
  <2>2. q.splitter[s] = Flushed(sp)
    BY <1>2, <2>1 DEF FlushedOf
  <2>3. Flushed(sp).carry_len = 0
    <3>1. CASE sp.carry_len = 0
      BY <3>1 DEF Flushed
    <3>2. CASE sp.carry_len # 0
      <4>1. Flushed(sp) = [NewSplitter EXCEPT !.seq = sp.seq + 1]
        BY <3>2 DEF Flushed
      <4> QED
        BY <4>1 DEF NewSplitter
    <3> QED
      BY <3>1, <3>2
  <2> QED
    BY <2>2, <2>3 DEF LastLine, Flushed
<1>4. PICK h : Lasts(h, q) /\ SinkLast(q) = h[Len(q.order)]
  BY <1>2, LastsAre DEF Splitting
<1>5. PICK n \in Nat : n = Len(q.order) /\ \A k \in 1..n : q.order[k] \in Streams
  BY <1>2 DEF Splitting
<1> DEFINE K == {k \in 0..n : h[k] = q}
<1>6. 0 \in K
  BY <1>4 DEF Lasts
<1>7. ASSUME NEW k \in 1..n, k - 1 \in K PROVE k \in K
  <2>1. PICK s : s = q.order[k] /\ s \in Streams
    BY <1>5
  <2>2. h[k] = SinkLines(q, s, LastLine(q.splitter[s]))
    BY <1>4, <1>5, <1>7, <2>1 DEF Lasts
  <2>3. LastLine(q.splitter[s]) = <<>>
    BY <1>3, <2>1
  <2>4. h[k] = q
    BY <2>2, <2>3, SinkNone
  <2> QED
    BY <2>4
<1>8. n \in K
  <2> HIDE DEF K
  <2>1. n \in 0..n
    OBVIOUS
  <2> QED
    BY <1>6, <1>7, <2>1, UpTo
<1>9. SinkLast(q) = q
  BY <1>4, <1>5, <1>8
<1>10. FlushedOf(q) = q.splitter
  <2>1. q.splitter \in [Streams -> Splitter]
    BY <1>2 DEF Splitting
  <2>2. q.splitter = [s \in Streams |-> q.splitter[s]]
    BY <2>1
  <2> QED
    BY <1>3, <2>2 DEF FlushedOf
<1>11. Flush(q) = Resplit(q, q.splitter)
  BY <1>2, <1>9, <1>10, FlushIs
<1>12. Resplit(q, q.splitter) = q
  <2>1. Shaped(q)
    BY <1>2 DEF Splitting
  <2>2. PICK u, all : all = q.splitter /\ u = Resplit(q, all)
    OBVIOUS
  <2>3. /\ Shaped(u) /\ u.splitter = all
        /\ u.redact = q.redact /\ u.fails = q.fails /\ u.stopped = q.stopped /\ u.order = q.order
        /\ u.key_lines = q.key_lines /\ u.numbers = q.numbers /\ u.written = q.written
        /\ u.observed = q.observed /\ u.analysis = q.analysis
    BY <2>1, <2>2, ResplitIs
  <2>4. u = q
    BY <2>1, <2>2, <2>3, SameRec
  <2> QED
    BY <2>2, <2>4
<1> QED
  BY <1>1, <1>11, <1>12

LEMMA MaskKeptIs ==
  ASSUME NEW r, Shaped(r), NEW k, NEW q, q = MaskKept(k, r), NEW pii, pii = PiiOf(r, k)
  PROVE  /\ Shaped(q) /\ q.splitter = r.splitter
         /\ q.redact = r.redact /\ q.fails = r.fails /\ q.stopped = r.stopped /\ q.order = r.order
         /\ q.key_lines = r.key_lines /\ q.written = r.written /\ q.observed = r.observed
         /\ q.numbers = pii.numbers
         /\ q.analysis = [r.analysis EXCEPT !.behaviors = Remasked(@, k, pii.line)]
<1>1. PICK ns, an : /\ ns = pii.numbers
                    /\ an = [r.analysis EXCEPT !.behaviors = Remasked(@, k, pii.line)]
  OBVIOUS
<1>2. q = [r EXCEPT !.numbers = ns, !.analysis = an]
  BY <1>1, Zenon DEF MaskKept, PiiOf, LineAt, LinesOf, Remasked
<1>3. DOMAIN r = RecFields
  BY ShapedIs
<1>4. q = [x \in RecFields |-> q[x]]
  BY <1>2, <1>3
<1>5. Shaped(q)
  BY <1>4, Zenon DEF Shaped
<1>6. /\ q.splitter = r.splitter /\ q.numbers = ns /\ q.analysis = an
      /\ q.redact = r.redact /\ q.fails = r.fails /\ q.stopped = r.stopped /\ q.order = r.order
      /\ q.key_lines = r.key_lines /\ q.written = r.written /\ q.observed = r.observed
  BY <1>2, <1>3 DEF RecFields
<1> QED
  BY <1>1, <1>5, <1>6

LEMMA MaskKeptFails ==
  ASSUME NEW r, Shaped(r), NEW k
  PROVE  MaskKept(k, r).fails = r.fails
<1>1. PICK q, pii : q = MaskKept(k, r) /\ pii = PiiOf(r, k)
  OBVIOUS
<1>2. /\ Shaped(q) /\ q.splitter = r.splitter
      /\ q.redact = r.redact /\ q.fails = r.fails /\ q.stopped = r.stopped /\ q.order = r.order
      /\ q.key_lines = r.key_lines /\ q.written = r.written /\ q.observed = r.observed
      /\ q.numbers = pii.numbers
      /\ q.analysis = [r.analysis EXCEPT !.behaviors = Remasked(@, k, pii.line)]
  BY <1>1, MaskKeptIs
<1> QED
  BY <1>1, <1>2

LEMMA MaskKeptLike ==
  ASSUME NEW r, NEW q, Like(r, q), NEW k
  PROVE  Like(MaskKept(k, r), MaskKept(k, q))
<1>1. /\ Shaped(r) /\ Shaped(q)
      /\ r.redact = q.redact /\ r.fails = q.fails /\ r.stopped = q.stopped /\ r.order = q.order
      /\ r.splitter = q.splitter /\ r.key_lines = q.key_lines /\ r.numbers = q.numbers
      /\ r.written = q.written /\ r.observed = q.observed
      /\ SameStats(r.analysis, q.analysis)
  BY Zenon DEF Like
<1>2. PICK a, b : a = r.analysis /\ b = q.analysis
  OBVIOUS
<1>3. /\ a = [x \in AggFields |-> a[x]] /\ b = [x \in AggFields |-> b[x]]
      /\ a.behaviors = b.behaviors /\ a.cells = b.cells /\ a.rng = b.rng
  BY <1>1, <1>2 DEF SameStats
<1>4. PICK t, u, pii : t = MaskKept(k, r) /\ u = MaskKept(k, q) /\ pii = PiiOf(r, k)
  OBVIOUS
<1>5. pii = PiiOf(q, k)
  <2>1. r.analysis.behaviors = q.analysis.behaviors
    BY <1>2, <1>3, Zenon
  <2>2. LineAt(r, k) = LineAt(q, k)
    BY <2>1, Zenon DEF LineAt, LinesOf
  <2>3. r.numbers = q.numbers
    BY <1>1
  <2> QED
    BY <1>4, <2>2, <2>3, Zenon DEF PiiOf
<1>6. /\ Shaped(t) /\ t.splitter = r.splitter
      /\ t.redact = r.redact /\ t.fails = r.fails /\ t.stopped = r.stopped /\ t.order = r.order
      /\ t.key_lines = r.key_lines /\ t.written = r.written /\ t.observed = r.observed
      /\ t.numbers = pii.numbers
      /\ t.analysis = [r.analysis EXCEPT !.behaviors = Remasked(@, k, pii.line)]
  BY <1>1, <1>4, MaskKeptIs
<1>7. /\ Shaped(u) /\ u.splitter = q.splitter
      /\ u.redact = q.redact /\ u.fails = q.fails /\ u.stopped = q.stopped /\ u.order = q.order
      /\ u.key_lines = q.key_lines /\ u.written = q.written /\ u.observed = q.observed
      /\ u.numbers = pii.numbers
      /\ u.analysis = [q.analysis EXCEPT !.behaviors = Remasked(@, k, pii.line)]
  BY <1>1, <1>4, <1>5, MaskKeptIs
<1>8. SameStats(t.analysis, u.analysis)
  <2>1. PICK m : m = Remasked(a.behaviors, k, pii.line)
    OBVIOUS
  <2>2. PICK c, d : c = [a EXCEPT !.behaviors = m] /\ d = [b EXCEPT !.behaviors = m]
    OBVIOUS
  <2>3. t.analysis = c /\ u.analysis = d
    BY <1>2, <1>3, <1>6, <1>7, <2>1, <2>2
  <2>4. DOMAIN a = AggFields /\ DOMAIN b = AggFields
    BY <1>3, Zenon
  <2>5. c = [x \in AggFields |-> c[x]] /\ d = [x \in AggFields |-> d[x]]
    BY <2>2, <2>4
  <2>6. c.behaviors = d.behaviors /\ c.cells = d.cells /\ c.rng = d.rng
    BY <1>3, <2>2, <2>4 DEF AggFields
  <2> QED
    BY <2>3, <2>5, <2>6, Zenon DEF SameStats
<1>9. Like(t, u)
  BY <1>1, <1>6, <1>7, <1>8, Zenon DEF Like
<1> QED
  BY <1>4, <1>9

LEMMA FinishLike ==
  ASSUME NEW r, NEW q, Like(r, q), RecOk(r), Splitting(r)
  PROVE  /\ Like(Finish(r), Finish(q))
         /\ Finish(r).redact = r.redact /\ Finish(r).fails = r.fails
<1>1. PICK x, y : x = Flush(r) /\ y = Flush(q)
  OBVIOUS
<1>2. Like(x, y)
  BY <1>1, FlushLike
<1>3. r.redact = q.redact
  BY Zenon DEF Like
<1>4. x.fails = r.fails /\ x.redact = r.redact
  BY <1>1, FlushKeeps
<1>5. CASE r.redact # "pii"
  <2>1. Finish(r) = x /\ Finish(q) = y
    BY <1>1, <1>3, <1>5 DEF Finish
  <2> QED
    BY <1>2, <1>4, <2>1
<1>6. CASE r.redact = "pii"
  <2>1. PICK S : S = Kept(x)
    OBVIOUS
  <2>2. RecOk(x)
    BY <1>1, FlushOk
  <2>3. IsFiniteSet(S)
    BY <2>1, <2>2, KeptFinite
  <2>4. Kept(y) = S
    <3>1. x.analysis.behaviors = y.analysis.behaviors
      BY <1>2, Zenon DEF Like, SameStats
    <3> QED
      BY <2>1, <3>1, Zenon DEF Kept
  <2>5. PICK f : KeptEq(f, x, S) /\ FoldSet(MaskKept, x, S) = f[S]
    BY <2>3, KeptIs
  <2>6. PICK g : KeptEq(g, y, S) /\ FoldSet(MaskKept, y, S) = g[S]
    BY <2>3, KeptIs
  <2>7. Finish(r) = f[S] /\ Finish(q) = g[S]
    BY <1>1, <1>3, <1>6, <2>1, <2>4, <2>5, <2>6 DEF Finish
  <2> DEFINE n == Cardinality(S)
             K == {k \in 0..n : \A s \in SUBSET S : Cardinality(s) = k =>
                               Like(f[s], g[s]) /\ f[s].fails = r.fails}
  <2>8. n \in Nat
    BY <2>3, FS_CardinalityType
  <2>9. 0 \in K
    <3>1. f[{}] = x /\ g[{}] = y
      BY <2>5, <2>6 DEF KeptEq
    <3>2. ASSUME NEW s \in SUBSET S, Cardinality(s) = 0 PROVE s = {}
      BY <2>3, <3>2, FS_Subset, FS_EmptySet
    <3> QED
      BY <1>2, <1>4, <2>8, <3>1, <3>2
  <2>10. ASSUME NEW k \in 1..n, k - 1 \in K PROVE k \in K
    <3> SUFFICES ASSUME NEW s \in SUBSET S, Cardinality(s) = k 
                 PROVE  Like(f[s], g[s]) /\ f[s].fails = r.fails
      BY <2>8
    <3>1. s # {}
      BY FS_EmptySet
    <3>2. PICK o, t : o = One(s) /\ t = s \ {o}
      OBVIOUS
    <3>3. o \in s /\ t \in SUBSET S /\ Cardinality(t) = k - 1
      BY <2>3, <3>1, <3>2, OneLess
    <3>4. Like(f[t], g[t]) /\ f[t].fails = r.fails
      BY <2>10, <3>3
    <3>5. f[s] = MaskKept(o, f[t]) /\ g[s] = MaskKept(o, g[t])
      BY <2>5, <2>6, <3>1, <3>2 DEF KeptEq
    <3>6. f[s].fails = f[t].fails
      <4>1. Shaped(f[t])
        BY <3>4, Zenon DEF Like
      <4> QED
        BY <3>5, <4>1, MaskKeptFails
    <3> QED
      BY <3>4, <3>5, <3>6, MaskKeptLike
  <2>11. n \in K
    <3> HIDE DEF K, n
    <3>1. n \in 0..n
      BY <2>8
    <3> QED
      BY <2>8, <2>9, <2>10, <3>1, UpTo
  <2>12. Like(f[S], g[S]) /\ f[S].fails = r.fails
    <3>1. S \in SUBSET S
      OBVIOUS
    <3> QED
      BY <2>11, <3>1
  <2> QED
    BY <2>7, <2>12, FinishOk
<1> QED
  BY <1>5, <1>6

\* A recording that was flushed finishes the same.
LEMMA FinishFlushed ==
  ASSUME NEW r, Splitting(r)
  PROVE  Finish(Flush(r)) = Finish(r)
<1>1. PICK q : q = Flush(r)
  OBVIOUS
<1>2. Flush(q) = q /\ q.redact = r.redact
  BY <1>1, FlushTwice, FlushKeeps
<1> QED
  BY <1>1, <1>2 DEF Finish

\* What was shown of a recording is all that showing it changes.
LEMMA LikeDrained ==
  ASSUME NEW r, NEW q, Like(r, q)
  PROVE  /\ DrainedOf(r) = DrainedOf(q)
         /\ Like(DrainedOf(r), q)
<1>1. /\ Shaped(r) /\ Shaped(q)
      /\ r.redact = q.redact /\ r.fails = q.fails /\ r.stopped = q.stopped /\ r.order = q.order
      /\ r.splitter = q.splitter /\ r.key_lines = q.key_lines /\ r.numbers = q.numbers
      /\ r.written = q.written /\ r.observed = q.observed
      /\ SameStats(r.analysis, q.analysis)
  BY Zenon DEF Like
<1>2. PICK a, b : a = r.analysis /\ b = q.analysis
  OBVIOUS
<1>3. /\ a = [x \in AggFields |-> a[x]] /\ b = [x \in AggFields |-> b[x]]
      /\ a.behaviors = b.behaviors /\ a.cells = b.cells /\ a.rng = b.rng
  BY <1>1, <1>2 DEF SameStats
<1>4. DOMAIN a = AggFields /\ DOMAIN b = AggFields
  BY <1>3, Zenon
<1>5. PICK c : c = Drained(a)
  OBVIOUS
<1>6. c = Drained(b)
  <2>1. \A x \in AggFields : x # "fresh" => a[x] = b[x]
    BY <1>3 DEF AggFields
  <2>2. c = [x \in AggFields |-> IF x = "fresh" THEN <<>> ELSE a[x]]
    BY <1>4, <1>5 DEF Drained
  <2>3. Drained(b) = [x \in AggFields |-> IF x = "fresh" THEN <<>> ELSE b[x]]
    BY <1>4 DEF Drained
  <2> QED
    BY <2>1, <2>2, <2>3
<1>7. /\ c = [x \in AggFields |-> c[x]]
      /\ c.behaviors = b.behaviors /\ c.cells = b.cells /\ c.rng = b.rng
  BY <1>3, <1>4, <1>5 DEF Drained, AggFields
<1>8. PICK t, u : t = [r EXCEPT !.analysis = c] /\ u = [q EXCEPT !.analysis = c]
  OBVIOUS
<1>9. t = DrainedOf(r) /\ u = DrainedOf(q)
  BY <1>2, <1>5, <1>6, <1>8, Zenon DEF DrainedOf
<1>10. DOMAIN r = RecFields /\ DOMAIN q = RecFields
  BY <1>1, ShapedIs
<1>11. t = [x \in RecFields |-> t[x]] /\ u = [x \in RecFields |-> u[x]]
  BY <1>8, <1>10
<1>12. Shaped(t) /\ Shaped(u)
  BY <1>11, Zenon DEF Shaped
<1>13. /\ t.redact = r.redact /\ t.fails = r.fails /\ t.stopped = r.stopped /\ t.order = r.order
       /\ t.splitter = r.splitter /\ t.key_lines = r.key_lines /\ t.numbers = r.numbers
       /\ t.written = r.written /\ t.observed = r.observed /\ t.analysis = c
  BY <1>8, <1>10 DEF RecFields
<1>14. /\ u.redact = q.redact /\ u.fails = q.fails /\ u.stopped = q.stopped /\ u.order = q.order
       /\ u.splitter = q.splitter /\ u.key_lines = q.key_lines /\ u.numbers = q.numbers
       /\ u.written = q.written /\ u.observed = q.observed /\ u.analysis = c
  BY <1>8, <1>10 DEF RecFields
<1>15. t = u
  BY <1>1, <1>12, <1>13, <1>14, SameRec
<1>16. SameStats(t.analysis, q.analysis)
  BY <1>2, <1>3, <1>7, <1>13 DEF SameStats
<1>17. Like(t, q)
  BY <1>1, <1>12, <1>13, <1>16, Zenon DEF Like
<1> QED
  BY <1>9, <1>15, <1>17

\* A new recording is like itself.
LEMMA NewLike ==
  ASSUME NEW redact, NEW fails, NEW rng, NEW r, r = NewRecording(redact, fails, rng)
  PROVE  Like(r, r) /\ Splitting(r) /\ r.redact = redact /\ r.fails = fails
<1>1. PICK a : a = NewAggregator(rng)
  OBVIOUS
<1>2. PICK sp, kl, ns, wr :
        /\ sp = [s \in Streams |-> NewSplitter] /\ kl = [s \in Streams |-> 0]
        /\ ns = NewNumbers /\ wr = [s \in Streams |-> <<>>]
  OBVIOUS
<1>3. r = [redact |-> redact, fails |-> fails, stopped |-> FALSE, order |-> <<>>,
           splitter |-> sp, key_lines |-> kl, numbers |-> ns, written |-> wr, observed |-> wr,
           analysis |-> a]
  BY <1>1, <1>2, Zenon DEF NewRecording
<1>4. r = [x \in RecFields |-> r[x]]
  BY <1>3 DEF RecFields
<1>5. Shaped(r)
  BY <1>4, Zenon DEF Shaped
<1>6. a = [x \in AggFields |-> a[x]]
  BY <1>1 DEF NewAggregator, AggFields
<1>7. r.analysis = a /\ r.splitter = sp /\ r.order = <<>> /\ r.redact = redact /\ r.fails = fails
  BY <1>3
<1>8. SameStats(r.analysis, r.analysis)
  BY <1>6, <1>7, Zenon DEF SameStats
<1>9. sp \in [Streams -> Splitter]
  BY <1>2, NewSplitterTyped
<1>10. r.order \in Seq(Streams)
  BY <1>7
<1> QED
  BY <1>5, <1>7, <1>8, <1>9, <1>10, Zenon DEF Like, Splitting

-----------------------------------------------------------------------------
(* What is read goes on where it was left.                                  *)

\* The bytes of a stream.
LEMMA Bytestream ==
  ASSUME TypeOK, NEW n \in 1..Len(inputs)
  PROVE  inputs[n].stream \in Streams /\ inputs[n].bytes \in Seq(Byte)
<1> DEFINE Given == [stream : Streams, bytes : Seq([kind : STRING, value : Nat])]
<1>1. inputs \in Seq(Given)
  BY DEF TypeOK
<1>2. inputs[n] \in Given
  <2> HIDE DEF Given
  <2> QED
    BY <1>1
<1>3. PICK b, B : b = inputs[n].bytes /\ B = [kind : STRING, value : Nat] /\ b \in Seq(B)
  BY <1>2
<1>4. B \subseteq Byte
  BY <1>3 DEF Byte, ByteKinds
<1>5. PICK C : C = Byte /\ B \subseteq C
  BY <1>4
<1>6. b \in Seq(C)
  <2>1. b \in Seq(B)
    BY <1>3
  <2>2. B \subseteq C
    BY <1>5
  <2> QED
    BY <2>1, <2>2, Larger
<1> QED
  BY <1>2, <1>3, <1>5, <1>6

\* All of a sequence, and none of it.
LEMMA AllOrNone ==
  ASSUME NEW S, NEW s \in Seq(S)
  PROVE  SubSeq(s, 1, Len(s)) = s /\ SubSeq(s, 1, 0) = <<>>
<1>1. PICK u : u = SubSeq(s, 1, Len(s))
  OBVIOUS
<1>2. u \in Seq(S) /\ Len(u) = Len(s) /\ \A i \in 1..Len(s) : u[i] = s[i]
  BY <1>1
<1>3. u = s
  BY <1>2, SameSeq
<1>4. SubSeq(s, 1, 0) = <<>>
  OBVIOUS
<1> QED
  BY <1>1, <1>3, <1>4

\* A stretch that goes on where another ended.
LEMMA GoesOn ==
  ASSUME NEW S, NEW s \in Seq(S), NEW a \in Nat, NEW b \in Nat, a <= b, b <= Len(s)
  PROVE  SubSeq(s, 0 + 1, b) = SubSeq(s, 0 + 1, a) \o SubSeq(s, a + 1, b)
<1>1. PICK one : one = 1
  OBVIOUS
<1>2. PICK w, c, d, x, a1 : /\ w = SubSeq(s, one, b) /\ c = SubSeq(s, one, a) /\ a1 = a + 1
                            /\ d = SubSeq(s, a1, b) /\ x = c \o d
  OBVIOUS
<1>3. one \in Int /\ a \in Int /\ b \in Int /\ a1 \in Int /\ 1 <= one /\ 1 <= a1 /\ a <= Len(s)
  BY <1>1, <1>2
<1>4. w \in Seq(S) /\ Len(w) = (IF one <= b THEN b - one + 1 ELSE 0)
      /\ \A i \in 1..(b - one + 1) : w[i] = s[one + i - 1]
  <2>1. w = SubSeq(s, one, b)
    BY <1>2
  <2>2. one \in Int /\ b \in Int /\ 1 <= one /\ b <= Len(s)
    BY <1>3
  <2> QED
    BY <2>1, <2>2, SubIs
<1>5. c \in Seq(S) /\ Len(c) = (IF one <= a THEN a - one + 1 ELSE 0)
      /\ \A i \in 1..(a - one + 1) : c[i] = s[one + i - 1]
  <2>1. c = SubSeq(s, one, a)
    BY <1>2
  <2>2. one \in Int /\ a \in Int /\ 1 <= one /\ a <= Len(s)
    BY <1>3
  <2> QED
    BY <2>1, <2>2, SubIs
<1>6. d \in Seq(S) /\ Len(d) = (IF a1 <= b THEN b - a1 + 1 ELSE 0)
      /\ \A i \in 1..(b - a1 + 1) : d[i] = s[a1 + i - 1]
  <2>1. d = SubSeq(s, a1, b)
    BY <1>2
  <2>2. a1 \in Int /\ b \in Int /\ 1 <= a1 /\ b <= Len(s)
    BY <1>3
  <2> QED
    BY <2>1, <2>2, SubIs
<1>7. Len(w) = b /\ Len(c) = a /\ Len(d) = b - a
  BY <1>1, <1>2, <1>4, <1>5, <1>6
<1>8. /\ x \in Seq(S) /\ Len(x) = Len(c) + Len(d)
      /\ \A i \in 1..Len(c) : x[i] = c[i]
      /\ \A i \in 1..Len(d) : x[Len(c) + i] = d[i]
  <2>1. c \in Seq(S)
    BY <1>5
  <2>2. d \in Seq(S)
    BY <1>6
  <2>3. x = c \o d
    BY <1>2
  <2> QED
    BY <2>1, <2>2, <2>3, JoinIs
<1>9. Len(x) = b
  BY <1>7, <1>8
<1>10. ASSUME NEW i \in 1..b PROVE w[i] = x[i]
  <2>1. w[i] = s[i]
    <3>1. i \in 1..(b - one + 1) /\ one + i - 1 = i
      BY <1>1
    <3> QED
      BY <1>4, <3>1
  <2>2. CASE i <= a
    <3>1. i \in 1..(a - one + 1) /\ one + i - 1 = i /\ i \in 1..Len(c)
      BY <1>1, <1>7, <2>2
    <3> QED
      BY <1>5, <1>8, <2>1, <3>1
  <2>3. CASE i > a
    <3>1. PICK j : j = i - a
      OBVIOUS
    <3>2. j \in 1..(b - a1 + 1) /\ a1 + j - 1 = i /\ j \in 1..Len(d) /\ Len(c) + j = i
      BY <1>2, <1>7, <2>3, <3>1
    <3> QED
      BY <1>6, <1>8, <2>1, <3>2
  <2> QED
    BY <2>2, <2>3
<1>11. w = x
  BY <1>4, <1>7, <1>8, <1>9, <1>10, SameSeq
<1> QED
  BY <1>1, <1>2, <1>11

LEMMA ReadTyped ==
  ASSUME TypeOK, fed <= Size(nth)
  PROVE  /\ Len(inputs) \in Nat /\ DOMAIN inputs = 1..Len(inputs) /\ nth \in 1..Len(inputs)
         /\ OfStreams(inputs, ReadOf, Len(inputs))
         /\ Splitting(Whole)
<1>1. Len(inputs) \in Nat /\ DOMAIN inputs = 1..Len(inputs) /\ nth \in 1..Len(inputs) /\ fed \in Nat
  BY DEF TypeOK
<1>2. ASSUME NEW k \in 1..Len(inputs)
      PROVE  inputs[k].stream \in Streams /\ ReadOf[k] \in Seq(Byte)
  <2>1. ReadOf[k] = FedOf(k)
    BY <1>1 DEF ReadOf
  <2>2. CASE k < nth
    BY <2>1, <2>2, Bytestream DEF FedOf
  <2>3. CASE k = nth
    <3>1. PICK z \in Nat : z = 0
      OBVIOUS
    <3>2. Bytes(nth, z, fed) \in Seq(Byte)
      BY <1>1, Stretch
    <3> QED
      BY <2>1, <2>3, <3>1, <3>2, Bytestream DEF FedOf
  <2>4. CASE k > nth
    BY <1>1, <2>1, <2>4, Bytestream DEF FedOf
  <2> QED
    BY <1>1, <2>2, <2>3, <2>4
<1>3. PICK read : read = ReadOf
  OBVIOUS
<1>4. OfStreams(inputs, read, Len(inputs))
  BY <1>2, <1>3 DEF OfStreams
<1>5. PICK new : new = NewRecording(rec.redact, rec.fails, RNG)
  OBVIOUS
<1>6. Splitting(new)
  BY <1>5, NewLike, SMTT(20)
<1>7. PICK n \in Nat : n = Len(inputs)
  BY <1>1
<1>8. PICK h : Pieces(h, new, inputs, read, n) /\ InOnePiece(new, inputs, read) = h[n]
  BY <1>1, <1>7, PiecesAre
<1>9. Splitting(h[n])
  <2>1. n \in 0..n
    OBVIOUS
  <2> QED
    BY <1>4, <1>6, <1>7, <1>8, <2>1, PiecesOk
<1> QED
  BY <1>1, <1>3, <1>4, <1>5, <1>8, <1>9 DEF Whole

LEMMA WholeGrows ==
  ASSUME TypeOK, fed <= Size(nth), UNCHANGED <<inputs, nth>>, NEW to \in Nat, fed' = to,
         fed < to, to <= Size(nth), rec'.redact = rec.redact, rec'.fails = rec.fails
  PROVE  Whole' = Chunk(Whole, inputs[nth].stream, Bytes(nth, fed, to))
<1>1. PICK new, read, more, n, d : /\ new = NewRecording(rec.redact, rec.fails, RNG)
                                   /\ read = ReadOf /\ more = ReadOf' /\ n = Len(inputs)
                                   /\ d = Bytes(nth, fed, to)
  OBVIOUS
<1>2. n \in Nat /\ DOMAIN inputs = 1..n /\ nth \in 1..n /\ OfStreams(inputs, read, n) /\ fed \in Nat
  BY <1>1, ReadTyped DEF TypeOK
<1>3. PICK b, B : b = inputs[nth].bytes /\ B = Byte /\ b \in Seq(B) /\ Size(nth) = Len(b)
  BY <1>1, <1>2, Bytestream DEF Size
<1>4. Splitting(new)
  BY <1>1, NewLike
<1>5. d \in Seq(Byte) /\ d # <<>>
  <2>1. d \in Seq(Byte)
    BY <1>1, <1>2, Stretch
  <2>2. PICK a1 : a1 = fed + 1
    OBVIOUS
  <2>3. a1 \in Int /\ to \in Int /\ 1 <= a1 /\ to <= Len(b) /\ a1 <= to
    BY <1>2, <1>3, <2>2
  <2>4. d = SubSeq(b, a1, to)
    BY <1>1, <1>3, <2>2 DEF Bytes
  <2>5. Len(d) = IF a1 <= to THEN to - a1 + 1 ELSE 0
    BY <1>3, <2>3, <2>4, SubIs
  <2>6. Len(d) > 0
    BY <2>3, <2>5
  <2> QED
    BY <2>1, <2>6
<1>6. ASSUME NEW k \in 1..n
      PROVE  /\ read[k] = FedOf(k)
             /\ more[k] = IF k < nth THEN inputs[k].bytes ELSE IF k = nth THEN Bytes(nth, 0, to) ELSE <<>>
  BY <1>1, <1>2 DEF ReadOf, FedOf, Bytes
<1>7. more[nth] = read[nth] \o d
  <2>1. SubSeq(b, 0 + 1, to) = SubSeq(b, 0 + 1, fed) \o SubSeq(b, fed + 1, to)
    BY <1>2, <1>3, GoesOn
  <2>2. read[nth] = Bytes(nth, 0, fed) /\ more[nth] = Bytes(nth, 0, to)
    BY <1>2, <1>6 DEF FedOf
  <2> QED
    BY <1>1, <1>3, <2>1, <2>2 DEF Bytes
<1>8. \A k \in 1..n : k # nth => more[k] = read[k]
  BY <1>6 DEF FedOf
<1>9. \A k \in 1..n : k > nth => read[k] = <<>>
  BY <1>2, <1>6 DEF FedOf
<1>10. InOnePiece(new, inputs, more) = Chunk(InOnePiece(new, inputs, read), inputs[nth].stream, d)
  <2>1. GrowsBy(read, more, n, nth, d)
    BY <1>7, <1>8, <1>9 DEF GrowsBy
  <2> QED
    BY <1>2, <1>4, <1>5, <2>1, PiecesGrow
<1>11. Whole' = InOnePiece(new, inputs, more)
  BY <1>1 DEF Whole
<1> QED
  BY <1>1, <1>10, <1>11 DEF Whole

LEMMA GapsTaken ==
  ASSUME TypeOK, Alone, Streamed, NoGaps, ReadChunk \/ ReadEof \/ ReadFails
  PROVE  NoGaps'
<1>1. UNCHANGED <<queue, main, fed>>
  BY Taking
<1>2. hand'.msg = "Chunk" => hand'.from < hand'.to
  <2>1. CASE ReadChunk
    <3>1. PICK n \in 1..Min({CHUNK_BYTES, Size(1) - at}) :
            hand' = [msg |-> "Chunk", from |-> at, to |-> at + n]
      BY <2>1 DEF ReadChunk, Take
    <3>2. at \in Nat
      BY DEF TypeOK
    <3>3. n \in Int /\ n >= 1
      <4>1. n \in Int /\ Min({CHUNK_BYTES, Size(1) - at}) = Min({CHUNK_BYTES, Size(1) - at})
        OBVIOUS
      <4> QED
        BY <3>1
    <3> QED
      BY <3>1, <3>2, <3>3
  <2>2. CASE ReadEof \/ ReadFails
    BY <2>2 DEF ReadEof, ReadFails, Take
  <2> QED
    BY <2>1, <2>2
<1> QED
  BY <1>1, <1>2 DEF NoGaps

LEMMA GapsSent ==
  ASSUME TypeOK, Alone, Streamed, NoGaps, Send
  PROVE  NoGaps'
<1>1. /\ reader = "sending" /\ hand' = NoMessage /\ main' = main /\ fed' = fed
      /\ queue' = IF main = "receiving" THEN Append(queue, hand) ELSE queue
  BY DEF Send
<1>2. hand'.msg # "Chunk"
  BY <1>1 DEF NoMessage
<1>3. CASE main # "receiving"
  BY <1>1, <1>2, <1>3 DEF NoGaps
<1>4. CASE main = "receiving"
  <2>1. ~ dir
    BY <1>1 DEF Alone
  <2>2. Reading /\ InOrder /\ Closed
    BY <2>1 DEF Streamed
  <2>3. hand \in Message /\ queue' = Append(queue, hand)
    BY <1>1, <1>4, <2>2 DEF TypeOK, Reading
  <2>4. /\ Len(queue') = Len(queue) + 1 /\ Len(queue) \in Nat
        /\ DOMAIN queue = 1..Len(queue) /\ DOMAIN queue' = 1..Len(queue')
        /\ \A i \in DOMAIN queue : queue'[i] = queue[i]
        /\ queue'[Len(queue) + 1] = hand
    BY <2>3, QueueAppend
  <2>5. ASSUME NEW i \in DOMAIN queue', queue'[i].msg = "Chunk"
        PROVE  /\ queue'[i].from < queue'[i].to
               /\ \/ queue'[i].from = fed
                  \/ \E j \in 1..(i - 1) : queue'[j].msg = "Chunk" /\ queue'[j].to = queue'[i].from
    <3>1. CASE i \in DOMAIN queue
      <4>1. queue'[i] = queue[i]
        BY <2>4, <3>1
      <4>2. /\ queue[i].from < queue[i].to
            /\ \/ queue[i].from = fed
               \/ \E j \in 1..(i - 1) : queue[j].msg = "Chunk" /\ queue[j].to = queue[i].from
        BY <1>4, <2>5, <3>1, <4>1 DEF NoGaps
      <4>3. \A j \in 1..(i - 1) : queue'[j] = queue[j]
        BY <2>4, <3>1
      <4> QED
        BY <4>1, <4>2, <4>3
    <3>2. CASE i = Len(queue) + 1
      <4>1. queue'[i] = hand /\ hand.msg = "Chunk" /\ Sent = hand.from
        BY <2>4, <2>5, <3>2 DEF Sent
      <4>2. hand.from < hand.to
        BY <4>1 DEF NoGaps
      <4>3. fed <= Sent /\ Covered(Len(queue) + 1, Sent)
        BY <1>4, <2>2 DEF Closed
      <4>4. fed \in Nat /\ Sent \in Nat
        BY <2>2, SentIsRead DEF TypeOK
      <4>5. CASE fed >= Sent
        BY <4>1, <4>2, <4>3, <4>4, <4>5
      <4>6. CASE ~ fed >= Sent
        <5>1. PICK j \in 1..Len(queue) : queue[j].msg = "Chunk" /\ queue[j].to >= Sent
          BY <2>4, <4>3, <4>6 DEF Covered
        <5>2. j \in DOMAIN queue /\ queue'[j] = queue[j] /\ j \in 1..(i - 1)
          BY <2>4, <3>2, <5>1
        <5>3. queue[j].to <= Sent /\ queue[j].to \in Nat
          BY <2>2, <5>1, <5>2, QueueTyped DEF InOrder
        <5>4. queue[j].to = Sent
          BY <4>4, <5>1, <5>3
        <5> QED
          BY <4>1, <4>2, <5>1, <5>2, <5>4
      <4> QED
        BY <4>5, <4>6
    <3> QED
      BY <2>4, <3>1, <3>2
  <2> QED
    BY <1>1, <1>2, <2>5 DEF NoGaps
<1> QED
  BY <1>3, <1>4

LEMMA GapsWoken ==
  ASSUME TypeOK, NoGaps, NEW sig \in Signals, Wake(sig)
  PROVE  NoGaps'
<1>1. /\ main' = main /\ fed' = fed /\ hand' = hand
      /\ queue' = Append(queue, [msg |-> "Interrupted", from |-> at, to |-> at])
  BY DEF Wake, reading
<1>2. PICK m : m = [msg |-> "Interrupted", from |-> at, to |-> at]
  OBVIOUS
<1>3. m \in Message /\ m.msg # "Chunk"
  BY <1>2 DEF TypeOK, Message
<1>4. /\ Len(queue') = Len(queue) + 1 /\ Len(queue) \in Nat
      /\ DOMAIN queue = 1..Len(queue) /\ DOMAIN queue' = 1..Len(queue')
      /\ \A i \in DOMAIN queue : queue'[i] = queue[i]
      /\ queue'[Len(queue) + 1] = m
  BY <1>1, <1>2, <1>3, QueueAppend
<1>5. ASSUME NEW i \in DOMAIN queue', queue'[i].msg = "Chunk", main = "receiving"
      PROVE  /\ queue'[i].from < queue'[i].to
             /\ \/ queue'[i].from = fed
                \/ \E j \in 1..(i - 1) : queue'[j].msg = "Chunk" /\ queue'[j].to = queue'[i].from
  <2>1. i \in DOMAIN queue /\ queue'[i] = queue[i]
    BY <1>3, <1>4, <1>5
  <2>2. /\ queue[i].from < queue[i].to
        /\ \/ queue[i].from = fed
           \/ \E j \in 1..(i - 1) : queue[j].msg = "Chunk" /\ queue[j].to = queue[i].from
    BY <1>5, <2>1 DEF NoGaps
  <2>3. \A j \in 1..(i - 1) : queue'[j] = queue[j]
    BY <1>4, <2>1
  <2> QED
    BY <2>1, <2>2, <2>3
<1> QED
  BY <1>1, <1>5 DEF NoGaps

\* The first message of the queue goes on where the recording is.
LEMMA HeadIsNext ==
  ASSUME TypeOK, Alone, Streamed, NoGaps, ReceiveChunk
  PROVE  /\ ~ dir /\ nth = 1
         /\ Head(queue).from = fed /\ Head(queue).to \in Nat
         /\ fed < Head(queue).to /\ Head(queue).to <= Size(1)
<1>1. main = "receiving" /\ queue # <<>> /\ Head(queue).msg = "Chunk" /\ queue' = Tail(queue)
  BY Feeding
<1>2. ~ dir
  BY <1>1 DEF Alone
<1>3. Reading /\ InOrder
  BY <1>2 DEF Streamed
<1>4. 1 \in DOMAIN queue /\ Head(queue) = queue[1]
  BY <1>1, QueueTail
<1>5. queue[1].from = fed /\ queue[1].from < queue[1].to
  BY <1>1, <1>4 DEF NoGaps
<1>6. queue[1].to <= Sent /\ queue[1].to \in Nat
  BY <1>1, <1>3, <1>4, QueueTyped DEF InOrder
<1>7. Sent \in Nat /\ Sent <= at /\ at \in Nat /\ at <= Size(1) /\ Size(1) \in Nat /\ nth = 1
  BY <1>2, <1>3, SentIsRead, OneStream DEF TypeOK, Reading
<1> QED
  BY <1>2, <1>4, <1>5, <1>6, <1>7

LEMMA GapsFed ==
  ASSUME TypeOK, Alone, Streamed, NoGaps, ReceiveChunk
  PROVE  NoGaps'
<1>1. /\ main = "receiving" /\ queue # <<>> /\ Head(queue).msg = "Chunk"
      /\ queue' = Tail(queue) /\ fed' = Head(queue).to /\ hand' = hand
  BY Feeding DEF reading
<1>2. /\ 1 \in DOMAIN queue /\ Head(queue) = queue[1] /\ DOMAIN queue = 1..Len(queue)
      /\ Len(queue') = Len(queue) - 1 /\ Len(queue) \in Nat
      /\ \A i \in DOMAIN queue' : i + 1 \in DOMAIN queue /\ queue'[i] = queue[i + 1]
      /\ DOMAIN queue' = 1..Len(queue')
  BY <1>1, QueueTail
<1>3. Head(queue).from = fed /\ fed < Head(queue).to /\ Head(queue).to \in Nat /\ fed \in Nat
  BY HeadIsNext DEF TypeOK
<1>4. InOrder
  BY HeadIsNext DEF Streamed
<1>5. ASSUME NEW i \in DOMAIN queue', queue'[i].msg = "Chunk"
      PROVE  /\ queue'[i].from < queue'[i].to
             /\ \/ queue'[i].from = fed'
                \/ \E j \in 1..(i - 1) : queue'[j].msg = "Chunk" /\ queue'[j].to = queue'[i].from
  <2>1. PICK k : k = i + 1 /\ k \in DOMAIN queue /\ queue'[i] = queue[k] /\ i \in Nat
    BY <1>2
  <2>2. /\ queue[k].from < queue[k].to
        /\ \/ queue[k].from = fed
           \/ \E j \in 1..(k - 1) : queue[j].msg = "Chunk" /\ queue[j].to = queue[k].from
    BY <1>1, <1>5, <2>1 DEF NoGaps
  <2>3. queue[1].to <= queue[k].from /\ queue[k].from \in Nat
    <3>1. 1 \in 1..(k - 1)
      BY <1>2, <1>5, <2>1
    <3> QED
      BY <1>1, <1>2, <1>4, <1>5, <2>1, <3>1, QueueTyped DEF InOrder
  <2>4. PICK j \in 1..(k - 1) : queue[j].msg = "Chunk" /\ queue[j].to = queue[k].from
    BY <1>2, <1>3, <2>2, <2>3
  <2>5. CASE j = 1
    BY <1>1, <1>2, <2>1, <2>2, <2>4, <2>5
  <2>6. CASE j # 1
    <3>1. PICK m : m = j - 1 /\ m \in 1..(i - 1) /\ m + 1 = j
      BY <2>1, <2>4, <2>6
    <3>2. m \in DOMAIN queue'
      BY <1>2, <1>5, <3>1
    <3>3. queue'[m] = queue[j]
      BY <1>2, <3>1, <3>2
    <3> QED
      BY <2>1, <2>2, <2>4, <3>1, <3>3
  <2> QED
    BY <2>5, <2>6
<1> QED
  BY <1>1, <1>5 DEF NoGaps

LEMMA InitGaps == Init => NoGaps
  BY DEF Init, NoGaps, NoMessage

LEMMA NextGaps == IInv /\ NoGaps /\ [Next]_vars => NoGaps'
<1> SUFFICES ASSUME IInv, NoGaps, [Next]_vars PROVE NoGaps'
  OBVIOUS
<1>1. TypeOK /\ Alone /\ Streamed
  BY DEF IInv
<1>2. CASE UNCHANGED <<hand, queue, fed>> /\ (main' = "receiving" => main = "receiving")
  BY <1>2 DEF NoGaps
<1>3. CASE hand' = hand /\ main' # "receiving"
  BY <1>3 DEF NoGaps
<1>4. CASE ReadChunk \/ ReadEof \/ ReadFails
  BY <1>1, <1>4, GapsTaken
<1>5. CASE Send
  BY <1>1, <1>5, GapsSent
<1>6. CASE \E sig \in Signals : Wake(sig)
  BY <1>1, <1>6, GapsWoken
<1>7. CASE ReceiveChunk
  BY <1>1, <1>7, GapsFed
<1>8. CASE ReplayChunk \/ ReplayNext \/ ReplayFails
  <2>1. main' # "receiving" /\ hand' = hand
    BY <1>1, <1>8, Replaying DEF reading
  <2> QED
    BY <1>3, <2>1
<1>9. CASE ShowLast
  <2>1. main' # "receiving" /\ hand' = hand
    BY <1>9, Showing DEF reading
  <2> QED
    BY <1>3, <2>1
<1>10. CASE ReceiveEnd \/ ReceiveFailed \/ CheckFlag \/ FinishRun \/ Report
  <2>1. main' # "receiving" /\ hand' = hand
    BY <1>10 DEF ReceiveEnd, ReceiveFailed, CheckFlag, FinishRun, Report, reading
  <2> QED
    BY <1>3, <2>1
<1>11. CASE (\E sig \in Signals : Signal(sig)) \/ (\E sig \in Signals : Abort(sig)) \/ UNCHANGED vars
  <2>1. UNCHANGED <<hand, queue, fed>> /\ (main' = "receiving" => main = "receiving")
    BY <1>11 DEF Signal, Abort, reading, vars
  <2> QED
    BY <1>2, <2>1
<1> QED
  BY <1>4, <1>5, <1>6, <1>7, <1>8, <1>9, <1>10, <1>11, Steps

-----------------------------------------------------------------------------
(* The recording, whole.                                                    *)

\* Where a stream is fed, it is fed no further than its end.
LEMMA FedWithin ==
  ASSUME TypeOK, Alone, Streamed
  PROVE  fed <= Size(nth)
<1>1. CASE dir
  BY <1>1 DEF Alone
<1>2. CASE ~ dir
  <2>1. Reading /\ Closed
    BY <1>2 DEF Streamed
  <2>2. /\ Sent \in Nat /\ Sent <= at /\ at \in Nat /\ at <= Size(1) /\ Size(1) \in Nat
        /\ nth = 1 /\ fed \in Nat /\ fed <= Sent
    BY <1>2, <2>1, SentIsRead, OneStream DEF TypeOK, Reading, Closed
  <2> QED
    BY <2>2
<1> QED
  BY <1>1, <1>2

LEMMA InitWhole == Init => AsWhole
<1> SUFFICES ASSUME Init PROVE AsWhole
  OBVIOUS
<1>1. PICK input \in Inputs : rec = NewRecording(input.redact, input.fails, RNG) /\ inputs = input.streams
  BY DEF Init
<1>2. nth = 1 /\ fed = 0 /\ run = "recording" /\ TypeOK
  BY InitIInv DEF Init, IInv
<1>3. Like(rec, rec) /\ Splitting(rec) /\ rec.redact = input.redact /\ rec.fails = input.fails
  BY <1>1, NewLike
<1>4. PICK new : new = NewRecording(rec.redact, rec.fails, RNG) /\ new = rec
  BY <1>1, <1>3
<1>5. PICK n \in Nat : n = Len(inputs) /\ DOMAIN inputs = 1..n
  BY <1>2 DEF TypeOK
<1>6. ASSUME NEW k \in 1..n PROVE ReadOf[k] = <<>>
  <2>1. ReadOf[k] = FedOf(k)
    BY <1>5 DEF ReadOf
  <2>2. CASE k = 1
    <3>1. PICK b, B : b = inputs[k].bytes /\ B = Byte /\ b \in Seq(B)
      BY <1>2, <1>5, Bytestream
    <3>2. FedOf(k) = SubSeq(b, 0 + 1, 0)
      BY <1>2, <2>2, <3>1 DEF FedOf, Bytes
    <3>3. SubSeq(b, 0 + 1, 0) = SubSeq(b, 1, 0)
      OBVIOUS
    <3>4. SubSeq(b, 1, 0) = <<>>
      BY <3>1, AllOrNone
    <3> QED
      BY <2>1, <3>2, <3>3, <3>4
  <2>3. CASE k # 1
    BY <1>2, <2>1, <2>3 DEF FedOf
  <2> QED
    BY <2>2, <2>3
<1>7. PICK read : read = ReadOf
  OBVIOUS
<1>8. PICK h : Pieces(h, new, inputs, read, n) /\ InOnePiece(new, inputs, read) = h[n]
  BY <1>5, PiecesAre
<1> DEFINE K == {k \in 0..n : h[k] = new}
<1>9. 0 \in K
  BY <1>8 DEF Pieces
<1>10. ASSUME NEW k \in 1..n, k - 1 \in K PROVE k \in K
  <2>1. h[k] = PieceStep(inputs, read, h[k - 1], k)
    BY <1>8 DEF Pieces
  <2>2. read[k] = <<>> /\ h[k - 1] = new
    BY <1>6, <1>7, <1>10
  <2> QED
    BY <2>1, <2>2 DEF PieceStep
<1>11. n \in K
  <2> HIDE DEF K
  <2>1. n \in 0..n
    OBVIOUS
  <2> QED
    BY <1>9, <1>10, <2>1, UpTo
<1>12. Whole = rec
  BY <1>4, <1>7, <1>8, <1>11 DEF Whole
<1> QED
  BY <1>2, <1>3, <1>12 DEF AsWhole

\* One more chunk of a stream.
LEMMA ChunkWhole ==
  ASSUME TypeOK, Alone, Streamed, RecOk(rec), Like(rec, Whole), UNCHANGED <<inputs, nth>>,
         NEW to \in Nat, fed' = to, fed < to, to <= Size(nth),
         NEW r, r = Chunk(rec, inputs[nth].stream, Bytes(nth, fed, to)),
         rec' = r \/ rec' = DrainedOf(r)
  PROVE  Like(rec', Whole')
<1>1. fed <= Size(nth) /\ fed \in Nat
  BY FedWithin DEF TypeOK
<1>2. /\ Len(inputs) \in Nat /\ DOMAIN inputs = 1..Len(inputs) /\ nth \in 1..Len(inputs)
      /\ Splitting(Whole)
  BY <1>1, ReadTyped
<1>3. PICK w, s, d : w = Whole /\ s = inputs[nth].stream /\ d = Bytes(nth, fed, to)
  OBVIOUS
<1>4. s \in Streams /\ d \in Seq(Byte)
  BY <1>1, <1>2, <1>3, Stretch
<1>5. Like(rec, w)
  BY <1>3
<1>6. Splitting(rec)
  <2>1. Shaped(rec)
    BY <1>5, Zenon DEF Like
  <2> QED
    BY <2>1 DEF Splitting, RecOk
<1>7. Like(r, Chunk(w, s, d))
  BY <1>3, <1>4, <1>5, <1>6, ChunkLike
<1>8. Like(DrainedOf(r), Chunk(w, s, d))
  BY <1>7, LikeDrained
<1>9. r.redact = rec.redact /\ r.fails = rec.fails
  BY <1>3, <1>4, <1>6, ChunkKeeps
<1>10. DrainedOf(r).redact = rec.redact /\ DrainedOf(r).fails = rec.fails
  <2>1. PICK c : c = Chunk(w, s, d)
    OBVIOUS
  <2>2. r.redact = c.redact /\ r.fails = c.fails
    BY <1>7, <2>1, Zenon DEF Like
  <2>3. DrainedOf(r).redact = c.redact /\ DrainedOf(r).fails = c.fails
    BY <1>8, <2>1, Zenon DEF Like
  <2> QED
    BY <1>9, <2>2, <2>3
<1>11. rec'.redact = rec.redact /\ rec'.fails = rec.fails
  BY <1>9, <1>10
<1>12. Whole' = Chunk(w, s, d)
  BY <1>1, <1>3, <1>11, WholeGrows
<1> QED
  BY <1>7, <1>8, <1>12

\* What is shown of a recording, or nothing.
LEMMA DrainIs ==
  ASSUME NEW r, NEW next, Drain(r, next)
  PROVE  rec' = DrainedOf(r)
BY DEF Drain

\* Going to the next stream.
LEMMA WholeSame ==
  ASSUME TypeOK, Alone, Streamed, ReplayNext
  PROVE  Whole' = Whole
<1>1. /\ rec' = rec /\ inputs' = inputs /\ fed = Size(nth)
      /\ \/ nth < Len(inputs) /\ nth' = nth + 1 /\ fed' = 0
         \/ nth' = nth /\ fed' = fed
  BY DEF ReplayNext, given
<1>2. /\ Len(inputs) \in Nat /\ DOMAIN inputs = 1..Len(inputs) /\ nth \in 1..Len(inputs)
      /\ fed \in Nat
  BY DEF TypeOK
<1>3. CASE nth' = nth /\ fed' = fed
  BY <1>1, <1>3 DEF Whole, ReadOf, FedOf, Bytes
<1>4. CASE nth < Len(inputs) /\ nth' = nth + 1 /\ fed' = 0
  <2>1. ASSUME NEW k \in 1..Len(inputs) PROVE FedOf(k)' = FedOf(k)
    <3>1. FedOf(k)' = IF k < nth + 1 THEN inputs[k].bytes
                      ELSE IF k = nth + 1 THEN SubSeq(inputs[k].bytes, 0 + 1, 0) ELSE <<>>
      BY <1>1, <1>4 DEF FedOf, Bytes
    <3>2. PICK b, B : b = inputs[k].bytes /\ B = Byte /\ b \in Seq(B)
      BY <2>1, Bytestream
    <3>3. SubSeq(b, 1, Len(b)) = b /\ SubSeq(b, 1, 0) = <<>>
      BY <3>2, AllOrNone
    <3>4. SubSeq(b, 0 + 1, Len(b)) = b /\ SubSeq(b, 0 + 1, 0) = <<>>
      <4>1. 0 + 1 = 1
        OBVIOUS
      <4> QED
        BY <3>3, <4>1
    <3>5. CASE k < nth
      BY <1>2, <3>1, <3>5 DEF FedOf
    <3>6. CASE k = nth
      <4>1. FedOf(k) = SubSeq(b, 0 + 1, Len(b))
        BY <1>1, <3>2, <3>6 DEF FedOf, Bytes, Size
      <4>2. FedOf(k)' = b
        BY <1>2, <3>1, <3>2, <3>6
      <4> QED
        BY <3>4, <4>1, <4>2
    <3>7. CASE k = nth + 1
      <4>1. FedOf(k) = <<>>
        BY <1>2, <3>7 DEF FedOf
      <4>2. FedOf(k)' = <<>>
        BY <1>2, <3>1, <3>2, <3>4, <3>7
      <4> QED
        BY <4>1, <4>2
    <3>8. CASE k > nth + 1
      BY <1>2, <3>1, <3>8 DEF FedOf
    <3> QED
      BY <1>2, <3>5, <3>6, <3>7, <3>8
  <2>2. ReadOf' = ReadOf
    BY <1>1, <1>2, <2>1 DEF ReadOf
  <2> QED
    BY <1>1, <2>2 DEF Whole
<1> QED
  BY <1>1, <1>3, <1>4

\* What is like a recording splits the same streams.
LEMMA LikeSplits ==
  ASSUME NEW r, NEW q, Like(r, q), RecOk(r)
  PROVE  Splitting(r) /\ r.redact = q.redact /\ r.fails = q.fails
<1>1. Shaped(r) /\ r.redact = q.redact /\ r.fails = q.fails
  BY Zenon DEF Like
<1> QED
  BY <1>1 DEF Splitting, RecOk

\* A recording is finished like the whole, whether its last lines were shown or not.
LEMMA FinishedAlike ==
  ASSUME NEW r, NEW w, RecOk(r), Splitting(w), Like(r, w) \/ Like(r, Flush(w))
  PROVE  /\ Like(Finish(r), Finish(w)) /\ r.redact = w.redact /\ r.fails = w.fails
         /\ Finish(r).redact = r.redact /\ Finish(r).fails = r.fails
<1>1. CASE Like(r, w)
  BY <1>1, LikeSplits, FinishLike
<1>2. CASE Like(r, Flush(w))
  <2>1. PICK f : f = Flush(w)
    OBVIOUS
  <2>2. Splitting(r) /\ r.redact = f.redact /\ r.fails = f.fails
    BY <1>2, <2>1, LikeSplits
  <2>3. Like(Finish(r), Finish(f)) /\ Finish(r).redact = r.redact /\ Finish(r).fails = r.fails
    BY <1>2, <2>1, <2>2, FinishLike
  <2>4. Finish(f) = Finish(w)
    BY <2>1, FinishFlushed
  <2>5. f.redact = w.redact /\ f.fails = w.fails
    BY <2>1, FlushKeeps
  <2> QED
    BY <2>2, <2>3, <2>4, <2>5
<1> QED
  BY <1>1, <1>2

\* What a step that records nothing leaves as it is.
LEMMA Apart ==
  ASSUME IInv, [Next]_vars
  PROVE  \/ ReceiveChunk \/ ShowLast \/ ReplayChunk \/ ReplayNext \/ FinishRun
         \/ /\ UNCHANGED <<inputs, nth, fed, rec, run>>
            /\ main' \in {"receiving", "replaying"} => main' = main
            /\ main' = "ended" => main \in {"receiving", "ended"}
BY DEF Next, ReadChunk, ReadEof, ReadFails, Take, Send, Signal, Watch, Wake, Abort, Main,
       ReceiveEnd, Received, ReceiveFailed, CheckFlag, ReplayFails, Report, Exited, vars, given

LEMMA NextWhole == IInv /\ Hidden /\ NoGaps /\ AsWhole /\ [Next]_vars => AsWhole'
<1> SUFFICES ASSUME IInv, Hidden, NoGaps, AsWhole, [Next]_vars PROVE AsWhole'
  OBVIOUS
<1>1. RecOk(rec) /\ TypeOK /\ Alone /\ Streamed /\ (run # "recording" => main \in {"reporting", "exited"})
  BY DEF Hidden, IInv, Ended
<1>2. Splitting(Whole)
  BY <1>1, FedWithin, ReadTyped
<1>3. CASE UNCHANGED <<inputs, nth, fed, rec, run>>
           /\ (main' \in {"receiving", "replaying"} => main' = main)
           /\ (main' = "ended" => main \in {"receiving", "ended"})
  <2>1. Whole' = Whole
    BY <1>3 DEF Whole, ReadOf, FedOf, Bytes
  <2> QED
    BY <1>3, <2>1 DEF AsWhole
<1>4. CASE ReceiveChunk
  <2>1. main = "receiving" /\ UNCHANGED <<inputs, nth, run>> /\ fed' = Head(queue).to
    BY <1>4, Feeding DEF given
  <2>2. /\ nth = 1 /\ Head(queue).from = fed /\ Head(queue).to \in Nat
        /\ fed < Head(queue).to /\ Head(queue).to <= Size(1)
    BY <1>1, <1>4, HeadIsNext
  <2>3. PICK to \in Nat : to = Head(queue).to /\ fed' = to /\ fed < to /\ to <= Size(nth)
    BY <2>1, <2>2
  <2>4. PICK r : r = Chunk(rec, inputs[nth].stream, Bytes(nth, fed, to))
    OBVIOUS
  <2>5. r = Chunk(rec, inputs[1].stream, Bytes(1, Head(queue).from, Head(queue).to))
    BY <2>2, <2>3, <2>4
  <2>6. Drain(r, "receiving") \/ rec' = r
    BY <1>4, <2>5, Zenon DEF ReceiveChunk
  <2>7. rec' = r \/ rec' = DrainedOf(r)
    BY <2>6, DrainIs
  <2>8. run = "recording" /\ Like(rec, Whole)
    BY <1>1, <2>1 DEF AsWhole
  <2>9. Like(rec', Whole')
    BY <1>1, <2>1, <2>3, <2>4, <2>7, <2>8, ChunkWhole
  <2> QED
    BY <2>1, <2>8, <2>9 DEF AsWhole
<1>5. CASE ReplayChunk
  <2>1. PICK n \in 1..Min({CHUNK_BYTES, Size(nth) - fed}) :
          rec' = Chunk(rec, inputs[nth].stream, Bytes(nth, fed, fed + n)) /\ fed' = fed + n
    BY <1>5 DEF ReplayChunk
  <2>2. /\ main = "replaying" /\ UNCHANGED <<inputs, nth, run>>
        /\ fed' \in Nat /\ fed' <= Size(nth')
    BY <1>1, <1>5, Replaying DEF ReplayChunk, given
  <2>3. fed \in Nat /\ n >= 1 /\ n \in Int
    BY <1>1 DEF TypeOK
  <2>4. PICK to \in Nat : to = fed + n /\ fed' = to /\ fed < to /\ to <= Size(nth)
    BY <2>1, <2>2, <2>3
  <2>5. PICK r : r = Chunk(rec, inputs[nth].stream, Bytes(nth, fed, to)) /\ rec' = r
    BY <2>1, <2>4
  <2>6. run = "recording" /\ Like(rec, Whole)
    BY <1>1, <2>2 DEF AsWhole
  <2>7. Like(rec', Whole')
    BY <1>1, <2>2, <2>4, <2>5, <2>6, ChunkWhole
  <2> QED
    BY <2>2, <2>6, <2>7 DEF AsWhole
<1>6. CASE ReplayNext
  <2>1. Whole' = Whole
    BY <1>1, <1>6, WholeSame
  <2>2. rec' = rec /\ run' = run /\ main = "replaying"
    BY <1>6 DEF ReplayNext
  <2>3. Like(rec, Whole) /\ run = "recording"
    BY <1>1, <2>2 DEF AsWhole
  <2> QED
    BY <2>1, <2>2, <2>3 DEF AsWhole
<1>7. CASE ShowLast
  <2>1. /\ main = "ended" /\ main' \in {"checking", "exited"}
        /\ UNCHANGED <<inputs, nth, fed, run>>
    BY <1>7, Showing DEF given
  <2>2. run = "recording" /\ Like(rec, Whole)
    BY <1>1, <2>1 DEF AsWhole
  <2>3. PICK r, w : r = Flush(rec) /\ w = Flush(Whole)
    OBVIOUS
  <2>4. Drain(r, "checking") \/ rec' = rec
    BY <1>7, <2>3, Zenon DEF ShowLast
  <2>5. CASE rec' = rec
    <3>1. Whole' = Whole
      BY <2>1, <2>5 DEF Whole, ReadOf, FedOf, Bytes
    <3> QED
      BY <2>1, <2>2, <2>5, <3>1 DEF AsWhole
  <2>6. CASE Drain(r, "checking")
    <3>1. rec' = DrainedOf(r)
      BY <2>6, DrainIs
    <3>2. Splitting(rec) /\ rec.redact = Whole.redact /\ rec.fails = Whole.fails
      BY <1>1, <2>2, LikeSplits
    <3>3. Like(r, w)
      BY <2>2, <2>3, <3>2, FlushLike
    <3>4. Like(DrainedOf(r), w)
      BY <3>3, LikeDrained
    <3>5. Like(rec', w)
      BY <3>1, <3>4
    <3>6. rec'.redact = w.redact /\ rec'.fails = w.fails
      BY <3>5, Zenon DEF Like
    <3>7. w.redact = Whole.redact /\ w.fails = Whole.fails
      BY <1>2, <2>3, FlushKeeps
    <3>8. Whole' = Whole
      BY <2>1, <3>2, <3>6, <3>7 DEF Whole, ReadOf, FedOf, Bytes
    <3>9. Like(rec', Flush(Whole'))
      BY <2>3, <3>5, <3>8
    <3> QED
      BY <2>1, <2>2, <3>9 DEF AsWhole
  <2> QED
    BY <2>4, <2>5, <2>6
<1>8. CASE FinishRun
  <2>1. /\ rec' = Finish(rec) /\ UNCHANGED <<inputs, nth, fed>>
        /\ run' # "recording" /\ main \in {"finishing", "interrupted"}
    BY <1>8 DEF FinishRun, given
  <2>2. Like(rec, Whole) \/ Like(rec, Flush(Whole))
    BY <1>1, <2>1 DEF AsWhole
  <2>3. PICK w : w = Whole
    OBVIOUS
  <2>4. /\ Like(Finish(rec), Finish(w)) /\ rec.redact = w.redact /\ rec.fails = w.fails
        /\ Finish(rec).redact = rec.redact /\ Finish(rec).fails = rec.fails
    BY <1>1, <1>2, <2>2, <2>3, FinishedAlike
  <2>5. Like(rec', Finish(w)) /\ rec'.redact = rec.redact /\ rec'.fails = rec.fails
    BY <2>1, <2>4
  <2>6. Whole' = w
    BY <2>1, <2>3, <2>5 DEF Whole, ReadOf, FedOf, Bytes
  <2>7. Like(rec', Finish(Whole'))
    BY <2>5, <2>6
  <2> QED
    BY <2>1, <2>7 DEF AsWhole
<1> QED
  BY <1>3, <1>4, <1>5, <1>6, <1>7, <1>8, Apart

\* The recording is that of the whole, in the words of the property.
LEMMA WholeIs == IInv /\ Hidden /\ AsWhole => CutsDontMatter
<1> SUFFICES ASSUME IInv, Hidden, AsWhole PROVE CutsDontMatter
  OBVIOUS
<1>1. RecOk(rec) /\ TypeOK /\ Alone /\ Streamed
  BY DEF Hidden, IInv
<1>2. PICK w : w = Whole /\ Splitting(w)
  BY <1>1, FedWithin, ReadTyped
<1>3. PICK r : r = IF run = "recording" THEN Finish(rec) ELSE rec
  OBVIOUS
<1>4. Like(r, Finish(w))
  <2>1. CASE run = "recording"
    BY <1>1, <1>2, <1>3, <2>1, FinishedAlike DEF AsWhole
  <2>2. CASE run # "recording"
    BY <1>2, <1>3, <2>2 DEF AsWhole
  <2> QED
    BY <2>1, <2>2
<1>5. DrainedOf(r) = DrainedOf(Finish(w))
  BY <1>4, LikeDrained
<1> QED
  BY <1>2, <1>3, <1>5, Zenon DEF CutsDontMatter, Whole, ReadOf

\* However the reads cut what is read into chunks, whichever stream they are of, the
\* recording is the one the whole would have given in one piece: no line is lost, split
\* or joined at a cut, and no number, mask, count or exemplar depends on one.
THEOREM CutsAreNothing == Spec => []CutsDontMatter
<1>1. Init => IInv /\ Hidden /\ NoGaps /\ AsWhole
  BY InitIInv, InitHidden, InitGaps, InitWhole
<1>2. IInv /\ Hidden /\ NoGaps /\ AsWhole /\ [Next]_vars => (IInv /\ Hidden /\ NoGaps /\ AsWhole)'
  BY NextIInv, NextHidden, NextGaps, NextWhole
<1>3. IInv /\ Hidden /\ NoGaps /\ AsWhole => CutsDontMatter
  BY WholeIs
<1> QED
  BY <1>1, <1>2, <1>3, PTL DEF Spec

-----------------------------------------------------------------------------
(* Where the lines of a stream lie.                                         *)

\* One more byte, which may be a newline.
LEMMA NewlinesNext ==
  ASSUME NEW e \in Seq(Nat), NEW c, NEW k \in Nat \ {0}, Newlines(e, c, k - 1),
         NEW f, f = IF c[k] = Newline THEN Append(e, k) ELSE e
  PROVE  Newlines(f, c, k)
<1>1. PICK m : m = Len(e) /\ m \in Nat
  OBVIOUS
<1>2. /\ \A i, j \in 1..m : i < j => e[i] < e[j]
      /\ \A i \in 1..m : e[i] \in 1..(k - 1) /\ c[e[i]] = Newline
      /\ \A p \in 1..(k - 1) : c[p] = Newline => \E i \in 1..m : e[i] = p
  BY <1>1 DEF Newlines
<1>3. CASE c[k] # Newline
  <2>1. f = e
    BY <1>3
  <2>2. \A p \in 1..k : c[p] = Newline => \E i \in 1..m : e[i] = p
    BY <1>2, <1>3
  <2> QED
    BY <1>1, <1>2, <2>1, <2>2 DEF Newlines
<1>4. CASE c[k] = Newline
  <2>1. PICK x : x = k /\ x \in Nat
    OBVIOUS
  <2>2. f = Append(e, x)
    BY <1>4, <2>1
  <2>3. Len(f) = m + 1 /\ f[m + 1] = x /\ \A i \in 1..m : f[i] = e[i]
    BY <1>1, <2>1, <2>2
  <2>4. ASSUME NEW i \in 1..(m + 1), NEW j \in 1..(m + 1), i < j PROVE f[i] < f[j]
    <3>1. i \in 1..m /\ f[i] = e[i] /\ e[i] \in 1..(k - 1)
      BY <1>1, <1>2, <2>3, <2>4
    <3>2. CASE j \in 1..m
      BY <1>2, <2>3, <2>4, <3>1, <3>2
    <3>3. CASE j = m + 1
      BY <2>1, <2>3, <3>1, <3>3
    <3> QED
      BY <1>1, <3>2, <3>3
  <2>5. ASSUME NEW i \in 1..(m + 1) PROVE f[i] \in 1..k /\ c[f[i]] = Newline
    <3>1. CASE i \in 1..m
      BY <1>2, <2>3, <3>1
    <3>2. CASE i = m + 1
      BY <1>4, <2>1, <2>3, <3>2
    <3> QED
      BY <1>1, <3>1, <3>2
  <2>6. ASSUME NEW p \in 1..k, c[p] = Newline PROVE \E i \in 1..(m + 1) : f[i] = p
    <3>1. CASE p = k
      <4>1. m + 1 \in 1..(m + 1)
        BY <1>1
      <4> QED
        BY <2>1, <2>3, <3>1, <4>1
    <3>2. CASE p # k
      <4>1. p \in 1..(k - 1)
        BY <3>2
      <4>2. PICK i \in 1..m : e[i] = p
        BY <1>2, <2>6, <4>1
      <4>3. i \in 1..(m + 1) /\ f[i] = p
        BY <1>1, <2>3, <4>2
      <4> QED
        BY <4>3
    <3> QED
      BY <3>1, <3>2
  <2> QED
    BY <2>3, <2>4, <2>5, <2>6 DEF Newlines
<1> QED
  BY <1>3, <1>4

\* The newlines of a chunk are all there, in order.
LEMMA EndsExact ==
  ASSUME NEW S, NEW c \in Seq(S)
  PROVE  Newlines(Ends(c), c, Len(c))
<1> DEFINE n == Len(c)
           p(k) == SubSeq(c, 1, k)
           T == {k \in 0..n : Newlines(Ends(p(k)), c, k)}
<1>1. n \in Nat /\ p(0) = <<>> /\ p(n) = c
  OBVIOUS
<1>2. \A k : k \in T <=> k \in 0..n /\ Newlines(Ends(p(k)), c, k)
  OBVIOUS
<1>3. ASSUME NEW k \in 1..n, k - 1 \in T PROVE k \in T
  <2>1. p(k) = Append(p(k - 1), c[k]) /\ c[k] \in S /\ p(k - 1) \in Seq(S) /\ Len(p(k - 1)) + 1 = k
    OBVIOUS
  <2>2. PICK e, f : e = Ends(p(k - 1)) /\ f = Ends(p(k))
    OBVIOUS
  <2>3. f = IF c[k] = Newline THEN Append(e, k) ELSE e
    BY <2>1, <2>2, EndsAppend
  <2>4. Newlines(e, c, k - 1)
    BY <1>2, <1>3, <2>2
  <2> HIDE DEF T, p
  <2>5. e \in Seq(Nat)
    BY <2>1, <2>2, EndsAre
  <2>6. k \in Nat \ {0} /\ k \in 0..n
    BY <1>1
  <2>7. Newlines(f, c, k)
    BY <2>3, <2>4, <2>5, <2>6, NewlinesNext
  <2> QED
    BY <1>2, <2>2, <2>6, <2>7
<1> HIDE DEF T, p
<1>4. 0 \in T
  <2>1. Ends(p(0)) = <<>> /\ 0 \in 0..n
    BY <1>1, EndsNone
  <2>2. Newlines(<<>>, c, 0)
    BY DEF Newlines
  <2> QED
    BY <1>2, <2>1, <2>2
<1>5. \A k \in 0..n : k \in T
  BY <1>1, <1>3, <1>4, UpTo
<1>6. n \in T
  BY <1>1, <1>5
<1> QED
  BY <1>1, <1>2, <1>6

\* The end of one line is where the next begins.
LEMMA EndOfIs ==
  ASSUME NEW S, NEW c \in Seq(S), NEW i \in 1..(Len(Ends(c)) + 1)
  PROVE  /\ i - 1 \in Nat /\ Len(Ends(c)) \in Nat /\ Len(c) \in Nat
         /\ EndOf(c, i - 1) \in Nat /\ EndOf(c, i) \in Nat
         /\ EndOf(c, i - 1) <= EndOf(c, i) /\ EndOf(c, i) <= Len(c)
         /\ i <= Len(Ends(c)) => EndOf(c, i - 1) < EndOf(c, i)
         /\ HeadFrom(Ends(c), i) = EndOf(c, i - 1) + 1
         /\ HeadTo(Ends(c), Len(c), i) = IF i <= Len(Ends(c)) THEN EndOf(c, i) - 1 ELSE EndOf(c, i)
<1>1. PICK e, n, m : e = Ends(c) /\ n = Len(c) /\ m = Len(e)
  OBVIOUS
<1>2. n \in Nat /\ m \in Nat /\ \A k \in 1..m : e[k] \in 1..n
  BY <1>1, EndsAre
<1>3. \A k, l \in 1..m : k < l => e[k] < e[l]
  BY <1>1, EndsExact DEF Newlines
<1>4. i \in 1..(m + 1)
  BY <1>1
<1>5. PICK a, b : a = EndOf(c, i - 1) /\ b = EndOf(c, i)
  OBVIOUS
<1>6. a = IF i = 1 THEN 0 ELSE e[i - 1]
  BY <1>1, <1>2, <1>4, <1>5 DEF EndOf
<1>7. b = IF i > m THEN n ELSE e[i]
  BY <1>1, <1>2, <1>4, <1>5 DEF EndOf
<1>8. a \in Nat /\ b \in Nat /\ a <= b /\ b <= n
  BY <1>2, <1>3, <1>4, <1>6, <1>7
<1>9. i <= m => a < b
  BY <1>2, <1>3, <1>4, <1>6, <1>7
<1>10. HeadFrom(e, i) = a + 1
  <2>1. CASE i = 1
    BY <1>6, <2>1 DEF HeadFrom
  <2>2. CASE i # 1
    BY <1>6, <2>2 DEF HeadFrom
  <2> QED
    BY <2>1, <2>2
<1>11. HeadTo(e, n, i) = IF i <= m THEN b - 1 ELSE b
  BY <1>1, <1>2, <1>4, <1>7 DEF HeadTo
<1> QED
  BY <1>1, <1>2, <1>4, <1>5, <1>8, <1>9, <1>10, <1>11

\* A stretch without its last byte, and that byte.
LEMMA AllButLast ==
  ASSUME NEW S, NEW c \in Seq(S), NEW a \in Nat, NEW b \in Nat, a < b, b <= Len(c),
         NEW x, x = c[b]
  PROVE  SubSeq(c, a + 1, b) = SubSeq(c, a + 1, b - 1) \o <<x>>
<1>1. PICK a1, b1 : a1 = a + 1 /\ b1 = b - 1
  OBVIOUS
<1>2. PICK u, v : u = SubSeq(c, a1, b) /\ v = SubSeq(c, a1, b1)
  OBVIOUS
<1>3. a1 \in Int /\ b1 \in Int /\ b \in Int /\ 1 <= a1 /\ b1 <= Len(c) /\ a1 <= b /\ b - a1 + 1 = b1 - a1 + 2
      /\ b1 - a1 + 1 \in Nat
  BY <1>1
<1>4. u \in Seq(S) /\ Len(u) = b - a1 + 1 /\ \A i \in 1..(b - a1 + 1) : u[i] = c[a1 + i - 1]
  <2>1. u = SubSeq(c, a1, b)
    BY <1>2
  <2>2. a1 \in Int /\ b \in Int /\ 1 <= a1 /\ b <= Len(c) /\ a1 <= b
    BY <1>3
  <2>3. u \in Seq(S) /\ Len(u) = (IF a1 <= b THEN b - a1 + 1 ELSE 0)
        /\ \A i \in 1..(b - a1 + 1) : u[i] = c[a1 + i - 1]
    BY <2>1, <2>2, SubIs
  <2> QED
    BY <2>2, <2>3
<1>5. v \in Seq(S) /\ Len(v) = b1 - a1 + 1 /\ \A i \in 1..(b1 - a1 + 1) : v[i] = c[a1 + i - 1]
  <2>1. v = SubSeq(c, a1, b1)
    BY <1>2
  <2>2. a1 \in Int /\ b1 \in Int /\ 1 <= a1 /\ b1 <= Len(c)
    BY <1>3
  <2>3. v \in Seq(S) /\ Len(v) = (IF a1 <= b1 THEN b1 - a1 + 1 ELSE 0)
        /\ \A i \in 1..(b1 - a1 + 1) : v[i] = c[a1 + i - 1]
    BY <2>1, <2>2, SubIs
  <2> QED
    BY <1>1, <1>3, <2>3
<1>6. x \in S
  BY <1>1, <1>3
<1>7. PICK w, m : w = Append(v, x) /\ m = Len(v)
  OBVIOUS
<1>8. w \in Seq(S) /\ Len(w) = m + 1 /\ w[m + 1] = x /\ \A i \in 1..m : w[i] = v[i]
  BY <1>5, <1>6, <1>7, Appended
<1>9. m \in Nat /\ m = b1 - a1 + 1 /\ b - a1 + 1 = m + 1 /\ a1 + (m + 1) - 1 = b
  BY <1>1, <1>3, <1>5, <1>7
<1>10. ASSUME NEW i \in 1..(m + 1) PROVE u[i] = w[i]
  <2>1. u[i] = c[a1 + i - 1]
    BY <1>4, <1>9
  <2>2. CASE i \in 1..m
    BY <1>5, <1>8, <1>9, <2>1, <2>2
  <2>3. CASE i = m + 1
    BY <1>8, <1>9, <2>1, <2>3
  <2> QED
    BY <1>9, <2>2, <2>3
<1>11. Len(u) = m + 1
  BY <1>4, <1>9
<1>12. u = w
  BY <1>4, <1>8, <1>10, <1>11, SameSeq
<1>13. w = v \o <<x>>
  BY <1>5, <1>6, <1>7, AppendIsConcat
<1> QED
  BY <1>1, <1>2, <1>12, <1>13

\* A line, without its newline and with it.
LEMMA LineLies ==
  ASSUME NEW S, NEW c \in Seq(S), NEW i \in 1..(Len(Ends(c)) + 1), NEW b, b = Head_(c, i)
  PROVE  /\ b \in Seq(S)
         /\ Len(b) = EndOf(c, i) - EndOf(c, i - 1) - (IF i <= Len(Ends(c)) THEN 1 ELSE 0)
         /\ \A k \in 1..Len(b) : b[k] # Newline
         /\ SubSeq(c, EndOf(c, i - 1) + 1, EndOf(c, i))
              = b \o (IF i <= Len(Ends(c)) THEN <<Newline>> ELSE <<>>)
<1>1. PICK e, m, lo, hi : e = Ends(c) /\ m = Len(e) /\ lo = EndOf(c, i - 1) /\ hi = EndOf(c, i)
  OBVIOUS
<1>2. m \in Nat /\ lo \in Nat /\ hi \in Nat /\ lo <= hi /\ hi <= Len(c) /\ Len(c) \in Nat
      /\ (i <= m => lo < hi)
  BY <1>1, EndOfIs
<1>3. PICK x, y : x = lo + 1 /\ y = (IF i <= m THEN hi - 1 ELSE hi)
  OBVIOUS
<1>4. HeadFrom(e, i) = x /\ HeadTo(e, Len(c), i) = y
  BY <1>1, <1>3, EndOfIs
<1>5. b = SubSeq(c, x, y)
  BY <1>1, <1>4, HeadIs
<1>6. x \in Int /\ y \in Int /\ 1 <= x /\ y <= Len(c) /\ y - x + 1 = (hi - lo) - (IF i <= m THEN 1 ELSE 0)
      /\ y - x + 1 \in Nat
  BY <1>2, <1>3
<1>7. b \in Seq(S) /\ Len(b) = (IF x <= y THEN y - x + 1 ELSE 0)
      /\ \A k \in 1..(y - x + 1) : b[k] = c[x + k - 1]
  BY <1>5, <1>6, SubIs
<1>8. Len(b) = y - x + 1
  BY <1>6, <1>7
<1>9. ASSUME NEW k \in 1..Len(b), b[k] = Newline PROVE FALSE
  <2>1. PICK p : p = x + k - 1 /\ p \in 1..Len(c) /\ lo < p /\ p <= y /\ p \in Int
    <3>1. k \in 1..(y - x + 1) /\ k \in Int
      BY <1>6, <1>8
    <3> QED
      BY <1>2, <1>3, <1>6, <3>1
  <2>2. c[p] = Newline
    BY <1>7, <1>8, <1>9, <2>1
  <2>3. PICK l \in 1..m : e[l] = p
    BY <1>1, <2>1, <2>2, EndsExact DEF Newlines
  <2>4. \A k1, k2 \in 1..m : k1 < k2 => e[k1] < e[k2]
    BY <1>1, EndsExact DEF Newlines
  <2>5. /\ \A k1 \in 1..m : e[k1] \in 1..Len(c)
    BY <1>1, EndsAre
  <2>6. CASE l < i
    <3>1. i - 1 \in 1..m /\ lo = e[i - 1]
      BY <1>1, <1>2, <2>6 DEF EndOf
    <3>2. e[l] <= e[i - 1]
      <4>1. l = i - 1 \/ l < i - 1
        BY <2>6
      <4> QED
        BY <2>4, <2>5, <3>1, <4>1
    <3>3. p <= lo
      BY <2>3, <3>1, <3>2
    <3> QED
      BY <1>2, <2>1, <3>3
  <2>7. CASE l >= i
    <3>1. i \in 1..m /\ hi = e[i] /\ y = hi - 1
      BY <1>1, <1>2, <1>3, <2>7 DEF EndOf
    <3>2. e[i] <= e[l]
      <4>1. l = i \/ i < l
        BY <2>7
      <4> QED
        BY <2>4, <2>5, <3>1, <4>1
    <3> QED
      BY <1>2, <2>1, <2>3, <3>1, <3>2
  <2> QED
    BY <1>2, <2>6, <2>7
<1>10. SubSeq(c, lo + 1, hi) = b \o (IF i <= m THEN <<Newline>> ELSE <<>>)
  <2>1. CASE i <= m
    <3>1. c[hi] = Newline
      <4>1. i \in 1..m /\ hi = e[i]
        BY <1>1, <1>2, <2>1 DEF EndOf
      <4> QED
        BY <1>1, <4>1, EndsExact DEF Newlines
    <3>2. lo < hi
      BY <1>2, <2>1
    <3>3. SubSeq(c, lo + 1, hi) = SubSeq(c, lo + 1, hi - 1) \o <<Newline>>
      BY <1>2, <3>1, <3>2, AllButLast
    <3> QED
      BY <1>3, <1>5, <2>1, <3>3
  <2>2. CASE ~ (i <= m)
    <3>1. b \o <<>> = b
      BY <1>7
    <3> QED
      BY <1>3, <1>5, <2>2, <3>1
  <2> QED
    BY <2>1, <2>2
<1> QED
  BY <1>1, <1>6, <1>7, <1>8, <1>9, <1>10

\* What a new splitter, which has counted n lines, keeps of a line.
LEMMA KeptOf ==
  ASSUME NEW sp \in Splitter, sp.carry = <<>>, sp.carry_len = 0, NEW c \in Seq(Byte)
  PROVE  Keep(sp, c) = [carry |-> Clip(c, MAX_LINE), carry_len |-> Len(c), seq |-> sp.seq]
<1>1. Keep(sp, c) = [carry |-> Clip(sp.carry \o c, MAX_LINE),
                     carry_len |-> sp.carry_len + Len(c), seq |-> sp.seq]
  BY KeepIs
<1>2. <<>> \o c = c
  OBVIOUS
<1>3. 0 + Len(c) = Len(c)
  OBVIOUS
<1> QED
  BY <1>1, <1>2, <1>3

\* The lines of a stream are those of a new splitter.
LEMMA LinesOfStream ==
  ASSUME NEW B \in Seq(Byte)
  PROVE  /\ Len(Ends(B)) \in Nat
         /\ DOMAIN RawLines(NewSplitter, B) = 1..Len(Ends(B))
         /\ \A i \in 1..Len(Ends(B)) : RawLines(NewSplitter, B)[i] = LineOf(B, i)
<1>1. PICK L : L = Len(Ends(B)) /\ L \in Nat
  BY EndsAre
<1>2. NewSplitter \in Splitter /\ NewSplitter.carry = <<>> /\ NewSplitter.carry_len = 0
      /\ NewSplitter.seq = 0
  BY NewSplitterTyped DEF NewSplitter
<1>3. ASSUME NEW i \in 1..L PROVE RawLines(NewSplitter, B)[i] = LineOf(B, i)
  <2>1. PICK c : c = Head_(B, i)
    OBVIOUS
  <2>2. i \in 1..(Len(Ends(B)) + 1) /\ i <= Len(Ends(B)) /\ i \in Nat
    BY <1>1
  <2>3. c \in Seq(Byte) /\ Len(c) = EndOf(B, i) - EndOf(B, i - 1) - 1
    BY <2>1, <2>2, LineLies
  <2>4. RawLines(NewSplitter, B)[i] = RawOf(i, Keep(NewSplitter, c))
    <3>1. CASE i = 1
      <4>1. RawLines(NewSplitter, B)[1] = RawOf(NewSplitter.seq + 1, Keep(NewSplitter, Head_(B, 1)))
        BY <1>1, <1>2, <3>1, RawLinesAre
      <4>2. NewSplitter.seq + 1 = 1
        BY <1>2
      <4> QED
        BY <2>1, <3>1, <4>1, <4>2
    <3>2. CASE i # 1
      <4>1. i \in 2..Len(Ends(B))
        BY <1>1, <3>2
      <4>2. RawLines(NewSplitter, B)[i] = RawOf(NewSplitter.seq + i, Keep(NewSplitter, Head_(B, i)))
        BY <1>2, <4>1, RawLinesAre
      <4>3. NewSplitter.seq + i = i
        BY <1>2, <2>2
      <4> QED
        BY <2>1, <4>2, <4>3
    <3> QED
      BY <3>1, <3>2
  <2>5. Keep(NewSplitter, c) = [carry |-> Clip(c, MAX_LINE), carry_len |-> Len(c), seq |-> 0]
    BY <1>2, <2>3, KeptOf
  <2>6. Len(c) + 1 = EndOf(B, i) - EndOf(B, i - 1)
    <3>1. EndOf(B, i) \in Nat /\ EndOf(B, i - 1) \in Nat
      BY <2>2, EndOfIs
    <3> QED
      BY <2>3, <3>1
  <2>7. RawOf(i, Keep(NewSplitter, c))
        = [seq |-> i, bytes |-> Clip(c, MAX_LINE), raw_len |-> Len(c) + 1, terminated |-> TRUE]
    BY <2>5 DEF RawOf
  <2>8. LineOf(B, i)
        = [seq |-> i, bytes |-> Clip(c, MAX_LINE), raw_len |-> Len(c) + 1, terminated |-> TRUE]
    BY <2>1, <2>2, <2>6 DEF LineOf
  <2> QED
    BY <2>4, <2>7, <2>8
<1> QED
  BY <1>1, <1>2, <1>3, RawLinesAre

\* Nothing read is no splitting.
LEMMA FedNothing == Fed(NewSplitter, <<>>) = NewSplitter
<1>1. NewSplitter \in Splitter /\ <<>> \in Seq(Byte) /\ NewSplitter.carry = <<>>
      /\ NewSplitter.carry_len = 0 /\ NewSplitter.seq = 0
  BY NewSplitterTyped DEF NewSplitter
<1>2. Len(Ends(<<>>)) = 0 /\ 0 + 1 = 1
  BY EndsNone
<1>3. Fed(NewSplitter, <<>>) = Keep(Carried(NewSplitter, 0), Head_(<<>>, 1))
  BY <1>1, <1>2, FedIs
<1>4. Carried(NewSplitter, 0) = NewSplitter
  BY DEF Carried
<1>5. Head_(<<>>, 1) \in Seq(Byte) /\ Len(Head_(<<>>, 1)) = 0
  <2>1. PICK c : c = <<>> /\ c \in Seq(Byte)
    BY <1>1
  <2>2. 1 \in 1..(Len(Ends(c)) + 1)
    BY <1>2, <2>1
  <2>3. PICK h : h = Head_(c, 1)
    OBVIOUS
  <2>4. HeadFrom(Ends(c), 1) = 1 /\ HeadTo(Ends(c), Len(c), 1) = 0
    BY <1>2, <2>1 DEF HeadFrom, HeadTo
  <2>5. h = SubSeq(c, 1, 0)
    BY <2>3, <2>4, HeadIs
  <2> QED
    BY <2>1, <2>3, <2>5
<1>6. PICK h : h = Head_(<<>>, 1)
  OBVIOUS
<1>7. h = <<>>
  BY <1>5, <1>6
<1>8. Keep(NewSplitter, h) = [carry |-> Clip(h, MAX_LINE), carry_len |-> Len(h), seq |-> 0]
  BY <1>1, <1>5, <1>6, KeptOf
<1>9. Clip(h, MAX_LINE) = <<>> /\ Len(h) = 0
  BY <1>7, RecordingAssumption DEF Clip
<1> QED
  BY <1>3, <1>4, <1>6, <1>8, <1>9 DEF NewSplitter

\* The last line of a stream that does not end with a newline.
LEMMA LastOfStream ==
  ASSUME NEW B \in Seq(Byte), NEW L, L = Len(Ends(B)), NEW last, last = LastLine(Fed(NewSplitter, B))
  PROVE  /\ L \in Nat /\ Total(B) \in {L, L + 1}
         /\ Total(B) = L => last = <<>>
         /\ Total(B) # L => last = <<LineOf(B, L + 1)>>
<1>1. L \in Nat
  BY EndsAre
<1>2. NewSplitter \in Splitter /\ NewSplitter.carry = <<>> /\ NewSplitter.carry_len = 0
      /\ NewSplitter.seq = 0
  BY NewSplitterTyped DEF NewSplitter
<1>3. PICK c, i : c = Head_(B, i) /\ i = L + 1
  OBVIOUS
<1>4. i \in 1..(Len(Ends(B)) + 1) /\ i \in Nat /\ ~ (i <= Len(Ends(B))) /\ i - 1 = L /\ i > L
  BY <1>1, <1>3
<1>5. EndOf(B, i) = Len(B)
  BY <1>1, <1>4 DEF EndOf
<1>6. PICK lo : lo = EndOf(B, L)
  OBVIOUS
<1>7. lo \in Nat /\ Len(B) \in Nat
  BY <1>4, <1>6, EndOfIs
<1>8. c \in Seq(Byte) /\ Len(c) = Len(B) - lo
  <2>1. c \in Seq(Byte) /\ Len(c) = EndOf(B, i) - EndOf(B, i - 1) - (IF i <= Len(Ends(B)) THEN 1 ELSE 0)
    BY <1>3, <1>4, LineLies
  <2> QED
    BY <1>4, <1>5, <1>6, <1>7, <2>1
<1>9. PICK sp, q : sp = Carried(NewSplitter, L) /\ q = Fed(NewSplitter, B)
  OBVIOUS
<1>10. sp \in Splitter /\ sp.seq = L /\ sp.carry = <<>> /\ sp.carry_len = 0
  <2>1. sp \in Splitter /\ sp.seq = NewSplitter.seq + L
    BY <1>1, <1>2, <1>9, CarriedIs
  <2>2. CASE L = 0
    BY <1>2, <1>9, <2>1, <2>2 DEF Carried
  <2>3. CASE L # 0
    <3>1. L # 0 => Carried(NewSplitter, L).carry = <<>> /\ Carried(NewSplitter, L).carry_len = 0
      BY <1>1, <1>2, CarriedIs
    <3>2. sp.seq = L
      BY <1>1, <1>2, <2>1
    <3> QED
      BY <1>9, <2>1, <2>3, <3>1, <3>2
  <2> QED
    BY <2>2, <2>3
<1>11. q = Keep(sp, c)
  BY <1>2, <1>3, <1>9, FedIs
<1>12. q = [carry |-> Clip(c, MAX_LINE), carry_len |-> Len(c), seq |-> L]
  BY <1>8, <1>10, <1>11, KeptOf
<1>13. last = IF Len(c) = 0 THEN <<>>
              ELSE <<[seq |-> L + 1, bytes |-> Clip(c, MAX_LINE), raw_len |-> Len(c), terminated |-> FALSE]>>
  <2>1. q.carry = Clip(c, MAX_LINE) /\ q.carry_len = Len(c) /\ q.seq = L
    BY <1>12
  <2>2. last = LastLine(q)
    BY <1>9
  <2> QED
    BY <2>1, <2>2 DEF LastLine
<1>14. LineOf(B, i) = [seq |-> i, bytes |-> Clip(c, MAX_LINE), raw_len |-> Len(c), terminated |-> FALSE]
  <2>1. EndOf(B, i) - EndOf(B, i - 1) = Len(c)
    BY <1>4, <1>5, <1>6, <1>8
  <2>2. (i <= Len(Ends(B))) = FALSE
    BY <1>4
  <2>3. LineOf(B, i)
        = [seq |-> i, bytes |-> Clip(Head_(B, i), MAX_LINE),
           raw_len |-> EndOf(B, i) - EndOf(B, i - 1), terminated |-> i <= Len(Ends(B))]
    BY DEF LineOf
  <2> QED
    BY <1>3, <2>1, <2>2, <2>3
<1>15. Len(c) = 0 <=> Total(B) = L
  BY <1>1, <1>6, <1>7, <1>8 DEF Total
<1>16. Total(B) \in {L, L + 1}
  BY DEF Total
<1>17. Total(B) = L => last = <<>>
  BY <1>13, <1>15
<1>18. Total(B) # L => last = <<LineOf(B, L + 1)>>
  BY <1>3, <1>13, <1>14, <1>15
<1> QED
  BY <1>1, <1>16, <1>17, <1>18

-----------------------------------------------------------------------------
(* Private keys, line after line.                                           *)

\* A byte of a kind that is not found is not there.
LEMMA NextNone ==
  ASSUME NEW line \in Seq(Byte), NEW i \in Nat, i >= 1, NEW kind
  PROVE  Next_(line, i, kind) = 0 <=> \A p \in i..Len(line) : line[p].kind # kind
<1> DEFINE found == {p \in i..Len(line) : line[p].kind = kind}
<1>1. CASE found = {}
  <2>1. Next_(line, i, kind) = 0
    BY <1>1, Zenon DEF Next_
  <2> QED
    BY <1>1, <2>1
<1>2. CASE found # {}
  <2>1. PICK p : p \in found
    BY <1>2
  <2>2. found \in SUBSET Nat
    OBVIOUS
  <2>3. PICK o \in found : \A q \in found : o <= q
    <3> HIDE DEF found
    <3> QED
      BY <2>1, <2>2, Least
  <2>4. Min(found) \in found
    <3> HIDE DEF found
    <3> QED
      BY <2>3, Zenon DEF Min
  <2>5. Next_(line, i, kind) = Min(found)
    BY <1>2 DEF Next_
  <2>6. Next_(line, i, kind) # 0
    BY <2>4, <2>5
  <2> QED
    BY <2>1, <2>6
<1> QED
  BY <1>1, <1>2

\* Spans put before such a one do not change that.
LEMMA StillOpen ==
  ASSUME NEW line, NEW s \in SpanOf(Len(line)), NEW rest, EndsOpen(rest, line),
         NEW t, t = <<s>> \o rest
  PROVE  EndsOpen(t, line)
<1>1. rest \in Seq(SpanOf(Len(line))) /\ Len(rest) \in Nat /\ Len(rest) # 0
  BY DEF EndsOpen
<1>2. PICK S, m : S = SpanOf(Len(line)) /\ m = Len(rest)
  OBVIOUS
<1>3. s \in S /\ rest \in Seq(S)
  BY <1>1, <1>2
<1>4. t \in Seq(S) /\ Len(t) = m + 1 /\ \A k \in 1..m : t[k + 1] = rest[k]
  BY <1>2, <1>3, Prepended
<1>5. t[Len(t)] = rest[Len(rest)] /\ t # <<>>
  BY <1>1, <1>2, <1>4
<1> QED
  BY <1>2, <1>4, <1>5 DEF EndsOpen

\* Nor does what comes before a BEGIN with nothing after it that ends its block.
LEMMA OpensBefore ==
  ASSUME NEW line \in Seq(Byte), NEW j \in 1..Len(line), line[j].kind = "BEGIN",
         \A p \in (j + 1)..Len(line) : line[p].kind \notin {"END", "quote"},
         NEW i \in 1..j, NEW f, f[i] = SpanStep(line, f, i), f[Len(line) + 1] = <<>>,
         \A p \in (i + 1)..j : EndsOpen(f[p], line)
  PROVE  EndsOpen(f[i], line)
<1> DEFINE n == Len(line)
           e == Next_(line, i + 1, "END")
           q == Next_(line, i + 1, "quote")
<1>1. n \in Nat /\ i + 1 \in Nat /\ i + 1 >= 1 /\ i \in 1..n /\ i <= n /\ ~ (i > n)
      /\ j + 1 \in Nat /\ j + 1 >= 1
  OBVIOUS
<1>2. /\ e = 0 \/ (e \in (i + 1)..n /\ line[e].kind = "END")
      /\ q = 0 \/ (q \in (i + 1)..n /\ line[q].kind = "quote")
  BY <1>1, NextAt
<1> HIDE DEF e, q
<1>3. ASSUME line[i].kind = "BEGIN", KeyStaysOpen(line, i) PROVE EndsOpen(f[i], line)
  <2>1. e = 0
    BY <1>3 DEF KeyStaysOpen, e
  <2>2. PICK p : p = PrivateKey(line, i)
    OBVIOUS
  <2>3. p = Span(i, n, "PRIVATE_KEY")
    BY <1>3, <2>1, <2>2, Zenon DEF PrivateKey, e
  <2>4. p \in SpanOf(n) /\ p.from = i /\ p.to = n /\ p.kind = "PRIVATE_KEY"
    <3>1. PrivateKey(line, i) \in SpanOf(Len(line))
      BY <1>1, KeySpan
    <3>2. p.from = i /\ p.to = n /\ p.kind = "PRIVATE_KEY"
      BY <2>3 DEF Span
    <3> QED
      BY <2>2, <3>1, <3>2
  <2>5. f[i] = <<p>> \o f[p.to + 1]
    <3>1. line[i].kind \notin DOMAIN Mask
      BY <1>3, MaskKinds
    <3> QED
      BY <1>1, <1>3, <2>2, <3>1, Zenon DEF SpanStep
  <2>6. f[p.to + 1] = <<>>
    BY <2>4
  <2>7. <<p>> \o <<>> = <<p>>
    OBVIOUS
  <2>8. f[i] = <<p>>
    BY <2>5, <2>6, <2>7
  <2>9. PICK t : t = <<p>>
    OBVIOUS
  <2>10. t \in Seq(SpanOf(n)) /\ t # <<>> /\ t[Len(t)] = p
    BY <2>4, <2>9
  <2>11. f[i] = t
    BY <2>8, <2>9
  <2>12. p.kind = "PRIVATE_KEY" /\ line[p.from].kind = "BEGIN" /\ KeyStaysOpen(line, p.from)
    BY <1>3, <2>4
  <2>13. EndsOpen(t, line)
    BY <2>10, <2>12 DEF EndsOpen
  <2> QED
    BY <2>11, <2>13
<1>4. ASSUME line[i].kind = "BEGIN", ~ KeyStaysOpen(line, i), i # j PROVE EndsOpen(f[i], line)
  <2>1. PICK p : p = PrivateKey(line, i)
    OBVIOUS
  <2>2. p \in SpanOf(n)
    BY <1>1, <2>1, KeySpan
  <2>3. p.to + 1 \in (i + 1)..j
    <3>1. CASE e # 0
      <4>1. p = Span(i, e, "PRIVATE_KEY")
        BY <1>4, <2>1, <3>1, Zenon DEF PrivateKey, e
      <4>2. e \in (i + 1)..j /\ e # j
        <5>1. e \in (i + 1)..n /\ line[e].kind = "END"
          BY <1>2, <3>1
        <5>2. e \notin (j + 1)..n
          BY <5>1
        <5>3. e # j
          BY <5>1
        <5> QED
          BY <1>1, <5>1, <5>2, <5>3
      <4>3. p.to = e
        BY <4>1 DEF Span
      <4> QED
        BY <1>1, <4>2, <4>3
    <3>2. CASE e = 0
      <4>1. p = Span(i, q - 1, "PRIVATE_KEY")
        BY <1>4, <2>1, <3>2, Zenon DEF PrivateKey, e, q
      <4>2. q # 0
        BY <1>4, <3>2 DEF KeyStaysOpen, e, q
      <4>3. q \in (i + 1)..j
        <5>1. q \in (i + 1)..n /\ line[q].kind = "quote"
          BY <1>2, <4>2
        <5>2. q \notin (j + 1)..n
          BY <5>1
        <5> QED
          BY <1>1, <5>1, <5>2
      <4>4. p.to = q - 1
        BY <4>1 DEF Span
      <4> QED
        BY <1>1, <4>3, <4>4
    <3> QED
      BY <3>1, <3>2
  <2>4. f[i] = <<p>> \o f[p.to + 1]
    <3>1. line[i].kind \notin DOMAIN Mask
      BY <1>4, MaskKinds
    <3> QED
      BY <1>1, <1>4, <2>1, <3>1, Zenon DEF SpanStep
  <2>5. EndsOpen(f[p.to + 1], line)
    BY <2>3
  <2> QED
    BY <2>2, <2>4, <2>5, StillOpen
<1>5. ASSUME line[i].kind \in DOMAIN Mask PROVE EndsOpen(f[i], line)
  <2>1. PICK p : p = Span(i, i, Mask[line[i].kind])
    OBVIOUS
  <2>2. line[i].kind # "BEGIN"
    BY <1>5, MaskKinds
  <2>3. f[i] = <<p>> \o f[i + 1]
    BY <1>1, <1>5, <2>1, <2>2, Zenon DEF SpanStep
  <2>4. p \in SpanOf(n)
    BY <1>1, <1>5, <2>1, MaskKinds DEF Span, SpanOf
  <2>5. i + 1 \in (i + 1)..j
    BY <1>1, <2>2
  <2>6. EndsOpen(f[i + 1], line)
    BY <2>5
  <2> QED
    BY <2>3, <2>4, <2>6, StillOpen
<1>6. ASSUME line[i].kind # "BEGIN", line[i].kind \notin DOMAIN Mask PROVE EndsOpen(f[i], line)
  <2>1. f[i] = f[i + 1]
    BY <1>1, <1>6, Zenon DEF SpanStep
  <2>2. i + 1 \in (i + 1)..j
    BY <1>1, <1>6
  <2> QED
    BY <2>1, <2>2
<1>7. i = j => line[i].kind = "BEGIN" /\ KeyStaysOpen(line, i)
  <2>1. Next_(line, j + 1, "END") = 0
    BY <1>1, NextNone
  <2>2. Next_(line, j + 1, "quote") = 0
    BY <1>1, NextNone
  <2> QED
    BY <2>1, <2>2 DEF KeyStaysOpen
<1> QED
  BY <1>3, <1>4, <1>5, <1>6, <1>7

\* A line that opens a block after others leaves it open.
LEMMA KeyOpens ==
  ASSUME NEW line \in Seq(Byte), Opens(line)
  PROVE  KeyLines(line, 0) = MAX_KEY_LINES
<1> DEFINE n == Len(line)
<1>1. PICK j \in 1..n : line[j].kind = "BEGIN" /\ ~ Has(SubSeq(line, j + 1, n), {"END", "quote"})
  BY DEF Opens
<1>2. n \in Nat /\ j + 1 \in Int /\ n \in Int /\ 1 <= j + 1 /\ n <= Len(line)
  OBVIOUS
<1>3. ASSUME NEW p \in (j + 1)..n PROVE line[p].kind \notin {"END", "quote"}
  <2>1. PICK u, a : u = SubSeq(line, a, n) /\ a = j + 1
    OBVIOUS
  <2>2. a \in Int /\ n \in Int /\ 1 <= a /\ n <= Len(line)
    BY <1>2, <2>1
  <2>3. u \in Seq(Byte) /\ Len(u) = (IF a <= n THEN n - a + 1 ELSE 0)
        /\ \A i \in 1..(n - a + 1) : u[i] = line[a + i - 1]
    <3>1. u = SubSeq(line, a, n)
      BY <2>1
    <3> QED
      BY <2>2, <3>1, SubIs
  <2>4. PICK i : i = p - a + 1
    OBVIOUS
  <2>5. i \in 1..(n - a + 1) /\ a + i - 1 = p /\ a <= n
    BY <1>2, <1>3, <2>1, <2>4
  <2>6. u[i] = line[p] /\ i \in 1..Len(u)
    BY <2>3, <2>5
  <2>7. ~ Has(u, {"END", "quote"})
    BY <1>1, <2>1
  <2> QED
    BY <2>3, <2>6, <2>7 DEF Has
<1>4. PICK one : one = 1
  OBVIOUS
<1>5. one \in 1..(n + 1)
  BY <1>2, <1>4
<1>6. PICK f : SpansEq(f, line, one) /\ SpansFrom(line, one) = f[one]
  BY <1>5, SpansAre, SpansExist
<1>7. \A i \in 1..(n + 1) : f[i] = SpanStep(line, f, i)
  BY <1>4, <1>6 DEF SpansEq
<1>8. f[n + 1] = <<>>
  <2>1. n + 1 \in 1..(n + 1) /\ n + 1 > n
    BY <1>2
  <2>2. SpanStep(line, f, n + 1) = <<>>
    BY <2>1 DEF SpanStep
  <2> QED
    BY <1>7, <2>1, <2>2
<1> DEFINE E == {d \in 0..(j - 1) : \A p \in (j - d)..j : EndsOpen(f[p], line)}
<1>9. ASSUME NEW i \in 1..j, \A p \in (i + 1)..j : EndsOpen(f[p], line) PROVE EndsOpen(f[i], line)
  <2>1. i \in 1..(n + 1)
    BY <1>2
  <2>2. f[i] = SpanStep(line, f, i)
    BY <1>7, <2>1
  <2> QED
    BY <1>1, <1>3, <1>8, <1>9, <2>2, OpensBefore
<1>10. 0 \in E
  <2>1. \A p \in (j + 1)..j : EndsOpen(f[p], line)
    OBVIOUS
  <2>2. j \in 1..j
    OBVIOUS
  <2>3. EndsOpen(f[j], line)
    BY <1>9, <2>1, <2>2
  <2>4. \A p \in (j - 0)..j : p = j
    OBVIOUS
  <2> QED
    BY <2>3, <2>4
<1>11. ASSUME NEW d \in 1..(j - 1), d - 1 \in E PROVE d \in E
  <2>1. PICK i : i = j - d
    OBVIOUS
  <2>2. i \in 1..j /\ j - (d - 1) = i + 1
    BY <2>1
  <2>3. \A p \in (i + 1)..j : EndsOpen(f[p], line)
    BY <1>11, <2>2
  <2>4. EndsOpen(f[i], line)
    BY <1>9, <2>2, <2>3
  <2>5. \A p \in (j - d)..j : p = i \/ p \in (i + 1)..j
    BY <2>1, <2>2
  <2> QED
    BY <2>3, <2>4, <2>5
<1>12. j - 1 \in Nat
  OBVIOUS
<1>13. \A d \in 0..(j - 1) : d \in E
  <2> HIDE DEF E
  <2> QED
    BY <1>10, <1>11, <1>12, UpTo
<1>14. EndsOpen(f[1], line)
  <2>1. j - 1 \in 0..(j - 1) /\ 1 \in (j - (j - 1))..j
    BY <1>12
  <2> QED
    BY <1>13, <2>1
<1>15. Secrets(line, 0) = f[1]
  <2>1. Secrets(line, 0) = SpansFrom(line, 1)
    <3>1. ~ (0 > 0)
      OBVIOUS
    <3> QED
      BY <3>1, Zenon DEF Secrets
  <2> QED
    BY <1>4, <1>6, <2>1
<1>16. PICK s : s = f[1]
  OBVIOUS
<1>17. EndsOpen(s, line) /\ Secrets(line, 0) = s
  BY <1>14, <1>15, <1>16
<1>18. ~ (0 > 0 /\ Next_(line, 1, "END") = 0)
  OBVIOUS
<1>19. PICK last : last = s[Len(s)]
  OBVIOUS
<1>20. s # <<>> /\ last.kind = "PRIVATE_KEY" /\ line[last.from].kind = "BEGIN"
       /\ KeyStaysOpen(line, last.from)
  BY <1>17, <1>19 DEF EndsOpen
<1> QED
  BY <1>17, <1>18, <1>19, <1>20, Zenon DEF KeyLines

\* A line without a BEGIN opens none.
LEMMA NoKeyBegins ==
  ASSUME NEW line \in Seq(Byte), ~ Has(line, {"BEGIN"})
  PROVE  KeyLines(line, 0) = 0
<1>1. PICK s : s = Secrets(line, 0)
  OBVIOUS
<1>2. 0 \in Nat
  OBVIOUS
<1>3. s \in Seq(SpanOf(Len(line)))
  BY <1>1, <1>2, SecretsSplit DEF Splits
<1>4. ASSUME s # <<>> PROVE line[s[Len(s)].from].kind # "BEGIN"
  <2>1. Len(s) \in 1..Len(s) /\ s[Len(s)] \in SpanOf(Len(line))
    BY <1>3, <1>4
  <2>2. s[Len(s)].from \in 1..Len(line)
    BY <2>1 DEF SpanOf
  <2>3. \A i \in DOMAIN line : line[i].kind # "BEGIN"
    BY DEF Has
  <2>4. DOMAIN line = 1..Len(line)
    OBVIOUS
  <2> QED
    BY <2>2, <2>3, <2>4
<1>5. ~ (0 > 0 /\ Next_(line, 1, "END") = 0)
  OBVIOUS
<1> QED
  BY <1>1, <1>4, <1>5 DEF KeyLines

\* A line of a block, without its end, is one line less to come.
LEMMA KeyGoesOn ==
  ASSUME NEW line \in Seq(Byte), ~ Has(line, {"END"}), NEW k \in Nat, k > 0
  PROVE  KeyLines(line, k) = k - 1 /\ Next_(line, 1, "END") = 0
<1>1. \A p \in 1..Len(line) : line[p].kind # "END"
  <2>1. DOMAIN line = 1..Len(line)
    OBVIOUS
  <2> QED
    BY <2>1 DEF Has
<1>2. Next_(line, 1, "END") = 0
  <2>1. PICK one : one = 1 /\ one \in Nat /\ one >= 1
    OBVIOUS
  <2>2. \A p \in one..Len(line) : line[p].kind # "END"
    BY <1>1, <2>1
  <2>3. Next_(line, one, "END") = 0
    BY <2>1, <2>2, NextNone
  <2> QED
    BY <2>1, <2>3
<1> QED
  BY <1>2 DEF KeyLines

-----------------------------------------------------------------------------
(* What is rendered of a line with a key in it.                             *)

\* What comes after such a line does not matter.
LEMMA StartsJoin ==
  ASSUME NEW x, Starts(x), NEW y \in Seq(Byte), NEW w, w = x \o y
  PROVE  Starts(w)
<1>1. PICK B : B = Byte
  OBVIOUS
<1>2. x \in Seq(B) /\ y \in Seq(B) /\ x # <<>> /\ x[1].kind = "PRIVATE_KEY"
  BY <1>1 DEF Starts
<1>3. w \in Seq(B) /\ Len(w) = Len(x) + Len(y) /\ \A i \in 1..Len(x) : w[i] = x[i]
  BY <1>2, JoinIs
<1>4. 1 \in 1..Len(x)
  <2>1. Len(x) \in Nat /\ Len(x) # 0
    BY <1>2
  <2> QED
    BY <2>1
<1>5. w # <<>>
  BY <1>2, <1>3
<1> QED
  BY <1>1, <1>2, <1>3, <1>4, <1>5 DEF Starts

\* A span replaced: what is before it, and its mark.
LEMMA MarkedIs ==
  ASSUME NEW line \in Seq(Byte), NEW s \in SpanOf(Len(line)), NEW r, NumbersOk(r.numbers)
  PROVE  /\ \E mark \in MarkBytes :
              /\ mark.kind = s.kind
              /\ Marked(r, line, s).line
                   = r.line \o SubSeq(line, r.done + 1, s.from - 1) \o <<mark>>
         /\ Marked(r, line, s).done = s.to
<1>1. PICK v : v = [kind |-> s.kind, text |-> SubSeq(line, s.from, s.to)]
  OBVIOUS
<1>2. PICK after : after = Numbered(r.numbers, v)
  OBVIOUS
<1>3. PICK mark : mark = [kind |-> s.kind, value |-> NumberOf(after, v)]
  OBVIOUS
<1>4. PICK part : part = SubSeq(line, r.done + 1, s.from - 1)
  OBVIOUS
<1>5. Marked(r, line, s) = [numbers |-> after, done |-> s.to, line |-> r.line \o part \o <<mark>>]
  BY <1>1, <1>2, <1>3, <1>4, Zenon DEF Marked
<1>6. v.kind \in Kinds /\ s.kind \in Kinds
  BY <1>1 DEF SpanOf
<1>7. NumberOf(after, v) \in Nat
  BY <1>2, <1>6, NumberedOk
<1>8. mark \in MarkBytes /\ mark.kind = s.kind
  BY <1>3, <1>6, <1>7 DEF MarkBytes
<1>9. PICK whole : whole = r.line \o part \o <<mark>>
  OBVIOUS
<1>10. PICK m : m = Marked(r, line, s) /\ m = [numbers |-> after, done |-> s.to, line |-> whole]
  BY <1>5, <1>9
<1>11. m.done = s.to /\ m.line = whole
  BY <1>10
<1> QED
  BY <1>4, <1>8, <1>9, <1>10, <1>11

\* A line whose first span is a private key's from its first byte on.
LEMMA RenderKey ==
  ASSUME NEW line \in Seq(Byte), NEW spans \in Seq(SpanOf(Len(line))), spans # <<>>,
         spans[1].from = 1, spans[1].kind = "PRIVATE_KEY", NEW numbers, NumbersOk(numbers)
  PROVE  /\ Starts(Render(numbers, line, spans).line)
         /\ Len(spans) = 1 /\ spans[1].to = Len(line) => Len(Render(numbers, line, spans).line) = 1
<1> DEFINE n == Len(line)
           m == Len(spans)
           by == [fold |-> "render", line |-> line]
<1>1. PICK r0 : r0 = [numbers |-> numbers, done |-> 0, line |-> <<>>]
  OBVIOUS
<1>2. n \in Nat /\ m \in Nat /\ m >= 1 /\ DOMAIN spans = 1..m
      /\ \A k \in 1..m : spans[k] \in SpanOf(n)
  <2>1. PICK P : P = SpanOf(n)
    OBVIOUS
  <2>2. spans \in Seq(P)
    BY <2>1
  <2> QED
    BY <2>1, <2>2
<1>3. PICK last : last = Marks(line, r0, spans)
  OBVIOUS
<1>4. PICK h : Walks(h, by, r0, spans, m) /\ last = h[m]
  BY <1>2, <1>3, MarksWalk
<1>5. PICK rest : rest = SubSeq(line, last.done + 1, n)
  OBVIOUS
<1>6. Render(numbers, line, spans) = [numbers |-> last.numbers, line |-> last.line \o rest]
  BY <1>1, <1>3, <1>5, Zenon DEF Render, Marks
<1>7. MarkBytes \subseteq Byte
  BY ByteSets
<1>8. \A k \in 1..m : h[k] = Marked(h[k - 1], line, spans[k])
  BY <1>4 DEF Walks, Step
<1>9. ASSUME NEW k \in 1..m, RenderedOk(h[k - 1], n, Byte)
      PROVE  RenderedOk(h[k], n, Byte)
  <2>1. PICK r, s : r = h[k - 1] /\ s = spans[k]
    OBVIOUS
  <2>2. s \in SpanOf(n)
    BY <1>2, <2>1
  <2>3. RenderedOk(r, n, Byte)
    BY <1>9, <2>1
  <2>4. r.done \in 0..n /\ s.from \in 1..n
    BY <2>2, <2>3 DEF RenderedOk, SpanOf
  <2>5. \A j \in (r.done + 1)..(s.from - 1) : line[j] \in Byte
    <3>1. \A j \in (r.done + 1)..(s.from - 1) : j \in 1..n
      BY <1>2, <2>4
    <3> QED
      BY <3>1
  <2>6. RenderedOk(Marked(r, line, s), n, Byte)
    BY <1>7, <2>2, <2>3, <2>5, MarkedOk
  <2> QED
    BY <1>8, <2>1, <2>6
<1>10. RenderedOk(r0, n, Byte) /\ h[0] = r0 /\ r0.done = 0 /\ r0.line = <<>>
  <2>1. <<>> \in Seq(Byte) /\ r0.numbers = numbers /\ r0.done = 0 /\ r0.line = <<>>
    BY <1>1
  <2> QED
    BY <1>2, <1>4, <2>1 DEF RenderedOk, Walks
<1>11. PICK one : one = 1
  OBVIOUS
<1>12. /\ RenderedOk(h[one], n, Byte) /\ Starts(h[one].line) /\ Len(h[one].line) = 1
       /\ h[one].done = spans[one].to
  <2>1. one \in 1..m /\ one - 1 = 0
    BY <1>2, <1>11
  <2>2. RenderedOk(h[one], n, Byte)
    BY <1>9, <1>10, <2>1
  <2>3. PICK s : s = spans[one] /\ s \in SpanOf(n) /\ s.from = 1 /\ s.kind = "PRIVATE_KEY"
    BY <1>2, <1>11, <2>1
  <2>4. h[one] = Marked(r0, line, s)
    BY <1>8, <1>10, <2>1, <2>3
  <2>5. NumbersOk(r0.numbers)
    BY <1>10 DEF RenderedOk
  <2>6. PICK mark \in MarkBytes :
          /\ mark.kind = s.kind
          /\ Marked(r0, line, s).line = r0.line \o SubSeq(line, r0.done + 1, s.from - 1) \o <<mark>>
    BY <2>3, <2>5, MarkedIs
  <2>7. Marked(r0, line, s).done = s.to
    BY <2>3, <2>5, MarkedIs
  <2>8. SubSeq(line, r0.done + 1, s.from - 1) = <<>>
    <3>1. r0.done + 1 = 1 /\ s.from - 1 = 0
      BY <1>10, <2>3
    <3>2. SubSeq(line, 1, 0) = <<>>
      OBVIOUS
    <3> QED
      BY <3>1, <3>2
  <2>9. <<>> \o <<>> = <<>> /\ <<>> \o <<mark>> = <<mark>>
    OBVIOUS
  <2>10. h[one].line = <<mark>>
    BY <1>10, <2>4, <2>6, <2>8, <2>9
  <2>11. PICK t : t = <<mark>>
    OBVIOUS
  <2>12. mark \in Byte /\ mark.kind = "PRIVATE_KEY"
    BY <1>7, <2>3, <2>6
  <2>13. Starts(t) /\ Len(t) = 1
    BY <2>11, <2>12 DEF Starts
  <2> QED
    BY <2>2, <2>3, <2>4, <2>7, <2>10, <2>11, <2>13
<1> HIDE DEF by, m
<1> DEFINE K == {k \in 0..m : RenderedOk(h[k], n, Byte) /\ (k >= 1 => Starts(h[k].line))}
<1>13. 0 \in K
  BY <1>2, <1>10
<1>14. ASSUME NEW k \in 1..m, k - 1 \in K PROVE k \in K
  <2>1. RenderedOk(h[k], n, Byte) /\ k \in 0..m /\ k \in Int
    BY <1>2, <1>9, <1>14
  <2>2. CASE k = 1
    BY <1>11, <1>12, <2>1, <2>2
  <2>3. CASE k # 1
    <3>1. k - 1 >= 1
      BY <1>2, <2>3
    <3>2. PICK r, s : r = h[k - 1] /\ s = spans[k] /\ s \in SpanOf(n)
      BY <1>2
    <3>3. RenderedOk(r, n, Byte) /\ Starts(r.line)
      BY <1>14, <3>1, <3>2
    <3>4. h[k] = Marked(r, line, s)
      BY <1>8, <3>2
    <3>5. NumbersOk(r.numbers) /\ r.done \in 0..n
      BY <3>3 DEF RenderedOk
    <3>6. PICK mark \in MarkBytes :
            Marked(r, line, s).line = r.line \o SubSeq(line, r.done + 1, s.from - 1) \o <<mark>>
      BY <3>2, <3>5, MarkedIs
    <3>7. PICK part, a, b : part = SubSeq(line, a, b) /\ a = r.done + 1 /\ b = s.from - 1
      OBVIOUS
    <3>8. part \in Seq(Byte)
      <4>1. s.from \in 1..n
        BY <3>2 DEF SpanOf
      <4>2. PICK d, o : d = r.done /\ o = s.from /\ d \in 0..n /\ o \in 1..n
        BY <3>5, <4>1
      <4>3. a = d + 1 /\ b = o - 1
        BY <3>7, <4>2
      <4>4. a \in Int /\ b \in Int /\ 1 <= a /\ b <= Len(line)
        BY <1>2, <4>2, <4>3
      <4>5. part = SubSeq(line, a, b)
        BY <3>7
      <4>6. part \in Seq(Byte) /\ Len(part) = (IF a <= b THEN b - a + 1 ELSE 0)
            /\ \A i \in 1..(b - a + 1) : part[i] = line[a + i - 1]
        BY <4>4, <4>5, SubIs
      <4> QED
        BY <4>6
    <3>9. PICK x, y, z : x = r.line \o part /\ y = <<mark>> /\ z = x \o y
      OBVIOUS
    <3>10. Starts(x)
      BY <3>3, <3>8, <3>9, StartsJoin
    <3>11. y \in Seq(Byte)
      BY <1>7, <3>9
    <3>12. Starts(z)
      BY <3>9, <3>10, <3>11, StartsJoin
    <3>13. h[k].line = z
      BY <3>4, <3>6, <3>7, <3>9
    <3> QED
      BY <2>1, <3>12, <3>13
  <2> QED
    BY <2>2, <2>3
<1>15. m \in K
  <2> HIDE DEF K
  <2>1. \A k \in 0..m : k \in K
    BY <1>2, <1>13, <1>14, UpTo
  <2>2. m \in 0..m
    BY <1>2
  <2> QED
    BY <2>1, <2>2
<1>16. RenderedOk(last, n, Byte) /\ Starts(last.line)
  BY <1>2, <1>4, <1>15
<1>17. last.done \in 0..n
  BY <1>16 DEF RenderedOk
<1>18. rest \in Seq(Byte) /\ (last.done = n => rest = <<>>)
  <2>1. PICK a : a = last.done + 1
    OBVIOUS
  <2>2. a \in Int /\ n \in Int /\ 1 <= a /\ n <= Len(line)
    BY <1>2, <1>17, <2>1
  <2>3. rest = SubSeq(line, a, n)
    BY <1>5, <2>1
  <2>4. rest \in Seq(Byte) /\ Len(rest) = IF a <= n THEN n - a + 1 ELSE 0
    BY <2>2, <2>3, SubIs
  <2>5. last.done = n => Len(rest) = 0
    BY <1>2, <2>1, <2>4
  <2> QED
    BY <2>4, <2>5
<1>19. PICK w : w = last.line \o rest
  OBVIOUS
<1>20. Starts(w)
  BY <1>16, <1>18, <1>19, StartsJoin
<1>21. Render(numbers, line, spans).line = w
  BY <1>6, <1>19
<1>22. ASSUME m = 1, spans[1].to = n PROVE Len(w) = 1
  <2>1. last = h[one]
    BY <1>4, <1>11, <1>22
  <2>2. last.done = n /\ Len(last.line) = 1
    BY <1>11, <1>12, <1>22, <2>1
  <2>3. rest = <<>>
    BY <1>18, <2>2
  <2>4. w = last.line
    <3>1. last.line \in Seq(Byte)
      BY <1>16 DEF Starts
    <3> QED
      BY <1>19, <2>3, <3>1
  <2> QED
    BY <2>2, <2>4
<1> QED
  BY <1>20, <1>21, <1>22 DEF m

\* A line without spans stays as it is.
LEMMA RenderNone ==
  ASSUME NEW line \in Seq(Byte), NEW numbers
  PROVE  Render(numbers, line, <<>>).line = line
<1>1. PICK r0 : r0 = [numbers |-> numbers, done |-> 0, line |-> <<>>]
  OBVIOUS
<1>2. PICK last, none : last = Marks(line, r0, none) /\ none = <<>>
  OBVIOUS
<1>3. PICK zero : zero = 0 /\ zero \in Nat /\ DOMAIN none = 1..zero
  BY <1>2
<1>4. PICK h : Walks(h, [fold |-> "render", line |-> line], r0, none, zero) /\ last = h[zero]
  BY <1>2, <1>3, MarksWalk
<1>5. last = r0
  BY <1>3, <1>4 DEF Walks
<1>6. PICK rest : rest = SubSeq(line, last.done + 1, Len(line))
  OBVIOUS
<1>7. Render(numbers, line, none) = [numbers |-> last.numbers, line |-> last.line \o rest]
  BY <1>1, <1>2, <1>6, Zenon DEF Render, Marks
<1>8. rest = line
  <2>1. last.done + 1 = 1
    BY <1>1, <1>5
  <2>2. SubSeq(line, 1, Len(line)) = line
    BY AllOrNone
  <2> QED
    BY <1>6, <2>1, <2>2
<1>9. last.line \o rest = line
  BY <1>1, <1>5, <1>8
<1> QED
  BY <1>2, <1>7, <1>9

\* A line without credentials has no spans.
LEMMA NoSpans ==
  ASSUME NEW line \in Seq(Byte), ~ Has(line, DOMAIN Mask \cup {"BEGIN"})
  PROVE  Secrets(line, 0) = <<>>
<1> DEFINE n == Len(line)
<1>1. n \in Nat /\ DOMAIN line = 1..n
  OBVIOUS
<1>2. \A p \in 1..n : line[p].kind # "BEGIN" /\ line[p].kind \notin DOMAIN Mask
  BY <1>1 DEF Has
<1>3. PICK one : one = 1
  OBVIOUS
<1>4. one \in 1..(n + 1)
  BY <1>1, <1>3
<1>5. PICK f : SpansEq(f, line, one) /\ SpansFrom(line, one) = f[one]
  BY <1>4, SpansAre, SpansExist
<1>6. \A i \in 1..(n + 1) : f[i] = SpanStep(line, f, i)
  BY <1>3, <1>5 DEF SpansEq
<1> DEFINE E == {d \in 0..n : f[(n + 1) - d] = <<>>}
<1>7. 0 \in E
  <2>1. n + 1 \in 1..(n + 1) /\ n + 1 > n /\ (n + 1) - 0 = n + 1
    BY <1>1
  <2>2. SpanStep(line, f, n + 1) = <<>>
    BY <2>1 DEF SpanStep
  <2>3. f[n + 1] = <<>>
    BY <1>6, <2>1, <2>2
  <2> QED
    BY <1>1, <2>1, <2>3
<1>8. ASSUME NEW d \in 1..n, d - 1 \in E PROVE d \in E
  <2>1. PICK i : i = (n + 1) - d
    OBVIOUS
  <2>2. i \in 1..n /\ (n + 1) - (d - 1) = i + 1 /\ i \in 1..(n + 1) /\ ~ (i > n) /\ i <= n
    BY <1>1, <2>1
  <2>3. f[i + 1] = <<>>
    BY <1>8, <2>2
  <2>4. line[i].kind # "BEGIN" /\ line[i].kind \notin DOMAIN Mask
    BY <1>2, <2>2
  <2>5. SpanStep(line, f, i) = f[i + 1]
    BY <2>2, <2>4, Zenon DEF SpanStep
  <2>6. f[i] = <<>>
    BY <1>6, <2>2, <2>3, <2>5
  <2> QED
    BY <2>1, <2>6
<1>9. n \in E
  <2> HIDE DEF E
  <2>1. \A d \in 0..n : d \in E
    BY <1>1, <1>7, <1>8, UpTo
  <2> QED
    BY <1>1, <2>1
<1>10. f[1] = <<>>
  <2>1. (n + 1) - n = 1
    BY <1>1
  <2> QED
    BY <1>9, <2>1
<1>11. Secrets(line, 0) = SpansFrom(line, 1)
  <2>1. ~ (0 > 0)
    OBVIOUS
  <2> QED
    BY <2>1, Zenon DEF Secrets
<1> QED
  BY <1>3, <1>5, <1>10, <1>11

-----------------------------------------------------------------------------
(* The lines of a stream, as they are scanned.                              *)

\* A line of a stream, and its text.
LEMMA TextTyped ==
  ASSUME NEW B \in Seq(Byte), NEW i \in 1..(Len(Ends(B)) + 1)
  PROVE  LineOf(B, i) \in RawLine /\ TextOf(B, i) \in Seq(Byte) /\ TextOf(B, i) \in Seq(NoNewline)
<1>1. PICK raw, c : raw = LineOf(B, i) /\ c = Head_(B, i)
  OBVIOUS
<1>2. c \in Seq(Byte) /\ \A k \in 1..Len(c) : c[k] # Newline
  BY <1>1, LineLies
<1>3. c \in Seq(NoNewline)
  BY <1>2 DEF NoNewline
<1>4. PICK S : S = NoNewline /\ S \subseteq Byte
  BY DEF NoNewline
<1>5. MAX_LINE \in Nat
  BY RecordingAssumption
<1>6. raw.bytes = Clip(c, MAX_LINE) /\ raw.seq = i
      /\ raw.raw_len = EndOf(B, i) - EndOf(B, i - 1) /\ raw.terminated = (i <= Len(Ends(B)))
  BY <1>1 DEF LineOf
<1>7. PICK b : b = raw.bytes /\ b \in Seq(S)
  <2>1. Clip(c, MAX_LINE) \in Seq(S)
    BY <1>3, <1>4, <1>5, ClipIs
  <2> QED
    BY <1>6, <2>1
<1>8. Body(raw) \in Seq(S)
  <2>1. b # <<>> => Front(b) \in Seq(S)
    BY <1>7, FrontTyped
  <2> QED
    BY <1>7, <2>1 DEF Body
<1>9. b \in Seq(Byte) /\ Body(raw) \in Seq(Byte)
  BY <1>4, <1>7, <1>8, Larger
<1>10. EndOf(B, i) - EndOf(B, i - 1) \in Nat
  <2>1. PICK lo, hi : lo = EndOf(B, i - 1) /\ hi = EndOf(B, i)
    OBVIOUS
  <2>2. lo \in Nat /\ hi \in Nat /\ lo <= hi
    BY <2>1, EndOfIs
  <2> QED
    BY <2>1, <2>2
<1>11. raw \in RawLine
  <2>1. raw = [seq |-> raw.seq, bytes |-> raw.bytes, raw_len |-> raw.raw_len, terminated |-> raw.terminated]
    BY <1>1 DEF LineOf
  <2>2. raw.seq \in Nat /\ raw.raw_len \in Nat /\ raw.terminated \in BOOLEAN /\ raw.bytes \in Seq(Byte)
    BY <1>6, <1>7, <1>9, <1>10
  <2> QED
    BY <2>1, <2>2 DEF RawLine
<1> QED
  BY <1>1, <1>4, <1>8, <1>9, <1>11 DEF TextOf

\* A block that is open before the next line was before this one, or opens with this one.
LEMMA OpenNext ==
  ASSUME NEW B, NEW i \in Nat \ {0}, NEW j \in 1..i, OpenAt(B, j, i + 1)
  PROVE  /\ j # i => j \in 1..(i - 1) /\ OpenAt(B, j, i) /\ ~ Has(TextOf(B, i), {"BEGIN", "END"})
         /\ j = i => Opens(TextOf(B, i)) /\ \A k \in 1..(i - 1) : ~ Has(TextOf(B, k), {"BEGIN"})
<1>1. /\ Opens(TextOf(B, j))
      /\ \A k \in 1..(j - 1) : ~ Has(TextOf(B, k), {"BEGIN"})
      /\ \A k \in (j + 1)..i : ~ Has(TextOf(B, k), {"BEGIN", "END"})
  <2>1. (i + 1) - 1 = i
    OBVIOUS
  <2> QED
    BY <2>1 DEF OpenAt
<1>2. CASE j # i
  <2>1. j < i /\ j \in 1..(i - 1) /\ i \in (j + 1)..i
    BY <1>2
  <2>2. \A k \in (j + 1)..(i - 1) : k \in (j + 1)..i
    BY <2>1
  <2> QED
    BY <1>1, <1>2, <2>1, <2>2 DEF OpenAt
<1>3. CASE j = i
  BY <1>1, <1>3
<1> QED
  BY <1>2, <1>3

\* How many lines are to come after the i-th.
LEMMA KeyNext ==
  ASSUME NEW B \in Seq(Byte), NEW i \in 1..(Len(Ends(B)) + 1), NEW k \in Nat, KeyIs(B, i, k),
         NEW o, o = KeyLines(TextOf(B, i), k)
  PROVE  KeyIs(B, i + 1, o)
<1>1. PICK text : text = TextOf(B, i) /\ text \in Seq(Byte)
  BY TextTyped
<1>2. i \in Nat \ {0} /\ (i + 1) - 1 = i
  <2>1. Len(Ends(B)) \in Nat
    BY EndsAre
  <2> QED
    BY <2>1
<1>3. ASSUME \A j \in 1..i : ~ Has(TextOf(B, j), {"BEGIN"}) PROVE o = 0
  <2>1. \A j \in 1..(i - 1) : j \in 1..i
    BY <1>2
  <2>2. k = 0
    BY <1>3, <2>1 DEF KeyIs
  <2>3. ~ Has(text, {"BEGIN"})
    BY <1>1, <1>2, <1>3
  <2> QED
    BY <1>1, <2>2, <2>3, NoKeyBegins
<1>4. ASSUME NEW j \in 1..i, OpenAt(B, j, i + 1)
      PROVE  o = IF (i + 1) - j <= MAX_KEY_LINES THEN MAX_KEY_LINES - ((i + 1) - j - 1) ELSE 0
  <2>1. MAX_KEY_LINES \in Nat
    BY RecordingAssumption
  <2>2. CASE j = i
    <3>1. Opens(text) /\ \A p \in 1..(i - 1) : ~ Has(TextOf(B, p), {"BEGIN"})
      BY <1>1, <1>2, <1>4, <2>2, OpenNext
    <3>2. k = 0
      BY <3>1 DEF KeyIs
    <3>3. o = MAX_KEY_LINES
      BY <1>1, <3>1, <3>2, KeyOpens
    <3>4. (i + 1) - j = 1
      BY <1>2, <2>2
    <3>5. 1 <= MAX_KEY_LINES \/ MAX_KEY_LINES = 0
      BY <2>1
    <3> QED
      BY <2>1, <3>3, <3>4, <3>5
  <2>3. CASE j # i
    <3>1. j \in 1..(i - 1) /\ OpenAt(B, j, i) /\ ~ Has(text, {"BEGIN", "END"})
      BY <1>1, <1>2, <1>4, <2>3, OpenNext
    <3>2. k = IF i - j <= MAX_KEY_LINES THEN MAX_KEY_LINES - (i - j - 1) ELSE 0
      BY <3>1 DEF KeyIs
    <3>3. ~ Has(text, {"BEGIN"}) /\ ~ Has(text, {"END"})
      BY <3>1 DEF Has
    <3>4. CASE i - j <= MAX_KEY_LINES
      <4>1. k = MAX_KEY_LINES - (i - j - 1) /\ k > 0
        BY <1>2, <2>1, <3>1, <3>2, <3>4
      <4>2. o = k - 1
        BY <1>1, <3>3, <4>1, KeyGoesOn
      <4> QED
        BY <1>2, <2>1, <3>1, <3>4, <4>1, <4>2
    <3>5. CASE ~ (i - j <= MAX_KEY_LINES)
      <4>1. k = 0
        BY <3>2, <3>5
      <4>2. o = 0
        BY <1>1, <3>3, <4>1, NoKeyBegins
      <4>3. ~ ((i + 1) - j <= MAX_KEY_LINES)
        BY <1>2, <2>1, <3>1, <3>5
      <4> QED
        BY <4>2, <4>3
    <3> QED
      BY <3>4, <3>5
  <2> QED
    BY <2>2, <2>3
<1> QED
  BY <1>2, <1>3, <1>4 DEF KeyIs

\* A line of an open block as it is rendered.
LEMMA RenderOpen ==
  ASSUME NEW line \in Seq(Byte), NEW k \in Nat, k > 0, NEW numbers, NumbersOk(numbers),
         NEW seen, seen = Render(numbers, line, Secrets(line, k)).line
  PROVE  /\ line # <<>> => seen[1].kind = "PRIVATE_KEY"
         /\ ~ Has(line, {"END"}) => Len(seen) <= 1
<1>1. PICK s, end : s = Secrets(line, k) /\ end = Next_(line, 1, "END")
  OBVIOUS
<1>2. s \in Seq(SpanOf(Len(line)))
  BY <1>1, SecretsSplit DEF Splits
<1>3. k # 0 /\ ~ (k = 0)
  OBVIOUS
<1>4. CASE line = <<>>
  <2>1. end = 0
    <3>1. PICK one : one = 1 /\ one \in Nat /\ one >= 1
      OBVIOUS
    <3>2. \A p \in one..Len(line) : line[p].kind # "END"
      BY <1>4, <3>1
    <3>3. Next_(line, one, "END") = 0
      BY <3>1, <3>2, NextNone
    <3> QED
      BY <1>1, <3>1, <3>3
  <2>2. s = <<>>
    BY <1>1, <1>3, <1>4, <2>1, Zenon DEF Secrets
  <2>3. seen = line
    BY <1>1, <2>2, RenderNone
  <2> QED
    BY <1>4, <2>3
<1>5. CASE line # <<>>
  <2>1. Len(line) \in Nat /\ Len(line) # 0
    BY <1>5
  <2>2. CASE end = 0
    <3>1. PICK p : p = Span(1, Len(line), "PRIVATE_KEY")
      OBVIOUS
    <3>2. s = <<p>>
      BY <1>1, <1>3, <1>5, <2>2, <3>1, Zenon DEF Secrets
    <3>3. p.from = 1 /\ p.kind = "PRIVATE_KEY" /\ p.to = Len(line)
      BY <3>1 DEF Span
    <3>4. s # <<>> /\ s[1] = p /\ Len(s) = 1
      BY <3>2
    <3>5. s[1].from = 1 /\ s[1].kind = "PRIVATE_KEY"
      BY <3>3, <3>4
    <3>6. s # <<>>
      BY <3>4
    <3>7. /\ Starts(Render(numbers, line, s).line)
          /\ Len(s) = 1 /\ s[1].to = Len(line) => Len(Render(numbers, line, s).line) = 1
      BY <1>2, <3>5, <3>6, RenderKey
    <3>8. seen = Render(numbers, line, s).line
      BY <1>1
    <3>9. Len(seen) = 1 /\ seen[1].kind = "PRIVATE_KEY"
      BY <3>3, <3>4, <3>7, <3>8 DEF Starts
    <3> QED
      BY <3>9
  <2>3. CASE end # 0
    <3>1. end \in 1..Len(line) /\ line[end].kind = "END"
      <4>1. 1 \in Nat
        OBVIOUS
      <4> QED
        BY <1>1, <2>3, <4>1, NextAt
    <3>2. Has(line, {"END"})
      <4>1. DOMAIN line = 1..Len(line)
        OBVIOUS
      <4> QED
        BY <3>1, <4>1 DEF Has
    <3>3. PICK p, rest : p = Span(1, end, "PRIVATE_KEY") /\ rest = SpansFrom(line, end + 1)
      OBVIOUS
    <3>4. s = <<p>> \o rest
      BY <1>1, <1>3, <2>3, <3>3, Zenon DEF Secrets
    <3>5. rest \in Seq(SpanOf(Len(line)))
      <4>1. end + 1 \in 1..(Len(line) + 1)
        BY <2>1, <3>1
      <4> QED
        BY <3>3, <4>1, SpansSplit DEF Splits
    <3>6. p \in SpanOf(Len(line)) /\ p.from = 1 /\ p.kind = "PRIVATE_KEY"
      BY <2>1, <3>1, <3>3 DEF Span, SpanOf, Kinds
    <3>7. s # <<>> /\ s[1] = p
      <4>1. PICK S : S = SpanOf(Len(line))
        OBVIOUS
      <4>2. p \in S /\ rest \in Seq(S)
        BY <3>5, <3>6, <4>1
      <4>3. s \in Seq(S) /\ Len(s) = Len(rest) + 1 /\ s[1] = p
        BY <3>4, <4>2, Prepended
      <4> QED
        BY <4>2, <4>3
    <3>8. Starts(Render(numbers, line, s).line)
      BY <1>2, <3>6, <3>7, RenderKey
    <3> QED
      BY <1>1, <3>2, <3>8 DEF Starts
  <2> QED
    BY <2>2, <2>3
<1> QED
  BY <1>4, <1>5

\* The line is hidden if a block is open before it, and is not if it went on too long.
LEMMA LineHidden ==
  ASSUME NEW B \in Seq(Byte), NEW i \in 1..(Len(Ends(B)) + 1), NEW k \in Nat, KeyIs(B, i, k),
         NEW numbers, NumbersOk(numbers),
         NEW seen, seen = Render(numbers, TextOf(B, i), Secrets(TextOf(B, i), k)).line
  PROVE  LineHid(B, i, seen)
<1>1. PICK text : text = TextOf(B, i) /\ text \in Seq(Byte)
  BY TextTyped
<1>2. i \in Nat /\ MAX_KEY_LINES \in Nat
  <2>1. Len(Ends(B)) \in Nat
    BY EndsAre
  <2> QED
    BY <2>1, RecordingAssumption
<1>3. seen = Render(numbers, text, Secrets(text, k)).line
  BY <1>1
<1>4. ASSUME NEW j \in 1..(i - 1), OpenAt(B, j, i)
      PROVE  IF i - j <= MAX_KEY_LINES
             THEN /\ text # <<>> => seen[1].kind = "PRIVATE_KEY"
                  /\ ~ Has(text, {"END"}) => Len(seen) <= 1
             ELSE ~ Has(text, DOMAIN Mask \cup {"BEGIN"}) => seen = text
  <2>1. k = IF i - j <= MAX_KEY_LINES THEN MAX_KEY_LINES - (i - j - 1) ELSE 0
    BY <1>4 DEF KeyIs
  <2>2. CASE i - j <= MAX_KEY_LINES
    <3>1. k > 0
      BY <1>2, <2>1, <2>2
    <3>2. /\ text # <<>> => seen[1].kind = "PRIVATE_KEY"
          /\ ~ Has(text, {"END"}) => Len(seen) <= 1
      BY <1>1, <1>3, <3>1, RenderOpen
    <3> QED
      BY <2>2, <3>2
  <2>3. CASE ~ (i - j <= MAX_KEY_LINES)
    <3>1. k = 0
      BY <2>1, <2>3
    <3>2. ASSUME ~ Has(text, DOMAIN Mask \cup {"BEGIN"}) PROVE seen = text
      <4>1. Secrets(text, k) = <<>>
        BY <1>1, <3>1, <3>2, NoSpans
      <4> QED
        BY <1>1, <1>3, <4>1, RenderNone
    <3> QED
      BY <2>3, <3>2
  <2> QED
    BY <2>2, <2>3
<1> QED
  BY <1>1, <1>4 DEF LineHid

-----------------------------------------------------------------------------
(* What is captured of a line.                                              *)

\* Spans of a line have nothing but bytes of the line in between.
LEMMA SplitsAny ==
  ASSUME NEW S, NEW T, NEW line \in Seq(T), NEW spans, Splits(spans, line, 1, S)
  PROVE  Splits(spans, line, 1, T)
<1> DEFINE n == Len(line)
           m == Len(spans)
<1>1. n \in Nat /\ m \in Nat /\ spans \in Seq(SpanOf(n)) /\ \A k \in 1..m : spans[k] \in SpanOf(n)
  <2>1. PICK P : P = SpanOf(n)
    OBVIOUS
  <2>2. spans \in Seq(P)
    BY <2>1 DEF Splits
  <2> QED
    BY <2>1, <2>2
<1>2. ASSUME NEW k \in 0..m,
             NEW j \in (EndsAt(spans, 1, k) + 1)..(NextStart(spans, n, k) - 1)
      PROVE  line[j] \in T
  <2>1. EndsAt(spans, 1, k) \in 0..n
    <3>1. CASE k = 0
      BY <1>1, <3>1 DEF EndsAt
    <3>2. CASE k # 0
      <4>1. spans[k] \in SpanOf(n)
        BY <1>1, <3>2
      <4>2. spans[k].to \in 1..n
        BY <4>1 DEF SpanOf
      <4> QED
        BY <1>1, <3>2, <4>2 DEF EndsAt
    <3> QED
      BY <3>1, <3>2
  <2>2. NextStart(spans, n, k) \in 1..(n + 1)
    <3>1. CASE k = m
      BY <1>1, <3>1 DEF NextStart
    <3>2. CASE k # m
      <4>1. spans[k + 1] \in SpanOf(n)
        BY <1>1, <3>2
      <4>2. spans[k + 1].from \in 1..n
        BY <4>1 DEF SpanOf
      <4> QED
        BY <1>1, <3>2, <4>2 DEF NextStart
    <3> QED
      BY <3>1, <3>2
  <2>3. j \in 1..n
    BY <1>1, <2>1, <2>2
  <2> QED
    BY <2>3
<1> QED
  BY <1>1, <1>2 DEF Splits

\* What has no newline has none of their places.
LEMMA NoEnds ==
  ASSUME NEW S, NEW c \in Seq(S), Newline \notin S
  PROVE  Len(Ends(c)) = 0
<1>1. PICK e, m : e = Ends(c) /\ m = Len(e) /\ m \in Nat
  BY EndsAre
<1>2. \A i \in 1..m : e[i] \in 1..Len(c) /\ c[e[i]] = Newline
  BY <1>1, EndsExact DEF Newlines
<1>3. \A p \in 1..Len(c) : c[p] # Newline
  OBVIOUS
<1>4. ~ (1 \in 1..m)
  BY <1>2, <1>3
<1> QED
  BY <1>1, <1>4

\* No newline is in what is seen of a line, nor in what is captured of it.
LEMMA ViewsEndNothing ==
  ASSUME NEW r, RecOk(r), NEW stream \in Streams, NEW body \in Seq(NoNewline),
         NEW masked, masked = Masked(r, stream, body),
         NEW evidence, evidence = Evidence(r.redact, masked, body)
  PROVE  evidence.line \in Seq(NoNewline) /\ (r.redact = "off" => evidence.line = body)
<1>1. PICK spans : spans = Secrets(body, r.key_lines[stream])
  OBVIOUS
<1>2. r.key_lines[stream] \in Nat /\ NumbersOk(r.numbers) /\ r.redact \in Modes
  BY DEF RecOk
<1>3. NoNewline \subseteq Byte /\ MarkBytes \subseteq NoNewline
  BY ByteSets DEF NoNewline, MarkBytes, Newline, Kinds
<1>4. body \in Seq(Byte)
  BY <1>3, Larger
<1>5. Splits(spans, body, 1, Unmasked)
  BY <1>1, <1>2, <1>4, SecretsSplit
<1>6. Splits(spans, body, 1, NoNewline)
  BY <1>5, SplitsAny
<1>7. masked = Render(r.numbers, body, spans)
  BY <1>1 DEF Masked
<1>8. PICK line, numbers : line = masked.line /\ numbers = masked.numbers
  OBVIOUS
<1>9. line \in Seq(NoNewline) /\ NumbersOk(numbers)
  BY <1>2, <1>3, <1>6, <1>7, <1>8, RenderOk
<1>10. line \in Seq(Unmasked)
  <2>1. MarkBytes \subseteq Unmasked
    BY ByteSets
  <2> QED
    BY <1>2, <1>4, <1>5, <1>7, <1>8, <2>1, RenderOk
<1>11. CASE r.redact = "off"
  <2>1. evidence = [masked EXCEPT !.line = body]
    BY <1>11 DEF Evidence
  <2>2. masked = [numbers |-> masked.numbers, line |-> masked.line]
    BY <1>7 DEF Render
  <2>3. evidence.line = body
    BY <2>1, <2>2
  <2> QED
    BY <2>3
<1>12. CASE r.redact = "secrets"
  <2>1. evidence = masked
    BY <1>12 DEF Evidence
  <2> QED
    BY <1>8, <1>9, <1>12, <2>1
<1>13. CASE r.redact = "pii"
  <2>1. evidence = Render(masked.numbers, masked.line, Pii(masked.line))
    BY <1>13 DEF Evidence
  <2>2. PICK pii : pii = Pii(line)
    OBVIOUS
  <2>3. Splits(pii, line, 1, Private)
    BY <1>10, <2>2, PiiSplits
  <2>4. Splits(pii, line, 1, NoNewline)
    BY <1>9, <2>3, SplitsAny
  <2>5. Render(numbers, line, pii).line \in Seq(NoNewline)
    BY <1>3, <1>9, <2>4, RenderOk
  <2> QED
    BY <1>8, <1>13, <2>1, <2>2, <2>5
<1> QED
  BY <1>2, <1>11, <1>12, <1>13 DEF Modes

\* A line's body with its ending is the line.
LEMMA BodyEnding ==
  ASSUME NEW raw \in RawLine, NEW nl,
         raw.terminated => nl = <<Newline>>, ~ raw.terminated => nl = <<>>
  PROVE  /\ Ending(raw) \in Seq(Byte) /\ nl \in Seq(Byte)
         /\ Len(Ends(Ending(raw))) = IF raw.terminated THEN 1 ELSE 0
         /\ Body(raw) \o Ending(raw) = raw.bytes \o nl
<1>1. PICK b, S : b = raw.bytes /\ S = Byte /\ b \in Seq(S)
  BY DEF RawLine
<1>2. Newline \in S /\ Return \in S /\ Newline # Return /\ raw.terminated \in BOOLEAN
  BY <1>1, ByteSets DEF Newline, Return, RawLine
<1>3. nl \in Seq(S)
  <2>1. <<>> \in Seq(S) /\ <<Newline>> \in Seq(S)
    BY <1>2
  <2>2. nl = <<>> \/ nl = <<Newline>>
    BY <1>2
  <2> QED
    BY <2>1, <2>2
<1>4. PICK s : s = IF Body(raw) = raw.bytes THEN <<>> ELSE <<Return>>
  OBVIOUS
<1>5. Ending(raw) = s \o nl
  <2>1. raw.terminated \in BOOLEAN
    BY <1>2
  <2>2. nl = IF raw.terminated THEN <<Newline>> ELSE <<>>
    BY <2>1
  <2> QED
    BY <1>4, <2>2 DEF Ending
<1>6. s \in Seq(S) /\ s \in Seq({Return})
  <2>1. <<>> \in Seq(S) /\ <<Return>> \in Seq(S)
    BY <1>2
  <2>2. <<>> \in Seq({Return}) /\ <<Return>> \in Seq({Return})
    OBVIOUS
  <2>3. s = <<>> \/ s = <<Return>>
    BY <1>4
  <2> QED
    BY <2>1, <2>2, <2>3
<1>7. Ending(raw) \in Seq(S)
  BY <1>3, <1>5, <1>6, Concat
<1>8. Len(Ends(s)) = 0
  <2>1. Newline \notin {Return}
    BY <1>2
  <2> QED
    BY <1>6, <2>1, NoEnds
<1>9. Len(Ends(nl)) = IF raw.terminated THEN 1 ELSE 0
  <2>1. CASE raw.terminated
    <3>1. PICK e, x : e = <<>> /\ x = Newline
      OBVIOUS
    <3>2. e = <<>> /\ x = Newline /\ e \in Seq(S) /\ x \in S
      BY <1>2, <3>1
    <3>3. Ends(Append(e, x)) = Append(Ends(e), Len(e) + 1)
      BY <3>2, EndsAppend
    <3>4. Ends(e) = <<>> /\ Append(e, x) = nl
      BY <2>1, <3>2, EndsNone
    <3>5. Ends(nl) = Append(<<>>, Len(e) + 1)
      BY <3>3, <3>4
    <3>6. Len(Append(<<>>, Len(e) + 1)) = 1
      OBVIOUS
    <3> QED
      BY <2>1, <3>5, <3>6
  <2>2. CASE ~ raw.terminated
    BY <2>2, EndsNone
  <2> QED
    BY <2>1, <2>2
<1>10. Len(Ends(s \o nl)) = Len(Ends(s)) + Len(Ends(nl))
  BY <1>3, <1>6, EndsJoin DEF Joined
<1>11. Body(raw) \o s = b
  <2>1. CASE Body(raw) = raw.bytes
    BY <1>1, <1>4, <2>1
  <2>2. CASE Body(raw) # raw.bytes
    <3>1. b # <<>> /\ Last(b) = Return /\ Body(raw) = Front(b)
      BY <1>1, <2>2 DEF Body
    <3>2. Len(b) \in Nat /\ Len(b) # 0 /\ b[Len(b)] = Return
      BY <1>1, <3>1 DEF Last
    <3>3. PICK n, f, x : n = Len(b) /\ f = SubSeq(b, 1, n - 1) /\ x = Return
      OBVIOUS
    <3>4. Front(b) = f
      BY <3>3 DEF Front
    <3>5. PICK t : t = Append(f, x)
      OBVIOUS
    <3>6. f \in Seq(S) /\ Len(f) = n - 1 /\ (\A i \in 1..(n - 1) : f[i] = b[i]) /\ n \in Nat /\ n >= 1
      BY <1>1, <3>2, <3>3
    <3>7. t \in Seq(S) /\ Len(t) = n /\ t[n] = x /\ \A i \in 1..(n - 1) : t[i] = b[i]
      <4>1. x \in S
        BY <1>2, <3>3
      <4>2. t \in Seq(S) /\ Len(t) = Len(f) + 1 /\ t[Len(f) + 1] = x
            /\ \A i \in 1..Len(f) : t[i] = f[i]
        BY <3>5, <3>6, <4>1, Appended
      <4> QED
        BY <3>6, <4>2
    <3>8. \A i \in 1..n : t[i] = b[i]
      <4>1. \A i \in 1..n : i = n \/ i \in 1..(n - 1)
        BY <3>6
      <4> QED
        BY <3>2, <3>3, <3>7, <4>1
    <3>9. t = b
      BY <1>1, <3>3, <3>6, <3>7, <3>8, SameSeq
    <3>10. t = f \o <<x>>
      <4>1. x \in S
        BY <1>2, <3>3
      <4> QED
        BY <3>5, <3>6, <4>1, AppendIsConcat
    <3> QED
      BY <1>4, <2>2, <3>1, <3>3, <3>4, <3>9, <3>10
  <2> QED
    BY <2>1, <2>2
<1>12. Body(raw) \in Seq(S)
  BY <1>1, BodyTyped
<1>13. Body(raw) \o (s \o nl) = (Body(raw) \o s) \o nl
  BY <1>3, <1>6, <1>12, ConcatAssociative
<1> QED
  BY <1>1, <1>3, <1>5, <1>7, <1>8, <1>9, <1>10, <1>11, <1>13

-----------------------------------------------------------------------------
(* What a recording has of the first n lines of a stream.                   *)

\* One more line that was seen.
LEMMA PlacedNext ==
  ASSUME NEW lines \in Seq(Obs), NEW B, NEW n \in Nat, Placed(lines, B, n),
         NEW i, i = n + 1, NEW x \in Obs, x.seq = i, x.raw_len = RawLen(B, i), LineHid(B, i, x.line),
         NEW t, t = Append(lines, x)
  PROVE  t \in Seq(Obs) /\ Placed(t, B, i)
<1>1. Len(lines) = n
  BY DEF Placed
<1>2. PICK S : S = Obs
  OBVIOUS
<1>3. t \in Seq(S) /\ Len(t) = Len(lines) + 1 /\ t[Len(lines) + 1] = x
      /\ \A k \in 1..Len(lines) : t[k] = lines[k]
  BY <1>2, Appended
<1>4. Len(t) = i /\ t[i] = x /\ \A k \in 1..n : t[k] = lines[k]
  BY <1>1, <1>3
<1>5. ASSUME NEW k \in 1..i
      PROVE  t[k].seq = k /\ t[k].raw_len = RawLen(B, k) /\ LineHid(B, k, t[k].line)
  <2>1. CASE k = i
    BY <1>4, <2>1
  <2>2. CASE k # i
    <3>1. k \in 1..n
      BY <2>2
    <3>2. t[k] = lines[k]
      BY <1>4, <3>1
    <3> QED
      BY <3>1, <3>2 DEF Placed
  <2> QED
    BY <2>1, <2>2
<1> QED
  BY <1>2, <1>3, <1>4, <1>5 DEF Placed

\* A line that fits is its bytes up to its end.
LEMMA LineWhole ==
  ASSUME NEW B \in Seq(Byte), NEW i \in 1..(Len(Ends(B)) + 1), RawLen(B, i) <= MAX_LINE
  PROVE  TextOf(B, i) \o Ending(LineOf(B, i)) = SubSeq(B, EndOf(B, i - 1) + 1, EndOf(B, i))
<1>1. PICK raw, c : raw = LineOf(B, i) /\ c = Head_(B, i)
  OBVIOUS
<1>2. PICK nl : nl = IF i <= Len(Ends(B)) THEN <<Newline>> ELSE <<>>
  OBVIOUS
<1>3. raw \in RawLine
  BY <1>1, TextTyped
<1>4. raw.bytes = Clip(c, MAX_LINE) /\ raw.terminated = (i <= Len(Ends(B)))
  BY <1>1 DEF LineOf
<1>5. Body(raw) \o Ending(raw) = raw.bytes \o nl
  <2>1. raw.terminated => nl = <<Newline>>
    BY <1>2, <1>4
  <2>2. ~ raw.terminated => nl = <<>>
    BY <1>2, <1>4
  <2> QED
    BY <1>3, <2>1, <2>2, BodyEnding
<1>6. PICK lo, hi : lo = EndOf(B, i - 1) /\ hi = EndOf(B, i) /\ lo \in Nat /\ hi \in Nat
  BY EndOfIs
<1>7. c \in Seq(Byte) /\ Len(c) = hi - lo - (IF i <= Len(Ends(B)) THEN 1 ELSE 0)
  BY <1>1, <1>6, LineLies
<1>8. SubSeq(B, lo + 1, hi) = c \o nl
  BY <1>1, <1>2, <1>6, LineLies
<1>9. raw.bytes = c
  <2>1. MAX_LINE \in Nat
    BY RecordingAssumption
  <2>2. hi - lo <= MAX_LINE
    BY <1>6 DEF RawLen
  <2>3. Len(c) <= MAX_LINE
    BY <1>6, <1>7, <2>1, <2>2
  <2> QED
    BY <1>4, <1>7, <2>1, <2>3, ClipIs
<1> QED
  BY <1>1, <1>5, <1>6, <1>8, <1>9 DEF TextOf

\* One more line that is captured, or is not.
LEMMA WroteNext ==
  ASSUME NEW B \in Seq(Byte), NEW n \in 0..Len(Ends(B)), NEW i \in Nat, i > n, i <= n + 1,
         NEW redact, NEW stopped, NEW stops, ~ stops => ~ stopped,
         NEW w, Wrote(redact, stopped, w, B, n),
         NEW e \in Seq(NoNewline), redact = "off" => e = TextOf(B, i),
         NEW v, ~ stops => v = write_line(w, e, Ending(LineOf(B, i))), stops => v = w
  PROVE  Wrote(redact, stops, v, B, i)
<1>1. PICK L : L = Len(Ends(B)) /\ L \in Nat /\ n \in 0..L /\ n \in Nat
  BY EndsAre
<1>2. i \in 1..(L + 1) /\ i \in 1..(Len(Ends(B)) + 1) /\ i - 1 = n /\ i \in Nat
  BY <1>1
<1>3. w \in Seq(Byte)
  BY DEF Wrote
<1>4. ASSUME stops PROVE Wrote(redact, stops, v, B, i)
  <2>1. v = w /\ v \in Seq(Byte)
    BY <1>3, <1>4
  <2>2. ASSUME redact = "off", Fit(B, i)
        PROVE  \E m \in 0..i : v = SubSeq(B, 0 + 1, EndOf(B, m)) /\ (~ stops => m = i)
    <3>1. Fit(B, n)
      <4>1. \A k \in 1..n : k \in 1..i
        BY <1>1, <1>2
      <4> QED
        BY <2>2, <4>1 DEF Fit
    <3>2. PICK m \in 0..n : w = SubSeq(B, 0 + 1, EndOf(B, m))
      BY <2>2, <3>1 DEF Wrote
    <3>3. m \in 0..i
      BY <1>1, <1>2
    <3> QED
      BY <1>4, <2>1, <3>2, <3>3
  <2> QED
    BY <1>4, <2>1, <2>2 DEF Wrote
<1>5. ASSUME ~ stops PROVE Wrote(redact, stops, v, B, i)
  <2>1. PICK g : g = Ending(LineOf(B, i))
    OBVIOUS
  <2>2. v = (w \o e) \o g
    BY <1>5, <2>1 DEF write_line
  <2>3. PICK raw : raw = LineOf(B, i) /\ raw \in RawLine /\ raw.terminated = (i <= L)
    <3>1. LineOf(B, i) \in RawLine
      BY <1>2, TextTyped
    <3>2. LineOf(B, i).terminated = (i <= L)
      BY <1>1 DEF LineOf
    <3> QED
      BY <3>1, <3>2
  <2>4. g \in Seq(Byte) /\ Len(Ends(g)) = IF i <= L THEN 1 ELSE 0
    <3>1. PICK nl : nl = IF raw.terminated THEN <<Newline>> ELSE <<>>
      OBVIOUS
    <3>2. (raw.terminated => nl = <<Newline>>) /\ (~ raw.terminated => nl = <<>>)
      BY <3>1
    <3>3. Ending(raw) \in Seq(Byte) /\ Len(Ends(Ending(raw))) = IF raw.terminated THEN 1 ELSE 0
      BY <2>3, <3>2, BodyEnding
    <3> QED
      BY <2>1, <2>3, <3>3
  <2>5. e \in Seq(Byte) /\ Len(Ends(e)) = 0
    <3>1. NoNewline \subseteq Byte /\ Newline \notin NoNewline
      BY DEF NoNewline
    <3>2. e \in Seq(Byte)
      BY <3>1, Larger
    <3>3. Len(Ends(e)) = 0
      BY <3>1, NoEnds
    <3> QED
      BY <3>2, <3>3
  <2>6. PICK u : u = w \o e
    OBVIOUS
  <2>7. u \in Seq(Byte) /\ v \in Seq(Byte)
    BY <1>3, <2>2, <2>4, <2>5, <2>6, Concat
  <2>8. Len(Ends(v)) = Len(Ends(w)) + Len(Ends(g))
    <3>1. Len(Ends(u)) = Len(Ends(w)) + Len(Ends(e)) /\ Len(Ends(w)) \in Nat
      <4>1. Len(Ends(w \o e)) = Len(Ends(w)) + Len(Ends(e))
        BY <1>3, <2>5, EndsJoin DEF Joined
      <4> QED
        BY <1>3, <2>6, <4>1, EndsAre
    <3>2. Len(Ends(u \o g)) = Len(Ends(u)) + Len(Ends(g))
      BY <2>4, <2>7, EndsJoin DEF Joined
    <3>3. v = u \o g
      BY <2>2, <2>6
    <3> QED
      BY <2>5, <3>1, <3>2, <3>3
  <2>9. Len(Ends(w)) = n
    <3>1. ~ stopped /\ n <= Len(Ends(B))
      BY <1>1, <1>5
    <3> QED
      BY <3>1 DEF Wrote
  <2>10. Len(Ends(v)) = IF i <= Len(Ends(B)) THEN i ELSE Len(Ends(B))
    <3>1. CASE i <= L
      BY <1>1, <1>2, <2>4, <2>8, <2>9, <3>1
    <3>2. CASE ~ (i <= L)
      BY <1>1, <1>2, <2>4, <2>8, <2>9, <3>2
    <3> QED
      BY <1>1, <3>1, <3>2
  <2>11. ASSUME redact = "off", Fit(B, i)
         PROVE  v = SubSeq(B, 0 + 1, EndOf(B, i))
    <3>1. Fit(B, n) /\ RawLen(B, i) <= MAX_LINE
      <4>1. (\A k \in 1..n : k \in 1..i) /\ i \in 1..i
        BY <1>1, <1>2
      <4> QED
        BY <2>11, <4>1 DEF Fit
    <3>2. w = SubSeq(B, 0 + 1, EndOf(B, n))
      <4>1. \E m \in 0..n : w = SubSeq(B, 0 + 1, EndOf(B, m)) /\ (~ stopped => m = n)
        BY <2>11, <3>1, Zenon DEF Wrote
      <4> QED
        BY <1>5, <4>1
    <3>3. PICK lo, hi : lo = EndOf(B, n) /\ hi = EndOf(B, i)
      OBVIOUS
    <3>4. lo \in Nat /\ hi \in Nat /\ lo <= hi /\ hi <= Len(B)
      <4>1. EndOf(B, i - 1) \in Nat /\ EndOf(B, i) \in Nat /\ EndOf(B, i - 1) <= EndOf(B, i)
            /\ EndOf(B, i) <= Len(B)
        BY <1>2, EndOfIs
      <4> QED
        BY <1>2, <3>3, <4>1
    <3>5. TextOf(B, i) \o g = SubSeq(B, lo + 1, hi)
      <4>1. TextOf(B, i) \o Ending(LineOf(B, i)) = SubSeq(B, EndOf(B, i - 1) + 1, EndOf(B, i))
        BY <1>2, <3>1, LineWhole
      <4> QED
        BY <1>2, <2>1, <3>3, <4>1
    <3>6. SubSeq(B, 0 + 1, hi) = SubSeq(B, 0 + 1, lo) \o SubSeq(B, lo + 1, hi)
      BY <3>4, GoesOn
    <3>7. (w \o e) \o g = w \o (e \o g)
      <4>1. PICK S : S = Byte
        OBVIOUS
      <4>2. w \in Seq(S) /\ e \in Seq(S) /\ g \in Seq(S)
        BY <1>3, <2>4, <2>5, <4>1
      <4> QED
        BY <4>2, ConcatAssociative, SMTT(20)
    <3> QED
      BY <2>2, <2>11, <3>2, <3>3, <3>5, <3>6, <3>7
  <2>12. i \in 0..i
    BY <1>2
  <2> QED
    BY <1>5, <2>7, <2>10, <2>11, <2>12 DEF Wrote
<1> QED
  BY <1>4, <1>5

\* One more line of a stream.
LEMMA LineSunk ==
  ASSUME NEW r, Recs(r), NEW s \in Streams, NEW B, NEW n \in Nat, Saw(r, s, B, n), n <= Len(Ends(B)),
         NEW raw, raw = LineOf(B, n + 1), NEW q, q = SinkLine(r, s, raw)
  PROVE  Recs(q) /\ Saw(q, s, B, n + 1) /\ Kin(q, r, s)
<1>1. PICK i : i = n + 1 /\ i \in Nat
  OBVIOUS
<1>2. /\ B \in Seq(Byte) /\ Placed(r.observed[s], B, n) /\ KeyIs(B, i, r.key_lines[s])
      /\ Wrote(r.redact, r.stopped, r.written[s], B, n)
  BY <1>1 DEF Saw
<1>3. PICK L : L = Len(Ends(B)) /\ L \in Nat /\ n \in 0..L /\ i \in 1..(L + 1) /\ i \in 0..(L + 1)
  <2>1. Len(Ends(B)) \in Nat
    BY <1>2, EndsAre
  <2> QED
    BY <1>1, <2>1
<1>4. i \in 1..(Len(Ends(B)) + 1) /\ raw = LineOf(B, i)
  BY <1>1, <1>3
<1>5. PICK text : text = TextOf(B, i) /\ text = Body(raw)
  BY <1>4 DEF TextOf
<1>6. raw \in RawLine /\ text \in Seq(Byte) /\ text \in Seq(NoNewline)
      /\ raw.seq = i /\ raw.raw_len = RawLen(B, i)
  <2>1. raw \in RawLine /\ text \in Seq(Byte) /\ text \in Seq(NoNewline)
    BY <1>2, <1>4, <1>5, TextTyped
  <2>2. raw.seq = i /\ raw.raw_len = RawLen(B, i)
    BY <1>4 DEF LineOf, RawLen
  <2> QED
    BY <2>1, <2>2
<1>7. RecOk(r) /\ Shaped(r) /\ r.observed \in [Streams -> Seq(Obs)]
  BY DEF Recs
<1>8. Sunk(q, r, s, raw)
  BY <1>7, SinkLineIs
<1>9. RecOk(q)
  BY <1>6, <1>7, SinkLineOk
<1>10. r.key_lines \in [Streams -> Nat] /\ r.written \in [Streams -> Seq(Allowed(r.redact))]
       /\ NumbersOk(r.numbers)
  BY <1>7 DEF RecOk
<1>11. PICK k, masked, evidence :
         /\ k = r.key_lines[s]
         /\ masked = Masked(r, s, text)
         /\ evidence = Evidence(r.redact, masked, text)
  OBVIOUS
<1>12. PICK x : x = [seq |-> raw.seq, raw_len |-> raw.raw_len, line |-> masked.line]
  OBVIOUS
<1>13. /\ Shaped(q) /\ q.redact = r.redact
       /\ q.key_lines = [r.key_lines EXCEPT ![s] = KeyLines(text, @)]
       /\ q.stopped = ~ Captures(r)
       /\ q.written = [r.written EXCEPT ![s] =
            IF Captures(r) THEN write_line(@, evidence.line, Ending(raw)) ELSE @]
       /\ q.observed = [r.observed EXCEPT ![s] = Append(@, x)]
  BY <1>5, <1>8, <1>11, <1>12 DEF Sunk, EvidenceOf
<1>14. k \in Nat /\ q.key_lines[s] = KeyLines(text, k)
  BY <1>10, <1>11, <1>13
<1>15. q.observed[s] = Append(r.observed[s], x)
  BY <1>7, <1>13
<1>16. PICK c : c = Captures(r) /\ c \in BOOLEAN /\ (c => ~ r.stopped)
  BY DEF Captures
<1>17. q.stopped = ~ c
  BY <1>13, <1>16
<1>18. q.written[s] = IF c THEN write_line(r.written[s], evidence.line, Ending(raw)) ELSE r.written[s]
  BY <1>10, <1>13, <1>16
<1>19. KeyIs(B, i + 1, q.key_lines[s])
  BY <1>2, <1>4, <1>5, <1>11, <1>14, KeyNext
<1>20. masked.line \in Seq(Unmasked)
  BY <1>6, <1>7, <1>11, ViewsOk
<1>21. x \in Obs /\ x.seq = i /\ x.raw_len = RawLen(B, i) /\ x.line = masked.line
  BY <1>6, <1>12, <1>20 DEF Obs, RawLine
<1>22. LineHid(B, i, x.line)
  <2>1. masked.line = Render(r.numbers, text, Secrets(text, k)).line
    BY <1>11 DEF Masked
  <2>2. LineHid(B, i, masked.line)
    BY <1>2, <1>4, <1>5, <1>10, <1>11, <1>14, <2>1, LineHidden
  <2> QED
    BY <1>21, <2>2
<1>23. PICK lines, more : lines = r.observed[s] /\ more = q.observed[s]
  OBVIOUS
<1>24. more \in Seq(Obs) /\ Placed(more, B, i)
  <2>1. lines \in Seq(Obs) /\ Placed(lines, B, n) /\ more = Append(lines, x)
    BY <1>2, <1>7, <1>15, <1>23
  <2> QED
    BY <1>1, <1>21, <1>22, <2>1, PlacedNext
<1>25. evidence.line \in Seq(NoNewline) /\ (r.redact = "off" => evidence.line = TextOf(B, i))
  BY <1>5, <1>6, <1>7, <1>11, ViewsEndNothing
<1>26. Wrote(q.redact, q.stopped, q.written[s], B, i)
  <2>1. PICK redact, stopped, w, v, e :
          /\ redact = r.redact /\ stopped = r.stopped /\ w = r.written[s] /\ v = q.written[s]
          /\ e = evidence.line
    OBVIOUS
  <2>2. PICK stops : stops = q.stopped
    OBVIOUS
  <2>3. ~ stops => v = write_line(w, e, Ending(LineOf(B, i)))
    BY <1>4, <1>17, <1>18, <2>1, <2>2
  <2>4. stops => v = w
    BY <1>17, <1>18, <2>1, <2>2
  <2>5. e \in Seq(NoNewline) /\ (redact = "off" => e = TextOf(B, i))
    BY <1>25, <2>1
  <2>6. Wrote(redact, stopped, w, B, n) /\ (~ stops => ~ stopped)
    BY <1>2, <1>16, <1>17, <2>1, <2>2
  <2>7. n \in 0..Len(Ends(B)) /\ i \in Nat /\ i > n /\ i <= n + 1
    BY <1>1, <1>3
  <2>8. Wrote(redact, stops, v, B, i)
    BY <1>2, <2>3, <2>4, <2>5, <2>6, <2>7, WroteNext
  <2> QED
    BY <1>13, <2>1, <2>8, <2>2
<1>27. Saw(q, s, B, i)
  BY <1>2, <1>3, <1>19, <1>23, <1>24, <1>26 DEF Saw
<1>28. q.observed \in [Streams -> Seq(Obs)]
  <2>1. \A t \in Streams : t # s => q.observed[t] = r.observed[t]
    BY <1>7, <1>13
  <2>2. \A t \in Streams : q.observed[t] \in Seq(Obs)
    BY <1>7, <1>23, <1>24, <2>1
  <2>3. DOMAIN q.observed = Streams /\ q.observed = [t \in DOMAIN q.observed |-> q.observed[t]]
    BY <1>7, <1>13
  <2> QED
    BY <2>2, <2>3
<1>29. \A t \in Streams : t # s =>
              /\ q.observed[t] = r.observed[t] /\ q.key_lines[t] = r.key_lines[t]
              /\ q.written[t] = r.written[t]
  BY <1>7, <1>10, <1>13
<1> QED
  BY <1>1, <1>9, <1>13, <1>16, <1>17, <1>27, <1>28, <1>29 DEF Recs, Kin

\* What was seen of the lines of another stream.
LEMMA SawStill ==
  ASSUME NEW s, NEW r, NEW q, Kin(q, r, s), NEW t \in Streams, t # s, NEW B, NEW n, Saw(r, t, B, n)
  PROVE  Saw(q, t, B, n)
<1>1. /\ q.observed[t] = r.observed[t] /\ q.key_lines[t] = r.key_lines[t]
      /\ q.written[t] = r.written[t] /\ q.redact = r.redact /\ (~ q.stopped => ~ r.stopped)
  BY DEF Kin
<1>2. /\ B \in Seq(Byte) /\ n \in 0..(Len(Ends(B)) + 1) /\ Placed(r.observed[t], B, n)
      /\ KeyIs(B, n + 1, r.key_lines[t])
      /\ Wrote(r.redact, r.stopped, r.written[t], B, n)
  BY DEF Saw
<1>3. PICK w, red : w = r.written[t] /\ red = r.redact
  OBVIOUS
<1>4. Wrote(red, q.stopped, w, B, n)
  <2>1. /\ w \in Seq(Byte)
        /\ ~ r.stopped => Len(Ends(w)) = IF n <= Len(Ends(B)) THEN n ELSE Len(Ends(B))
    BY <1>2, <1>3 DEF Wrote
  <2>2. ASSUME red = "off", Fit(B, n)
        PROVE  \E m \in 0..n : w = SubSeq(B, 0 + 1, EndOf(B, m)) /\ (~ q.stopped => m = n)
    <3>1. PICK m \in 0..n : w = SubSeq(B, 0 + 1, EndOf(B, m)) /\ (~ r.stopped => m = n)
      BY <1>2, <1>3, <2>2, Zenon DEF Wrote
    <3> QED
      BY <1>1, <3>1
  <2> QED
    BY <1>1, <2>1, <2>2 DEF Wrote
<1> QED
  BY <1>1, <1>2, <1>3, <1>4 DEF Saw

\* Any number of lines of a stream leave the others, and none does.
LEMMA KinTwice ==
  ASSUME NEW r, NEW q, NEW u, NEW s, Kin(q, r, s), Kin(u, q, s)
  PROVE  Kin(u, r, s)
BY DEF Kin

LEMMA KinSelf ==
  ASSUME NEW r, NEW s
  PROVE  Kin(r, r, s)
BY DEF Kin

\* As many of the next lines of a stream.
LEMMA LinesSeen ==
  ASSUME NEW r, Recs(r), NEW s \in Streams, NEW B, NEW n \in Nat, Saw(r, s, B, n),
         NEW p \in Nat, n + p <= Len(Ends(B)) + 1,
         NEW raws, DOMAIN raws = 1..p, \A i \in 1..p : raws[i] = LineOf(B, n + i),
         NEW q, q = SinkLines(r, s, raws)
  PROVE  Recs(q) /\ Saw(q, s, B, n + p) /\ Kin(q, r, s)
<1>1. PICK h : Walks(h, [fold |-> "lines", stream |-> s], r, raws, p) /\ SinkLines(r, s, raws) = h[p]
  BY LinesWalk
<1>2. h[0] = r /\ \A k \in 1..p : h[k] = SinkLine(h[k - 1], s, raws[k])
  BY <1>1 DEF Walks, Step
<1>3. PICK L : L = Len(Ends(B)) /\ L \in Nat /\ n + p <= L + 1
  BY EndsAre DEF Saw
<1> DEFINE S == {k \in 0..p : Recs(h[k]) /\ Saw(h[k], s, B, n + k) /\ Kin(h[k], r, s)}
<1>4. 0 \in S
  <2>1. n + 0 = n /\ 0 \in 0..p
    OBVIOUS
  <2> QED
    BY <1>2, <2>1, KinSelf
<1>5. ASSUME NEW k \in 1..p, k - 1 \in S PROVE k \in S
  <2>1. n + (k - 1) \in Nat /\ n + (k - 1) <= L /\ n + k = (n + (k - 1)) + 1
    BY <1>3
  <2>2. PICK m : m = n + (k - 1) /\ m \in Nat /\ m <= L /\ n + k = m + 1
    BY <2>1
  <2>3. PICK a, b, raw : a = h[k - 1] /\ b = h[k] /\ raw = raws[k]
    OBVIOUS
  <2>4. Recs(a) /\ Saw(a, s, B, m) /\ Kin(a, r, s)
    BY <1>5, <2>2, <2>3
  <2>5. b = SinkLine(a, s, raw) /\ raw = LineOf(B, m + 1) /\ m <= Len(Ends(B))
    BY <1>2, <1>3, <2>2, <2>3
  <2>6. Recs(b) /\ Saw(b, s, B, m + 1) /\ Kin(b, a, s)
    BY <2>2, <2>4, <2>5, LineSunk
  <2>7. Kin(b, r, s)
    BY <2>4, <2>6, KinTwice
  <2>8. k \in 0..p
    OBVIOUS
  <2> QED
    BY <2>2, <2>3, <2>6, <2>7, <2>8
<1> HIDE DEF S
<1>6. \A k \in 0..p : k \in S
  BY <1>4, <1>5, UpTo
<1>7. p \in S
  BY <1>6
<1> QED
  BY <1>1, <1>7 DEF S

-----------------------------------------------------------------------------
(* The streams, one whole stream after the other.                           *)

\* A stream of which there is nothing to read was read.
LEMMA NothingRead ==
  ASSUME NEW r, NEW t, Unread(r, t, <<>>)
  PROVE  WasRead(r, t, <<>>)
<1>1. Len(Ends(<<>>)) = 0
  <2>1. PICK S : S = {} 
    OBVIOUS
  <2>2. <<>> \in Seq(S) /\ Newline \notin S
    BY <2>1
  <2> QED
    BY <2>2, NoEnds
<1> QED
  BY <1>1, FedNothing DEF Unread, WasRead

\* Opening a stream keeps a recording tidy.
LEMMA OpenedTidy ==
  ASSUME NEW r, Shaped(r), Tidy(r), NEW s \in Streams, NEW o, o = Opened(r, s).order
  PROVE  /\ o \in Seq(Streams)
         /\ \A i, j \in 1..Len(o) : o[i] = o[j] => i = j
         /\ \E i \in 1..Len(o) : o[i] = s
         /\ \A i \in 1..Len(r.order) : i \in 1..Len(o) /\ o[i] = r.order[i]
<1>1. PICK order : order = r.order /\ order \in Seq(Streams)
      /\ \A i, j \in 1..Len(order) : order[i] = order[j] => i = j
  BY DEF Tidy
<1>2. Contains(order, s) <=> \E i \in 1..Len(order) : order[i] = s
  BY DEF Contains
<1>3. CASE Contains(order, s)
  <2>1. o = order
    BY <1>1, <1>3 DEF Opened
  <2> QED
    BY <1>1, <1>2, <1>3, <2>1
<1>4. CASE ~ Contains(order, s)
  <2>1. PICK e : e = Append(order, s)
    OBVIOUS
  <2>2. o = e
    <3>1. Opened(r, s) = [r EXCEPT !.order = Append(@, s)]
      BY <1>1, <1>4 DEF Opened
    <3>2. "order" \in DOMAIN r
      BY ShapedIs DEF RecFields
    <3> QED
      BY <1>1, <2>1, <3>1, <3>2
  <2>3. PICK S : S = Streams /\ order \in Seq(S) /\ s \in S
    BY <1>1
  <2>4. e \in Seq(S) /\ Len(e) = Len(order) + 1 /\ e[Len(order) + 1] = s
        /\ \A i \in 1..Len(order) : e[i] = order[i]
    BY <2>1, <2>3, Appended
  <2>5. PICK n : n = Len(order) /\ n \in Nat
    BY <1>1
  <2>6. ASSUME NEW i \in 1..Len(e), NEW j \in 1..Len(e), e[i] = e[j] PROVE i = j
    <3>1. i \in 1..n \/ i = n + 1
      BY <2>4, <2>5
    <3>2. j \in 1..n \/ j = n + 1
      BY <2>4, <2>5
    <3>3. CASE i \in 1..n /\ j \in 1..n
      BY <1>1, <2>4, <2>5, <2>6, <3>3
    <3>4. \A k \in 1..n : e[k] # s
      BY <1>2, <1>4, <2>4, <2>5
    <3>5. e[n + 1] = s
      BY <2>4, <2>5
    <3> QED
      BY <2>6, <3>1, <3>2, <3>3, <3>4, <3>5
  <2>7. Len(order) + 1 \in 1..Len(e)
    BY <2>4, <2>5
  <2>8. \A i \in 1..Len(order) : i \in 1..Len(e)
    BY <2>4, <2>5
  <2> QED
    BY <1>1, <2>2, <2>3, <2>4, <2>6, <2>7, <2>8
<1> QED
  BY <1>3, <1>4

\* The whole of a stream, in one chunk.
LEMMA StreamSeen ==
  ASSUME NEW r, Recs(r), Tidy(r), NEW s \in Streams, NEW B \in Seq(Byte), Unread(r, s, B),
         NEW q, q = Chunk(r, s, B)
  PROVE  /\ Recs(q) /\ Tidy(q) /\ WasRead(q, s, B) /\ Kin(q, r, s)
         /\ \A t \in Streams : t # s => q.splitter[t] = r.splitter[t]
<1>1. RecOk(r) /\ Shaped(r) /\ r.observed \in [Streams -> Seq(Obs)]
  BY DEF Recs
<1>2. Splitting(r)
  BY <1>1 DEF Splitting, RecOk
<1>3. r.splitter[s] = NewSplitter /\ Saw(r, s, B, 0)
  BY DEF Unread
<1>4. PICK p, o : p = SunkOf(r, s, B) /\ o = Opened(r, s)
  OBVIOUS
<1>5. /\ Shaped(p) /\ p.splitter = r.splitter /\ p.order = o.order
      /\ q = Resplit(p, SplitterOf(r, s, B))
  BY <1>2, <1>4, ChunkIs
<1>6. OpenedAs(o, r, s)
  BY <1>1, <1>4, OpenedIs DEF RecOk
<1>7. /\ Shaped(o) /\ o.redact = r.redact /\ o.splitter = r.splitter
      /\ o.stopped = r.stopped /\ o.key_lines = r.key_lines /\ o.numbers = r.numbers
      /\ o.written = r.written /\ o.observed = r.observed /\ o.analysis = r.analysis
      /\ o.order \in Seq(Streams)
  BY <1>6 DEF OpenedAs
<1>8. Recs(o) /\ Saw(o, s, B, 0) /\ Kin(o, r, s)
  <2>1. {"key_lines", "numbers", "stopped", "written", "observed", "analysis", "order", "splitter"}
          \subseteq DOMAIN o
    BY <1>7, ShapedIs DEF RecFields
  <2>2. RecOk(o)
    BY <1>1, <1>7, <2>1 DEF RecOk
  <2>3. Recs(o)
    BY <1>1, <1>7, <2>2 DEF Recs
  <2> QED
    BY <1>3, <1>7, <2>3 DEF Saw, Kin
<1>9. PICK L, raws : L = Len(Ends(B)) /\ L \in Nat /\ raws = RawLines(NewSplitter, B) /\ DOMAIN raws = 1..L
                     /\ \A i \in 1..L : raws[i] = LineOf(B, i)
  BY LinesOfStream
<1>10. p = SinkLines(o, s, raws)
  BY <1>3, <1>4, <1>9 DEF SunkOf
<1>11. Recs(p) /\ Saw(p, s, B, L) /\ Kin(p, o, s)
  <2>1. PICK zero : zero = 0 /\ zero \in Nat
    OBVIOUS
  <2>2. \A i \in 1..L : raws[i] = LineOf(B, zero + i)
    BY <1>9, <2>1
  <2>3. zero + L <= Len(Ends(B)) + 1 /\ zero + L = L
    BY <1>9, <2>1
  <2>4. Saw(o, s, B, zero)
    BY <1>8, <2>1
  <2>5. Recs(p) /\ Saw(p, s, B, zero + L) /\ Kin(p, o, s)
    BY <1>8, <1>9, <1>10, <2>1, <2>2, <2>3, <2>4, LinesSeen
  <2> QED
    BY <2>3, <2>5
<1>12. Kin(p, r, s)
  BY <1>8, <1>11, KinTwice
<1>13. PICK all : all = SplitterOf(r, s, B) /\ q = Resplit(p, all)
  BY <1>5
<1>14. /\ Shaped(q) /\ q.splitter = all
       /\ q.redact = p.redact /\ q.stopped = p.stopped /\ q.order = p.order
       /\ q.key_lines = p.key_lines /\ q.numbers = p.numbers /\ q.written = p.written
       /\ q.observed = p.observed /\ q.analysis = p.analysis
  BY <1>5, <1>13, ResplitIs
<1>15. Kin(q, r, s) /\ Saw(q, s, B, L)
  BY <1>11, <1>12, <1>14 DEF Kin, Saw
<1>16. RecOk(q)
  BY <1>1, ChunkOk
<1>17. Recs(q)
  BY <1>11, <1>14, <1>16 DEF Recs
<1>18. /\ all[s] = Fed(NewSplitter, B)
       /\ \A t \in Streams : t # s => all[t] = r.splitter[t]
       /\ all \in [Streams -> Splitter]
  <2>1. PICK f, P, v : f = r.splitter /\ P = Splitter /\ v = Fed(NewSplitter, B)
    OBVIOUS
  <2>2. f \in [Streams -> P]
    BY <2>1 DEF Tidy
  <2>3. v \in P
    BY <2>1, NewSplitterTyped, FedTyped
  <2>4. all = [f EXCEPT ![s] = v]
    BY <1>3, <1>13, <2>1 DEF SplitterOf
  <2> QED
    BY <2>1, <2>2, <2>3, <2>4
<1>19. Tidy(q)
  <2>1. PICK e : e = o.order
    OBVIOUS
  <2>2. /\ e \in Seq(Streams)
        /\ \A i, j \in 1..Len(e) : e[i] = e[j] => i = j
        /\ \E i \in 1..Len(e) : e[i] = s
        /\ \A i \in 1..Len(r.order) : i \in 1..Len(e) /\ e[i] = r.order[i]
    BY <1>1, <1>4, <2>1, OpenedTidy
  <2>3. q.order = e
    BY <1>5, <1>14, <2>1
  <2>4. ASSUME NEW t \in Streams, \A i \in 1..Len(e) : e[i] # t PROVE all[t] = NewSplitter
    <3>1. t # s
      BY <2>2, <2>4
    <3>2. \A i \in 1..Len(r.order) : r.order[i] # t
      BY <2>2, <2>4
    <3> QED
      BY <1>18, <3>1, <3>2 DEF Tidy
  <2> QED
    BY <1>14, <1>18, <2>2, <2>3, <2>4 DEF Tidy
<1> QED
  BY <1>9, <1>14, <1>15, <1>17, <1>18, <1>19 DEF WasRead

\* Nothing was read of a new recording's streams.
LEMMA NewUnread ==
  ASSUME NEW redact \in Modes, NEW fails, NEW rng, NEW r, r = NewRecording(redact, fails, rng)
  PROVE  /\ Recs(r) /\ Tidy(r)
         /\ \A t \in Streams : \A B \in Seq(Byte) : Unread(r, t, B)
<1>1. RecOk(r) /\ r.redact = redact
  BY NewRecordingOk
<1>2. Shaped(r) /\ Splitting(r)
  BY NewLike DEF Like
<1>3. /\ r.order = <<>> /\ r.stopped = FALSE
      /\ r.key_lines = [s \in Streams |-> 0] /\ r.splitter = [s \in Streams |-> NewSplitter]
      /\ r.written = [s \in Streams |-> <<>>] /\ r.observed = [s \in Streams |-> <<>>]
  BY DEF NewRecording
<1>4. r.observed \in [Streams -> Seq(Obs)]
  <2>1. PICK S : S = Obs
    OBVIOUS
  <2>2. <<>> \in Seq(S)
    OBVIOUS
  <2> QED
    BY <1>3, <2>1, <2>2
<1>5. Tidy(r)
  <2>1. Len(r.order) = 0 /\ \A i, j \in 1..0 : FALSE
    BY <1>3
  <2>2. \A t \in Streams : r.splitter[t] = NewSplitter
    BY <1>3
  <2> QED
    BY <1>2, <2>1, <2>2 DEF Tidy, Splitting
<1>6. ASSUME NEW t \in Streams, NEW B \in Seq(Byte) PROVE Unread(r, t, B)
  <2>1. /\ r.key_lines[t] = 0 /\ r.splitter[t] = NewSplitter
        /\ r.written[t] = <<>> /\ r.observed[t] = <<>>
    BY <1>3
  <2>2. Len(Ends(B)) \in Nat
    BY EndsAre
  <2>3. Placed(<<>>, B, 0)
    BY DEF Placed
  <2>4. KeyIs(B, 0 + 1, 0)
    BY DEF KeyIs
  <2>5. Len(Ends(<<>>)) = 0
    <3>1. PICK S : S = {}
      OBVIOUS
    <3>2. <<>> \in Seq(S) /\ Newline \notin S
      BY <3>1
    <3> QED
      BY <3>2, NoEnds
  <2>6. <<>> = SubSeq(B, 0 + 1, EndOf(B, 0))
    <3>1. PICK S : S = Byte /\ B \in Seq(S)
      OBVIOUS
    <3>2. SubSeq(B, 1, 0) = <<>>
      BY <3>1, AllOrNone
    <3>3. EndOf(B, 0) = 0 /\ 0 + 1 = 1
      BY DEF EndOf
    <3> QED
      BY <3>2, <3>3
  <2>7. Wrote(r.redact, r.stopped, <<>>, B, 0)
    <3>1. PICK S : S = Byte
      OBVIOUS
    <3>2. <<>> \in Seq(S)
      OBVIOUS
    <3>3. Len(Ends(<<>>)) = IF 0 <= Len(Ends(B)) THEN 0 ELSE Len(Ends(B))
      BY <2>2, <2>5
    <3>4. \E m \in 0..0 : <<>> = SubSeq(B, 0 + 1, EndOf(B, m)) /\ (~ r.stopped => m = 0)
      BY <2>6
    <3> QED
      BY <3>1, <3>2, <3>3, <3>4 DEF Wrote
  <2>8. 0 \in 0..(Len(Ends(B)) + 1)
    BY <2>2
  <2> QED
    BY <2>1, <2>3, <2>4, <2>7, <2>8 DEF Unread, Saw
<1> QED
  BY <1>1, <1>2, <1>4, <1>5, <1>6 DEF Recs

\* What a step for another stream leaves.
LEMMA StreamStill ==
  ASSUME NEW s, NEW r, NEW q, Kin(q, r, s), NEW t \in Streams, t # s,
         q.splitter[t] = r.splitter[t], NEW B
  PROVE  (Unread(r, t, B) => Unread(q, t, B)) /\ (WasRead(r, t, B) => WasRead(q, t, B))
BY SawStill DEF Unread, WasRead

\* One more stream.
LEMMA PieceSeen ==
  ASSUME NEW n \in Nat, NEW streams, NEW read, OfStreams(streams, read, n), Apiece(streams, n),
         NEW A, Contents(A, streams, read, n), NEW k \in 1..n,
         NEW r, UpToHere(r, A, Later(streams, k - 1, n)), NEW q, q = PieceStep(streams, read, r, k)
  PROVE  UpToHere(q, A, Later(streams, k, n))
<1>1. PICK s, B, before, after :
        /\ s = streams[k].stream /\ B = read[k]
        /\ before = Later(streams, k - 1, n) /\ after = Later(streams, k, n)
  OBVIOUS
<1>2. s \in Streams /\ B \in Seq(Byte) /\ A[s] = B
  BY <1>1 DEF OfStreams, Contents
<1>3. s \in before /\ s \notin after /\ \A t : t # s => (t \in before <=> t \in after)
  <2>1. s \in before
    BY <1>1 DEF Later
  <2>2. s \notin after
    BY <1>1 DEF Later, Apiece
  <2>3. \A j : j \in ((k - 1) + 1)..n <=> j = k \/ j \in (k + 1)..n
    OBVIOUS
  <2> QED
    BY <1>1, <2>1, <2>2, <2>3 DEF Later
<1>4. Recs(r) /\ Tidy(r) /\ Unread(r, s, B)
  BY <1>1, <1>2, <1>3 DEF UpToHere
<1>5. CASE B = <<>>
  <2>1. q = r
    BY <1>1, <1>5 DEF PieceStep
  <2>2. WasRead(q, s, B)
    BY <1>4, <1>5, <2>1, NothingRead
  <2>3. ASSUME NEW t \in Streams
        PROVE  (t \in after => Unread(q, t, A[t])) /\ (t \notin after => WasRead(q, t, A[t]))
    <3>1. CASE t = s
      BY <1>2, <1>3, <2>2, <3>1
    <3>2. CASE t # s
      BY <1>1, <1>3, <2>1, <3>2 DEF UpToHere
    <3> QED
      BY <3>1, <3>2
  <2> QED
    BY <1>1, <1>4, <2>1, <2>3 DEF UpToHere
<1>6. CASE B # <<>>
  <2>1. q = Chunk(r, s, B)
    BY <1>1, <1>6 DEF PieceStep
  <2>2. /\ Recs(q) /\ Tidy(q) /\ WasRead(q, s, B) /\ Kin(q, r, s)
        /\ \A t \in Streams : t # s => q.splitter[t] = r.splitter[t]
    BY <1>2, <1>4, <2>1, StreamSeen
  <2>3. ASSUME NEW t \in Streams
        PROVE  (t \in after => Unread(q, t, A[t])) /\ (t \notin after => WasRead(q, t, A[t]))
    <3>1. CASE t = s
      BY <1>2, <1>3, <2>2, <3>1
    <3>2. CASE t # s
      <4>1. (t \in after => Unread(r, t, A[t])) /\ (t \notin after => WasRead(r, t, A[t]))
        BY <1>1, <1>3, <3>2 DEF UpToHere
      <4> QED
        BY <2>2, <3>2, <4>1, StreamStill
    <3> QED
      BY <3>1, <3>2
  <2> QED
    BY <1>1, <2>2, <2>3 DEF UpToHere
<1> QED
  BY <1>5, <1>6

\* All the streams.
LEMMA PiecesSeen ==
  ASSUME NEW n \in Nat, NEW streams, NEW read, OfStreams(streams, read, n), Apiece(streams, n),
         DOMAIN streams = 1..n, NEW A, Contents(A, streams, read, n),
         NEW redact \in Modes, NEW fails, NEW rng,
         NEW q, q = InOnePiece(NewRecording(redact, fails, rng), streams, read)
  PROVE  Recs(q) /\ Tidy(q) /\ \A t \in Streams : WasRead(q, t, A[t])
<1>1. PICK new : new = NewRecording(redact, fails, rng)
  OBVIOUS
<1>2. PICK h : Pieces(h, new, streams, read, n) /\ q = h[n]
  BY <1>1, PiecesAre
<1>3. h[0] = new /\ \A k \in 1..n : h[k] = PieceStep(streams, read, h[k - 1], k)
  BY <1>2 DEF Pieces
<1> DEFINE S == {k \in 0..n : UpToHere(h[k], A, Later(streams, k, n))}
<1>4. 0 \in S
  <2>1. /\ Recs(new) /\ Tidy(new)
        /\ \A t \in Streams : \A B \in Seq(Byte) : Unread(new, t, B)
    BY <1>1, NewUnread
  <2>2. ASSUME NEW t \in Streams
        PROVE  /\ t \in Later(streams, 0, n) => Unread(new, t, A[t])
               /\ t \notin Later(streams, 0, n) => WasRead(new, t, A[t])
    <3>1. A[t] \in Seq(Byte) /\ (t \notin Later(streams, 0, n) => A[t] = <<>>)
      BY DEF Contents
    <3>2. Unread(new, t, A[t])
      BY <2>1, <3>1
    <3>3. A[t] = <<>> => WasRead(new, t, A[t])
      BY <3>2, NothingRead
    <3> QED
      BY <3>1, <3>2, <3>3
  <2>3. UpToHere(new, A, Later(streams, 0, n))
    BY <2>1, <2>2 DEF UpToHere
  <2> QED
    BY <1>3, <2>3
<1>5. ASSUME NEW k \in 1..n, k - 1 \in S PROVE k \in S
  <2>1. PICK a, b : a = h[k - 1] /\ b = h[k]
    OBVIOUS
  <2>2. UpToHere(a, A, Later(streams, k - 1, n)) /\ b = PieceStep(streams, read, a, k)
    BY <1>3, <1>5, <2>1
  <2>3. UpToHere(b, A, Later(streams, k, n))
    BY <2>2, PieceSeen
  <2> QED
    BY <2>1, <2>3
<1> HIDE DEF S
<1>6. \A k \in 0..n : k \in S
  BY <1>4, <1>5, UpTo
<1>7. UpToHere(h[n], A, Later(streams, n, n))
  BY <1>6 DEF S
<1>8. Later(streams, n, n) = {}
  BY DEF Later
<1> QED
  BY <1>2, <1>7, <1>8 DEF UpToHere

-----------------------------------------------------------------------------
(* The last lines.                                                          *)

\* The last line of a stream, if it has no newline.
LEMMA LastSeen ==
  ASSUME NEW r, NEW s \in Streams, NEW A, NEW done, SeenTo(r, A, done), s \notin done,
         NEW B \in Seq(Byte), B = A[s], NEW sp, sp = Fed(NewSplitter, B),
         NEW q, q = SinkLines(r, s, LastLine(sp))
  PROVE  SeenTo(q, A, done \cup {s})
<1>1. PICK L, last : L = Len(Ends(B)) /\ last = LastLine(sp)
  OBVIOUS
<1>2. /\ L \in Nat /\ Total(B) \in {L, L + 1}
      /\ Total(B) = L => last = <<>>
      /\ Total(B) # L => last = <<LineOf(B, L + 1)>>
  BY <1>1, LastOfStream
<1>3. Recs(r) /\ Saw(r, s, B, L)
  BY <1>1 DEF SeenTo
<1>4. Recs(q) /\ Saw(q, s, B, Total(B)) /\ Kin(q, r, s)
  <2>1. CASE Total(B) = L
    <3>1. q = r
      BY <1>1, <1>2, <2>1, SinkNone
    <3> QED
      BY <1>3, <2>1, <3>1, KinSelf
  <2>2. CASE Total(B) # L
    <3>1. PICK raw, raws : raw = LineOf(B, L + 1) /\ raws = <<raw>>
      OBVIOUS
    <3>2. DOMAIN raws = 1..1 /\ raws[1] = raw
      BY <3>1
    <3>3. PICK one : one = 1
      OBVIOUS
    <3>4. \A i \in 1..one : raws[i] = LineOf(B, L + i)
      BY <3>1, <3>2, <3>3
    <3>5. DOMAIN raws = 1..one /\ L + one <= Len(Ends(B)) + 1 /\ L + one = Total(B)
      BY <1>1, <1>2, <2>2, <3>2, <3>3
    <3>6. q = SinkLines(r, s, raws)
      BY <1>1, <1>2, <2>2, <3>1
    <3>7. L \in Nat /\ one \in Nat
      BY <1>2, <3>3
    <3>8. Recs(q) /\ Saw(q, s, B, L + one) /\ Kin(q, r, s)
      BY <1>3, <3>4, <3>5, <3>6, <3>7, LinesSeen
    <3> QED
      BY <3>5, <3>8
  <2> QED
    BY <2>1, <2>2
<1>5. ASSUME NEW t \in Streams
      PROVE  /\ t \in done \cup {s} => Saw(q, t, A[t], Total(A[t]))
             /\ t \notin done \cup {s} => Saw(q, t, A[t], Len(Ends(A[t])))
  <2>1. CASE t = s
    BY <1>4, <2>1
  <2>2. CASE t # s
    <3>1. /\ t \in done => Saw(r, t, A[t], Total(A[t]))
          /\ t \notin done => Saw(r, t, A[t], Len(Ends(A[t])))
      BY DEF SeenTo
    <3> QED
      BY <1>4, <2>2, <3>1, SawStill
  <2> QED
    BY <2>1, <2>2
<1> QED
  BY <1>4, <1>5 DEF SeenTo

\* All of them.
LEMMA FlushSeen ==
  ASSUME NEW r, Recs(r), Tidy(r), NEW A, \A t \in Streams : A[t] \in Seq(Byte) /\ WasRead(r, t, A[t]),
         NEW q, q = Flush(r)
  PROVE  Recs(q) /\ \A t \in Streams : Saw(q, t, A[t], Total(A[t]))
<1>1. PICK order : order = r.order /\ order \in Seq(Streams)
      /\ \A i, j \in 1..Len(order) : order[i] = order[j] => i = j
  BY DEF Tidy
<1>2. PICK n : n = Len(order) /\ n \in Nat
  BY <1>1
<1>3. Splitting(r) /\ Shaped(r)
  BY DEF Recs, Tidy, Splitting
<1>4. PICK h : Lasts(h, r) /\ SinkLast(r) = h[n]
  BY <1>1, <1>2, LastsAre
<1>5. \A k \in 0..n : Shaped(h[k]) /\ h[k].splitter = r.splitter
  BY <1>1, <1>2, <1>3, <1>4, LastsOk
<1>6. h[0] = r /\ \A k \in 1..n : h[k] = SinkLines(h[k - 1], order[k], LastLine(h[k - 1].splitter[order[k]]))
  BY <1>1, <1>2, <1>4 DEF Lasts
<1> DEFINE S == {k \in 0..n : SeenTo(h[k], A, FirstOf(order, k))}
<1>7. 0 \in S
  <2>1. FirstOf(order, 0) = {}
    BY DEF FirstOf
  <2>2. SeenTo(h[0], A, {})
    BY <1>6 DEF SeenTo, WasRead
  <2>3. 0 \in 0..n
    BY <1>2
  <2> QED
    BY <2>1, <2>2, <2>3
<1>8. ASSUME NEW k \in 1..n, k - 1 \in S PROVE k \in S
  <2>1. PICK a, b, s, done, B, sp :
          /\ a = h[k - 1] /\ b = h[k] /\ s = order[k] /\ done = FirstOf(order, k - 1) /\ B = A[s]
          /\ sp = Fed(NewSplitter, B)
    OBVIOUS
  <2>2. s \in Streams /\ B \in Seq(Byte)
    BY <1>1, <1>2, <2>1
  <2>3. s \notin done
    <3>1. ASSUME NEW i \in 1..(k - 1) PROVE order[i] # s
      BY <1>1, <1>2, <2>1
    <3> QED
      BY <2>1, <3>1 DEF FirstOf
  <2>4. b = SinkLines(a, s, LastLine(sp))
    <3>1. a.splitter[s] = sp
      <4>1. k - 1 \in 0..n
        BY <1>2
      <4>2. a.splitter = r.splitter
        BY <1>5, <2>1, <4>1
      <4>3. r.splitter[s] = sp
        BY <2>1, <2>2 DEF WasRead
      <4> QED
        BY <4>2, <4>3
    <3> QED
      BY <1>6, <2>1, <3>1
  <2>5. SeenTo(a, A, done)
    BY <1>8, <2>1
  <2>6. SeenTo(b, A, done \cup {s})
    BY <2>1, <2>2, <2>3, <2>4, <2>5, LastSeen
  <2>7. FirstOf(order, k) = done \cup {s}
    <3>1. \A i : i \in 1..k <=> i \in 1..(k - 1) \/ i = k
      BY <1>2
    <3> QED
      BY <2>1, <3>1 DEF FirstOf
  <2>8. k \in 0..n
    BY <1>2
  <2> QED
    BY <2>1, <2>6, <2>7, <2>8
<1> HIDE DEF S
<1>9. \A k \in 0..n : k \in S
  BY <1>2, <1>7, <1>8, UpTo
<1>10. PICK p, done : p = h[n] /\ done = FirstOf(order, n) /\ SeenTo(p, A, done)
  <2>1. n \in 0..n
    BY <1>2
  <2>2. SeenTo(h[n], A, FirstOf(order, n))
    BY <1>9, <2>1 DEF S
  <2> QED
    BY <2>2
<1>11. ASSUME NEW t \in Streams PROVE Saw(p, t, A[t], Total(A[t]))
  <2>1. CASE t \in done
    BY <1>10, <2>1 DEF SeenTo
  <2>2. CASE t \notin done
    <3>1. \A i \in 1..Len(order) : order[i] # t
      BY <1>2, <1>10, <2>2 DEF FirstOf
    <3>2. r.splitter[t] = NewSplitter
      BY <1>1, <3>1 DEF Tidy
    <3>3. PICK B, L, last : B = A[t] /\ L = Len(Ends(B)) /\ last = LastLine(NewSplitter)
      OBVIOUS
    <3>4. NewSplitter = Fed(NewSplitter, B) /\ B \in Seq(Byte)
      BY <3>2, <3>3 DEF WasRead
    <3>5. /\ L \in Nat /\ Total(B) \in {L, L + 1}
          /\ Total(B) # L => last = <<LineOf(B, L + 1)>>
      BY <3>3, <3>4, LastOfStream
    <3>6. last = <<>>
      BY <3>3 DEF LastLine, NewSplitter
    <3>7. Total(B) = L
      BY <3>5, <3>6
    <3> QED
      BY <1>10, <2>2, <3>3, <3>7 DEF SeenTo
  <2> QED
    BY <2>1, <2>2
<1>12. PICK all : all = FlushedOf(r) /\ q = Resplit(p, all)
  BY <1>3, <1>4, <1>10, FlushIs
<1>13. Shaped(p)
  BY <1>2, <1>5, <1>10
<1>14. /\ Shaped(q) /\ q.redact = p.redact /\ q.stopped = p.stopped
       /\ q.key_lines = p.key_lines /\ q.written = p.written /\ q.observed = p.observed
  BY <1>12, <1>13, ResplitIs
<1>15. RecOk(q)
  BY FlushOk DEF Recs
<1>16. Recs(q)
  BY <1>10, <1>14, <1>15 DEF SeenTo, Recs
<1> QED
  BY <1>11, <1>14, <1>16 DEF Saw

\* Finishing a recording changes nothing of its lines or its capture once it is flushed.
LEMMA FinishKeeps ==
  ASSUME NEW r, RecOk(r), Splitting(r), NEW x, x = Flush(r), NEW q, q = Finish(r)
  PROVE  SameCapture(q, x)
<1>1. CASE r.redact # "pii"
  <2>1. q = x
    BY <1>1 DEF Finish
  <2> QED
    BY <2>1 DEF SameCapture
<1>2. CASE r.redact = "pii"
  <2>1. PICK S : S = Kept(x)
    OBVIOUS
  <2>2. RecOk(x) /\ Shaped(x)
    BY FlushOk, FlushKeeps DEF Splitting
  <2>3. IsFiniteSet(S)
    BY <2>1, <2>2, KeptFinite
  <2>4. PICK f : KeptEq(f, x, S) /\ FoldSet(MaskKept, x, S) = f[S]
    BY <2>3, KeptIs
  <2>5. q = f[S]
    BY <1>2, <2>1, <2>4 DEF Finish
  <2>6. PICK n : n = Cardinality(S) /\ n \in Nat
    BY <2>3, FS_CardinalityType
  <2> DEFINE K == {k \in 0..n : \A s \in SUBSET S : Cardinality(s) = k =>
                               Shaped(f[s]) /\ SameCapture(f[s], x)}
  <2>7. 0 \in K
    <3>1. f[{}] = x
      BY <2>4 DEF KeptEq
    <3>2. ASSUME NEW s \in SUBSET S, Cardinality(s) = 0 PROVE s = {}
      BY <2>3, <3>2, FS_Subset, FS_EmptySet
    <3>3. SameCapture(x, x)
      BY DEF SameCapture
    <3> QED
      BY <2>2, <2>6, <3>1, <3>2, <3>3
  <2>8. ASSUME NEW k \in 1..n, k - 1 \in K PROVE k \in K
    <3> SUFFICES ASSUME NEW s \in SUBSET S, Cardinality(s) = k
                 PROVE  Shaped(f[s]) /\ SameCapture(f[s], x)
      BY <2>6
    <3>1. s # {}
      BY FS_EmptySet
    <3>2. PICK o, t : o = One(s) /\ t = s \ {o}
      OBVIOUS
    <3>3. o \in s /\ t \in SUBSET S /\ Cardinality(t) = k - 1
      BY <2>3, <3>1, <3>2, OneLess
    <3>4. Shaped(f[t]) /\ SameCapture(f[t], x)
      BY <2>8, <3>3
    <3>5. PICK p, m, pii : p = f[t] /\ m = f[s] /\ m = MaskKept(o, p) /\ pii = PiiOf(p, o)
      BY <2>4, <3>1, <3>2 DEF KeptEq
    <3>6. Shaped(p)
      BY <3>4, <3>5
    <3>7. m = MaskKept(o, p) /\ pii = PiiOf(p, o)
      BY <3>5
    <3>8. /\ Shaped(m) /\ m.splitter = p.splitter
          /\ m.redact = p.redact /\ m.fails = p.fails /\ m.stopped = p.stopped /\ m.order = p.order
          /\ m.key_lines = p.key_lines /\ m.written = p.written /\ m.observed = p.observed
          /\ m.numbers = pii.numbers
          /\ m.analysis = [p.analysis EXCEPT !.behaviors = Remasked(@, o, pii.line)]
      BY <3>6, <3>7, MaskKeptIs
    <3> QED
      BY <3>4, <3>5, <3>8 DEF SameCapture
  <2>9. n \in K
    <3> HIDE DEF K
    <3>1. n \in 0..n
      BY <2>6
    <3> QED
      BY <2>6, <2>7, <2>8, <3>1, UpTo
  <2>10. SameCapture(f[S], x)
    <3>1. S \in SUBSET S
      OBVIOUS
    <3> QED
      BY <2>6, <2>9, <3>1
  <2> QED
    BY <2>5, <2>10
<1> QED
  BY <1>1, <1>2

-----------------------------------------------------------------------------
(* The recording of a run, and what was read.                               *)

\* What was seen is in the lines and the capture.
LEMMA SawAlike ==
  ASSUME NEW r, NEW q, NEW t, NEW B, NEW n, Saw(q, t, B, n),
         r.redact = q.redact, r.stopped = q.stopped, r.key_lines = q.key_lines,
         r.written = q.written, r.observed = q.observed
  PROVE  Saw(r, t, B, n)
BY DEF Saw

\* What was read of each stream, by its place among the streams.
LEMMA ContentIs ==
  ASSUME TypeOK, Distinct, fed <= Size(nth), NEW A, A = [t \in Streams |-> ContentOf(t)]
  PROVE  Contents(A, inputs, ReadOf, Len(inputs))
<1>1. /\ Len(inputs) \in Nat /\ DOMAIN inputs = 1..Len(inputs)
      /\ OfStreams(inputs, ReadOf, Len(inputs))
  BY ReadTyped
<1>2. \A k \in 1..Len(inputs) : ReadOf[k] = FedOf(k) /\ FedOf(k) \in Seq(Byte)
  BY <1>1 DEF ReadOf, OfStreams
<1>3. ASSUME NEW k \in 1..Len(inputs) PROVE A[inputs[k].stream] = ReadOf[k]
  <2>1. PICK t : t = inputs[k].stream /\ t \in Streams
    BY <1>1 DEF OfStreams
  <2>2. PICK m : m = CHOOSE n \in 1..Len(inputs) : inputs[n].stream = t
    OBVIOUS
  <2>3. m \in 1..Len(inputs) /\ inputs[m].stream = t
    BY <2>1, <2>2
  <2>4. m = k
    BY <2>1, <2>3 DEF Distinct, Apiece
  <2>5. ContentOf(t) = FedOf(m)
    BY <2>1, <2>2, Zenon DEF ContentOf
  <2> QED
    BY <1>2, <2>1, <2>4, <2>5
<1>4. ASSUME NEW t \in Streams
      PROVE  A[t] \in Seq(Byte) /\ (t \notin Later(inputs, 0, Len(inputs)) => A[t] = <<>>)
  <2>1. CASE \E n \in 1..Len(inputs) : inputs[n].stream = t
    <3>1. PICK n \in 1..Len(inputs) : inputs[n].stream = t
      BY <2>1
    <3>2. A[t] = ReadOf[n]
      BY <1>3, <3>1
    <3>3. n \in (0 + 1)..Len(inputs)
      BY <1>1
    <3>4. t \in Later(inputs, 0, Len(inputs))
      BY <3>1, <3>3 DEF Later
    <3> QED
      BY <1>2, <3>2, <3>4
  <2>2. CASE ~ \E n \in 1..Len(inputs) : inputs[n].stream = t
    <3>1. A[t] = <<>>
      BY <2>2, Zenon DEF ContentOf
    <3>2. <<>> \in Seq(Byte)
      <4>1. PICK S : S = Byte
        OBVIOUS
      <4> QED
        BY <4>1
    <3> QED
      BY <3>1, <3>2
  <2> QED
    BY <2>1, <2>2
<1> QED
  BY <1>3, <1>4 DEF Contents

\* What the recording of the whole has seen, the recording has.
LEMMA SeenInAll ==
  ASSUME IInv, Hidden, AsWhole, Distinct
  PROVE  AllSeen
<1>1. TypeOK /\ RecOk(rec) /\ fed <= Size(nth)
  BY FedWithin DEF IInv, Hidden
<1>2. PICK w : w = Whole
  OBVIOUS
<1>3. PICK A : A = [t \in Streams |-> ContentOf(t)]
  OBVIOUS
<1>4. PICK n, streams, read :
        n = Len(inputs) /\ streams = inputs /\ read = ReadOf
  OBVIOUS
<1>5. /\ n \in Nat /\ DOMAIN streams = 1..n /\ OfStreams(streams, read, n)
      /\ Apiece(streams, n) /\ Contents(A, streams, read, n) /\ Splitting(w)
  BY <1>1, <1>2, <1>3, <1>4, ReadTyped, ContentIs DEF Distinct
<1>6. PICK redact, fails, rng : redact = rec.redact /\ fails = rec.fails /\ rng = RNG /\ redact \in Modes
  BY <1>1 DEF RecOk
<1>7. w = InOnePiece(NewRecording(redact, fails, rng), streams, read)
  BY <1>2, <1>4, <1>6 DEF Whole
<1>8. Recs(w) /\ Tidy(w) /\ \A t \in Streams : WasRead(w, t, A[t])
  BY <1>5, <1>6, <1>7, PiecesSeen
<1>9. \A t \in Streams : A[t] \in Seq(Byte)
  BY <1>5 DEF Contents
<1>10. PICK x : x = Flush(w)
  OBVIOUS
<1>11. Recs(x) /\ \A t \in Streams : Saw(x, t, A[t], Total(A[t]))
  BY <1>8, <1>9, <1>10, FlushSeen
<1>12. PICK z : z = Finish(w)
  OBVIOUS
<1>13. SameCapture(z, x)
  <2>1. RecOk(w)
    BY <1>8 DEF Recs
  <2> QED
    BY <1>5, <1>10, <1>12, <2>1, FinishKeeps
<1>14. Like(rec, w) \/ Like(rec, x) \/ Like(rec, z)
  BY <1>2, <1>10, <1>12 DEF AsWhole
<1>15. PICK o : (o = w \/ o = x \/ o = z) /\ Like(rec, o)
  BY <1>14
<1>16. /\ rec.redact = o.redact /\ rec.stopped = o.stopped /\ rec.key_lines = o.key_lines
       /\ rec.written = o.written /\ rec.observed = o.observed
  BY <1>15, Zenon DEF Like
<1>17. ASSUME NEW t \in Streams, NEW B, B = ContentOf(t)
       PROVE  Saw(rec, t, B, Len(Ends(B))) \/ Saw(rec, t, B, Total(B))
  <2>1. A[t] = B
    BY <1>3, <1>17
  <2>2. CASE o = w
    <3>1. Saw(o, t, B, Len(Ends(B)))
      BY <1>8, <2>1, <2>2 DEF WasRead
    <3>2. Saw(rec, t, B, Len(Ends(B)))
      BY <1>16, <3>1, SawAlike
    <3> QED
      BY <3>2
  <2>3. CASE o = x \/ o = z
    <3>1. Saw(x, t, B, Total(B))
      BY <1>11, <2>1
    <3>2. Saw(z, t, B, Total(B))
      BY <1>13, <3>1, SawAlike DEF SameCapture
    <3>3. Saw(o, t, B, Total(B))
      BY <2>3, <3>1, <3>2
    <3>4. Saw(rec, t, B, Total(B))
      BY <1>16, <3>3, SawAlike
    <3> QED
      BY <3>4
  <2> QED
    BY <1>15, <2>2, <2>3
<1>18. rec.observed \in [Streams -> Seq(Obs)]
  BY <1>8, <1>11, <1>13, <1>15, <1>16 DEF Recs, SameCapture
<1> QED
  BY <1>17, <1>18 DEF AllSeen

-----------------------------------------------------------------------------
(* Where the lines are found again.                                         *)

\* Lengths are summed from the first line to the last.
LEMMA SumsWalk ==
  ASSUME NEW seq, NEW n \in Nat, DOMAIN seq = 1..n
  PROVE  \E h : Walks(h, [fold |-> "offset"], 0, seq, n) /\ Sums(seq) = h[n]
<1> DEFINE by == [fold |-> "offset"]
           fold == CHOOSE f : SumsEq(f, seq)
<1>1. Sums(seq) = fold[DOMAIN seq]
  BY Zenon DEF Sums, FoldLeft, MapThenFoldSet, SumsEq
<1>2. ASSUME NEW r, NEW x PROVE Step(by, r, x) = r + x.raw_len
  BY DEF Step
<1>3. \A f : SumsEq(f, seq) <=> FoldEq(f, by, 0, seq, n)
  <2> SUFFICES ASSUME NEW f PROVE SumsEq(f, seq) <=> FoldEq(f, by, 0, seq, n)
    OBVIOUS
  <2>1. \A s \in SUBSET (1..n) :
          Step(by, f[s \ {Max(s)}], seq[Max(s)]) = f[s \ {Max(s)}] + seq[Max(s)].raw_len
    BY <1>2, Zenon
  <2>2. \A s \in SUBSET DOMAIN seq :
          (IF s = {} THEN 0 ELSE Step(by, f[s \ {Max(s)}], seq[Max(s)]))
          = (IF s = {} THEN 0 ELSE f[s \ {Max(s)}] + seq[Max(s)].raw_len)
    BY <2>1, Zenon
  <2> QED
    BY <2>2, Zenon DEF SumsEq, FoldEq
<1>4. \E f : SumsEq(f, seq)
  BY <1>3, FoldExists
<1>5. SumsEq(fold, seq)
  BY <1>4, Zenon
<1> HIDE DEF fold, by
<1>6. PICK h : Walks(h, by, 0, seq, n) /\ h[n] = fold[1..n]
  BY <1>3, <1>5, FoldWalks
<1> QED
  BY <1>1, <1>6 DEF by

\* The lengths of the first lines are where the last of them ends.
LEMMA OffsetIs ==
  ASSUME NEW lines \in Seq(Obs), NEW B \in Seq(Byte), NEW n \in 0..(Len(Ends(B)) + 1),
         Placed(lines, B, n), NEW i \in 0..n
  PROVE  Sums(SubSeq(lines, 1, i)) = EndOf(B, i)
<1>1. PICK t : t = SubSeq(lines, 1, i)
  OBVIOUS
<1>2. Len(lines) = n /\ Len(Ends(B)) \in Nat /\ n \in Nat /\ i \in Nat /\ i <= n
  BY EndsAre DEF Placed
<1>3. DOMAIN t = 1..i /\ \A k \in 1..i : t[k] = lines[k]
  <2>1. PICK S : S = Obs /\ lines \in Seq(S)
    OBVIOUS
  <2> QED
    BY <1>1, <1>2, <2>1
<1>4. PICK h : Walks(h, [fold |-> "offset"], 0, t, i) /\ Sums(t) = h[i]
  BY <1>2, <1>3, SumsWalk
<1>5. h[0] = 0 /\ \A k \in 1..i : h[k] = h[k - 1] + t[k].raw_len
  BY <1>4 DEF Walks, Step
<1> DEFINE K == {k \in 0..i : h[k] = EndOf(B, k)}
<1>6. 0 \in K
  BY <1>2, <1>5 DEF EndOf
<1>7. ASSUME NEW k \in 1..i, k - 1 \in K PROVE k \in K
  <2>1. k \in 1..n /\ k \in 1..(Len(Ends(B)) + 1)
    BY <1>2
  <2>2. t[k].raw_len = EndOf(B, k) - EndOf(B, k - 1)
    BY <1>3, <2>1 DEF Placed, RawLen
  <2>3. EndOf(B, k) \in Nat /\ EndOf(B, k - 1) \in Nat
    BY <2>1, EndOfIs
  <2>4. h[k - 1] = EndOf(B, k - 1)
    BY <1>7
  <2>5. h[k] = EndOf(B, k)
    BY <1>5, <2>2, <2>3, <2>4
  <2> QED
    BY <2>5
<1> HIDE DEF K
<1>8. \A k \in 0..i : k \in K
  BY <1>2, <1>6, <1>7, UpTo
<1>9. h[i] = EndOf(B, i)
  <2>1. i \in K
    BY <1>2, <1>8
  <2> QED
    BY <2>1 DEF K
<1> QED
  BY <1>1, <1>4, <1>9

\* A line of a stream as it is scanned.
LEMMA ScannedIs ==
  ASSUME NEW n, FedOf(n) \in Seq(Byte), NEW i \in 1..(Len(Ends(FedOf(n))) + 1)
  PROVE  Scanned(n, i) = TextOf(FedOf(n), i)
<1>1. PICK B, c, line : B = FedOf(n) /\ c = Head_(B, i) /\ line = LineOf(B, i) /\ B \in Seq(Byte)
  OBVIOUS
<1>2. c \in Seq(Byte)
  BY <1>1, LineLies
<1>3. PICK raw : raw = [bytes |-> SubSeq(c, 1, Min({Len(c), MAX_LINE}))]
  OBVIOUS
<1>4. Scanned(n, i) = Body(raw)
  BY <1>1, <1>3 DEF Scanned
<1>5. TextOf(B, i) = Body(line)
  BY <1>1 DEF TextOf
<1>6. raw.bytes = line.bytes
  <2>1. Len(c) \in Nat /\ MAX_LINE \in Nat
    BY <1>2, RecordingAssumption
  <2>2. Min({Len(c), MAX_LINE}) = IF Len(c) <= MAX_LINE THEN Len(c) ELSE MAX_LINE
    BY <2>1, LesserNat
  <2> QED
    BY <1>1, <1>3, <2>2 DEF LineOf, Clip
<1>7. Body(raw) = Body(line)
  BY <1>6 DEF Body
<1> QED
  BY <1>1, <1>4, <1>5, <1>7

\* There is such a stretch of lines for every stream that was begun.
LEMMA SeenIs ==
  ASSUME TypeOK, Distinct, fed <= Size(nth), AllSeen, NEW n \in 1..nth
  PROVE  \E B, lines, m : SeenOf(n, B, lines, m)
<1>1. /\ Len(inputs) \in Nat /\ nth \in 1..Len(inputs)
      /\ OfStreams(inputs, ReadOf, Len(inputs)) /\ DOMAIN inputs = 1..Len(inputs)
  BY ReadTyped
<1>2. n \in 1..Len(inputs)
  BY <1>1
<1>3. PICK s, B : s = inputs[n].stream /\ s \in Streams /\ B = FedOf(n)
  BY <1>1, <1>2 DEF OfStreams
<1>4. ContentOf(s) = B
  <2>1. PICK m : m = CHOOSE k \in 1..Len(inputs) : inputs[k].stream = s
    OBVIOUS
  <2>2. \E k \in 1..Len(inputs) : inputs[k].stream = s
    BY <1>2, <1>3
  <2>3. m \in 1..Len(inputs) /\ inputs[m].stream = s
    BY <2>1, <2>2
  <2>4. m = n
    BY <1>2, <1>3, <2>3 DEF Distinct, Apiece
  <2> QED
    BY <1>3, <2>1, <2>2, <2>4, Zenon DEF ContentOf
<1>5. B \in Seq(Byte)
  BY <1>1, <1>2, <1>3 DEF OfStreams, ReadOf
<1>6. Len(Ends(B)) \in Nat /\ (Total(B) = Len(Ends(B)) \/ Total(B) = Len(Ends(B)) + 1)
  <2>1. Len(Ends(B)) \in Nat
    BY <1>5, EndsAre
  <2> QED
    BY <2>1 DEF Total
<1>7. PICK lines : lines = rec.observed[s] /\ lines \in Seq(Obs)
  BY <1>3 DEF AllSeen
<1>8. Saw(rec, s, B, Len(Ends(B))) \/ Saw(rec, s, B, Total(B))
  BY <1>3, <1>4 DEF AllSeen
<1>9. CASE Saw(rec, s, B, Len(Ends(B)))
  BY <1>3, <1>5, <1>6, <1>7, <1>9 DEF SeenOf
<1>10. CASE Saw(rec, s, B, Total(B))
  BY <1>3, <1>5, <1>6, <1>7, <1>10 DEF SeenOf
<1> QED
  BY <1>8, <1>9, <1>10

\* What the recording has seen are the lines as they lie.
LEMMA LinesAsTheyLie ==
  ASSUME TypeOK, Distinct, fed <= Size(nth), AllSeen, NEW n \in 1..nth, NEW s, s = inputs[n].stream,
         NEW lines, lines = rec.observed[s], NEW ends, ends = Ends(FedOf(n))
  PROVE  Lying(s, lines, ends, FedOf(n))
<1>1. PICK B, m : SeenOf(n, B, lines, m)
  <2>1. PICK B, o, m : SeenOf(n, B, o, m)
    BY SeenIs
  <2> QED
    BY <2>1 DEF SeenOf
<1>2. /\ B = FedOf(n) /\ B \in Seq(Byte) /\ lines \in Seq(Obs) /\ Saw(rec, s, B, m)
  BY <1>1 DEF SeenOf
<1>3. PICK L : L = Len(Ends(B)) /\ L = Len(ends) /\ L \in Nat /\ (m = L \/ m = L + 1)
  BY <1>1 DEF SeenOf
<1>4. /\ Placed(lines, B, m) /\ Wrote(rec.redact, rec.stopped, rec.written[s], B, m)
  BY <1>2 DEF Saw
<1>5. Len(lines) = m /\ DOMAIN lines = 1..m /\ m \in Nat /\ m \in 0..(Len(Ends(B)) + 1)
  BY <1>2, <1>3, <1>4 DEF Placed
<1>6. ASSUME NEW i \in 0..m PROVE Offset(s, i) = EndOf(B, i)
  <2>1. Sums(SubSeq(lines, 1, i)) = EndOf(B, i)
    BY <1>2, <1>4, <1>5, OffsetIs
  <2>2. Offset(s, i) = Sums(SubSeq(lines, 1, i))
    BY Zenon DEF Offset, Sums
  <2> QED
    BY <2>1, <2>2
<1>7. ASSUME NEW i \in DOMAIN lines
      PROVE  /\ lines[i].seq = i /\ lines[i].raw_len = RawLen(B, i)
             /\ Offset(s, i) = IF i \in DOMAIN ends THEN ends[i] ELSE Len(FedOf(n))
  <2>1. i \in 1..m /\ i \in 0..m
    BY <1>5
  <2>2. lines[i].seq = i /\ lines[i].raw_len = RawLen(B, i)
    BY <1>4, <2>1 DEF Placed
  <2>3. Offset(s, i) = EndOf(B, i)
    BY <1>6, <2>1
  <2>4. DOMAIN ends = 1..L
    BY <1>2, <1>3, EndsAre
  <2>5. i \in DOMAIN ends <=> ~ (i > Len(Ends(B)))
    BY <1>3, <2>1, <2>4
  <2>6. EndOf(B, i) = IF i \in DOMAIN ends THEN ends[i] ELSE Len(B)
    <3>1. i # 0 /\ ends = Ends(B)
      BY <1>2, <2>1
    <3> QED
      BY <2>5, <3>1 DEF EndOf
  <2> QED
    BY <1>2, <2>2, <2>3, <2>6
<1>8. Clean(lines) => rec.redact = "off" /\ Fit(B, m)
  BY <1>5, <1>7 DEF Fit, Clean
<1>9. PICK w : w = rec.written[s]
  OBVIOUS
<1>10. ASSUME Clean(lines)
       PROVE  IsPrefix(w, B) /\ (~ rec.stopped => Len(w) = Offset(s, Len(lines)))
  <2>1. PICK k \in 0..m : w = SubSeq(B, 0 + 1, EndOf(B, k)) /\ (~ rec.stopped => k = m)
    BY <1>4, <1>8, <1>9, <1>10, Zenon DEF Wrote
  <2>2. EndOf(B, k) \in Nat /\ EndOf(B, k) <= Len(B)
    <3>1. CASE k = 0
      BY <1>2, <3>1 DEF EndOf
    <3>2. CASE k # 0
      <4>1. k \in 1..(Len(Ends(B)) + 1)
        BY <1>5, <3>2
      <4> QED
        BY <1>2, <4>1, EndOfIs
    <3> QED
      BY <3>1, <3>2
  <2>3. PICK e : e = EndOf(B, k) /\ e \in Nat /\ e <= Len(B)
    BY <2>2
  <2>4. PICK S : S = Byte /\ B \in Seq(S)
    BY <1>2
  <2>5. w = SubSeq(B, 1, e)
    BY <2>1, <2>3
  <2>6. Len(w) = e
    BY <2>3, <2>4, <2>5
  <2>7. IsPrefix(w, B)
    <3>1. w = SubSeq(B, 1, Len(w)) /\ Len(w) <= Len(B)
      BY <2>3, <2>5, <2>6
    <3>2. DOMAIN w = 1..e /\ DOMAIN B = 1..Len(B) /\ \A i \in 1..e : w[i] = B[i]
      BY <2>3, <2>4, <2>5
    <3> QED
      BY <2>3, <2>4, <2>6, <3>1, <3>2 DEF IsPrefix
  <2>8. ~ rec.stopped => Offset(s, Len(lines)) = e
    BY <1>5, <1>6, <2>1, <2>3
  <2> QED
    BY <2>6, <2>7, <2>8
<1>11. ~ rec.stopped => Len(Ends(w)) = L
  <2>1. ~ rec.stopped => Len(Ends(w)) = IF m <= Len(Ends(B)) THEN m ELSE Len(Ends(B))
    BY <1>4, <1>9 DEF Wrote
  <2> QED
    BY <1>3, <2>1
<1>12. Len(lines) - Len(ends) \in {0, 1}
  BY <1>3, <1>5
<1> QED
  BY <1>2, <1>3, <1>7, <1>9, <1>10, <1>11, <1>12 DEF Lying

\* The same of every stream, in the words of the property.
LEMMA LinesLie ==
  ASSUME TypeOK, Distinct, fed <= Size(nth), AllSeen
  PROVE  LinesWhereTheyWere
<1>1. \A n \in 1..nth : Lying(inputs[n].stream, rec.observed[inputs[n].stream], Ends(FedOf(n)), FedOf(n))
  BY LinesAsTheyLie
<1> QED
  BY <1>1, Zenon DEF Lying, Clean, LinesWhereTheyWere

-----------------------------------------------------------------------------
(* Private keys, in every state, and the theorems.                          *)

\* One line of a block: it is hidden, or the block went on for too long.
LEMMA KeyKept ==
  ASSUME TypeOK, Distinct, fed <= Size(nth), AllSeen, NEW n \in 1..nth,
         NEW lines, lines = rec.observed[inputs[n].stream],
         NEW i \in DOMAIN lines, NEW j \in 1..(i - 1), OpenSince(n, j, i)
  PROVE  KeptHidden(n, j, i, lines[i].line)
<1>1. PICK B, m : SeenOf(n, B, lines, m)
  <2>1. PICK B, o, m : SeenOf(n, B, o, m)
    BY SeenIs
  <2> QED
    BY <2>1 DEF SeenOf
<1>2. /\ B = FedOf(n) /\ B \in Seq(Byte) /\ lines \in Seq(Obs) /\ Saw(rec, inputs[n].stream, B, m)
  BY <1>1 DEF SeenOf
<1>3. PICK L : L = Len(Ends(B)) /\ L \in Nat /\ (m = L \/ m = L + 1)
  BY <1>1 DEF SeenOf
<1>4. Placed(lines, B, m)
  BY <1>2 DEF Saw
<1>5. Len(lines) = m /\ DOMAIN lines = 1..m /\ m \in Nat
  BY <1>2, <1>3, <1>4 DEF Placed
<1>6. i \in 1..m /\ i \in Nat /\ j \in Nat /\ i <= L + 1
  BY <1>3, <1>5
<1>7. ASSUME NEW k \in 1..i PROVE Scanned(n, k) = TextOf(B, k)
  <2>1. k \in 1..(Len(Ends(FedOf(n))) + 1) /\ FedOf(n) \in Seq(Byte)
    BY <1>2, <1>3, <1>6
  <2> QED
    BY <1>2, <2>1, ScannedIs
<1>8. OpenAt(B, j, i)
  <2>1. j \in 1..i /\ \A k \in 1..(j - 1) : k \in 1..i
    BY <1>6
  <2>2. \A k \in (j + 1)..(i - 1) : k \in 1..i
    BY <1>6
  <2> QED
    BY <1>7, <2>1, <2>2 DEF OpenSince, OpenAt
<1>9. PICK seen, text : seen = lines[i].line /\ text = TextOf(B, i)
  OBVIOUS
<1>10. Scanned(n, i) = text
  <2>1. i \in 1..i
    BY <1>6
  <2> QED
    BY <1>7, <1>9, <2>1
<1>11. LineHid(B, i, seen)
  BY <1>4, <1>6, <1>9 DEF Placed
<1>12. IF i - j <= MAX_KEY_LINES
       THEN /\ text # <<>> => seen[1].kind = "PRIVATE_KEY"
            /\ ~ Has(text, {"END"}) => Len(seen) <= 1
       ELSE ~ Has(text, DOMAIN Mask \cup {"BEGIN"}) => seen = text
  BY <1>8, <1>9, <1>11, Zenon DEF LineHid
<1> QED
  BY <1>9, <1>10, <1>12, Zenon DEF KeptHidden

\* The same of every stream, in the words of the property.
LEMMA KeysKept ==
  ASSUME TypeOK, Distinct, fed <= Size(nth), AllSeen
  PROVE  KeysHidden
<1>1. \A n \in 1..nth : \A i \in DOMAIN rec.observed[inputs[n].stream] : \A j \in 1..(i - 1) :
        OpenSince(n, j, i) => KeptHidden(n, j, i, rec.observed[inputs[n].stream][i].line)
  BY KeyKept
<1> QED
  BY <1>1, Zenon DEF KeptHidden, KeysHidden

\* The streams stay those that were given.
LEMMA InitDistinct == Init => Distinct
<1> SUFFICES ASSUME Init PROVE Distinct
  OBVIOUS
<1>1. PICK input \in Inputs : inputs = input.streams
  BY DEF Init
<1>2. DOMAIN inputs = 1..Len(inputs)
  BY InitIInv DEF IInv, TypeOK
<1>3. \A i, j \in DOMAIN inputs : inputs[i].stream = inputs[j].stream => i = j
  BY <1>1, IngestAssumption
<1> QED
  BY <1>2, <1>3 DEF Distinct, Apiece

LEMMA NextDistinct == IInv /\ Distinct /\ [Next]_vars => Distinct'
<1> SUFFICES ASSUME IInv, Distinct, [Next]_vars PROVE Distinct'
  OBVIOUS
<1>1. inputs' = inputs
  BY Apart DEF ReceiveChunk, ShowLast, ReplayChunk, ReplayNext, FinishRun, given
<1> QED
  BY <1>1 DEF Distinct, Apiece

\* It holds from the start, and after every step.
LEMMA InitSeen == Init => SeenInv
  BY InitIInv, InitHidden, InitGaps, InitWhole, InitDistinct DEF SeenInv

LEMMA NextSeen == SeenInv /\ [Next]_vars => SeenInv'
  BY NextIInv, NextHidden, NextGaps, NextWhole, NextDistinct DEF SeenInv

LEMMA SeenSays ==
  ASSUME SeenInv
  PROVE  TypeOK /\ Distinct /\ fed <= Size(nth) /\ AllSeen
BY FedWithin, SeenInAll DEF SeenInv, IInv

\* Lines are numbered and measured as they lie in their stream, whatever the reads, the masks
\* and the clipping did to them; and what is captured of a clean run is what was read.
THEOREM LinesAreFound == Spec => []LinesWhereTheyWere
<1>1. SeenInv => LinesWhereTheyWere
  BY SeenSays, LinesLie
<1> QED
  BY <1>1, InitSeen, NextSeen, PTL DEF Spec

\* Redaction keeps what it promises: no credential is recorded, no line of a private key's block
\* is, and a mark's number tells one value.
THEOREM RedactionKept == Spec => []RedactionHolds
<1>1. SeenInv => KeysHidden
  BY SeenSays, KeysKept
<1>2. CredentialsHidden /\ KeysHidden /\ SameNumber => RedactionHolds
  BY DEF RedactionHolds
<1> QED
  BY <1>1, <1>2, InitSeen, NextSeen, NoCredentials, NumbersTell, PTL DEF Spec
=============================================================================
