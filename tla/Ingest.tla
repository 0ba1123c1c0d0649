------------------------------- MODULE Ingest -------------------------------
(***************************************************************************)
(* Reading a log (cmd/ingest.rs). A file or a pipe is read by a thread of   *)
(* its own, and a signal may end the reading; both threads speak to the     *)
(* loop that feeds the recording through one queue. A captured scenario is  *)
(* replayed by the main thread alone, its files one after another.          *)
(*                                                                         *)
(* Whoever writes the pipe is external: it may be slow, never end, or die   *)
(* of the signal that interrupts siftr.                                     *)
(***************************************************************************)
EXTENDS Recording

CONSTANTS
  Inputs,      \* what siftr may be given: whether it is a captured scenario, its
               \* streams in order with their bytes, SIFTR_REDACT, and the line
               \* whose write to the capture fails
  RNG,         \* what the sampling of exemplars draws
  CHUNK_BYTES, \* bytes a read returns at most
  MaxSignals   \* bound: signals sent to siftr

ASSUME IngestAssumption ==
  /\ \A input \in Inputs :
       /\ input.dir \in BOOLEAN /\ input.redact \in Modes /\ input.fails \in Nat
       /\ input.streams \in Seq([stream : Streams, bytes : Seq([kind : STRING, value : Nat])])
       /\ input.streams # <<>>
       /\ \A i, j \in DOMAIN input.streams :
            input.streams[i].stream = input.streams[j].stream => i = j
       /\ ~input.dir => Len(input.streams) = 1 /\ input.streams[1].stream = "stdout"
  /\ CHUNK_BYTES \in Nat \ {0}
  /\ MaxSignals \in Nat

Signals == {"SIGINT", "SIGTERM"}

VARIABLES
  inputs,      \* the streams to read, in order, with their bytes
  dir,         \* whether they are a captured scenario
  streaming,   \* whether behaviors are shown as they are first seen
  writer,      \* what the pipe's writer does
  at,          \* bytes read: of the pipe, or of the scenario's current stream
  reader,      \* what the reading thread does
  hand,        \* the message it has to send
  queue,       \* messages to the loop
  caught,      \* whether a signal was handled
  pending,     \* signals the signal thread has not heard of
  watcher,     \* which signal it waits for
  main,        \* what the main thread does next
  nth,         \* the stream it reads
  fed,         \* bytes of that stream fed to the recording
  rec,         \* the recording
  shown,       \* the behaviors shown
  run,         \* the run's row
  signals,     \* signals sent
  heard        \* history: bytes queued when the signal thread spoke

given   == <<inputs, dir, streaming>>
reading == <<at, reader, hand>>
signal  == <<caught, pending, watcher, signals, heard>>

vars == <<given, writer, reading, queue, signal, main, nth, fed, rec, shown, run>>

\* A message, and which bytes of the input it is about.
Message   == [msg : {"Chunk", "Eof", "Failed", "Interrupted"}, from : Nat, to : Nat]
NoMessage == [msg |-> "none", from |-> 0, to |-> 0]

Size(n) == Len(inputs[n].bytes)
Bytes(n, from, to) == SubSeq(inputs[n].bytes, from + 1, to)

Init ==
  /\ \E input \in Inputs :
       /\ dir = input.dir
       /\ inputs = input.streams
       /\ rec = NewRecording(input.redact, input.fails, RNG)
  /\ streaming \in BOOLEAN /\ (dir => ~streaming)
  /\ writer = "writing"
  /\ at = 0
  /\ reader = IF dir THEN "none" ELSE "reading"
  /\ hand = NoMessage
  /\ queue = <<>>
  /\ caught = FALSE
  /\ pending = {}
  /\ watcher = "first"
  /\ main = IF dir THEN "replaying" ELSE "receiving"
  /\ nth = 1
  /\ fed = 0
  /\ shown = <<>>
  /\ run = "recording"
  /\ signals = 0
  /\ heard = 0

-----------------------------------------------------------------------------
(* The reading thread. What it reads was written before; when the writer    *)
(* writes it is not modelled, only that it may be too late. The input ends  *)
(* when the writer has closed it, or died.                                  *)

Take(message, then) ==
  /\ main # "exited"
  /\ reader = "reading"
  /\ reader' = "sending"
  /\ hand' = message
  /\ at' = message.to
  /\ then
  /\ UNCHANGED <<given, queue, signal, main, nth, fed, rec, shown, run>>

ReadChunk ==
  \E n \in 1..Min({CHUNK_BYTES, Size(1) - at}) :
    Take([msg |-> "Chunk", from |-> at, to |-> at + n], UNCHANGED writer)

ReadEof ==
  /\ at = Size(1) \/ writer = "killed"
  /\ Take([msg |-> "Eof", from |-> at, to |-> at],
          writer' = IF writer = "writing" THEN "closed" ELSE writer)

ReadFails == Take([msg |-> "Failed", from |-> at, to |-> at], UNCHANGED writer)

\* Nothing is sent once the loop has ended: the thread ends as well.
Send ==
  /\ main # "exited"
  /\ reader = "sending"
  /\ queue' = IF main = "receiving" THEN Append(queue, hand) ELSE queue
  /\ reader' = IF hand.msg = "Chunk" /\ main = "receiving" THEN "reading" ELSE "done"
  /\ hand' = NoMessage
  /\ UNCHANGED <<given, writer, at, signal, main, nth, fed, rec, shown, run>>

-----------------------------------------------------------------------------
(* Signals. The handler sets the flag and wakes the signal thread, which a  *)
(* second signal of a kind it has not yet heard of does not do again. A     *)
(* terminal's Ctrl-C reaches the writer too.                                *)

Signal(sig) ==
  /\ ~dir
  /\ main # "exited"
  /\ signals < MaxSignals
  /\ signals' = signals + 1
  /\ caught' = TRUE
  /\ pending' = pending \cup {sig}
  /\ writer' \in {writer, IF writer = "writing" THEN "killed" ELSE writer}
  /\ UNCHANGED <<given, reading, queue, watcher, heard, main, nth, fed, rec, shown, run>>

\* The bytes the reading thread has put in the queue.
Sent == IF hand.msg = "Chunk" THEN hand.from ELSE at

\* Mutant: the signal overtakes what was queued before it.
Wake_Overtakes(sig) ==
  /\ main = "receiving"
  /\ watcher = "first"
  /\ sig \in pending
  /\ pending' = pending \ {sig}
  /\ watcher' = "second"
  /\ queue' = <<[msg |-> "Interrupted", from |-> at, to |-> at]>> \o queue
  /\ heard' = Sent
  /\ UNCHANGED <<given, writer, reading, caught, signals, main, nth, fed, rec, shown, run>>

\* Mutant: the first signal sets the flag and wakes nobody.
Wake_Quiet(sig) ==
  /\ main = "receiving"
  /\ watcher = "first"
  /\ sig \in pending
  /\ pending' = pending \ {sig}
  /\ watcher' = "second"
  /\ heard' = Sent
  /\ UNCHANGED <<given, writer, reading, queue, caught, signals, main, nth, fed, rec, shown, run>>

\* The first signal ends the input.
Wake(sig) ==
  /\ main = "receiving"
  /\ watcher = "first"
  /\ sig \in pending
  /\ pending' = pending \ {sig}
  /\ watcher' = "second"
  /\ queue' = Append(queue, [msg |-> "Interrupted", from |-> at, to |-> at])
  /\ heard' = Sent
  /\ UNCHANGED <<given, writer, reading, caught, signals, main, nth, fed, rec, shown, run>>

\* A second one, or one the loop no longer hears of, ends siftr.
Abort(sig) ==
  /\ main # "exited"
  /\ watcher = "second" \/ main # "receiving"
  /\ sig \in pending
  /\ pending' = pending \ {sig}
  /\ main' = "exited"
  /\ UNCHANGED <<given, writer, reading, queue, caught, watcher, signals, heard,
                 nth, fed, rec, shown, run>>

-----------------------------------------------------------------------------
(* The main thread.                                                         *)

\* Mutant: the behavior that stands for those past the cap is shown as one.
Fresh_Overflow(r) == NewBehaviors(r.analysis)

\* Behaviors past the cap are not told apart, so they are not shown either.
Fresh(r) == SelectSeq(NewBehaviors(r.analysis), LAMBDA b : b.behavior # overflow_behavior)

DrainedOf(r) == [r EXCEPT !.analysis = Drained(@)]

\* Shows what is new in a recording and goes on, unless whoever reads siftr's
\* output is gone: then the run is left as it is.
Drain(r, next) ==
  \/ /\ shown' = shown \o Fresh(r)
     /\ rec' = DrainedOf(r)
     /\ main' = next
  \/ /\ Fresh(r) # <<>>
     /\ \E n \in 0..(Len(Fresh(r)) - 1) : shown' = shown \o SubSeq(Fresh(r), 1, n)
     /\ rec' = DrainedOf(r)
     /\ main' = "exited"

Received(msg) ==
  /\ main = "receiving"
  /\ queue # <<>>
  /\ Head(queue).msg = msg
  /\ queue' = Tail(queue)

ReceiveChunk ==
  /\ Received("Chunk")
  /\ fed' = Head(queue).to
  /\ LET r == Chunk(rec, inputs[1].stream, Bytes(1, Head(queue).from, Head(queue).to))
     IN IF streaming THEN Drain(r, "receiving")
        ELSE rec' = r /\ UNCHANGED <<shown, main>>
  /\ UNCHANGED <<given, writer, reading, signal, nth, run>>

ReceiveEnd ==
  /\ \E msg \in {"Eof", "Interrupted"} : Received(msg)
  /\ main' = "ended"
  /\ UNCHANGED <<given, writer, reading, signal, nth, fed, rec, shown, run>>

\* An error of the read is siftr's own, and no run is finished.
ReceiveFailed ==
  /\ Received("Failed")
  /\ main' = "exited"
  /\ UNCHANGED <<given, writer, reading, signal, nth, fed, rec, shown, run>>

\* The last line may have no newline: it is shown too.
ShowLast ==
  /\ main = "ended"
  /\ IF streaming THEN Drain(Flush(rec), "checking")
     ELSE main' = "checking" /\ UNCHANGED <<rec, shown>>
  /\ UNCHANGED <<given, writer, reading, queue, signal, nth, fed, run>>

\* Mutant: only the message says that the run was interrupted.
CheckFlag_Message ==
  /\ main = "checking"
  /\ main' = IF watcher = "second" THEN "interrupted" ELSE "finishing"
  /\ UNCHANGED <<given, writer, reading, queue, signal, nth, fed, rec, shown, run>>

\* The flag decides, not the message that ended the loop.
CheckFlag ==
  /\ main = "checking"
  /\ main' = IF caught THEN "interrupted" ELSE "finishing"
  /\ UNCHANGED <<given, writer, reading, queue, signal, nth, fed, rec, shown, run>>

ReplayChunk ==
  /\ main = "replaying"
  /\ \E n \in 1..Min({CHUNK_BYTES, Size(nth) - fed}) :
       /\ rec' = Chunk(rec, inputs[nth].stream, Bytes(nth, fed, fed + n))
       /\ fed' = fed + n
  /\ UNCHANGED <<given, writer, reading, queue, signal, main, nth, shown, run>>

ReplayNext ==
  /\ main = "replaying"
  /\ fed = Size(nth)
  /\ IF nth < Len(inputs) THEN nth' = nth + 1 /\ fed' = 0 /\ UNCHANGED main
     ELSE main' = "finishing" /\ UNCHANGED <<nth, fed>>
  /\ UNCHANGED <<given, writer, reading, queue, signal, rec, shown, run>>

ReplayFails ==
  /\ main = "replaying"
  /\ main' = "exited"
  /\ UNCHANGED <<given, writer, reading, queue, signal, nth, fed, rec, shown, run>>

\* A run is compared and finished, or kept as evidence only.
FinishRun ==
  /\ main \in {"finishing", "interrupted"}
  /\ rec' = Finish(rec)
  /\ run' = IF main = "finishing" THEN "finished" ELSE "interrupted"
  /\ main' = "reporting"
  /\ UNCHANGED <<given, writer, reading, queue, signal, nth, fed, shown>>

\* siftr exits once it has reported, of the signal if there was one.
Report ==
  /\ main = "reporting"
  /\ main' = "exited"
  /\ UNCHANGED <<given, writer, reading, queue, signal, nth, fed, rec, shown, run>>

Exited == main = "exited" /\ UNCHANGED vars

Main ==
  \/ ReceiveChunk \/ ReceiveEnd \/ ReceiveFailed
  \/ ShowLast \/ CheckFlag
  \/ ReplayChunk \/ ReplayNext \/ ReplayFails
  \/ FinishRun \/ Report

Watch == \E sig \in Signals : Wake(sig) \/ Abort(sig)

Next ==
  \/ ReadChunk \/ ReadEof \/ ReadFails \/ Send
  \/ \E sig \in Signals : Signal(sig)
  \/ Watch
  \/ Main
  \/ Exited

Spec == Init /\ [][Next]_vars

\* When the main thread can take a step: ENABLED <<Main>>_vars, which TLC would
\* find out by computing the recording.
CanRun == main # "exited" /\ (main = "receiving" => queue # <<>>)

\* Each of siftr's threads gets on with what it can do; a read may block for ever.
\* The first conjunct is WF_vars(Main).
FairSpec ==
  /\ Spec
  /\ []<>~CanRun \/ []<><<Main>>_vars
  /\ WF_vars(Watch) /\ WF_vars(Send)

-----------------------------------------------------------------------------
(* Properties.                                                              *)

\* What was fed of the n-th stream.
FedOf(n) ==
  IF n < nth THEN inputs[n].bytes
  ELSE IF n = nth THEN Bytes(n, 0, fed) ELSE <<>>

\* A recording of what was read of each stream, in one chunk.
InOnePiece(new, streams, read) ==
  FoldLeftDomain(LAMBDA r, n : IF read[n] = <<>> THEN r ELSE Chunk(r, streams[n].stream, read[n]),
                 new, streams)

\* What was read is recorded the same however reads cut it into chunks: the
\* same lines with the same numbers and masks, the same capture, the same
\* statistics and exemplars.
CutsDontMatter ==
  LET whole == InOnePiece(NewRecording(rec.redact, rec.fails, RNG), inputs,
                          [n \in DOMAIN inputs |-> FedOf(n)])
  IN DrainedOf(IF run = "recording" THEN Finish(rec) ELSE rec) = DrainedOf(Finish(whole))

\* Where the i-th line of a stream ends, by the lengths of the lines so far.
Offset(s, i) == FoldLeft(LAMBDA sum, l : sum + l.raw_len, 0, SubSeq(rec.observed[s], 1, i))

\* Lines are numbered and measured as they lie in the stream, clipped or not:
\* an exemplar's number finds its line in the capture, and the offsets of the
\* RSpec listener find theirs. A capture that did not stop has the same lines,
\* and the same bytes when nothing had to be masked or clipped.
LinesWhereTheyWere ==
  \A n \in 1..nth :
    LET s     == inputs[n].stream
        lines == rec.observed[s]
        ends  == Ends(FedOf(n))
        clean == rec.redact = "off" /\ \A i \in DOMAIN lines : lines[i].raw_len <= MAX_LINE
    IN /\ Len(lines) - Len(ends) \in {0, 1}
       /\ \A i \in DOMAIN lines :
            /\ lines[i].seq = i
            /\ Offset(s, i) = IF i \in DOMAIN ends THEN ends[i] ELSE Len(FedOf(n))
       /\ clean => IsPrefix(rec.written[s], FedOf(n))
       /\ ~rec.stopped =>
            /\ Len(Ends(rec.written[s])) = Len(ends)
            /\ clean => Len(rec.written[s]) = Offset(s, Len(lines))

\* The i-th line of a stream as it is scanned: clipped, and without its return.
Scanned(n, i) ==
  LET ends  == Ends(FedOf(n))
      whole == Head_(FedOf(n), i)
  IN Body([bytes |-> SubSeq(whole, 1, Min({Len(whole), MAX_LINE}))])

Has(line, kinds) == \E j \in DOMAIN line : line[j].kind \in kinds

\* A line that opens a private key block and leaves it open.
Opens(line) ==
  \E j \in DOMAIN line : line[j].kind = "BEGIN" /\ ~Has(SubSeq(line, j + 1, Len(line)), {"END", "quote"})

\* Whether the first block of a stream is still open before its i-th line, and
\* was opened by the j-th.
OpenSince(n, j, i) ==
  /\ j < i
  /\ Opens(Scanned(n, j))
  /\ \A k \in 1..(j - 1) : ~Has(Scanned(n, k), {"BEGIN"})
  /\ \A k \in (j + 1)..(i - 1) : ~Has(Scanned(n, k), {"BEGIN", "END"})

\* No credential reaches the analysis, whose templates are shown and whose
\* exemplars are kept, under any mode; nor the capture, unless redaction is off,
\* nor, under pii, an address either of them.
CredentialsHidden ==
  /\ \A b \in DOMAIN rec.analysis.behaviors :
       LET acc == rec.analysis.behaviors[b]
       IN /\ ~Has(b.template, DOMAIN Mask)
          /\ \A l \in ToSet(acc.first) \cup ToSet(acc.sampled) :
               /\ ~Has(l.line, DOMAIN Mask)
               /\ rec.redact = "pii" /\ run # "recording" => ~Has(l.line, {"address"})
  /\ \A s \in Streams :
       /\ rec.redact # "off" => ~Has(rec.written[s], DOMAIN Mask)
       /\ rec.redact = "pii" => ~Has(rec.written[s], {"address"})

\* A private key is hidden on every line up to its end, and no more lines than
\* its limit when it has none.
KeysHidden ==
  \A n \in 1..nth : LET seen == rec.observed[inputs[n].stream] IN
    \A i \in DOMAIN seen : \A j \in 1..(i - 1) : OpenSince(n, j, i) =>
      LET line == Scanned(n, i)
      IN IF i - j <= MAX_KEY_LINES
         THEN /\ line # <<>> => seen[i].line[1].kind = "PRIVATE_KEY"
              /\ ~Has(line, {"END"}) => Len(seen[i].line) <= 1
         ELSE ~Has(line, DOMAIN Mask \cup {"BEGIN"}) => seen[i].line = line

\* A number stands for one value of its kind in a whole run, whichever stream it
\* was in, and a value that is remembered has one number: which values were equal
\* can be read from the masks.
SameNumber ==
  \A g, h \in rec.numbers.given :
    /\ g.value.kind = h.value.kind /\ g.number = h.number => g = h
    /\ g.value = h.value /\ g.value \in DOMAIN rec.numbers.seen => g = h

\* What redaction promises: values are hidden, but not which of them are equal.
RedactionHolds == CredentialsHidden /\ KeysHidden /\ SameNumber

\* Where each behavior of the input was first seen, by the lines alone: those
\* past the cap are not among them.
FirstSeen ==
  LET lines  == rec.observed[inputs[1].stream]
      new(i) == \A k \in 1..(i - 1) : Template(lines[k].line) # Template(lines[i].line)
      firsts == SelectSeq([i \in DOMAIN lines |-> i], new)
  IN [k \in 1..Min({Len(firsts), MAX_BEHAVIORS}) |->
        [behavior |-> [kind |-> "log", template |-> Template(lines[firsts[k]].line)],
         seq |-> firsts[k]]]

\* A stream shows each behavior once, in the order and at the line it was first
\* seen, the last line's without its newline too: nothing is missing unless siftr
\* had to stop.
ShownOnce ==
  LET told == [k \in DOMAIN shown |-> [behavior |-> shown[k].behavior, seq |-> shown[k].first.seq]]
  IN streaming => /\ IsPrefix(told, FirstSeen)
                  /\ main # "exited" => told = FirstSeen

\* A run that joins baselines was read to its end: the end of file that a signal
\* caused, by killing whoever wrote the pipe, is never taken for it. A run is kept
\* as interrupted only if there was a signal.
WholeIsWhole ==
  /\ run = "finished" => nth = Len(inputs) /\ fed = Size(nth)
  /\ run = "interrupted" => caught

\* What was queued before the signal thread spoke is in the interrupted run.
KeepsWhatWasQueued == run = "interrupted" => fed >= heard

\* The input ending, or one signal while a read blocks for ever, ends siftr.
ReadEnds == caught \/ reader = "done" \/ dir ~> main = "exited"

\* "Ctrl-C ends the input too: the run is kept as evidence": asked once, siftr
\* records the run, unless the read or the reader of its output failed.
OnceIsKept ==
  [][ \A sig \in Signals : Abort(sig) => signals > 1 \/ run # "recording" ]_vars
=============================================================================
