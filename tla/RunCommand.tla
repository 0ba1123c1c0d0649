------------------------------ MODULE RunCommand ------------------------------
(***************************************************************************)
(* `siftr run -- CMD` (cmd/run.rs, cmd/run/terminal.rs): the command's     *)
(* output passes through and is recorded, while the store is opened beside *)
(* it. Threads: a relay per stream, one waiting for the command, one that  *)
(* begins the run in the store, one that handles signals, and the main     *)
(* loop, which meets them in a bounded queue.                              *)
(*                                                                         *)
(* A chunk is what one read returns. The command's chunks are numbered per *)
(* stream; those of a background process it left behind are all Noise.     *)
(***************************************************************************)
EXTENDS Integers, Sequences

CONSTANTS
  Streams,         \* stdout and stderr
  QUEUED_CHUNKS,   \* the queue's capacity
  PENDING_CHUNKS,  \* PENDING_BYTES, in chunks: held while the store gets ready
  PipeChunks,      \* what a pipe holds
  MaxChunks,       \* bound: chunks the command writes to a stream
  MaxNoise,        \* bound: chunks a background process writes
  MaxSignals       \* bound: interrupts

ASSUME RunCommandAssumption ==
  /\ QUEUED_CHUNKS \in Nat \ {0}
  /\ PENDING_CHUNKS \in Nat
  /\ PipeChunks \in Nat \ {0}
  /\ MaxChunks \in Nat
  /\ MaxNoise \in Nat
  /\ MaxSignals \in Nat

VARIABLES
  command,     \* running, exited, or killed by a signal
  background,  \* whether a process it left behind holds its output
  wrote,       \* chunks the command wrote to each stream
  noise,       \* chunks the background process may still write
  pipe,        \* what each stream's pipe, or PTY, holds
  relay,       \* what each relay thread does
  hand,        \* the chunk it has read
  out,         \* whether it still passes output through
  shown,       \* what it passed through
  chan,        \* the queue of events
  waiter,      \* the thread waiting for the command
  beginner,    \* the thread beginning the run
  row,         \* the run, as the store has it
  answer,      \* what that thread sent
  recorder,    \* Starting, Recording or Off; what it holds; what it was fed
  late,        \* whether BEGIN_DEADLINE has passed
  main,        \* what the main thread does
  status,      \* the command's exit, once the main thread heard of it
  readerGone,  \* whether it heard that siftr's own reader went away
  quiet,       \* whether ORPHAN_GRACE has passed since quiet_since
  stopped,     \* whether it stopped capturing before the output ended
  signals      \* interrupts siftr received, and those its thread handled

world  == <<command, background, wrote, noise>>
relays == <<relay, hand, out, shown>>
begins == <<beginner, row, answer>>
loop   == <<main, status, readerGone, quiet, stopped>>

vars == <<world, pipe, relays, chan, waiter, begins, recorder, late, loop,
          signals>>

Noise == 0

\* The events of the queue.
Chunk(s, n) == [event |-> "Chunk", stream |-> s, chunk |-> n]
ReaderGone  == [event |-> "ReaderGone"]
Exited      == [event |-> "Exited"]

Init ==
  /\ command = "running"
  /\ background = FALSE
  /\ wrote = [s \in Streams |-> 0]
  /\ noise = MaxNoise
  /\ pipe = [s \in Streams |-> <<>>]
  /\ relay = [s \in Streams |-> "reading"]
  /\ hand = [s \in Streams |-> Chunk(s, Noise)]
  /\ \E passthrough \in BOOLEAN : out = [s \in Streams |-> passthrough]
  /\ shown = [s \in Streams |-> <<>>]
  /\ chan = <<>>
  /\ waiter = "waiting"
  /\ beginner = "opening"
  /\ row = "absent"
  /\ answer = "none"
  /\ recorder = [state |-> "starting", pending |-> <<>>, recorded |-> <<>>]
  /\ late = FALSE
  /\ main = "receiving"
  /\ status = "none"
  /\ readerGone = FALSE
  /\ quiet = FALSE
  /\ stopped = FALSE
  /\ signals = [received |-> 0, handled |-> 0]

-----------------------------------------------------------------------------
(* The command, and a background process it may leave behind. *)

\* What happens once siftr has exited is of no interest.
Alive == main # "ended"

Fill(s, n) ==
  /\ relay[s] # "ended"
  /\ Len(pipe[s]) < PipeChunks
  /\ pipe' = [pipe EXCEPT ![s] = Append(@, Chunk(s, n))]

CommandWrites(s) ==
  /\ Alive
  /\ command = "running"
  /\ wrote[s] < MaxChunks
  /\ Fill(s, wrote[s] + 1)
  /\ wrote' = [wrote EXCEPT ![s] = @ + 1]
  /\ UNCHANGED <<command, background, noise, relays, chan, waiter, begins,
                 recorder, late, loop, signals>>

\* On its own, by a signal, or because its reader went away.
CommandExits ==
  /\ Alive
  /\ command = "running"
  /\ command' \in {"exited", "killed"}
  /\ background' \in BOOLEAN
  /\ UNCHANGED <<wrote, noise, pipe, relays, chan, waiter, begins, recorder,
                 late, loop, signals>>

BackgroundWrites(s) ==
  /\ Alive
  /\ background
  /\ noise > 0
  /\ Fill(s, Noise)
  /\ noise' = noise - 1
  /\ UNCHANGED <<command, background, wrote, relays, chan, waiter, begins,
                 recorder, late, loop, signals>>

BackgroundEnds ==
  /\ Alive
  /\ background
  /\ background' = FALSE
  /\ UNCHANGED <<command, wrote, noise, pipe, relays, chan, waiter, begins,
                 recorder, late, loop, signals>>

-----------------------------------------------------------------------------
(* The relay threads. *)

Read(s) ==
  /\ Alive
  /\ relay[s] = "reading"
  /\ pipe[s] # <<>>
  /\ hand' = [hand EXCEPT ![s] = Head(pipe[s])]
  /\ pipe' = [pipe EXCEPT ![s] = Tail(@)]
  /\ relay' = [relay EXCEPT ![s] = "passing"]
  /\ UNCHANGED <<world, out, shown, chan, waiter, begins, recorder, late, loop,
                 signals>>

\* Mutant: a relay stops as soon as the command has exited.
EndOfInput_AtExit(s) ==
  /\ Alive
  /\ relay[s] = "reading"
  /\ command # "running"
  /\ relay' = [relay EXCEPT ![s] = "ended"]
  /\ UNCHANGED <<world, pipe, hand, out, shown, chan, waiter, begins, recorder,
                 late, loop, signals>>

\* The output ends when nobody holds its other end any more.
EndOfInput(s) ==
  /\ Alive
  /\ relay[s] = "reading"
  /\ pipe[s] = <<>>
  /\ command # "running" /\ ~ background
  /\ relay' = [relay EXCEPT ![s] = "ended"]
  /\ UNCHANGED <<world, pipe, hand, out, shown, chan, waiter, begins, recorder,
                 late, loop, signals>>

\* Whether siftr's own output takes the chunk or not, it is queued next; a
\* broken pipe is the last one read.
PassThrough(s) ==
  /\ Alive
  /\ relay[s] = "passing"
  /\ \/ /\ relay' = [relay EXCEPT ![s] = "queueing"]
        /\ shown' = IF out[s] /\ hand[s].chunk # Noise
                    THEN [shown EXCEPT ![s] = Append(@, hand[s].chunk)]
                    ELSE shown
        /\ UNCHANGED out
     \/ /\ out[s]
        /\ \E next \in {"queueing", "queueing last"} :
             relay' = [relay EXCEPT ![s] = next]
        /\ out' = [out EXCEPT ![s] = FALSE]
        /\ UNCHANGED shown
  /\ UNCHANGED <<world, pipe, hand, chan, waiter, begins, recorder, late, loop,
                 signals>>

Send(event) ==
  /\ Len(chan) < QUEUED_CHUNKS
  /\ chan' = Append(chan, event)

QueueChunk(s) ==
  /\ Alive
  /\ relay[s] \in {"queueing", "queueing last"}
  /\ Send(hand[s])
  /\ relay' = [relay EXCEPT ![s] = IF @ = "queueing" THEN "reading" ELSE "leaving"]
  /\ UNCHANGED <<world, pipe, hand, out, shown, waiter, begins, recorder, late,
                 loop, signals>>

\* It stops reading, so the command's next write fails as it would unwrapped.
QueueReaderGone(s) ==
  /\ Alive
  /\ relay[s] = "leaving"
  /\ Send(ReaderGone)
  /\ relay' = [relay EXCEPT ![s] = "ended"]
  /\ UNCHANGED <<world, pipe, hand, out, shown, waiter, begins, recorder, late,
                 loop, signals>>

WaitingForInput(s) == relay[s] \in {"reading", "ended"}

QueueExited ==
  /\ Alive
  /\ waiter = "waiting"
  /\ command # "running"
  /\ Send(Exited)
  /\ waiter' = "ended"
  /\ UNCHANGED <<world, pipe, relays, begins, recorder, late, loop, signals>>

-----------------------------------------------------------------------------
(* The thread that begins the run. Siftr may give up on it at any point. *)

BeginRun ==
  /\ Alive
  /\ beginner = "opening"
  /\ beginner' = "begun"
  /\ row' = "unfinished"
  /\ UNCHANGED <<world, pipe, relays, chan, waiter, answer, recorder, late,
                 loop, signals>>

\* The store was busy, or the run's lock or its capture could not be made.
Answer(a) ==
  /\ Alive
  /\ \/ beginner = "opening" /\ a = "failed"
     \/ beginner = "begun"
  /\ beginner' = "ended"
  /\ answer' = a
  /\ UNCHANGED <<world, pipe, relays, chan, waiter, row, recorder, late, loop,
                 signals>>

-----------------------------------------------------------------------------
(* The recorder, which belongs to the main thread. *)

\* The recording is handed the chunks of both streams, one after the other.
Feed(r, chunks) == [r EXCEPT !.recorded = @ \o chunks]

\* Mutant: what was held is forgotten.
Settle_Forgets(r, a) ==
  [r EXCEPT !.state = IF a = "begun" THEN "recording" ELSE "off",
            !.pending = <<>>]

\* Leaves Starting: what was held goes into the recording, or is dropped.
Settle(r, a) ==
  IF a = "begun"
  THEN [Feed(r, r.pending) EXCEPT !.state = "recording", !.pending = <<>>]
  ELSE [r EXCEPT !.state = "off", !.pending = <<>>]

Poll(r) ==
  IF r.state # "starting" \/ (answer = "none" /\ ~ late) THEN r
  ELSE Settle(r, answer)

Hold(r, c) ==
  CASE r.state = "starting"  -> [r EXCEPT !.pending = Append(@, c)]
    [] r.state = "recording" -> Feed(r, <<c>>)
    [] r.state = "off"       -> r

\* Mutant: what is held while the store gets ready has no limit.
Take_NoLimit(r, c) == Hold(Poll(r), c)

Take(r, c) ==
  LET polled == Poll(r)
      outgrown == polled.state = "starting" /\ Len(polled.pending) = PENDING_CHUNKS
  IN  Hold(IF outgrown THEN Settle(polled, "failed") ELSE polled, c)

-----------------------------------------------------------------------------
(* The main loop. *)

Receive ==
  /\ main = "receiving"
  /\ chan # <<>>
  /\ chan' = Tail(chan)
  /\ main' = "draining"
  /\ LET event == Head(chan)
     IN  \/ /\ event.event = "Chunk"
            /\ recorder' = Poll(Take(recorder, event))
            /\ UNCHANGED <<status, readerGone, quiet>>
         \/ /\ event = ReaderGone
            /\ recorder' = Poll(recorder)
            /\ readerGone' = TRUE
            /\ UNCHANGED <<status, quiet>>
         \/ /\ event = Exited
            /\ recorder' = Poll(recorder)
            /\ status' = command
            /\ quiet' = FALSE
            /\ UNCHANGED readerGone
  /\ UNCHANGED <<world, pipe, relays, waiter, begins, late, stopped, signals>>

\* DRAIN_TICK: only while the store is awaited or the command has exited.
ReceiveTimesOut ==
  /\ main = "receiving"
  /\ chan = <<>>
  /\ status # "none" \/ recorder.state = "starting"
  /\ main' = "draining"
  /\ recorder' = Poll(recorder)
  /\ UNCHANGED <<world, pipe, relays, chan, waiter, begins, late, status,
                 readerGone, quiet, stopped, signals>>

\* Mutant: the command's exit is taken for the end of its output.
Disconnected_OnExit == chan = <<>> /\ waiter = "ended"

\* Every sender has ended.
Disconnected ==
  /\ chan = <<>>
  /\ waiter = "ended"
  /\ \A s \in Streams : relay[s] = "ended"

ReceiveDisconnected ==
  /\ main = "receiving"
  /\ Disconnected
  /\ main' = "stopping"
  /\ UNCHANGED <<world, pipe, relays, chan, waiter, begins, recorder, late,
                 status, readerGone, quiet, stopped, signals>>

\* Mutant: silence does not end the wait.
Silent_Never == FALSE
Silent == quiet

\* A relay that is blocked writing, or queueing, is progress.
Drain ==
  /\ main = "draining"
  /\ LET idle == \A s \in Streams : WaitingForInput(s)
     IN  \/ /\ status = "none" \/ (idle /\ ~ Silent)
            /\ main' = "receiving"
            /\ UNCHANGED <<quiet, stopped>>
         \/ /\ status # "none" /\ ~ idle
            /\ main' = "receiving"
            /\ quiet' = FALSE
            /\ UNCHANGED stopped
         \/ /\ status # "none" /\ idle /\ Silent
            /\ main' = "stopping"
            /\ stopped' = TRUE
            /\ UNCHANGED quiet
  /\ UNCHANGED <<world, pipe, relays, chan, waiter, begins, recorder, late,
                 status, readerGone, signals>>

\* The command has exited: waiting for the store holds up only siftr's exit.
IntoRecording ==
  /\ main = "stopping"
  /\ recorder.state = "starting" => answer # "none" \/ late
  /\ recorder' = Poll(recorder)
  /\ main' = "ending"
  /\ UNCHANGED <<world, pipe, relays, chan, waiter, begins, late, status,
                 readerGone, quiet, stopped, signals>>

Interrupted == signals.handled > 0 \/ readerGone \/ status = "killed"

\* Finishing may fail, and then the run stays as it is.
End ==
  /\ main = "ending"
  /\ main' = "ended"
  /\ \/ /\ recorder.state = "recording"
        /\ row' = IF Interrupted THEN "interrupted" ELSE "finished"
     \/ UNCHANGED row
  /\ UNCHANGED <<world, pipe, relays, chan, waiter, beginner, answer, recorder,
                 late, status, readerGone, quiet, stopped, signals>>

-----------------------------------------------------------------------------
(* Time, and signals. *)

DeadlinePasses ==
  /\ Alive
  /\ recorder.state = "starting"
  /\ ~ late
  /\ late' = TRUE
  /\ UNCHANGED <<world, pipe, relays, chan, waiter, begins, recorder, loop,
                 signals>>

GracePasses ==
  /\ status # "none"
  /\ main \in {"receiving", "draining"}
  /\ ~ quiet
  /\ quiet' = TRUE
  /\ UNCHANGED <<world, pipe, relays, chan, waiter, begins, recorder, late,
                 main, status, readerGone, stopped, signals>>

\* A terminal's interrupt reaches the command too, which may trap it.
Interrupt ==
  /\ Alive
  /\ signals.received < MaxSignals
  /\ signals' = [signals EXCEPT !.received = @ + 1]
  /\ UNCHANGED <<world, pipe, relays, chan, waiter, begins, recorder, late, loop>>

\* The thread notes the first, and relays it to the command.
HandleSignal ==
  /\ Alive
  /\ signals.handled < signals.received
  /\ signals' = [signals EXCEPT !.handled = @ + 1]
  /\ UNCHANGED <<world, pipe, relays, chan, waiter, begins, recorder, late,
                 loop>>

-----------------------------------------------------------------------------

\* Siftr has exited, and its threads with it.
Exit == main = "ended" /\ UNCHANGED vars

Relay(s) == Read(s) \/ EndOfInput(s) \/ PassThrough(s) \/ QueueChunk(s)
            \/ QueueReaderGone(s)
Beginner == BeginRun \/ \E a \in {"begun", "failed"} : Answer(a)
Main     == Receive \/ ReceiveTimesOut \/ ReceiveDisconnected \/ Drain
            \/ IntoRecording \/ End

Next ==
  \/ \E s \in Streams : CommandWrites(s) \/ BackgroundWrites(s) \/ Relay(s)
  \/ CommandExits \/ BackgroundEnds \/ QueueExited \/ Beginner \/ Main
  \/ DeadlinePasses \/ GracePasses \/ Interrupt \/ HandleSignal
  \/ Exit

Spec == Init /\ [][Next]_vars

\* Siftr's own threads and the clock run. That the store answers, the command
\* ends, or a process it left behind falls silent is for none of them to say.
FairSpec ==
  /\ Spec
  /\ \A s \in Streams : WF_vars(Relay(s))
  /\ WF_vars(QueueExited)
  /\ WF_vars(Main)
  /\ WF_vars(DeadlinePasses \/ GracePasses)

-----------------------------------------------------------------------------
(* Properties. *)

\* Whether an event is a chunk the command itself wrote to a stream.
Own(s, event) ==
  event.event = "Chunk" /\ event.stream = s /\ event.chunk # Noise

Places(s, events) == {i \in DOMAIN events : Own(s, events[i])}

\* What the command wrote to a stream between two counts is there, each chunk
\* once and in the order it was written.
InOrder(s, events, from, to) ==
  /\ {events[i].chunk : i \in Places(s, events)} = (from + 1)..to
  /\ \A i, j \in Places(s, events) : i < j => events[i].chunk < events[j].chunk

InHand(s) ==
  IF relay[s] \in {"passing", "queueing", "queueing last"} THEN <<hand[s]>>
  ELSE <<>>

\* Until siftr gives up recording, every chunk the command wrote to a stream
\* is in exactly one place, in order: recorded, held until the store is ready,
\* queued, in the relay's hand, or still in the pipe (run.rs relay, Recorder); and
\* siftr never holds more than its limits allow.
NothingLost ==
  /\ Len(chan) <= QUEUED_CHUNKS /\ Len(recorder.pending) <= PENDING_CHUNKS
  /\ recorder.state # "off" =>
       \A s \in Streams :
         InOrder(s, recorder.recorded \o recorder.pending \o chan \o InHand(s)
                      \o pipe[s], 0, wrote[s])

\* A run that is compared, and joins baselines, was recorded whole, unless
\* siftr said it stopped capturing: never the part before a reader went away,
\* a kill or a slow store (run.rs run).
FinishedWhole ==
  row = "finished" /\ ~ stopped =>
    \A s \in Streams : InOrder(s, recorder.recorded, 0, wrote[s])

\* The command's output is passed through, whatever the store does, unless
\* siftr's own output fails or siftr says it stopped capturing (run.rs relay).
ShownSoon ==
  \A s \in Streams : \A n \in 1..MaxChunks :
    wrote[s] >= n ~> Len(shown[s]) >= n \/ ~ out[s] \/ stopped

\* siftr ends once the command has, though a background process it started,
\* having written what it has to, holds its output open, and the store never
\* answers (run.rs Drain, and its ORPHAN_GRACE).
WrapEnds == command # "running" ~> main = "ended"

=============================================================================
