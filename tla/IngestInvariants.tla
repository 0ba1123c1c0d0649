---------------------------- MODULE IngestInvariants ----------------------------
(***************************************************************************)
(* What the proofs of IngestProofs are made of: the parts of the inductive  *)
(* invariant of Ingest, and the words in which they say what a stream's     *)
(* bytes, its pieces and what is recorded of them have to do with each      *)
(* other.  Nothing is stated of the code here that Ingest does not say.     *)
(***************************************************************************)
EXTENDS Ingest

\* Where the main thread is.
Mains == {"receiving", "ended", "checking", "replaying", "finishing", "interrupted",
          "reporting", "exited"}

\* The types of all but the recording and what is shown of it.
TypeOK ==
  /\ inputs \in Seq([stream : Streams, bytes : Seq([kind : STRING, value : Nat])])
  /\ inputs # <<>> /\ (~ dir => Len(inputs) = 1)
  /\ dir \in BOOLEAN /\ streaming \in BOOLEAN
  /\ writer \in {"writing", "closed", "killed"}
  /\ at \in Nat /\ fed \in Nat /\ heard \in Nat /\ signals \in Nat
  /\ nth \in 1..Len(inputs)
  /\ reader \in {"none", "reading", "sending", "done"}
  /\ hand \in Message \cup {NoMessage}
  /\ queue \in Seq(Message)
  /\ caught \in BOOLEAN
  /\ pending \in SUBSET Signals
  /\ watcher \in {"first", "second"}
  /\ main \in Mains
  /\ run \in {"recording", "finished", "interrupted"}

\* The bytes up to n have been fed, or will be by the messages before the i-th.
Covered(i, n) ==
  fed >= n \/ \E j \in 1..(i - 1) : queue[j].msg = "Chunk" /\ queue[j].to >= n

\* Where the reading thread is in the input, and what it has in its hand.
Reading ==
  /\ at <= Size(1)
  /\ writer = "killed" => caught
  /\ reader = "sending" <=> hand # NoMessage
  /\ hand.msg = "Chunk" => hand.from <= hand.to /\ hand.to = at
  /\ hand.msg = "Eof" => at = Size(1) \/ caught
  /\ hand.msg # "Interrupted"

\* The chunks that are queued are what comes after what was fed, in order.
InOrder ==
  \A i \in DOMAIN queue : queue[i].msg = "Chunk" =>
    /\ fed <= queue[i].from /\ queue[i].from <= queue[i].to /\ queue[i].to <= Sent
    /\ \A j \in 1..(i - 1) : queue[j].msg = "Chunk" => queue[j].to <= queue[i].from

\* What ends the input comes after all it has to come after: the end of file
\* after everything that was read, the signal after what was queued before it.
Closed ==
  /\ fed <= Sent /\ heard <= Sent
  /\ main = "receiving" => Covered(Len(queue) + 1, Sent)
  /\ \A i \in DOMAIN queue :
       /\ queue[i].msg = "Interrupted" =>
            /\ caught /\ watcher = "second"
            /\ main = "receiving" => Covered(i, heard)
       /\ queue[i].msg = "Eof" =>
            /\ reader = "done" /\ (at = Size(1) \/ caught)
            /\ main = "receiving" => Covered(i, at)

\* What is known once the input has ended.
Ended ==
  /\ main \in {"ended", "checking"} => fed >= heard /\ (fed = Size(1) \/ caught)
  /\ main = "interrupted" \/ run = "interrupted" => fed >= heard /\ caught
  /\ main = "finishing" \/ run = "finished" => nth = Len(inputs) /\ fed = Size(nth)
  /\ run # "recording" => main \in {"reporting", "exited"}

\* A scenario is replayed by the main thread alone.
Alone ==
  IF dir
  THEN /\ main \in {"replaying", "finishing", "reporting", "exited"}
       /\ reader = "none" /\ ~ caught /\ pending = {} /\ run # "interrupted"
       /\ fed <= Size(nth)
  ELSE main # "replaying" /\ (pending # {} => caught)

Streamed == ~ dir => Reading /\ InOrder /\ Closed

IInv == TypeOK /\ Streamed /\ Ended /\ Alone

EndsStep(chunk, found, i) ==
  IF chunk[i] = Newline THEN Append(found, i) ELSE found

PiiStep(line, found, i) ==
  IF line[i].kind = "address" THEN Append(found, i) ELSE found

PieceStep(streams, read, r, n) ==
  IF read[n] = <<>> THEN r ELSE Chunk(r, streams[n].stream, read[n])

Step(by, r, x) ==
  CASE by.fold = "ends"   -> EndsStep(by.seq, r, x)
    [] by.fold = "lines"  -> SinkLine(r, by.stream, x)
    [] by.fold = "last"   -> SinkLines(r, x, LastLine(r.splitter[x]))
    [] by.fold = "render" -> Marked(r, by.line, x)
    [] by.fold = "pii"    -> PiiStep(by.seq, r, x)
    [] by.fold = "pieces" -> PieceStep(by.seq, by.read, r, x)
    [] by.fold = "offset" -> r + x.raw_len

\* What a fold is by definition: a function of sets of places.
FoldEq(f, by, base, seq, n) ==
  f = [s \in SUBSET (1..n) |->
         IF s = {} THEN base ELSE Step(by, f[s \ {Max(s)}], seq[Max(s)])]

\* The same as a walk.
Walks(h, by, base, seq, n) ==
  h[0] = base /\ \A k \in 1..n : h[k] = Step(by, h[k - 1], seq[k])

SinkLast(r0) ==
  FoldLeft(LAMBDA r, s : SinkLines(r, s, LastLine(r.splitter[s])), r0, r0.order)

Addresses(line) == Places(line, LAMBDA b : b.kind = "address")

Marks(line, r0, spans) == FoldLeft(LAMBDA r, s : Marked(r, line, s), r0, spans)

\* The lines of a stream, sunk one after the other.
LinesEq(f, r0, stream, raws) ==
  f = [s \in SUBSET DOMAIN raws |->
         IF s = {} THEN r0 ELSE SinkLine(f[s \ {Max(s)}], stream, raws[Max(s)])]

\* The newlines of a chunk.
EndsEq(f, chunk) ==
  f = [s \in SUBSET DOMAIN [i \in DOMAIN chunk |-> i] |->
         IF s = {} THEN <<>> ELSE EndsStep(chunk, f[s \ {Max(s)}], [i \in DOMAIN chunk |-> i][Max(s)])]

\* The addresses of a line.
AddressEq(f, line) ==
  f = [s \in SUBSET DOMAIN [i \in DOMAIN line |-> i] |->
         IF s = {} THEN <<>> ELSE PiiStep(line, f[s \ {Max(s)}], [i \in DOMAIN line |-> i][Max(s)])]

\* The last lines of a recording's streams.
LastEq(f, r0) ==
  f = [s \in SUBSET DOMAIN r0.order |->
         IF s = {} THEN r0 ELSE SinkLines(f[s \ {Max(s)}], r0.order[Max(s)], LastLine(f[s \ {Max(s)}].splitter[r0.order[Max(s)]]))]

\* The spans of a line, replaced one after the other.
MarksEq(f, line, r0, spans) ==
  f = [s \in SUBSET DOMAIN spans |->
         IF s = {} THEN r0 ELSE Marked(f[s \ {Max(s)}], line, spans[Max(s)])]

\* What a byte may be: of a kind that is given, or a mask's, or that ends a line. (The
\* provers do not know that a kind that is spelt out is a string.)
ByteKinds == STRING \cup Kinds \cup {"newline", "return"}

Byte == [kind : ByteKinds, value : Nat]

Unmasked == {b \in Byte : b.kind \notin DOMAIN Mask}

Private == {b \in Unmasked : b.kind # "address"}

SpanOf(n) == [from : 1..n, to : 1..n, kind : Kinds]

\* Where a span ends, the 0-th being what is before the place they start at.
EndsAt(spans, start, k) == IF k = 0 THEN start - 1 ELSE spans[k].to

\* Where the next one begins, the one after the last being what is past the line.
NextStart(spans, n, k) == IF k = Len(spans) THEN n + 1 ELSE spans[k + 1].from

\* Spans of a line, from its start-th byte on, with nothing but S in between.
Splits(spans, line, start, S) ==
  /\ spans \in Seq(SpanOf(Len(line)))
  /\ \A k \in 0..Len(spans) :
       \A j \in (EndsAt(spans, start, k) + 1)..(NextStart(spans, Len(line), k) - 1) : line[j] \in S

\* The spans from a byte on, by those after it.
SpanStep(line, later, i) ==
  CASE i > Len(line) -> <<>>
    [] i <= Len(line) /\ line[i].kind = "BEGIN" ->
         <<PrivateKey(line, i)>> \o later[PrivateKey(line, i).to + 1]
    [] i <= Len(line) /\ line[i].kind \in DOMAIN Mask ->
         <<Span(i, i, Mask[line[i].kind])>> \o later[i + 1]
    [] OTHER -> later[i + 1]

SpansEq(f, line, start) == f = [i \in start..(Len(line) + 1) |-> SpanStep(line, f, i)]

\* A number of a kind was given to one value; a value that is remembered has one,
\* and one is not remembered only if there was no room left.
NumbersOk(numbers) ==
  /\ numbers.next \in [Kinds -> Nat]
  /\ IsFiniteSet(DOMAIN numbers.seen)
  /\ \A v \in DOMAIN numbers.seen : numbers.seen[v] \in Nat
  /\ \A g \in numbers.given :
       /\ g = [value |-> g.value, number |-> g.number]
       /\ g.value.kind \in Kinds /\ g.number \in Nat
       /\ g.number <= numbers.next[g.value.kind]
       /\ g.value \in DOMAIN numbers.seen => g.number = numbers.seen[g.value]
       /\ g.value \notin DOMAIN numbers.seen =>
            ~ (Cardinality(DOMAIN numbers.seen) < MAX_REMEMBERED)
  /\ \A g, h \in numbers.given :
       g.value.kind = h.value.kind /\ g.number = h.number => g = h

MarkBytes == [kind : Kinds, value : Nat]

\* A line so far, of which what is done is in S.
RenderedOk(r, n, S) ==
  NumbersOk(r.numbers) /\ r.done \in 0..n /\ r.line \in Seq(S)

Splitter == {sp \in [carry : Seq(Byte), carry_len : Nat, seq : Nat] : Len(sp.carry) <= MAX_LINE}

RawLine == [seq : Nat, bytes : Seq(Byte), raw_len : Nat, terminated : BOOLEAN]

\* Places of a line up to its k-th byte, with no address in between.
Between(places, line, k) ==
  /\ places \in Seq(1..k)
  /\ \A q \in 0..Len(places) :
       \A j \in ((IF q = 0 THEN 0 ELSE places[q]) + 1)
                ..((IF q = Len(places) THEN k + 1 ELSE places[q + 1]) - 1) :
         line[j] \in Private

Source == [stream : Streams, seq : Nat, line : Seq(Unmasked)]

AccFields == {"count", "errors", "measures", "scopes", "unattributed", "first", "sampled"}

\* A behavior with nothing secret in what is kept of it.
AccOk(acc) == DOMAIN acc = AccFields /\ acc.first \in Seq(Source) /\ acc.sampled \in Seq(Source)

AnalysisOk(a) ==
  /\ "behaviors" \in DOMAIN a
  /\ IsFiniteSet(DOMAIN a.behaviors)
  /\ \A b \in DOMAIN a.behaviors : ~ Has(b.template, DOMAIN Mask) /\ AccOk(a.behaviors[b])

\* What may be captured.
Allowed(redact) ==
  CASE redact = "off" -> Byte [] redact = "secrets" -> Unmasked [] redact = "pii" -> Private

\* A recording whose analysis and capture have nothing secret.
RecOk(r) ==
  /\ {"key_lines", "numbers", "stopped", "written", "observed", "analysis", "order", "splitter"}
       \subseteq DOMAIN r
  /\ r.redact \in Modes
  /\ NumbersOk(r.numbers) /\ AnalysisOk(r.analysis)
  /\ r.order \in Seq(Streams)
  /\ r.key_lines \in [Streams -> Nat]
  /\ r.splitter \in [Streams -> Splitter]
  /\ r.written \in [Streams -> Seq(Allowed(r.redact))]

One(s) == CHOOSE x \in s : TRUE

\* What the fold over the lines kept is by definition, of the small sets among them.
KeptEq(f, r, S) ==
  f = [s \in SUBSET S |-> IF s = {} THEN r ELSE MaskKept(One(s), f[s \ {One(s)}])]

Small(S, k) == {s \in SUBSET S : Cardinality(s) <= k}

SmallEq(f, r, S, k) ==
  f = [s \in Small(S, k) |-> IF s = {} THEN r ELSE MaskKept(One(s), f[s \ {One(s)}])]

Lists == {"first", "sampled"}

LinesOf(r, b, list) == r.analysis.behaviors[b][list]

LineAt(r, k) == LinesOf(r, k.behavior, k.list)[k.at].line

\* A line that is kept.
IsKept(r, k) ==
  /\ k.behavior \in DOMAIN r.analysis.behaviors /\ k.list \in Lists
  /\ k.at \in DOMAIN LinesOf(r, k.behavior, k.list)

\* A recording that keeps its lines where another does.
Alike(r, q) ==
  /\ q.redact = r.redact
  /\ DOMAIN q.analysis.behaviors = DOMAIN r.analysis.behaviors
  /\ \A b \in DOMAIN r.analysis.behaviors : \A list \in Lists :
       DOMAIN LinesOf(q, b, list) = DOMAIN LinesOf(r, b, list)

\* Every line kept has nothing private.
KeptPrivate(r) ==
  \A b \in DOMAIN r.analysis.behaviors : \A list \in Lists :
    \A i \in DOMAIN LinesOf(r, b, list) : LinesOf(r, b, list)[i].line \in Seq(Private)

\* What the recording is, whatever was fed of it: nothing in it is secret, and
\* nothing private once it is finished.
Hidden ==
  /\ RecOk(rec)
  /\ rec.redact = "pii" /\ run # "recording" => KeptPrivate(rec)

\* What is kept of a line of which m bytes are.
Clip(s, m) == SubSeq(s, 1, IF Len(s) <= m THEN Len(s) ELSE m)

\* Places of one sequence and of another after it, n further on.
Joined(g, e, f, n) ==
  /\ g \in Seq(Nat) /\ Len(g) = Len(e) + Len(f)
  /\ \A i \in 1..Len(e) : g[i] = e[i]
  /\ \A i \in 1..Len(f) : g[Len(e) + i] = n + f[i]

\* Where the i-th stretch between newlines begins and ends.
HeadFrom(ends, i) == IF i = 1 THEN 1 ELSE ends[i - 1] + 1

HeadTo(ends, len, i) == IF i > Len(ends) THEN len ELSE ends[i] - 1

\* What a splitter goes on with after n lines.
Carried(sp, n) == IF n = 0 THEN sp ELSE [NewSplitter EXCEPT !.seq = sp.seq + n]

\* A line of a chunk.
RawOf(seq, kept) ==
  [seq |-> seq, bytes |-> kept.carry, raw_len |-> kept.carry_len + 1, terminated |-> TRUE]

RecFields == {"redact", "fails", "stopped", "order", "splitter", "key_lines", "numbers",
              "written", "observed", "analysis"}

\* A recording is a record of its fields.
Shaped(r) == r = [x \in RecFields |-> r[x]]

\* What of a line the capture is given.
EvidenceOf(r, stream, raw) ==
  Evidence(r.redact, Masked(r, stream, Body(raw)), Body(raw))

\* What a line does to a recording.
Sunk(q, r, stream, raw) ==
  /\ Shaped(q)
  /\ q.redact = r.redact /\ q.fails = r.fails /\ q.order = r.order /\ q.splitter = r.splitter
  /\ q.key_lines = [r.key_lines EXCEPT ![stream] = KeyLines(Body(raw), @)]
  /\ q.numbers = EvidenceOf(r, stream, raw).numbers
  /\ q.stopped = ~ Captures(r)
  /\ q.written = [r.written EXCEPT ![stream] =
       IF Captures(r) THEN write_line(@, EvidenceOf(r, stream, raw).line, Ending(raw)) ELSE @]
  /\ q.observed = [r.observed EXCEPT ![stream] =
       Append(@, [seq |-> raw.seq, raw_len |-> raw.raw_len,
                  line |-> Masked(r, stream, Body(raw)).line])]
  /\ q.analysis = Record(r.analysis, LogEvent(stream, raw.seq, Masked(r, stream, Body(raw)).line))

\* The splitter's part of a recording is no part of what is done with a line.
Resplit(r, all) == [r EXCEPT !.splitter = all]

\* Lines that are those of one chunk and then those of another.
InTwo(raws, s, t, m, p) ==
  /\ DOMAIN raws = 1..(m + p) /\ DOMAIN s = 1..m /\ DOMAIN t = 1..p
  /\ \A i \in 1..m : raws[i] = s[i]
  /\ \A i \in 1..p : raws[m + i] = t[i]

\* Opening a stream.
OpenedAs(q, r, stream) ==
  /\ Shaped(q) /\ q.order \in Seq(Streams) /\ Contains(q.order, stream)
  /\ q.redact = r.redact /\ q.fails = r.fails /\ q.splitter = r.splitter
  /\ q.stopped = r.stopped /\ q.key_lines = r.key_lines /\ q.numbers = r.numbers
  /\ q.written = r.written /\ q.observed = r.observed /\ q.analysis = r.analysis

\* What is sunk of a chunk, before the rest of it is kept.
SunkOf(r, stream, bytes) ==
  SinkLines(Opened(r, stream), stream, RawLines(r.splitter[stream], bytes))

SplitterOf(r, stream, bytes) ==
  [r.splitter EXCEPT ![stream] = Fed(r.splitter[stream], bytes)]

\* A recording whose lines can be split.
Splitting(r) ==
  Shaped(r) /\ r.order \in Seq(Streams) /\ r.splitter \in [Streams -> Splitter]

\* A recording of whole streams, one after the other.
PiecesEq(f, new, streams, read) ==
  f = [s \in SUBSET DOMAIN [i \in DOMAIN streams |-> i] |->
         IF s = {} THEN new
         ELSE PieceStep(streams, read, f[s \ {Max(s)}], [i \in DOMAIN streams |-> i][Max(s)])]

\* Such a walk, a stream at a time.
Pieces(h, new, streams, read, n) ==
  h[0] = new /\ \A k \in 1..n : h[k] = PieceStep(streams, read, h[k - 1], k)

\* Streams with what was read of each.
OfStreams(streams, read, n) ==
  \A k \in 1..n : streams[k].stream \in Streams /\ read[k] \in Seq(Byte)

\* What was read of a stream goes on with d, and nothing of those after it.
GrowsBy(read, more, n, at_, d) ==
  /\ more[at_] = read[at_] \o d
  /\ \A k \in 1..n : k # at_ => more[k] = read[k]
  /\ \A k \in 1..n : k > at_ => read[k] = <<>>

\* Analyses that differ at most in what was shown of them.
AggFields == {"behaviors", "cells", "fresh", "rng"}

SameStats(a, b) ==
  /\ a = [x \in AggFields |-> a[x]] /\ b = [x \in AggFields |-> b[x]]
  /\ a.behaviors = b.behaviors /\ a.cells = b.cells /\ a.rng = b.rng

\* Recordings that differ at most in what was shown of them.
Like(r, q) ==
  /\ Shaped(r) /\ Shaped(q)
  /\ r.redact = q.redact /\ r.fails = q.fails /\ r.stopped = q.stopped /\ r.order = q.order
  /\ r.splitter = q.splitter /\ r.key_lines = q.key_lines /\ r.numbers = q.numbers
  /\ r.written = q.written /\ r.observed = q.observed
  /\ SameStats(r.analysis, q.analysis)

\* The unfinished line of each stream, as the streams were opened.
Lasts(h, r) ==
  /\ h[0] = r
  /\ \A k \in 1..Len(r.order) :
       h[k] = SinkLines(h[k - 1], r.order[k], LastLine(h[k - 1].splitter[r.order[k]]))

\* Every stream's unfinished line is finished.
FlushedOf(r) == [s \in Streams |-> Flushed(r.splitter[s])]

\* What masking a kept line does to the analysis.
Remasked(all, k, line) == [all EXCEPT ![k.behavior][k.list][k.at].line = line]

PiiOf(r, k) == LET line == LineAt(r, k) IN Render(r.numbers, line, Pii(line))

\* What was read of each stream, and a recording of it without cuts.
ReadOf == [n \in DOMAIN inputs |-> FedOf(n)]

Whole == InOnePiece(NewRecording(rec.redact, rec.fails, RNG), inputs, ReadOf)

\* The chunks in the queue go on where the last one ended.
NoGaps ==
  /\ hand.msg = "Chunk" => hand.from < hand.to
  /\ main = "receiving" =>
       \A i \in DOMAIN queue : queue[i].msg = "Chunk" =>
         /\ queue[i].from < queue[i].to
         /\ \/ queue[i].from = fed
            \/ \E j \in 1..(i - 1) : queue[j].msg = "Chunk" /\ queue[j].to = queue[i].from

\* The recording is that of the whole of what was read, but for what was shown.
AsWhole ==
  IF run # "recording" THEN Like(rec, Finish(Whole))
  ELSE \/ Like(rec, Whole)
       \/ main \notin {"receiving", "replaying", "ended"} /\ Like(rec, Flush(Whole))

\* Exactly the newlines of the first n bytes, in order.
Newlines(e, c, n) ==
  /\ \A i, j \in 1..Len(e) : i < j => e[i] < e[j]
  /\ \A i \in 1..Len(e) : e[i] \in 1..n /\ c[e[i]] = Newline
  /\ \A p \in 1..n : c[p] = Newline => \E i \in 1..Len(e) : e[i] = p

\* Where the i-th line ends, with its newline if it has one.
EndOf(c, i) == IF i = 0 THEN 0 ELSE IF i > Len(Ends(c)) THEN Len(c) ELSE Ends(c)[i]

\* The i-th line of a stream of which B was read.
LineOf(B, i) ==
  [seq |-> i, bytes |-> Clip(Head_(B, i), MAX_LINE),
   raw_len |-> EndOf(B, i) - EndOf(B, i - 1), terminated |-> i <= Len(Ends(B))]

\* How many lines a stream has, the last with or without its newline.
Total(B) == IF EndOf(B, Len(Ends(B))) = Len(B) THEN Len(Ends(B)) ELSE Len(Ends(B)) + 1

\* The last span of a line is a private key that is still open.
EndsOpen(spans, line) ==
  /\ spans \in Seq(SpanOf(Len(line))) /\ spans # <<>>
  /\ spans[Len(spans)].kind = "PRIVATE_KEY"
  /\ line[spans[Len(spans)].from].kind = "BEGIN"
  /\ KeyStaysOpen(line, spans[Len(spans)].from)

\* A line that begins with a private key's mark.
Starts(x) == x \in Seq(Byte) /\ x # <<>> /\ x[1].kind = "PRIVATE_KEY"

TextOf(B, i) == Body(LineOf(B, i))

NoNewline == {b \in Byte : b # Newline}

\* Whether the first block of a stream is still open before its i-th line, and was opened
\* by the j-th.
OpenAt(B, j, i) ==
  /\ j < i
  /\ Opens(TextOf(B, j))
  /\ \A k \in 1..(j - 1) : ~ Has(TextOf(B, k), {"BEGIN"})
  /\ \A k \in (j + 1)..(i - 1) : ~ Has(TextOf(B, k), {"BEGIN", "END"})

\* How many lines of a block are to come before the i-th.
KeyIs(B, i, k) ==
  /\ (\A j \in 1..(i - 1) : ~ Has(TextOf(B, j), {"BEGIN"})) => k = 0
  /\ \A j \in 1..(i - 1) :
       OpenAt(B, j, i) => k = IF i - j <= MAX_KEY_LINES THEN MAX_KEY_LINES - (i - j - 1) ELSE 0

\* What the analysis is given of the i-th line.
LineHid(B, i, seen) ==
  \A j \in 1..(i - 1) : OpenAt(B, j, i) =>
    IF i - j <= MAX_KEY_LINES
    THEN /\ TextOf(B, i) # <<>> => seen[1].kind = "PRIVATE_KEY"
         /\ ~ Has(TextOf(B, i), {"END"}) => Len(seen) <= 1
    ELSE ~ Has(TextOf(B, i), DOMAIN Mask \cup {"BEGIN"}) => seen = TextOf(B, i)

Obs == [seq : Nat, raw_len : Nat, line : Seq(Unmasked)]

RawLen(B, i) == EndOf(B, i) - EndOf(B, i - 1)

\* Numbered and measured as they lie in the stream, and hidden as they must be.
Placed(lines, B, n) ==
  /\ Len(lines) = n
  /\ \A i \in 1..n : lines[i].seq = i /\ lines[i].raw_len = RawLen(B, i) /\ LineHid(B, i, lines[i].line)

\* No line was clipped.
Fit(B, n) == \A i \in 1..n : RawLen(B, i) <= MAX_LINE

\* In the capture: as many lines while it goes on, and the bytes of the stream when none
\* was masked or clipped.
Wrote(redact, stopped, written, B, n) ==
  /\ written \in Seq(Byte)
  /\ ~ stopped => Len(Ends(written)) = IF n <= Len(Ends(B)) THEN n ELSE Len(Ends(B))
  /\ redact = "off" /\ Fit(B, n) =>
       \E m \in 0..n : written = SubSeq(B, 0 + 1, EndOf(B, m)) /\ (~ stopped => m = n)

Saw(r, s, B, n) ==
  /\ B \in Seq(Byte) /\ n \in 0..(Len(Ends(B)) + 1)
  /\ Placed(r.observed[s], B, n)
  /\ KeyIs(B, n + 1, r.key_lines[s])
  /\ Wrote(r.redact, r.stopped, r.written[s], B, n)

\* A recording whose lines are typed.
Recs(r) == RecOk(r) /\ Shaped(r) /\ r.observed \in [Streams -> Seq(Obs)]

\* What recording a line of a stream leaves of the others.
Kin(q, r, s) ==
  /\ q.redact = r.redact /\ (~ q.stopped => ~ r.stopped)
  /\ \A t \in Streams : t # s =>
       /\ q.observed[t] = r.observed[t] /\ q.key_lines[t] = r.key_lines[t]
       /\ q.written[t] = r.written[t]

\* A recording whose streams are opened once, and where what is not opened was not read.
Tidy(r) ==
  /\ r.order \in Seq(Streams) /\ r.splitter \in [Streams -> Splitter]
  /\ \A i, j \in 1..Len(r.order) : r.order[i] = r.order[j] => i = j
  /\ \A t \in Streams :
       (\A i \in 1..Len(r.order) : r.order[i] # t) => r.splitter[t] = NewSplitter

\* The bytes B of a stream are yet to be read, or were.
Unread(r, t, B) == r.splitter[t] = NewSplitter /\ Saw(r, t, B, 0)

WasRead(r, t, B) == r.splitter[t] = Fed(NewSplitter, B) /\ Saw(r, t, B, Len(Ends(B)))

\* The streams that are read after the k-th.
Later(streams, k, n) == {streams[j].stream : j \in (k + 1)..n}

\* What of each stream there is to read.
Contents(A, streams, read, n) ==
  /\ \A k \in 1..n : A[streams[k].stream] = read[k]
  /\ \A t \in Streams : A[t] \in Seq(Byte) /\ (t \notin Later(streams, 0, n) => A[t] = <<>>)

Apiece(streams, n) == \A i, j \in 1..n : streams[i].stream = streams[j].stream => i = j

\* The streams up to the k-th were read.
UpToHere(r, A, later) ==
  /\ Recs(r) /\ Tidy(r)
  /\ \A t \in Streams : /\ t \in later => Unread(r, t, A[t])
                        /\ t \notin later => WasRead(r, t, A[t])

\* How many lines of each stream were seen: of those in done, the last one too.
SeenTo(r, A, done) ==
  /\ Recs(r)
  /\ \A t \in Streams : /\ t \in done => Saw(r, t, A[t], Total(A[t]))
                        /\ t \notin done => Saw(r, t, A[t], Len(Ends(A[t])))

\* The first k streams.
FirstOf(order, k) == {order[i] : i \in 1..k}

\* What masking the lines kept leaves of a recording.
SameCapture(q, r) ==
  /\ q.redact = r.redact /\ q.stopped = r.stopped /\ q.key_lines = r.key_lines
  /\ q.written = r.written /\ q.observed = r.observed

\* What was read of each stream.
ContentOf(t) == IF \E n \in 1..Len(inputs) : inputs[n].stream = t
                THEN FedOf(CHOOSE n \in 1..Len(inputs) : inputs[n].stream = t) ELSE <<>>

\* The recording has seen every line of each stream, but for the last, or that one too.
AllSeen ==
  /\ rec.observed \in [Streams -> Seq(Obs)]
  /\ \A t \in Streams : LET B == ContentOf(t) IN
       Saw(rec, t, B, Len(Ends(B))) \/ Saw(rec, t, B, Total(B))

\* No stream is given twice.
Distinct == Apiece(inputs, Len(inputs))

\* The lengths of lines, summed.
Sums(seq) == FoldLeft(LAMBDA sum, l : sum + l.raw_len, 0, seq)

\* What this sum is by definition.
SumsEq(f, seq) ==
  f = [s \in SUBSET DOMAIN seq |->
         IF s = {} THEN 0 ELSE f[s \ {Max(s)}] + seq[Max(s)].raw_len]

\* What the recording has of a stream that is read.
SeenOf(n, B, lines, m) ==
  /\ B = FedOf(n) /\ B \in Seq(Byte) /\ Len(Ends(B)) \in Nat
  /\ lines = rec.observed[inputs[n].stream] /\ lines \in Seq(Obs)
  /\ m = Len(Ends(B)) \/ m = Len(Ends(B)) + 1
  /\ Saw(rec, inputs[n].stream, B, m)

\* The lines of a stream lie where they were.
Clean(lines) == rec.redact = "off" /\ \A i \in DOMAIN lines : lines[i].raw_len <= MAX_LINE

Lying(s, lines, ends, bytes) ==
  /\ Len(lines) - Len(ends) \in {0, 1}
  /\ \A i \in DOMAIN lines :
       /\ lines[i].seq = i
       /\ Offset(s, i) = IF i \in DOMAIN ends THEN ends[i] ELSE Len(bytes)
  /\ Clean(lines) => IsPrefix(rec.written[s], bytes)
  /\ ~rec.stopped =>
       /\ Len(Ends(rec.written[s])) = Len(ends)
       /\ Clean(lines) => Len(rec.written[s]) = Offset(s, Len(lines))

\* A key that was opened before a line is hidden in it.
KeptHidden(n, j, i, seen) ==
  LET line == Scanned(n, i)
  IN IF i - j <= MAX_KEY_LINES
     THEN /\ line # <<>> => seen[1].kind = "PRIVATE_KEY"
          /\ ~Has(line, {"END"}) => Len(seen) <= 1
     ELSE ~Has(line, DOMAIN Mask \cup {"BEGIN"}) => seen = line

\* What the recording has seen is known in every state.
SeenInv == IInv /\ Hidden /\ NoGaps /\ AsWhole /\ Distinct
=================================================================================
