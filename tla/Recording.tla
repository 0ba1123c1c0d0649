------------------------------ MODULE Recording ------------------------------
(***************************************************************************)
(* What becomes of the bytes a run reads (record.rs): they are split into   *)
(* numbered lines (observation.rs), credentials are masked                  *)
(* (normalize/secrets.rs), and each line goes to the raw capture            *)
(* (capture.rs) and, as a log behavior, to the analysis. A recording is a   *)
(* record that Chunk, Flush and Finish turn into the next one.              *)
(*                                                                         *)
(* A byte stands for a stretch of text that nothing cuts but a chunk's end  *)
(* or MAX_LINE: a line's end, a credential, one end of a private key block, *)
(* an address, a level such as ERROR, or any other text.                    *)
(***************************************************************************)
EXTENDS Aggregator

CONSTANTS
  Streams,         \* the streams a run may read
  MAX_LINE,        \* bytes kept of a line
  MAX_KEY_LINES,   \* lines a private key block may go on for
  MAX_REMEMBERED   \* values a run remembers the number of

ASSUME RecordingAssumption ==
  /\ MAX_LINE \in Nat \ {0}
  /\ MAX_KEY_LINES \in Nat
  /\ MAX_REMEMBERED \in Nat
  /\ \A i \in DOMAIN OVERFLOW_TEMPLATE : OVERFLOW_TEMPLATE[i].kind = "overflow"

\* SIFTR_REDACT.
Modes == {"secrets", "pii", "off"}

Newline == [kind |-> "newline", value |-> 0]
Return  == [kind |-> "return", value |-> 0]

-----------------------------------------------------------------------------
(* LineSplitter. carry is the partial line, and carry_len its length with   *)
(* what did not fit.                                                        *)

NewSplitter == [carry |-> <<>>, carry_len |-> 0, seq |-> 0]

\* Mutant: a partial line counts for no more than what is kept of it.
Keep_Clipped(splitter, bytes) ==
  LET carry == splitter.carry \o
                 SubSeq(bytes, 1, Min({Len(bytes), MAX_LINE - Len(splitter.carry)}))
  IN [splitter EXCEPT !.carry = carry, !.carry_len = Len(carry)]

Keep(splitter, bytes) ==
  LET room == MAX_LINE - Len(splitter.carry)
  IN [splitter EXCEPT !.carry = @ \o SubSeq(bytes, 1, Min({Len(bytes), room})),
                      !.carry_len = @ + Len(bytes)]

\* The places of a sequence that pass a test, in order.
Places(seq, Test(_)) ==
  FoldLeftDomain(LAMBDA found, i : IF Test(seq[i]) THEN Append(found, i) ELSE found, <<>>, seq)

Ends(chunk) == Places(chunk, LAMBDA b : b = Newline)

\* The i-th stretch of a chunk between newlines; the last may be partial.
Head_(chunk, i) ==
  LET ends == Ends(chunk)
  IN SubSeq(chunk, IF i = 1 THEN 1 ELSE ends[i - 1] + 1,
                   IF i > Len(ends) THEN Len(chunk) ELSE ends[i] - 1)

\* The lines a chunk completes: the first of them completes the partial line.
RawLines(splitter, chunk) ==
  [i \in DOMAIN Ends(chunk) |->
     LET carried == IF i = 1 THEN splitter ELSE NewSplitter
         kept    == Keep(carried, Head_(chunk, i))
     IN [seq        |-> splitter.seq + i,
         bytes      |-> kept.carry,
         raw_len    |-> kept.carry_len + 1,
         terminated |-> TRUE]]

\* Mutant: a line that was completed is carried over.
Fed_Carried(splitter, chunk) ==
  Keep([splitter EXCEPT !.seq = @ + Len(Ends(chunk))], Head_(chunk, Len(Ends(chunk)) + 1))

\* The splitter after a chunk.
Fed(splitter, chunk) ==
  LET ends == Ends(chunk)
  IN Keep(IF ends = <<>> THEN splitter
          ELSE [NewSplitter EXCEPT !.seq = splitter.seq + Len(ends)],
          Head_(chunk, Len(ends) + 1))

\* The trailing line without a newline, if there is one.
LastLine(splitter) ==
  IF splitter.carry_len = 0 THEN <<>>
  ELSE <<[seq |-> splitter.seq + 1, bytes |-> splitter.carry,
          raw_len |-> splitter.carry_len, terminated |-> FALSE]>>

Flushed(splitter) ==
  IF splitter.carry_len = 0 THEN splitter
  ELSE [NewSplitter EXCEPT !.seq = splitter.seq + 1]

-----------------------------------------------------------------------------
(* Scanner: the credentials of a line. Its state is how many more lines an  *)
(* open private key block may take.                                         *)

\* What a credential is masked as.
Mask == [token |-> "TOKEN", password |-> "PASSWORD", secret |-> "SECRET"]

Span(from, to, kind) == [from |-> from, to |-> to, kind |-> kind]

\* The first byte of a kind at or after i, or 0.
Next_(line, i, kind) ==
  LET found == {j \in i..Len(line) : line[j].kind = kind}
  IN IF found = {} THEN 0 ELSE Min(found)

\* A block ends at its END line, or with the JSON string it is in, or goes on.
KeyStaysOpen(line, i) == Next_(line, i + 1, "END") = 0 /\ Next_(line, i + 1, "quote") = 0

PrivateKey(line, i) ==
  LET end == Next_(line, i + 1, "END")
  IN CASE end # 0 -> Span(i, end, "PRIVATE_KEY")
       [] KeyStaysOpen(line, i) -> Span(i, Len(line), "PRIVATE_KEY")
       [] OTHER -> Span(i, Next_(line, i + 1, "quote") - 1, "PRIVATE_KEY")

\* The spans of a line from its i-th byte on.
SpansFrom(line, start) ==
  LET spans[i \in start..(Len(line) + 1)] ==
        CASE i > Len(line) -> <<>>
          [] i <= Len(line) /\ line[i].kind = "BEGIN" ->
               <<PrivateKey(line, i)>> \o spans[PrivateKey(line, i).to + 1]
          [] i <= Len(line) /\ line[i].kind \in DOMAIN Mask ->
               <<Span(i, i, Mask[line[i].kind])>> \o spans[i + 1]
          [] OTHER -> spans[i + 1]
  IN spans[start]

\* The spans of a line that comes inside a block, or after one.
Secrets(line, key_lines) ==
  LET end == Next_(line, 1, "END")
  IN CASE key_lines = 0 -> SpansFrom(line, 1)
       [] key_lines > 0 /\ end = 0 ->
            IF line = <<>> THEN <<>> ELSE <<Span(1, Len(line), "PRIVATE_KEY")>>
       [] OTHER -> <<Span(1, end, "PRIVATE_KEY")>> \o SpansFrom(line, end + 1)

\* Mutant: a block is forgotten at the end of its line.
KeyLines_Line(line, key_lines) == 0

\* How many lines of a block may follow.
KeyLines(line, key_lines) ==
  LET spans == Secrets(line, key_lines)
      last  == spans[Len(spans)]
  IN IF key_lines > 0 /\ Next_(line, 1, "END") = 0 THEN key_lines - 1
     ELSE IF /\ spans # <<>>
             /\ last.kind = "PRIVATE_KEY"
             /\ line[last.from].kind = "BEGIN"
             /\ KeyStaysOpen(line, last.from)
          THEN MAX_KEY_LINES
          ELSE 0

-----------------------------------------------------------------------------
(* Numbers: the same value gets the same number, and the line with its      *)
(* spans replaced. given is a history of what was numbered how.             *)

Kinds == {"TOKEN", "PASSWORD", "SECRET", "PRIVATE_KEY", "EMAIL"}

NewNumbers == [seen |-> <<>>, next |-> [k \in Kinds |-> 0], given |-> {}]

\* Mutant: a new value that is not remembered leaves no number behind.
Numbered_Reused(numbers, value) ==
  LET number == numbers.next[value.kind] + 1
      known  == value \in DOMAIN numbers.seen
      room   == Cardinality(DOMAIN numbers.seen) < MAX_REMEMBERED
  IN IF known THEN numbers
     ELSE [seen  |-> IF room THEN Put(numbers.seen, value, number) ELSE numbers.seen,
           next  |-> [numbers.next EXCEPT ![value.kind] = IF room THEN number ELSE @],
           given |-> numbers.given \cup {[value |-> value, number |-> number]}]

Numbered(numbers, value) ==
  LET number == numbers.next[value.kind] + 1
      room   == Cardinality(DOMAIN numbers.seen) < MAX_REMEMBERED
  IN IF value \in DOMAIN numbers.seen THEN numbers
     ELSE [seen  |-> IF room THEN Put(numbers.seen, value, number) ELSE numbers.seen,
           next  |-> [numbers.next EXCEPT ![value.kind] = number],
           given |-> numbers.given \cup {[value |-> value, number |-> number]}]

\* The number a value has just been given, or had.
NumberOf(numbers, value) == Lookup(numbers.seen, value, numbers.next[value.kind])

\* A line so far, with the next of its spans replaced.
Marked(r, line, s) ==
  LET value == [kind |-> s.kind, text |-> SubSeq(line, s.from, s.to)]
      after == Numbered(r.numbers, value)
      mark  == [kind |-> s.kind, value |-> NumberOf(after, value)]
  IN [numbers |-> after, done |-> s.to,
      line |-> r.line \o SubSeq(line, r.done + 1, s.from - 1) \o <<mark>>]

\* A line with its spans rendered, and the numbers after it.
Render(numbers, line, spans) ==
  LET rendered == FoldLeft(LAMBDA r, s : Marked(r, line, s),
                           [numbers |-> numbers, done |-> 0, line |-> <<>>], spans)
  IN [numbers |-> rendered.numbers,
      line    |-> rendered.line \o SubSeq(line, rendered.done + 1, Len(line))]

\* The spans SIFTR_REDACT=pii adds, in a line without credentials.
Pii(line) ==
  LET at == Places(line, LAMBDA b : b.kind = "address")
  IN [i \in DOMAIN at |-> Span(at[i], at[i], "EMAIL")]

-----------------------------------------------------------------------------
(* Recording. order is the order its streams were opened in, fails the line *)
(* whose write to the capture will fail, or 0, and written and observed are *)
(* what the capture and the analysis were given. A run without a capture is *)
(* as one whose first write fails; what a failing write leaves of its line, *)
(* and of those still buffered, is left out.                                *)

NewRecording(redact, fails, rng) ==
  [redact    |-> redact,
   fails     |-> fails,
   stopped   |-> FALSE,
   order     |-> <<>>,
   splitter  |-> [s \in Streams |-> NewSplitter],
   key_lines |-> [s \in Streams |-> 0],
   numbers   |-> NewNumbers,
   written   |-> [s \in Streams |-> <<>>],
   observed  |-> [s \in Streams |-> <<>>],
   analysis  |-> NewAggregator(rng)]

\* A line as the analysis tells it apart: placeholders without their numbers.
Template(line) ==
  [i \in DOMAIN line |->
     IF line[i].kind \in Kinds THEN [line[i] EXCEPT !.value = 0] ELSE line[i]]

LogEvent(stream, seq, line) ==
  [behavior |-> [kind |-> "log", template |-> Template(line)],
   failure  |-> \E i \in DOMAIN line : line[i].kind = "level",
   scope    |-> NoScope,
   measures |-> <<>>,
   source   |-> [stream |-> stream, seq |-> seq, line |-> line]]

\* The views of a line: masked for the analysis, evidence for the capture.
Masked(rec, stream, body) ==
  Render(rec.numbers, body, Secrets(body, rec.key_lines[stream]))

Evidence(redact, masked, body) ==
  CASE redact = "off"     -> [masked EXCEPT !.line = body]
    [] redact = "secrets" -> masked
    [] redact = "pii"     -> Render(masked.numbers, masked.line, Pii(masked.line))

Body(raw) ==
  IF raw.bytes # <<>> /\ Last(raw.bytes) = Return THEN Front(raw.bytes) ELSE raw.bytes

Ending(raw) ==
  (IF Body(raw) = raw.bytes THEN <<>> ELSE <<Return>>)
    \o (IF raw.terminated THEN <<Newline>> ELSE <<>>)

Observed(observed) == MapThenSumSet(LAMBDA s : Len(observed[s]), Streams)

\* Mutant: a capture that failed goes on with the next line.
Captures_GoesOn(rec) == Observed(rec.observed) + 1 # rec.fails

\* Whether the next line reaches the capture: one that failed has stopped.
Captures(rec) == ~rec.stopped /\ Observed(rec.observed) + 1 # rec.fails

\* A line goes to its stream's capture with the ending it came with.
write_line(capture, line, ending) == capture \o line \o ending

\* The analysis sees every line, captured or not.
SinkLine(rec, stream, raw) ==
  LET body     == Body(raw)
      masked   == Masked(rec, stream, body)
      evidence == Evidence(rec.redact, masked, body)
  IN [rec EXCEPT
        !.key_lines[stream] = KeyLines(body, @),
        !.numbers = evidence.numbers,
        !.stopped = ~Captures(rec),
        !.written[stream] =
           IF Captures(rec) THEN write_line(@, evidence.line, Ending(raw)) ELSE @,
        !.observed[stream] =
           Append(@, [seq |-> raw.seq, raw_len |-> raw.raw_len, line |-> masked.line]),
        !.analysis = Record(@, LogEvent(stream, raw.seq, masked.line))]

SinkLines(rec, stream, raws) ==
  FoldLeft(LAMBDA r, raw : SinkLine(r, stream, raw), rec, raws)

Opened(rec, stream) ==
  IF Contains(rec.order, stream) THEN rec
  ELSE [rec EXCEPT !.order = Append(@, stream)]

Chunk(rec, stream, bytes) ==
  LET sunk == SinkLines(Opened(rec, stream), stream, RawLines(rec.splitter[stream], bytes))
  IN [sunk EXCEPT !.splitter[stream] = Fed(rec.splitter[stream], bytes)]

\* Every stream's last line, when nothing more will come.
Flush(rec) ==
  LET sunk == FoldLeft(LAMBDA r, s : SinkLines(r, s, LastLine(r.splitter[s])), rec, rec.order)
  IN [sunk EXCEPT !.splitter = [s \in Streams |-> Flushed(rec.splitter[s])]]

\* Where the analysis keeps lines: a behavior, one of its lists, a place in it.
Kept(rec) ==
  LET kept(b, list) == [behavior : {b}, list : {list},
                        at : DOMAIN rec.analysis.behaviors[b][list]]
  IN UNION {kept(b, "first") \cup kept(b, "sampled") : b \in DOMAIN rec.analysis.behaviors}

\* Kept lines are masked lines, so pii is applied to them at the end.
MaskKept(k, rec) ==
  LET line == rec.analysis.behaviors[k.behavior][k.list][k.at].line
      pii  == Render(rec.numbers, line, Pii(line))
  IN [rec EXCEPT !.numbers = pii.numbers,
                 !.analysis.behaviors[k.behavior][k.list][k.at].line = pii.line]

Finish(rec) ==
  LET flushed == Flush(rec)
  IN IF rec.redact = "pii" THEN FoldSet(MaskKept, flushed, Kept(flushed))
     ELSE flushed
=============================================================================
