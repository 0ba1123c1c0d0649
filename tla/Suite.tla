------------------------------- MODULE Suite --------------------------------
(***************************************************************************)
(* A test suite's run, as what it leaves for siftr to read (analyze.rs,     *)
(* assets/siftr_rspec_listener.rs), and siftr reading it. RSpec's workers   *)
(* run examples that append to the Rails log while each one's listener      *)
(* notes where in it they began and ended: it looks at the log's length,    *)
(* then writes the event that says it, and others may write between the     *)
(* two. Or cargo prints its results among what the                          *)
(* tests print. The suite may be killed at any point. siftr reads the       *)
(* streams one line at a time, the events before the log.                   *)
(*                                                                         *)
(* The suite is external. by and block, in a line of the log, say what the  *)
(* interpreters have to find out.                                           *)
(***************************************************************************)
EXTENDS Interpreters

CONSTANTS
  Workers,     \* processes that run examples
  Examples,    \* [id, file_path, group, unnamed]: what RSpec knows of an example
  Outside,     \* [context, class, message]: errors outside of examples
  Statements,  \* [name, sql, asks]: the queries, and what they ask for
  Tests,       \* names of libtest's tests
  Actions,     \* actions of the Rails application
  Drawn,       \* what the exemplars' generator draws, in order
  MaxLines,    \* bound: lines of the events and the log
  MaxLog,      \* bound: lines of the log
  MaxOut,      \* bound: lines of stdout and stderr
  MaxMishaps   \* bound: examples that fail, offsets not placed, other events,
               \* a kill

\* No line has the overflow's template: of a log's lines it is what they are and
\* their text. What is not there is no number, example, action or scope. RSpec's ids
\* are of one example each, and name the file that runs it.
ASSUME SuiteAssumption ==
  /\ Len(OVERFLOW_TEMPLATE) # 2
  /\ NoNumber \notin Nat
  /\ NoExample # "GET" /\ NoExample \notin Actions /\ NoExample \notin Examples
  /\ \A e \in Examples : /\ e.id.file # NoExample
                          /\ \A d \in Examples : d.id = e.id => d = e
  /\ \A q \in Statements : DOMAIN q = {"name", "sql", "asks"}
  /\ NoScope \notin {BETWEEN, TEARDOWN}
  /\ \A e \in Examples : NoScope # Behavior("test.example", <<e.id.file, e.group>>)
  /\ \A action \in Actions : NoScope # Behavior("http.request", <<"GET", action>>)

VARIABLES
  suite,     \* "rspec" or "cargo", then "ended" and, once all is read, "charged"
  out,       \* the lines of each stream
  todo,      \* examples still to run
  running,   \* the example each worker runs, and its next event's offset
  block,     \* the request each worker is in
  tally,     \* examples and tests that failed so far, and mishaps
  placed,    \* history: the examples that ended with both of their offsets, and
             \* beside which no other worker ran one
  fed,       \* how many lines of each stream siftr has read
  chain,     \* the state of its interpreters
  agg,       \* what they have recorded
  emitted    \* history: every event they made

world == <<suite, out, todo, running, block, tally, placed>>
siftr == <<fed, chain, agg, emitted>>
vars  == <<world, siftr>>

Streams == {"stdout", "stderr", "events", "log"}

Init ==
  /\ suite \in {"rspec", "cargo"}
  /\ out = [s \in Streams |-> <<>>]
  /\ todo \in {{}, Examples}
  /\ running = [w \in Workers |-> NoExample]
  /\ block = [w \in Workers |-> NoRequest]
  /\ tally = [failed |-> 0, mishaps |-> 0]
  /\ placed = {}
  /\ fed = [s \in Streams |-> 0]
  /\ chain = NewChain
  /\ agg = NewAggregator(Drawn)
  /\ emitted = <<>>

Writes(stream, lines) == out' = [out EXCEPT ![stream] = @ \o lines]

Written(streams) == MapThenSumSet(LAMBDA s : Len(out[s]), streams)

MayWrite == suite = "rspec" /\ Written({"events", "log"}) < MaxLines

\* mishaps of a step, and whether an example or a test failed.
Tallies(mishaps, failed) ==
  /\ tally.mishaps + mishaps <= MaxMishaps
  /\ tally' = [failed |-> tally.failed + IF failed THEN 1 ELSE 0,
               mishaps |-> tally.mishaps + mishaps]

-----------------------------------------------------------------------------
(* RSpec, its listener and the Rails application.                           *)

Length(lines) == FoldLeft(LAMBDA n, l : n + l.len, 0, lines)

\* The log's length, unless siftr cannot place it.
Offsets == {Length(out.log), NoNumber}

\* A line with what it lacks.
Filled(line, rest) ==
  [x \in DOMAIN line \cup DOMAIN rest |-> IF x \in DOMAIN line THEN line[x] ELSE rest[x]]

Mishap(odd) == IF odd THEN 1 ELSE 0

\* A listener that predates the counts sends neither.
StartSuite ==
  /\ MayWrite /\ out.events = <<>>
  /\ \E n \in {NoNumber, Cardinality(Examples)} :
       /\ Writes("events", <<[is |-> "start", expected |-> n, defined |-> n, text |-> ""]>>)
       /\ Tallies(Mishap(n = NoNumber), FALSE)
  /\ UNCHANGED <<suite, todo, running, block, placed, siftr>>

IsAt(w, stage) == running[w] # NoExample /\ running[w].is = stage

\* What a worker runs, once another begins an example beside it.
Beside(r) == IF r = NoExample THEN r ELSE [r EXCEPT !.placed = FALSE]

\* The listener sees an example start: it looks how long the log is.
NoteStart(w, e) ==
  /\ MayWrite /\ running[w] = NoExample
  /\ e \in todo /\ todo' = todo \ {e}
  /\ \E offset \in Offsets :
       /\ Tallies(Mishap(offset = NoNumber), FALSE)
       /\ running' =
            [v \in Workers |->
               IF v # w THEN Beside(running[v])
               ELSE [example |-> e, is |-> "starting", offset |-> offset,
                     placed |-> /\ offset # NoNumber
                                /\ \A u \in Workers \ {w} : running[u] = NoExample]]
  /\ block' = [block EXCEPT ![w] = NoRequest]
  /\ UNCHANGED <<suite, out, placed, siftr>>

StartExample(w) ==
  /\ MayWrite /\ IsAt(w, "starting")
  /\ Writes("events", <<[is |-> "example_started", id |-> running[w].example.id,
                         offset |-> running[w].offset, text |-> ""]>>)
  /\ running' = [running EXCEPT ![w].is = "running"]
  /\ UNCHANGED <<suite, todo, block, tally, placed, siftr>>

NoteEnd(w) ==
  /\ MayWrite /\ IsAt(w, "running")
  /\ \E offset \in Offsets :
       /\ Tallies(Mishap(offset = NoNumber), FALSE)
       /\ running' = [running EXCEPT ![w] =
                        [example |-> @.example, is |-> "ending", offset |-> offset,
                         placed |-> @.placed /\ offset # NoNumber]]
  /\ block' = [block EXCEPT ![w] = NoRequest]
  /\ UNCHANGED <<suite, out, todo, placed, siftr>>

\* RSpec describes an unnamed example by how it went.
EndExample(w, failed) ==
  /\ MayWrite /\ IsAt(w, "ending")
  /\ LET e == running[w].example
         status == IF failed THEN "failed" ELSE "passed"
     IN /\ Tallies(Mishap(failed), failed)
        /\ placed' = IF running[w].placed THEN placed \cup {e.id} ELSE placed
        /\ Writes("events",
             <<[is |-> "example", id |-> e.id, file_path |-> e.file_path, group |-> e.group,
                unnamed |-> e.unnamed, status |-> status, offset |-> running[w].offset,
                description |-> IF e.unnamed THEN status ELSE e.group,
                exception |-> IF failed THEN "Error" ELSE NoExample, text |-> ""]>>)
  /\ running' = [running EXCEPT ![w] = NoExample]
  /\ UNCHANGED <<suite, todo, block, siftr>>

\* A hook fails, or something siftr does not know is written to the events.
OtherEvent ==
  /\ MayWrite /\ out.events = <<>>
  /\ Tallies(1, FALSE)
  /\ \/ \E is \in {"other", "garbage"} : Writes("events", <<[is |-> is, text |-> "a"]>>)
     \/ \E outside \in Outside :
          Writes("events", <<Filled([is |-> "error_outside_examples", text |-> ""], outside)>>)
  /\ UNCHANGED <<suite, todo, running, block, placed, siftr>>

By(w) == IF running[w] = NoExample THEN NoExample ELSE running[w].example

\* The examples that run, from the look at their start to the one at their end.
During ==
  {running[v].example : v \in {u \in Workers : running[u] # NoExample /\ ~IsAt(u, "ending")}}

\* A line of the log, by a worker that is in a request, or not.
Logs(w, line) ==
  /\ MayWrite /\ Len(out.log) < MaxLog
  /\ running[w] = NoExample \/ IsAt(w, "running")
  /\ Writes("log", <<Filled(line, [text |-> "", len |-> 1, by |-> By(w), block |-> block[w],
                                   during |-> During])>>)
  /\ UNCHANGED <<suite, todo, running, tally, placed, siftr>>

LogText(w) ==
  /\ Logs(w, [is |-> "text", text |-> "a", len |-> 2])
  /\ UNCHANGED block

LogQuery(w, query) ==
  /\ Logs(w, Filled(query, [is |-> "query"]))
  /\ block' = IF block[w] # NoRequest /\ query.name \notin {"TRANSACTION", "SCHEMA"}
              THEN [block EXCEPT ![w].queries = @ + 1] ELSE block

\* The one before may never have been completed.
LogStarted(w) ==
  /\ Logs(w, [is |-> "started", method |-> "GET"])
  /\ block' = [block EXCEPT ![w] = [NoRequest EXCEPT !.method = "GET"]]

LogProcessing(w, action) ==
  /\ block[w] # NoRequest /\ block[w].action = NoExample
  /\ Logs(w, [is |-> "processing", action |-> action])
  /\ block' = [block EXCEPT ![w].action = action]

LogCompleted(w, line) ==
  /\ block[w] # NoRequest
  /\ Logs(w, line)
  /\ block' = [block EXCEPT ![w] = NoRequest]

Completed ==
  {[is |-> "completed", class |-> "2xx", queries |-> NoNumber],
   [is |-> "completed", class |-> "5xx", queries |-> 7]}

EndSuite ==
  /\ suite = "rspec" /\ todo = {} /\ \A w \in Workers : running[w] = NoExample
  /\ suite' = "ended"
  /\ Writes("events",
       <<[is |-> "summary", examples |-> Len(SelectSeq(out.events, LAMBDA l : l.is = "example")), failures |-> tally.failed,
          pending |-> 0, errors |-> 0, text |-> ""]>>)
  /\ UNCHANGED <<todo, running, block, tally, placed, siftr>>

Rspec ==
  \/ StartSuite \/ OtherEvent \/ EndSuite
  \/ \E w \in Workers :
       \/ \E e \in Examples : NoteStart(w, e)
       \/ StartExample(w) \/ NoteEnd(w) \/ \E failed \in BOOLEAN : EndExample(w, failed)
       \/ LogText(w) \/ \E query \in Statements : LogQuery(w, query)
       \/ LogStarted(w) \/ \E action \in Actions : LogProcessing(w, action)
       \/ \E line \in Completed : LogCompleted(w, line)

-----------------------------------------------------------------------------
(* Cargo, and the tests it runs.                                            *)

Prints(stream, lines) ==
  /\ suite = "cargo" /\ Written({"stdout", "stderr"}) + Len(lines) <= MaxOut
  /\ Writes(stream, lines)
  /\ UNCHANGED <<suite, todo, running, block, placed, siftr>>

Test(name, status) ==
  /\ Prints("stdout", <<[is |-> "result", name |-> name, status |-> status, text |-> "a"]>>)
  /\ Tallies(0, status = "failed")

\* A test's own output.
TestPrints ==
  /\ \/ \E text \in {"a", "ERROR"} : Prints("stdout", <<[is |-> "text", text |-> text]>>)
     \/ Prints("stdout", <<[is |-> "header", text |-> ""]>>)
     \/ Prints("stderr", <<[is |-> "target", by |-> "test", text |-> ""]>>)
  /\ UNCHANGED tally

TestResult ==
  /\ Prints("stdout",
       <<[is |-> "test result", status |-> IF tally.failed > 0 THEN "failed" ELSE "ok",
          counts |-> [passed |-> 1, failed |-> tally.failed, ignored |-> 0,
                      filtered_out |-> 1], text |-> ""]>>)
  /\ UNCHANGED tally

\* Cargo names the targets that failed, and goes on with something else.
Failed ==
  \E list \in {<<[is |-> "rerun", text |-> ""]>>,
               <<[is |-> "targets", count |-> 1, text |-> ""],
                 [is |-> "target", by |-> "cargo", text |-> ""]>>} :
    /\ Prints("stderr", Append(list, [is |-> "text", text |-> "a"]))
    /\ UNCHANGED tally

Cargo ==
  \/ \E name \in Tests, status \in {"ok", "failed", "ignored", "maybe"} : Test(name, status)
  \/ TestPrints \/ TestResult \/ Failed

EndCargo ==
  /\ suite = "cargo"
  /\ suite' = "ended"
  /\ UNCHANGED <<out, todo, running, block, tally, placed, siftr>>

\* RSpec is killed.
Kill ==
  /\ suite = "rspec"
  /\ suite' = "ended"
  /\ Tallies(1, FALSE)
  /\ UNCHANGED <<out, todo, running, block, placed, siftr>>

-----------------------------------------------------------------------------
(* siftr.                                                                   *)

AllRead(streams) == \A s \in streams : fed[s] = Len(out[s])

\* The command's own output first, then the listener's events, then the log.
Before(stream) ==
  CASE stream = "events" -> {"stdout", "stderr"}
    [] stream = "log"    -> {"stdout", "stderr", "events"}
    [] OTHER             -> {}

Recorded(events) == FoldLeft(Record, agg, events)

Observe(s) ==
  /\ suite = "ended" /\ fed[s] < Len(out[s]) /\ AllRead(Before(s))
  /\ fed' = [fed EXCEPT ![s] = @ + 1]
  /\ LET obs == Observation(s, fed[s] + 1, out[s][fed[s] + 1])
         events == EventsOf(chain, obs)
     IN /\ emitted' = emitted \o events
        /\ agg' = Recorded(events)
        /\ chain' = After(chain, obs)
  /\ UNCHANGED world

record_resources ==
  /\ suite = "ended" /\ AllRead(Streams)
  /\ suite' = "charged"
  /\ LET events == <<ResourcesEvent(1)>>
     IN emitted' = emitted \o events /\ agg' = Recorded(events)
  /\ UNCHANGED <<out, todo, running, block, tally, placed, fed, chain>>

Next == Rspec \/ Cargo \/ EndCargo \/ Kill \/ (\E s \in Streams : Observe(s)) \/ record_resources

Spec == Init /\ [][Next]_vars

-----------------------------------------------------------------------------
(* Properties.                                                              *)

LineOf(event) == out[event.source.stream][event.source.seq]

\* The events an aggregate stands for: a behavior's own, or, for the one past the
\* limit, those of every behavior that is not there.
EventsIn(b) ==
  {i \in DOMAIN emitted :
     IF b = overflow_behavior THEN emitted[i].behavior \notin DOMAIN agg.behaviors
     ELSE emitted[i].behavior = b}

ScopedIn(b, scopes) ==
  Cardinality({i \in DOMAIN emitted : emitted[i].behavior = b /\ emitted[i].scope \in scopes})

\* Within its limits a run's statistics are exact. A behavior is either counted
\* with all its events, from the first, or it is not there and every event of it
\* is in the overflow's count, which never holds an example, a summary or the
\* run's resources; and so is every pair of a behavior and a scope, or its events
\* are in the behavior's unattributed count.
CountsExact ==
  /\ \A b \in DOMAIN agg.behaviors :
       LET acc == agg.behaviors[b]
       IN /\ acc.count = Cardinality(EventsIn(b))
          /\ acc.errors = Cardinality({i \in EventsIn(b) : emitted[i].failure})
          /\ b # overflow_behavior =>
               /\ \A s \in DOMAIN acc.scopes : acc.scopes[s].count = ScopedIn(b, {s})
               /\ unscoped_count(acc) = ScopedIn(b, {NoScope})
               /\ acc.unattributed =
                    Cardinality(EventsIn(b)) - ScopedIn(b, DOMAIN acc.scopes \cup {NoScope})
  /\ events_past_cap(agg) = Cardinality(EventsIn(overflow_behavior))
  /\ \A i \in EventsIn(overflow_behavior) : capped(emitted[i].behavior.kind)

\* How many events of a behavior come before its n-th event of all.
Earlier(b, n) == Cardinality({i \in EventsIn(b) : i < n})

\* A behavior's exemplars are lines it was recorded from, its first ones and as
\* many others as there is room for, in the order of the lines; none of them twice.
ExemplarsReal ==
  \A b \in DOMAIN agg.behaviors :
    LET kept == Exemplars(agg.behaviors[b])
    IN /\ Len(kept) = Min({Cardinality(EventsIn(b)), FIRST_EXEMPLARS + SAMPLED_EXEMPLARS})
       /\ IsInjective(kept)
       /\ \A k \in DOMAIN kept : \E n \in EventsIn(b) :
            /\ kept[k] = emitted[n].source
            /\ IF k <= FIRST_EXEMPLARS THEN Earlier(b, n) = k - 1
               ELSE Earlier(b, n) >= FIRST_EXEMPLARS
       /\ \A j, k \in FIRST_EXEMPLARS + 1..Len(kept) :
            j < k => kept[j].seq <= kept[k].seq

\* Events made from the log's lines, whose scope is where in the run they were.
InLog(event) == event.source.stream = "log"

\* How an example is known: by the file that runs it, and its author's words.
Ident(e) == Behavior("test.example", <<e.id.file, e.group>>)

\* Whose place an event's scope says: its own line's, or, of a request that is
\* completed, that of the line that started one last.
Origin(event) ==
  LET lines == 1..event.source.seq
  IN out.log[IF event.behavior.kind = "http.request"
             THEN Max({n \in lines : out.log[n].is = "started"}) ELSE event.source.seq]

\* What a stored scope reads back as is an example only if that one was running
\* when the line was written, whoever wrote it, however many workers ran others
\* and in whichever order their events were written. And what an example writes
\* reads back as that example's if both its offsets could be placed and no other
\* ran beside it, however it was named, whatever it did, and whatever overlapped
\* before or after it.
RightScope ==
  \A i \in DOMAIN emitted : InLog(emitted[i]) =>
    LET line  == Origin(emitted[i])
        phase == of_scope(agg, emitted[i].scope)
    IN /\ phase.is = "example" => \E e \in line.during : phase.id = Ident(e)
       /\ line.by # NoExample /\ line.by.id \in placed => phase = InExample(Ident(line.by))

\* Two queries of the log are one behavior if, and only if, they differ in nothing
\* but the values they bind.
QueriesTold ==
  \A i, j \in DOMAIN emitted :
    LET queries == {emitted[i].behavior, emitted[j].behavior}
    IN InLog(emitted[i]) /\ InLog(emitted[j]) /\ {q.kind : q \in queries} = {"db.query"} =>
         (LineOf(emitted[i]).asks = LineOf(emitted[j]).asks <=> Cardinality(queries) = 1)

\* A request that is completed makes one event, with its own method, action and
\* status, and the queries made in it; nothing else makes one.
CompletedOnce(n) ==
  LET line == out.log[n]
      requests == {i \in DOMAIN emitted :
                     /\ emitted[i].source = [stream |-> "log", seq |-> n]
                     /\ emitted[i].behavior.kind = "http.request"}
  IN IF line.is # "completed" \/ line.block.action = NoExample THEN requests = {}
     ELSE \E i \in requests :
            /\ requests = {i}
            /\ emitted[i].behavior.template = <<line.block.method, line.block.action, line.class>>
            /\ emitted[i].measures =
                 <<Measure("queries", IF line.queries = NoNumber THEN line.block.queries
                                      ELSE line.queries)>>

\* The endpoints of requests that got to their action before the log's n-th line,
\* since when none was completed.
Uncompleted(n) ==
  {Endpoint([out.log[m].block EXCEPT !.action = out.log[m].action]) :
     m \in {k \in 1..n - 1 : /\ out.log[k].is = "processing"
                            /\ \A j \in k + 1..n - 1 : out.log[j].is # "completed"}}

\* An event that is in no phase of the examples.
Unphased(scope) == scope = NoScope \/ scope.kind = "http.request"

\* With one worker every request is told from the others. One that is completed
\* makes one event. Where no example claims it, a line in a request is in that
\* request's own endpoint, and in none before its action is known. Only a line
\* outside of requests, and a request's own event, may be left in the endpoint of
\* one that was never completed; never in that of one that was.
RequestsWhole ==
  /\ \A n \in 1..fed["log"] : CompletedOnce(n)
  /\ \A i \in DOMAIN emitted : InLog(emitted[i]) /\ Unphased(emitted[i].scope) =>
       LET line == LineOf(emitted[i])
       IN \/ emitted[i].scope = Endpoint(line.block)
          \/ /\ line.block = NoRequest \/ line.is = "completed"
             /\ emitted[i].scope \in Uncompleted(emitted[i].source.seq)
=============================================================================
