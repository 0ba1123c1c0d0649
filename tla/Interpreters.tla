---------------------------- MODULE Interpreters ----------------------------
(***************************************************************************)
(* What the lines of a run's streams mean (interpret.rs and interpret/).    *)
(* Each line is offered to RSpec, then to cargo, then to the generic        *)
(* interpreter, and the one that claims it turns it into events for the     *)
(* aggregator. RSpec's has two streams: the listener's events, which say    *)
(* where in the Rails log each example began and ended, and that log, whose *)
(* lines belong to the example they were written in or, outside of any, to  *)
(* the request they are about.                                              *)
(*                                                                         *)
(* A line is a record: what it is, and the fields its parser takes from it. *)
(***************************************************************************)
EXTENDS Aggregator

CONSTANTS
  NoExample,   \* nothing started, no request under way, no action
  NoNumber     \* a number that is not there: an offset, a count

\* A line, and where it is from.
Observation(stream, seq, line) == [stream |-> stream, seq |-> seq, line |-> line]

Behavior(kind, template) == [kind |-> kind, template |-> template]

Event(obs, behavior, failure, scope, measures) ==
  [behavior |-> behavior, failure |-> failure, scope |-> scope, measures |-> measures,
   source |-> [stream |-> obs.stream, seq |-> obs.seq]]

Measure(name, value) == [name |-> name, value |-> value]

-----------------------------------------------------------------------------
(* Generic: every line is a log behavior, by its text.                      *)

has_error_level(line) == line.text = "ERROR"

log(obs, scope) ==
  Event(obs, Behavior("log", <<obs.line.is, obs.line.text>>), has_error_level(obs.line),
        scope, <<>>)

GenericEvents(obs) == IF obs.line.is = "header" THEN <<>> ELSE <<log(obs, NoScope)>>

-----------------------------------------------------------------------------
(* Cargo: libtest's results on stdout, cargo's own notices on stderr.       *)

CargoSummary(counts) ==
  LET ran == counts.passed + counts.failed + counts.ignored
  IN <<Measure("examples", ran), Measure("expected", ran),
       Measure("defined", ran + counts.filtered_out),
       Measure("failures", counts.failed), Measure("pending", counts.ignored),
       Measure("passed", counts.passed), Measure("filtered_out", counts.filtered_out)>>

\* A line is a result if it ends with a status that libtest writes.
result(line) ==
  line.is = "result" /\ line.name # "" /\ line.status \in {"ok", "failed", "ignored"}

\* A test binary's summary says how it went.
parsed(line) == line.is = "test result" /\ line.status \in {"ok", "failed"}

ResultEvents(obs) ==
  IF obs.line.is = "result"
  THEN <<Event(obs, Behavior("test.example", <<obs.line.name>>),
               obs.line.status = "failed", NoScope, <<>>)>>
  ELSE <<Event(obs, Behavior("test.summary", <<"cargo test">>),
               obs.line.status = "failed", NoScope, CargoSummary(obs.line.counts))>>

\* Whether cargo lists failed targets: the list ends with the first other line.
Listing(listing, obs) ==
  CASE obs.stream # "stderr" \/ obs.line.is = "rerun" -> listing
    [] obs.line.is = "targets" -> obs.line.count > 0
    [] OTHER -> listing /\ obs.line.is = "target"

\* Lines about a failed target are cargo's, and dropped.
Notice(listing, obs) ==
  /\ obs.stream = "stderr"
  /\ obs.line.is \in {"rerun", "targets"} \/ (listing /\ obs.line.is = "target")

-----------------------------------------------------------------------------
(* The phases of a run of examples, and where in the log each example was.  *)

InExample(id) == [is |-> "example", id |-> id]
InRequest(id) == [is |-> "request", id |-> id]
Phase(is)     == [is |-> is, id |-> NoScope]

BETWEEN  == Behavior("test.summary", <<"between examples">>)
TEARDOWN == Behavior("test.summary", <<"after the last example">>)

\* What aggregates keep a phase by.
scope_id(phase) ==
  CASE phase.is = "setup" -> NoScope
    [] phase.is \in {"example", "request"} -> phase.id
    [] phase.is = "between" -> BETWEEN
    [] phase.is = "teardown" -> TEARDOWN

\* The phase an aggregate's scope is of: a request's endpoint is no behavior.
of_scope(agg, scope) ==
  CASE scope = NoScope -> Phase("setup")
    [] scope = BETWEEN -> Phase("between")
    [] scope = TEARDOWN -> Phase("teardown")
    [] OTHER -> IF scope \in DOMAIN agg.behaviors /\ scope.kind = "test.example"
                THEN InExample(scope) ELSE InRequest(scope)

\* An example's range, unless it overlaps the last one.
Pushed(scopes, from, to, id) ==
  IF from <= to /\ (scopes = <<>> \/ Last(scopes).to <= from)
  THEN Append(scopes, [from |-> from, to |-> to, example |-> id])
  ELSE scopes

\* Mutant: the line an example ends before is still the example's.
At_Late(scopes, offset) ==
  LET after == {i \in DOMAIN scopes : scopes[i].to >= offset}
  IN IF after # {} /\ scopes[Min(after)].from <= offset
     THEN InExample(scopes[Min(after)].example)
     ELSE Phase(CASE after = DOMAIN scopes -> "setup"
                  [] after = {} /\ scopes # <<>> -> "teardown"
                  [] OTHER -> "between")

\* What a place in the log is inside of. after is the ranges that end after it.
At(scopes, offset) ==
  LET after == {i \in DOMAIN scopes : scopes[i].to > offset}
  IN IF after # {} /\ scopes[Min(after)].from <= offset
     THEN InExample(scopes[Min(after)].example)
     ELSE Phase(CASE after = DOMAIN scopes -> "setup"
                  [] after = {} /\ scopes # <<>> -> "teardown"
                  [] OTHER -> "between")

-----------------------------------------------------------------------------
(* The Rails log: queries, requests, and everything else.                   *)

\* Whether Rails counts a query.
counts(query) == query.name \notin {"TRANSACTION", "SCHEMA"}

\* Mutant: a list of binds keeps its length.
collapse_placeholders_None(sql) == sql

placeholder(word) == word = "?" \/ word = "$n"

\* A statement's words, in which a list of binds is one bind.
collapse_placeholders(sql) ==
  LET add(words, word) ==
        CASE ~placeholder(word) -> Append(words, word)
          [] placeholder(word) /\ IsSuffix(<<"?", ",">>, words) -> Front(words)
          [] OTHER -> Append(words, "?")
  IN FoldLeft(add, <<>>, sql)

NoRequest == [method |-> NoExample, action |-> NoExample, scope |-> NoScope, queries |-> 0]

Endpoint(request) ==
  IF request.action = NoExample THEN NoScope
  ELSE Behavior("http.request", <<request.method, request.action>>)

\* Mutant: a request goes on after it was completed.
RequestAfter_Kept(request, line, scope) ==
  CASE line.is = "query" /\ request # NoRequest /\ counts(line) ->
         [request EXCEPT !.queries = @ + 1]
    [] line.is = "started" ->
         [request EXCEPT !.method = line.method, !.scope = scope]
    [] line.is = "processing" /\ request # NoRequest ->
         [request EXCEPT !.action = line.action]
    [] OTHER -> request

\* The state of a request after a line, by what the line is.
RequestAfter(request, line, scope) ==
  CASE line.is = "query" /\ request # NoRequest /\ counts(line) ->
         [request EXCEPT !.queries = @ + 1]
    [] line.is = "started" ->
         [method |-> line.method, action |-> NoExample, scope |-> scope, queries |-> 0]
    [] line.is = "processing" /\ request # NoRequest ->
         [request EXCEPT !.action = line.action]
    [] line.is = "completed" -> NoRequest
    [] OTHER -> request

\* A request that is completed: its endpoint with the class of its status, and
\* how many queries it made, as Rails says or as counted.
CompletedEvent(obs, request) ==
  Event(obs,
        Behavior("http.request", <<request.method, request.action, obs.line.class>>),
        obs.line.class = "5xx",
        IF request.scope # NoScope THEN request.scope ELSE Endpoint(request),
        <<Measure("queries", IF obs.line.queries = NoNumber THEN request.queries
                             ELSE obs.line.queries)>>)

\* A line in an example is the example's, in a request the endpoint's.
LineScope(request, scope) == IF scope # NoScope THEN scope ELSE Endpoint(request)

RailsEvents(request, obs, scope) ==
  CASE obs.line.is = "query" ->
         <<Event(obs, Behavior("db.query", <<obs.line.name, collapse_placeholders(obs.line.sql)>>), FALSE,
                 LineScope(request, scope), <<>>)>>
    [] obs.line.is = "started" -> <<>>
    [] obs.line.is = "processing" /\ request # NoRequest -> <<>>
    [] obs.line.is = "completed" /\ request.action # NoExample ->
         <<CompletedEvent(obs, request)>>
    [] OTHER -> <<log(obs, LineScope(request, scope))>>

-----------------------------------------------------------------------------
(* RSpec's events.                                                          *)

NoStart == [expected |-> NoNumber, defined |-> NoNumber]

\* Mutant: an example goes by the file that it is written in.
spec_file_Shared(example) == example.file_path

\* The file that ran the example, from its id: a shared one is written elsewhere.
spec_file(example) ==
  IF example.id.file = NoExample THEN example.file_path ELSE example.id.file

\* An example is its file and its description; one without, its group's.
Identity(example) ==
  Behavior("test.example",
           <<spec_file(example), IF example.unnamed THEN example.group ELSE example.description>>)

Counted(name, count) == IF count = NoNumber THEN <<>> ELSE <<Measure(name, count)>>

SummaryEvent(obs, start) ==
  Event(obs, Behavior("test.summary", <<"rspec">>),
        obs.line.failures > 0 \/ obs.line.errors > 0, NoScope,
        <<Measure("examples", obs.line.examples), Measure("failures", obs.line.failures),
          Measure("pending", obs.line.pending),
          Measure("errors_outside_of_examples", obs.line.errors)>>
          \o Counted("expected", start.expected) \o Counted("defined", start.defined))

ExampleEvents(obs) ==
  LET id == Identity(obs.line)
  IN <<Event(obs, id, obs.line.status = "failed", NoScope, <<>>)>>
       \o IF obs.line.exception = NoExample THEN <<>>
          ELSE <<Event(obs, Behavior("exception", <<obs.line.exception>>), TRUE, id, <<>>)>>

\* A load error goes by its file, any other by what RSpec says of it.
loaded_file(context) ==
  IF context.loading = NoExample THEN <<context.text>> ELSE <<context.loading, "failed to load">>

\* What went wrong, in one line of a message: the last one that points at the
\* source and says something, or else the first that says anything.
cause(message) ==
  LET carets == SelectSeq(message, LAMBDA l : l.points_at # NoExample)
      lines  == SelectSeq(message, LAMBDA l : l.text # "")
      caret  == IF carets = <<>> THEN "" ELSE Last(carets).points_at
  IN CASE caret # "" -> <<caret>>
       [] caret = "" /\ lines # <<>> -> <<lines[1].text>>
       [] OTHER -> <<>>

OutsideEvent(obs) ==
  LET class == IF obs.line.class = NoExample THEN <<>> ELSE <<obs.line.class>>
      template == loaded_file(obs.line.context) \o class \o cause(obs.line.message)
  IN Event(obs, Behavior("exception", template), TRUE, NoScope, <<>>)

RspecEvents(start, obs) ==
  CASE obs.line.is = "example" -> ExampleEvents(obs)
    [] obs.line.is = "summary" -> <<SummaryEvent(obs, start)>>
    [] obs.line.is = "error_outside_examples" -> <<OutsideEvent(obs)>>
    [] obs.line.is \in {"start", "example_started", "other"} -> <<>>
    [] OTHER -> <<log(obs, NoScope)>>

\* Mutant: whichever example started last is taken to be the one that ends.
Closes_Any(chain, line) ==
  /\ line.is = "example"
  /\ chain.started.offset # NoNumber
  /\ line.offset # NoNumber

\* An example that ends where it was seen to start has a range.
Closes(chain, line) ==
  /\ line.is = "example"
  /\ chain.started.id = line.id
  /\ chain.started.offset # NoNumber
  /\ line.offset # NoNumber

RspecAfter(chain, line) ==
  [chain EXCEPT
     !.start =
       CASE line.is = "start"   -> [expected |-> line.expected, defined |-> line.defined]
         [] line.is = "summary" -> NoStart
         [] OTHER               -> @,
     !.scopes =
       IF Closes(chain, line) THEN Pushed(@, chain.started.offset, line.offset, Identity(line))
       ELSE @,
     !.started =
       CASE line.is = "example_started" -> [id |-> line.id, offset |-> line.offset]
         [] line.is = "example" -> [id |-> NoExample, offset |-> NoNumber]
         [] OTHER -> @]

\* The Rails log, by where its lines are.
RailsAfter(chain, obs) ==
  LET scope == scope_id(At(chain.scopes, chain.log_offset))
  IN [chain EXCEPT
        !.log_offset = @ + obs.line.len,
        !.request = RequestAfter(@, obs.line, LineScope(@, scope))]

-----------------------------------------------------------------------------
(* The chain of interpreters.                                               *)

NewChain ==
  [scopes |-> <<>>, started |-> [id |-> NoExample, offset |-> NoNumber],
   start |-> NoStart, request |-> NoRequest, log_offset |-> 0, listing |-> FALSE]

EventsOf(chain, obs) ==
  CASE obs.stream = "events" -> RspecEvents(chain.start, obs)
    [] obs.stream = "log" ->
         RailsEvents(chain.request, obs, scope_id(At(chain.scopes, chain.log_offset)))
    [] obs.stream = "stdout" /\ (result(obs.line) \/ parsed(obs.line)) ->
         ResultEvents(obs)
    [] Notice(chain.listing, obs) -> <<>>
    [] OTHER -> GenericEvents(obs)

After(chain, obs) ==
  CASE obs.stream = "events" -> RspecAfter(chain, obs.line)
    [] obs.stream = "log"    -> RailsAfter(chain, obs)
    [] OTHER -> [chain EXCEPT !.listing = Listing(@, obs)]

\* What the kernel charged the run is an event without a line.
ResourcesEvent(usage) ==
  Event(Observation("rusage", 1, NoExample), Behavior("run.resources", <<"usage">>), FALSE,
        NoScope,
        <<Measure("cpu_user_ms", usage), Measure("cpu_system_ms", usage),
          Measure("max_rss_bytes", usage), Measure("voluntary_switches", usage),
          Measure("involuntary_switches", usage)>>)
=============================================================================
