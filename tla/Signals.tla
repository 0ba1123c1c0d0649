------------------------------- MODULE Signals -------------------------------
(***************************************************************************)
(* What siftr says changed between a run and its baseline (baseline.rs,    *)
(* signal.rs, signal/rules.rs): functions of the stats of the runs         *)
(* compared, with no state of their own.                                   *)
(*                                                                         *)
(* A behavior is an example of the suite, or another one that occurs so    *)
(* many times inside each example and outside them all (SQL), or only      *)
(* outside (a line of stderr or of stdout, an error the reporter saw       *)
(* outside every example).  Requests, durations and so LATENCY, phases     *)
(* other than examples and setup, and scope cells past their limit are     *)
(* left out.                                                               *)
(***************************************************************************)
EXTENDS Integers, FiniteSets, FiniteSetsExt

CONSTANTS
  Examples,      \* behaviors of kind test.example
  Others,        \* the behaviors that are not examples
  ClassOf,       \* [Others -> {"sql", "stderr", "output", "outside"}]
  FileOf,        \* [Examples -> spec file]
  Exceptions,    \* exception behaviors an example may fail with
  MAX_RUNS,      \* candidates a baseline is made from
  MIN_RUNS,      \* baseline runs below which only ERROR and INCOMPLETE claim anything
  VARYING_WIDTHS,
  COLLAPSE_EXAMPLES

ASSUME SignalsAssumption ==
  /\ IsFiniteSet(Examples) /\ IsFiniteSet(Others)
  /\ Examples \cap Others = {}
  /\ ClassOf \in [Others -> {"sql", "stderr", "output", "outside"}]
  /\ {MAX_RUNS, MIN_RUNS, VARYING_WIDTHS, COLLAPSE_EXAMPLES} \subseteq Nat \ {0}

-----------------------------------------------------------------------------
(* What siftr keeps of a run. *)

Setup == "setup"
Scopes == Examples \cup {Setup}

\* Behaviors the rules know by name: the reporter's summary, and what the cap cut.
Summary  == "summary"
Overflow == "overflow"

Unknown == 0 - 1                 \* a count the listener did not report
NoSummary == [summary |-> FALSE, loaded |-> Unknown, defined |-> Unknown, outside |-> 0]

\* An example that ran passed, or failed with a known exception or with none.
Fates == {"passed", "failed"} \cup Exceptions

Stats ==
  [ran     : SUBSET Examples,
   fate    : [Examples -> Fates],
   tests   : [summary : BOOLEAN,  \* whether the reporter summarized
              loaded : Nat \cup {Unknown}, defined : Nat \cup {Unknown}, outside : Nat],
   within  : [Others -> [Scopes -> Nat]],
   past    : Nat,                \* events of behaviors past the cap
   unread  : SUBSET Others]      \* behaviors of streams the run did not read

Within(run, b) == MapThenSumSet(LAMBDA s : run.within[b][s], Scopes)

Count(run, b) ==
  IF b \in Examples THEN (IF b \in run.ran THEN 1 ELSE 0) ELSE Within(run, b)

Present(run, b) ==
  IF b \in Examples THEN b \in run.ran ELSE \E s \in Scopes : run.within[b][s] > 0

Failed(run, e) == e \in run.ran /\ run.fate[e] # "passed"

\* Within an example, or for Setup outside every example.
ScopedCount(run, b, s) == run.within[b][s]

\* The measure an example's queries are: SQL that occurred inside it.
Queries(run, e) ==
  MapThenSumSet(LAMBDA q : run.within[q][e], {q \in Others : ClassOf[q] = "sql"})

-----------------------------------------------------------------------------
(* The baseline: which of the recent runs the run is compared with. *)

Summarized(run) == run.tests.summary

Stopped(run) == Cardinality(run.ran) < run.tests.loaded

\* Mutant: the two counts swapped.
Filtered_Swapped(run) ==
  /\ run.tests.loaded # Unknown /\ run.tests.defined # Unknown
  /\ run.tests.loaded > run.tests.defined

Filtered(run) ==
  /\ run.tests.loaded # Unknown /\ run.tests.defined # Unknown
  /\ run.tests.loaded < run.tests.defined

SkippedExisting(run) == run.tests.outside > 0 \/ Stopped(run) \/ Filtered(run)

\* Its counts show that it ran every example there was.
RanAll(run) == ~ SkippedExisting(run) /\ run.tests.defined # Unknown

\* A baseline, or what it is chosen from: run ids, and the stats of each.
Recent(ids) == {i \in ids : Cardinality({j \in ids : j > i}) < MAX_RUNS}

Existed(now, of, ids) == now.ran \cap UNION {of[i].ran : i \in ids}

Comparable(now, then, existed) ==
  \/ ~ Summarized(now)
  \/ Summarized(then) /\ (RanAll(then) \/ existed \subseteq then.ran)

BaselineIds(now, of, ids) ==
  LET recent == Recent(ids)
  IN  {i \in recent : Comparable(now, of[i], Existed(now, of, recent))}

Most(f, S) == CHOOSE m \in {f[i] : i \in S} : \A i \in S : f[i] <= m
Least(f, S) == CHOOSE m \in {f[i] : i \in S} : \A i \in S : f[i] >= m

\* More errors outside examples than in any baseline run.
RaisedOutside(now, of, ids) ==
  now.tests.outside >
    Most([i \in ids |-> IF Summarized(of[i]) THEN of[i].tests.outside ELSE 0], ids)

\* Why a run skipped what its baseline runs, those of ids, ran.
Incomplete(now, of, ids) ==
  IF ids = {} THEN "none"
  ELSE IF ~ Summarized(now)
  THEN IF \A i \in ids : Summarized(of[i]) THEN "no_test_summary" ELSE "none"
  ELSE IF \A i \in ids : of[i].ran \subseteq now.ran THEN "none"
  ELSE IF RaisedOutside(now, of, ids) THEN "errors_outside_examples"
  ELSE IF Stopped(now) THEN "stopped"
  ELSE IF Filtered(now) THEN "subset"
  ELSE "none"

\* Mutant: only a run that stopped early leaves a partial baseline.
Partial_Stopped(of, ids) ==
  ids # {} /\ \A i \in ids : Summarized(of[i]) /\ Stopped(of[i])

\* No run of the baseline ran everything there was.
Partial(of, ids) ==
  ids # {} /\ \A i \in ids : Summarized(of[i]) /\ SkippedExisting(of[i])

-----------------------------------------------------------------------------
(* The rules, on the values a measure has in the baseline runs. *)

\* The k-th smallest of the values f has on ids.
Nth(f, ids, k) ==
  CHOOSE v \in {f[i] : i \in ids} :
    /\ Cardinality({i \in ids : f[i] < v}) < k
    /\ Cardinality({i \in ids : f[i] <= v}) >= k

\* Twice the median: the middle value twice, or the middle two.
Median2(f, ids) ==
  LET n == Cardinality(ids) IN Nth(f, ids, (n + 1) \div 2) + Nth(f, ids, n \div 2 + 1)

Gap(a, b) == IF a < b THEN b - a ELSE a - b

Frequency(f, ids, now) ==
  LET low == Least(f, ids)  high == Most(f, ids)
  IN  /\ Cardinality(ids) >= MIN_RUNS
      /\ now \notin low..high
      /\ low = high \/ Gap(2 * now, Median2(f, ids)) > 2 * VARYING_WIDTHS * (high - low)

IsNew(now, of, ids, b) ==
  /\ Cardinality(ids) >= MIN_RUNS
  /\ Present(now, b)
  /\ \A i \in ids : ~ Present(of[i], b)

IsGone(now, of, ids, b) ==
  /\ Cardinality(ids) >= MIN_RUNS
  /\ ~ Present(now, b)
  /\ \A i \in ids : Present(of[i], b)

\* Against the baseline runs that ran it, unless one of them failed the same way.
IsError(now, of, ids, e) ==
  /\ Failed(now, e)
  /\ \E i \in ids : e \in of[i].ran
  /\ \A i \in ids : Failed(of[i], e) => of[i].fate[e] # now.fate[e]

-----------------------------------------------------------------------------
(* Which rules a behavior gets, and what they find. *)

Reporter(now) == now.ran # {}

\* Stdout and side channels only restate what the reporter's events say.
Judged(now, b) ==
  b \in Examples \/ ClassOf[b] \in {"sql", "stderr", "outside"} \/ ~ Reporter(now)

\* The error outside examples comes from the reporter, as often as its summary says.
OutsideErrors == {b \in Others : ClassOf[b] = "outside"}

ConfigurationExplains(now, of, ids, b, kind) ==
  /\ b \in Others
  /\ \/ kind = "disappeared" /\ b \in now.unread
     \/ kind = "new" /\ \A i \in ids : b \in of[i].unread

TruncationExplains(now, of, ids, b, kind) ==
  /\ b \in Others
  /\ \/ kind = "disappeared" /\ now.past > 0
     \/ kind = "new" /\ \A i \in ids : of[i].past > 0

Arrived(now, of, ids) ==
  {s \in [kind : {"new", "disappeared"}, behavior : Examples \cup Others, measure : {"count"}] :
     /\ Judged(now, s.behavior)
     /\ IF s.kind = "new" THEN IsNew(now, of, ids, s.behavior)
        ELSE IsGone(now, of, ids, s.behavior)
     /\ ~ ConfigurationExplains(now, of, ids, s.behavior, s.kind)
     /\ ~ TruncationExplains(now, of, ids, s.behavior, s.kind)}

Moved(now, of, ids) ==
  {s \in [kind : {"frequency"}, behavior : Examples \cup Others, measure : {"count", "queries"}] :
     LET b == s.behavior IN
     /\ Judged(now, b)
     /\ Present(now, b) /\ \A i \in ids : Present(of[i], b)
     /\ \/ /\ s.measure = "count" /\ b \in Others
           /\ Frequency([i \in ids |-> Count(of[i], b)], ids, Count(now, b))
        \/ /\ s.measure = "queries" /\ b \in Examples
           /\ now.past = 0 /\ \A i \in ids : of[i].past = 0
           /\ Frequency([i \in ids |-> Queries(of[i], b)], ids, Queries(now, b))}

Broke(now, of, ids) ==
  {[kind |-> "error", behavior |-> e, measure |-> "failed"] :
     e \in {x \in Examples : IsError(now, of, ids, x)}}

-----------------------------------------------------------------------------
(* What is taken back when runs did not run everything. *)

\* Wherever b occurred, it is an example in ran or lies inside one.
WithinExamples(now, of, ids, b, ran) ==
  IF b \in Examples THEN b \in ran
  ELSE \A run \in {now} \cup {of[i] : i \in ids} :
         /\ run.within[b][Setup] = 0
         /\ \A e \in Examples : run.within[b][e] > 0 => e \in ran

PartialRunExplains(now, of, ids, s) ==
  /\ s.kind \in {"disappeared", "frequency"}
  /\ ~ WithinExamples(now, of, ids, s.behavior, now.ran)

\* No run of a partial baseline ran the examples it occurs in.
UnrunBefore(of, ids) == {e \in Examples : \A i \in ids : e \notin of[i].ran}

PartialBaselineExplains(now, of, ids, s) ==
  /\ s.kind = "new"
  /\ WithinExamples(now, of, ids, s.behavior, UnrunBefore(of, ids))

\* The behavior that shows why the run is incomplete: each new error outside
\* examples, else the reporter's summary.
Evidence(now, of, ids, why) ==
  LET raised == {b \in OutsideErrors :
                   \A i \in ids : Count(now, b) > Count(of[i], b)}
  IN  IF why = "errors_outside_examples" /\ raised # {} THEN raised ELSE {Summary}

IncompleteSignal(b, measure) == [kind |-> "incomplete", behavior |-> b, measure |-> measure]

IncompleteSignals(now, of, ids, why) ==
  {IncompleteSignal(b, why) : b \in Evidence(now, of, ids, why)}

Truncated(now, ids) ==
  IF now.past > 0 /\ ids # {} THEN {IncompleteSignal(Overflow, "events_past_cap")} ELSE {}

\* Every change between a run and its baseline.
Changes(now, of, ids) ==
  LET why == Incomplete(now, of, ids)
      found == Arrived(now, of, ids) \cup Moved(now, of, ids) \cup Broke(now, of, ids)
      kept == IF why = "none" THEN found
              ELSE {s \in found : /\ ~ PartialRunExplains(now, of, ids, s)
                                  /\ s.behavior \notin Evidence(now, of, ids, why)}
                     \cup IncompleteSignals(now, of, ids, why)
      whole == kept \cup Truncated(now, ids)
  IN  IF ids = {} THEN {}
      ELSE IF Partial(of, ids)
      THEN {s \in whole : ~ PartialBaselineExplains(now, of, ids, s)}
      ELSE whole

-----------------------------------------------------------------------------
(* Which changes are one change to the reader, and which of them says so. *)

Compared(now, of, ids) == {now} \cup {of[i] : i \in ids}

\* The scopes whose own count left the baseline's median.
Owners(now, of, ids, b) ==
  LET inside == {e \in Examples : \E run \in Compared(now, of, ids) : run.within[b][e] > 0}
      scopes == inside \cup (IF Reporter(now) /\ ClassOf[b] = "sql" THEN {Setup} ELSE {})
  IN  {s \in scopes :
         Median2([i \in ids |-> ScopedCount(of[i], b, s)], ids) # 2 * ScopedCount(now, b, s)}

\* The one example every occurrence of b falls inside, in each run that has it.
SoleScopes(now, of, ids, b) ==
  {e \in Examples :
     \A run \in Compared(now, of, ids) : Present(run, b) => Within(run, b) = run.within[b][e]}

\* What the change is about: signals that share it form one group.
Key(now, of, ids, s) ==
  LET b == s.behavior  owners == Owners(now, of, ids, b)
  IN  IF s.kind = "incomplete" THEN <<"incomplete">>
      ELSE IF b \in Examples THEN <<"scope", b>>
      ELSE IF Cardinality(owners) = 1 THEN <<"scope", CHOOSE o \in owners : TRUE>>
      ELSE IF ClassOf[b] # "stderr" /\ Cardinality(SoleScopes(now, of, ids, b)) = 1
      THEN <<"scope", CHOOSE e \in SoleScopes(now, of, ids, b) : TRUE>>
      ELSE <<"behavior", b>>

\* An example that appeared or disappeared: what is attributed to it moved with it.
MovedExample(s) == s.behavior \in Examples /\ s.kind \in {"new", "disappeared"}

\* Examples of one spec file that appeared, or disappeared, together with s's.
Alongside(all, s) ==
  {t \in all : MovedExample(t) /\ t.kind = s.kind /\ FileOf[t.behavior] = FileOf[s.behavior]}

Group(now, of, ids, all, s) ==
  LET key == Key(now, of, ids, s)
      moved == {t \in all : /\ MovedExample(t) /\ key = <<"scope", t.behavior>>
                            /\ Cardinality(Alongside(all, t)) >= COLLAPSE_EXAMPLES}
  IN  IF moved = {} THEN key
      ELSE LET t == CHOOSE t \in moved : TRUE IN <<"file", t.kind, FileOf[t.behavior]>>

\* A count that moved only because the suite changed size: it occurs in several
\* examples, and as often per example as before.  Rates are over the sizes' product.
SuiteSizeExplains(now, of, ids, s) ==
  LET b == s.behavior
      size(run) == Cardinality(run.ran)
      sizes == {size(run) : run \in Compared(now, of, ids)}
      rate(run) == Count(run, b) * ProductSet(sizes \ {size(run)})
  IN  /\ s.kind = "frequency" /\ s.measure = "count"
      /\ 0 \notin sizes
      /\ sizes # {size(now)}
      /\ Cardinality({e \in Examples : now.within[b][e] > 0}) >= 2
      /\ ~ Frequency([i \in ids |-> rate(of[i])], ids, rate(now))

\* How directly a signal names a change a developer can see.
Tier(now, of, ids, s) ==
  LET b == s.behavior
      setup == b \notin Examples /\ s.kind # "incomplete"
                 /\ Key(now, of, ids, s) = <<"scope", Setup>>
  IN  IF setup \/ SuiteSizeExplains(now, of, ids, s) THEN 5
      ELSE IF s.kind \in {"error", "incomplete"} THEN 1
      ELSE IF s.kind = "frequency" THEN 3
      ELSE IF s.kind = "new" /\ b \in OutsideErrors THEN 1
      ELSE IF s.kind = "new" /\ b \in Others /\ ClassOf[b] = "stderr" THEN 2
      ELSE 4

\* Within a group and a tier the kind decides: a presence change is never less
\* certain than a count that moved, and what is left is only a tie.
KindOrder == [kind \in {"incomplete", "error", "new", "disappeared", "frequency"} |->
                CASE kind = "incomplete" -> 0 [] kind = "error" -> 1 [] kind = "new" -> 2
                  [] kind = "disappeared" -> 3 [] OTHER -> 4]

Before(now, of, ids, s, t) ==
  \/ MovedExample(s) /\ ~ MovedExample(t)
  \/ MovedExample(s) = MovedExample(t)
     /\ \/ Tier(now, of, ids, s) < Tier(now, of, ids, t)
        \/ Tier(now, of, ids, s) = Tier(now, of, ids, t)
           /\ KindOrder[s.kind] <= KindOrder[t.kind]

\* The kind of the signal that speaks for s's group.
HeadKind(now, of, ids, all, s) ==
  LET members == {t \in all : Group(now, of, ids, all, t) = Group(now, of, ids, all, s)}
  IN  (CHOOSE h \in members : \A t \in members : Before(now, of, ids, h, t)).kind

\* What detect returns: the changes, grouped and ranked.
Detect(now, of, ids) ==
  LET all == Changes(now, of, ids)
  IN  {[kind |-> s.kind, behavior |-> s.behavior, measure |-> s.measure,
        group |-> Group(now, of, ids, all, s), head |-> HeadKind(now, of, ids, all, s)] :
         s \in all}
=============================================================================
