----------------------------- MODULE Aggregator -----------------------------
(***************************************************************************)
(* The statistics of one run's behaviors, in bounded memory (aggregate.rs). *)
(* An aggregator is a record that Record turns into the next one; what      *)
(* feeds it is in Recording, line by line, and in Interpreters, event by    *)
(* event. Left out are durations: their histogram bounds itself.            *)
(***************************************************************************)
EXTENDS Integers, Sequences, SequencesExt, FiniteSets, FiniteSetsExt

CONSTANTS
  FIRST_EXEMPLARS,    \* exemplars kept from the start
  SAMPLED_EXEMPLARS,  \* exemplars sampled from the rest
  MAX_BEHAVIORS,      \* behaviors told apart in a run
  MAX_SCOPE_CELLS,    \* pairs of a behavior and a scope counted in a run
  MAX_MEASURES,       \* names of measures kept for a behavior
  OVERFLOW_TEMPLATE,  \* a template no line has
  NoScope             \* the scope of an event outside any

ASSUME AggregatorAssumption ==
  /\ FIRST_EXEMPLARS \in Nat \ {0}
  /\ SAMPLED_EXEMPLARS \in Nat \ {0}
  /\ MAX_BEHAVIORS \in Nat
  /\ MAX_SCOPE_CELLS \in Nat
  /\ MAX_MEASURES \in Nat

overflow_behavior == [kind |-> "log", template |-> OVERFLOW_TEMPLATE]

\* The kinds of behavior that MAX_BEHAVIORS can cut.
capped(kind) == kind \notin {"test.example", "test.summary", "run.resources"}

\* rng is what the generator will draw, in order.
NewAggregator(rng) ==
  [behaviors |-> <<>>, cells |-> 0, fresh |-> <<>>, rng |-> rng]

NewAccumulator ==
  [count |-> 0, errors |-> 0, measures |-> <<>>, scopes |-> <<>>,
   unattributed |-> 0, first |-> <<>>, sampled |-> <<>>]

Put(f, key, value) ==
  [x \in DOMAIN f \cup {key} |-> IF x = key THEN value ELSE f[x]]

\* The value of key, or a default.
Lookup(f, key, default) == IF key \in DOMAIN f THEN f[key] ELSE default

\* Names past the limit are dropped.
Fits(f, key) == key \in DOMAIN f \/ Cardinality(DOMAIN f) < MAX_MEASURES

NewCell == [count |-> 0, sums |-> <<>>]

NoMeasure == [count |-> 0, sum |-> 0, min |-> 0, max |-> 0]

MeasureStats(stats, value) ==
  [count |-> stats.count + 1,
   sum   |-> stats.sum + value,
   min   |-> IF stats.count = 0 THEN value ELSE Min({stats.min, value}),
   max   |-> IF stats.count = 0 THEN value ELSE Max({stats.max, value})]

\* measures is a sequence of names with their values, as the event lists them.
RecordMeasures(kept, measures) ==
  FoldLeft(LAMBDA f, m :
             IF Fits(f, m.name)
             THEN Put(f, m.name, MeasureStats(Lookup(f, m.name, NoMeasure), m.value))
             ELSE f,
           kept, measures)

RecordCell(cell, measures) ==
  [count |-> cell.count + 1,
   sums  |-> FoldLeft(LAMBDA f, m :
                        IF Fits(f, m.name)
                        THEN Put(f, m.name, Lookup(f, m.name, 0) + m.value)
                        ELSE f,
                      cell.sums, measures)]

\* XorShift::below: a draw, cut to a bound.
below(draw, bound) == draw % bound

\* The first few are full and so is the sample: only then is a number drawn.
Draws(acc) ==
  /\ Len(acc.first) = FIRST_EXEMPLARS
  /\ Len(acc.sampled) = SAMPLED_EXEMPLARS

\* Mutant: a sampled exemplar goes beside the one it replaces.
KeepExemplar_Grows(acc, source, draw) ==
  LET slot == below(draw, acc.count - FIRST_EXEMPLARS)
  IN CASE Len(acc.first) < FIRST_EXEMPLARS ->
            [acc EXCEPT !.first = Append(@, source)]
       [] Len(acc.first) = FIRST_EXEMPLARS /\ Len(acc.sampled) < SAMPLED_EXEMPLARS ->
            [acc EXCEPT !.sampled = Append(@, source)]
       [] Draws(acc) /\ slot < SAMPLED_EXEMPLARS ->
            [acc EXCEPT !.sampled = Append(@, source)]
       [] OTHER -> acc

\* Algorithm R over what follows the first few; acc has counted this one.
KeepExemplar(acc, source, draw) ==
  LET slot == below(draw, acc.count - FIRST_EXEMPLARS)
  IN CASE Len(acc.first) < FIRST_EXEMPLARS ->
            [acc EXCEPT !.first = Append(@, source)]
       [] Len(acc.first) = FIRST_EXEMPLARS /\ Len(acc.sampled) < SAMPLED_EXEMPLARS ->
            [acc EXCEPT !.sampled = Append(@, source)]
       [] Draws(acc) /\ slot < SAMPLED_EXEMPLARS ->
            [acc EXCEPT !.sampled[slot + 1] = source]
       [] OTHER -> acc

\* Mutant: a behavior has to fit each time.
Admitted_Anew(agg, behavior) ==
  Cardinality(DOMAIN agg.behaviors) < MAX_BEHAVIORS \/ ~capped(behavior.kind)

Admitted(agg, behavior) ==
  \/ behavior \in DOMAIN agg.behaviors
  \/ Cardinality(DOMAIN agg.behaviors) < MAX_BEHAVIORS
  \/ ~capped(behavior.kind)

\* Whether a scoped event has, or still gets, a cell of its own.
Attributed(agg, acc, scope) ==
  scope \in DOMAIN acc.scopes \/ agg.cells < MAX_SCOPE_CELLS

RecordScope(agg, acc, event) ==
  CASE event.scope = NoScope -> acc
    [] event.scope # NoScope /\ Attributed(agg, acc, event.scope) ->
         [acc EXCEPT !.scopes =
            Put(@, event.scope,
                RecordCell(Lookup(@, event.scope, NewCell), event.measures))]
    [] OTHER -> [acc EXCEPT !.unattributed = @ + 1]

\* An event is a behavior, whether it failed, its scope, its measures and the
\* line it came from. One that is not admitted counts as the overflow behavior,
\* without its scope and measures.
Record(agg, event) ==
  LET admitted == Admitted(agg, event.behavior)
      id       == IF admitted THEN event.behavior ELSE overflow_behavior
      fresh    == id \notin DOMAIN agg.behaviors
      acc      == Lookup(agg.behaviors, id, NewAccumulator)
      counted  == [acc EXCEPT !.count = @ + 1,
                              !.errors = @ + IF event.failure THEN 1 ELSE 0]
      kept     == KeepExemplar(counted, event.source,
                               IF Draws(acc) THEN Head(agg.rng) ELSE 0)
      measured == [kept EXCEPT !.measures = RecordMeasures(@, event.measures)]
      final    == IF admitted THEN RecordScope(agg, measured, event) ELSE kept
  IN [behaviors |-> Put(agg.behaviors, id, final),
      cells     |-> agg.cells + Cardinality(DOMAIN final.scopes)
                              - Cardinality(DOMAIN acc.scopes),
      fresh     |-> IF fresh THEN Append(agg.fresh, id) ELSE agg.fresh,
      rng       |-> IF Draws(acc) THEN Tail(agg.rng) ELSE agg.rng]

\* What was recorded for the first time since the last call, oldest first, with
\* where it was.
NewBehaviors(agg) ==
  [i \in DOMAIN agg.fresh |->
     [behavior |-> agg.fresh[i], first |-> agg.behaviors[agg.fresh[i]].first[1]]]

Drained(agg) == [agg EXCEPT !.fresh = <<>>]

-----------------------------------------------------------------------------
(* A finished aggregate, and the run's stats as the rules read them.        *)

\* What was sampled, in the order of their lines; those of one line stay in order.
BySeq(sampled) ==
  LET before(i, j) == \/ sampled[i].seq < sampled[j].seq
                      \/ sampled[i].seq = sampled[j].seq /\ i < j
      place(i) == Cardinality({j \in DOMAIN sampled : before(j, i)}) + 1
  IN [k \in DOMAIN sampled |-> sampled[CHOOSE i \in DOMAIN sampled : place(i) = k]]

Exemplars(acc) == acc.first \o BySeq(acc.sampled)

unscoped_count(acc) ==
  LET scoped == MapThenSumSet(LAMBDA s : acc.scopes[s].count, DOMAIN acc.scopes)
  IN Max({0, Max({0, acc.count - scoped}) - acc.unattributed})

events_past_cap(agg) ==
  Lookup(agg.behaviors, overflow_behavior, NewAccumulator).count
=============================================================================
