---------------------------- MODULE SuiteProofs ----------------------------
(***************************************************************************)
(* What siftr counts of a suite is exact, and the lines it keeps are real, *)
(* for any lines, limits and draws. The limits never look back: what has   *)
(* room once is counted from its first event on, and what finds none finds *)
(* none later. And no two events of one behavior are of the same line.     *)
(*                                                                         *)
(* With one worker a line is given to the example, or to the request, that *)
(* it was written in. What an example writes then lies between the places  *)
(* of its events, which come in the order of the log.                      *)
(***************************************************************************)
EXTENDS Suite, FiniteSetTheorems, SequenceTheorems, WellFoundedInduction, TLAPS

-----------------------------------------------------------------------------
(* What recording an event does to the accumulator it is recorded in.       *)

Fields == {"count", "errors", "measures", "scopes", "unattributed", "first", "sampled"}

\* Keeping a line of an event leaves the counts alone.
LEMMA KeepsCounts ==
  ASSUME NEW acc, DOMAIN acc = Fields, NEW source, NEW draw
  PROVE  LET kept == KeepExemplar(acc, source, draw)
         IN /\ DOMAIN kept = Fields
            /\ \A x \in Fields \ {"first", "sampled"} : kept[x] = acc[x]
<1> DEFINE slot == below(draw, acc.count - FIRST_EXEMPLARS)
           kept == KeepExemplar(acc, source, draw)
<1>1. \/ kept = [acc EXCEPT !.first = Append(acc.first, source)]
      \/ kept = [acc EXCEPT !.sampled = Append(acc.sampled, source)]
      \/ kept = [acc EXCEPT !.sampled = [acc.sampled EXCEPT ![slot + 1] = source]]
      \/ kept = acc
  BY DEF KeepExemplar, Fields
<1> HIDE DEF kept, slot
<1>2. DOMAIN kept = Fields /\ \A x \in Fields \ {"first", "sampled"} : kept[x] = acc[x]
  <2>1. CASE kept = [acc EXCEPT !.first = Append(acc.first, source)]
    BY <2>1 DEF Fields
  <2>2. CASE kept = [acc EXCEPT !.sampled = Append(acc.sampled, source)]
    BY <2>2 DEF Fields
  <2>3. CASE kept = [acc EXCEPT !.sampled = [acc.sampled EXCEPT ![slot + 1] = source]]
    BY <2>3 DEF Fields
  <2> QED
    BY <1>1, <2>1, <2>2, <2>3
<1> QED
  BY <1>2 DEF kept

\* A behavior's accumulator, or what it starts with.
AccOf(a, id) == Lookup(a.behaviors, id, NewAccumulator)

\* Where an event is recorded.
IdOf(a, e) == IF Admitted(a, e.behavior) THEN e.behavior ELSE overflow_behavior

LEMMA NewFields == DOMAIN NewAccumulator = Fields
BY DEF NewAccumulator, Fields

LEMMA PutIs ==
  ASSUME NEW f, NEW key, NEW value
  PROVE  /\ DOMAIN Put(f, key, value) = DOMAIN f \cup {key}
         /\ Put(f, key, value)[key] = value
         /\ \A x \in DOMAIN f \ {key} : Put(f, key, value)[x] = f[x]
BY DEF Put

\* The accumulator an event goes to, and that accumulator afterwards.
AccFor(a, e) == AccOf(a, IdOf(a, e))
FinalOf(a, e) == Record(a, e).behaviors[IdOf(a, e)]

\* What becomes of the scopes.
ScopesAfter(a, e, acc, final) ==
  /\ ~ Admitted(a, e.behavior) \/ e.scope = NoScope =>
       final.scopes = acc.scopes /\ final.unattributed = acc.unattributed
  /\ Admitted(a, e.behavior) /\ e.scope # NoScope /\ Attributed(a, acc, e.scope) =>
       /\ final.scopes = Put(acc.scopes, e.scope,
                   RecordCell(Lookup(acc.scopes, e.scope, NewCell), e.measures))
       /\ final.unattributed = acc.unattributed
  /\ Admitted(a, e.behavior) /\ e.scope # NoScope /\ ~ Attributed(a, acc, e.scope) =>
       final.scopes = acc.scopes /\ final.unattributed = acc.unattributed + 1

SameLines(x, y) == x.first = y.first /\ x.sampled = y.sampled

\* What becomes of the lines that are kept.
LinesAfter(acc, final, source) ==
  \E counted, draw :
    /\ DOMAIN counted = Fields /\ SameLines(counted, acc)
    /\ SameLines(final, KeepExemplar(counted, source, draw))

\* The accumulator of an event after it was recorded.
LEMMA RecordsCounts ==
  ASSUME NEW a, NEW e, DOMAIN AccFor(a, e) = Fields
  PROVE  /\ DOMAIN Record(a, e).behaviors = DOMAIN a.behaviors \cup {IdOf(a, e)}
         /\ \A b \in DOMAIN a.behaviors \ {IdOf(a, e)} :
              Record(a, e).behaviors[b] = a.behaviors[b]
         /\ DOMAIN FinalOf(a, e) = Fields
         /\ FinalOf(a, e).count = AccFor(a, e).count + 1
         /\ FinalOf(a, e).errors = AccFor(a, e).errors + IF e.failure THEN 1 ELSE 0
         /\ ScopesAfter(a, e, AccFor(a, e), FinalOf(a, e))
         /\ LinesAfter(AccFor(a, e), FinalOf(a, e), e.source)
         /\ Record(a, e).cells = a.cells + Cardinality(DOMAIN FinalOf(a, e).scopes)
                                         - Cardinality(DOMAIN AccFor(a, e).scopes)
<1> DEFINE admitted == Admitted(a, e.behavior)
           id       == IdOf(a, e)
           acc      == AccFor(a, e)
           counted  == [acc EXCEPT !.count = acc.count + 1,
                                   !.errors = acc.errors + IF e.failure THEN 1 ELSE 0]
           kept     == KeepExemplar(counted, e.source, IF Draws(acc) THEN Head(a.rng) ELSE 0)
           measured == [kept EXCEPT !.measures = RecordMeasures(kept.measures, e.measures)]
           final    == IF admitted THEN RecordScope(a, measured, e) ELSE kept
           after    == Record(a, e)
<1>1. /\ after.behaviors = Put(a.behaviors, id, final)
      /\ after.cells = a.cells + Cardinality(DOMAIN final.scopes) - Cardinality(DOMAIN acc.scopes)
  <2>1. after = [behaviors |-> Put(a.behaviors, id, final),
                 cells     |-> a.cells + Cardinality(DOMAIN final.scopes)
                                       - Cardinality(DOMAIN acc.scopes),
                 fresh     |-> IF id \notin DOMAIN a.behaviors THEN Append(a.fresh, id) ELSE a.fresh,
                 rng       |-> IF Draws(acc) THEN Tail(a.rng) ELSE a.rng]
    BY Zenon DEF Record, AccFor, AccOf, IdOf
  <2> HIDE DEF after, final, acc, id
  <2> QED
    BY <2>1
<1>2. /\ DOMAIN counted = Fields
      /\ counted.count = acc.count + 1
      /\ counted.errors = acc.errors + IF e.failure THEN 1 ELSE 0
      /\ \A x \in Fields \ {"count", "errors"} : counted[x] = acc[x]
  <2> HIDE DEF acc
  <2> QED
    BY DEF Fields, acc
<1> HIDE DEF counted
<1>3. /\ DOMAIN kept = Fields
      /\ \A x \in Fields \ {"first", "sampled"} : kept[x] = counted[x]
  BY <1>2, KeepsCounts
<1> HIDE DEF kept
<1>4. /\ DOMAIN measured = Fields
      /\ \A x \in Fields \ {"measures"} : measured[x] = kept[x]
  BY <1>3 DEF Fields
<1> HIDE DEF measured
<1>5. /\ measured.scopes = acc.scopes /\ measured.unattributed = acc.unattributed
      /\ measured.count = counted.count /\ measured.errors = counted.errors
      /\ kept.scopes = acc.scopes /\ kept.unattributed = acc.unattributed
      /\ kept.count = counted.count /\ kept.errors = counted.errors
      /\ SameLines(measured, kept) /\ SameLines(counted, acc)
  BY <1>2, <1>3, <1>4 DEF Fields, SameLines
<1>6. /\ DOMAIN final = Fields /\ final.count = counted.count /\ final.errors = counted.errors
      /\ ScopesAfter(a, e, acc, final) /\ SameLines(final, kept)
  <2>1. CASE ~ admitted
    BY <1>3, <1>5, <2>1 DEF ScopesAfter, SameLines
  <2>2. CASE admitted /\ e.scope = NoScope
    <3>1. final = measured
      BY <2>2 DEF RecordScope
    <3> HIDE DEF final
    <3> QED
      BY <1>4, <1>5, <2>2, <3>1 DEF ScopesAfter, SameLines
  <2>3. CASE admitted /\ e.scope # NoScope /\ Attributed(a, acc, e.scope)
    <3> DEFINE put == Put(acc.scopes, e.scope,
                          RecordCell(Lookup(acc.scopes, e.scope, NewCell), e.measures))
    <3>1. Attributed(a, measured, e.scope)
      BY <1>5, <2>3 DEF Attributed
    <3>2. final = [measured EXCEPT !.scopes = put]
      BY <1>5, <2>3, <3>1 DEF RecordScope
    <3> HIDE DEF final, put
    <3>3. /\ DOMAIN final = Fields /\ final.scopes = put
          /\ final.count = measured.count /\ final.errors = measured.errors
          /\ final.unattributed = measured.unattributed /\ SameLines(final, measured)
      BY <1>4, <3>2 DEF Fields, SameLines
    <3> QED
      BY <1>5, <2>3, <3>3 DEF put, ScopesAfter, SameLines
  <2>4. CASE admitted /\ e.scope # NoScope /\ ~ Attributed(a, acc, e.scope)
    <3>1. ~ Attributed(a, measured, e.scope)
      BY <1>5, <2>4 DEF Attributed
    <3>2. final = [measured EXCEPT !.unattributed = measured.unattributed + 1]
      BY <2>4, <3>1 DEF RecordScope
    <3> HIDE DEF final
    <3> QED
      BY <1>4, <1>5, <2>4, <3>2 DEF Fields, ScopesAfter, SameLines
  <2> QED
    BY <2>1, <2>2, <2>3, <2>4
<1> HIDE DEF final
<1>7. /\ DOMAIN after.behaviors = DOMAIN a.behaviors \cup {id} /\ after.behaviors[id] = final
      /\ \A b \in DOMAIN a.behaviors \ {id} : after.behaviors[b] = a.behaviors[b]
  <2> HIDE DEF after, acc, id
  <2>1. after.behaviors = Put(a.behaviors, id, final)
    BY <1>1
  <2> QED
    BY <2>1 DEF Put
<1>8. final = FinalOf(a, e)
  BY <1>7 DEF FinalOf
<1> HIDE DEF after, acc, id
<1>9. /\ DOMAIN final = Fields /\ final.count = acc.count + 1
      /\ final.errors = acc.errors + IF e.failure THEN 1 ELSE 0
  BY <1>2, <1>6
<1>10. LinesAfter(acc, final, e.source)
  <2>1. \E draw : kept = KeepExemplar(counted, e.source, draw)
    BY DEF kept
  <2> QED
    BY <1>2, <1>5, <1>6, <2>1, Zenon DEF LinesAfter
<1> QED
  BY <1>1, <1>6, <1>7, <1>8, <1>9, <1>10, Zenon DEF after, acc, id

-----------------------------------------------------------------------------
(* What the counts of an aggregate are, of the events it was made from.     *)

\* The events that b's accumulator stands for, when those in D have their own.
Of(D, em, b) ==
  {i \in DOMAIN em : IF b = overflow_behavior THEN em[i].behavior \notin D
                     ELSE em[i].behavior = b}

Failed_(em, S) == {i \in S : em[i].failure}

Scoped(em, b, s) == {i \in DOMAIN em : em[i].behavior = b /\ em[i].scope = s}

\* The events of a behavior whose scope found no cell.
Lost(acc, em, b) ==
  {i \in DOMAIN em : em[i].behavior = b /\ em[i].scope \notin DOMAIN acc.scopes \cup {NoScope}}

ScopesExact(acc, em, b) ==
  /\ NoScope \notin DOMAIN acc.scopes
  /\ \A s \in DOMAIN acc.scopes : acc.scopes[s].count = Cardinality(Scoped(em, b, s))
  /\ acc.unattributed = Cardinality(Lost(acc, em, b))

AccExact(acc, D, em, b) ==
  /\ DOMAIN acc = Fields
  /\ acc.count = Cardinality(Of(D, em, b))
  /\ acc.errors = Cardinality(Failed_(em, Of(D, em, b)))
  /\ IsFiniteSet(DOMAIN acc.scopes)
  /\ b # overflow_behavior => ScopesExact(acc, em, b)

\* A limit that was met once is met from then on.
NoRoom(a, acc, em, b) ==
  b # overflow_behavior /\ Lost(acc, em, b) # {} => a.cells >= MAX_SCOPE_CELLS

PastCap(a, behavior) ==
  behavior \notin DOMAIN a.behaviors =>
    /\ overflow_behavior \in DOMAIN a.behaviors
    /\ Cardinality(DOMAIN a.behaviors) >= MAX_BEHAVIORS
    /\ capped(behavior.kind)

AggExact(a, em) ==
  /\ \E n \in Nat : DOMAIN em = 1..n
  /\ IsFiniteSet(DOMAIN a.behaviors)
  /\ a.cells \in Nat
  /\ \A i \in DOMAIN em : em[i].behavior # overflow_behavior /\ PastCap(a, em[i].behavior)
  /\ \A b \in DOMAIN a.behaviors :
       /\ AccExact(a.behaviors[b], DOMAIN a.behaviors, em, b)
       /\ NoRoom(a, a.behaviors[b], em, b)

-----------------------------------------------------------------------------
(* Recording an event keeps them.                                           *)

LEMMA OneMore ==
  ASSUME NEW n \in Nat, NEW S, S \subseteq 1..n
  PROVE  /\ IsFiniteSet(S) /\ Cardinality(S) \in Nat
         /\ Cardinality(S \cup {n + 1}) = Cardinality(S) + 1
<1>1. IsFiniteSet(S)
  <2>1. IsFiniteSet(1..n)
    BY FS_Interval
  <2> QED
    BY <2>1, FS_Subset
<1>2. n + 1 \notin S
  OBVIOUS
<1> QED
  BY <1>1, <1>2, FS_AddElement, FS_CardinalityType

LEMMA AddOne ==
  ASSUME NEW S, IsFiniteSet(S), NEW x
  PROVE  /\ IsFiniteSet(S \cup {x})
         /\ Cardinality(S) \in Nat /\ Cardinality(S \cup {x}) \in Nat
         /\ Cardinality(S \cup {x}) >= Cardinality(S)
<1>1. Cardinality(S) \in Nat
  BY FS_CardinalityType
<1>2. CASE x \in S
  <2>1. S \cup {x} = S
    BY <1>2
  <2> QED
    BY <1>1, <2>1
<1>3. CASE x \notin S
  <2>1. IsFiniteSet(S \cup {x}) /\ Cardinality(S \cup {x}) = Cardinality(S) + 1
    BY <1>3, FS_AddElement
  <2> QED
    BY <1>1, <2>1
<1> QED
  BY <1>2, <1>3

LEMMA Empty == IsFiniteSet({}) /\ Cardinality({}) = 0
BY FS_EmptySet

\* The accumulator an event goes to was exact, be it new.
LEMMA BeforeExact ==
  ASSUME NEW a, NEW em, NEW e, AggExact(a, em), e.behavior # overflow_behavior
  PROVE  LET id == IdOf(a, e)
         IN /\ AccExact(AccFor(a, e), DOMAIN a.behaviors, em, id)
            /\ NoRoom(a, AccFor(a, e), em, id)
            /\ id \notin DOMAIN a.behaviors => \A i \in DOMAIN em : em[i].behavior # id
<1> DEFINE id == IdOf(a, e)
           D  == DOMAIN a.behaviors
<1>1. CASE id \in D
  BY <1>1 DEF AccFor, AccOf, Lookup, AggExact
<1>2. CASE id \notin D
  <2>1. \A i \in DOMAIN em : em[i].behavior # id
    <3>1. CASE id = overflow_behavior
      BY <3>1 DEF AggExact
    <3>2. CASE id # overflow_behavior
      <4>1. id = e.behavior /\ Admitted(a, e.behavior)
        BY <3>2 DEF IdOf
      <4>2. Cardinality(D) \in Nat
        BY FS_CardinalityType DEF AggExact
      <4>3. Cardinality(D) < MAX_BEHAVIORS \/ ~ capped(e.behavior.kind)
        BY <1>2, <4>1 DEF Admitted
      <4> SUFFICES ASSUME NEW i \in DOMAIN em, em[i].behavior = id
                   PROVE  FALSE
        OBVIOUS
      <4>4. Cardinality(D) >= MAX_BEHAVIORS /\ capped(e.behavior.kind)
        BY <1>2, <4>1 DEF AggExact, PastCap
      <4> QED
        BY <4>2, <4>3, <4>4, AggregatorAssumption
    <3> QED
      BY <3>1, <3>2
  <2>2. AccFor(a, e) = NewAccumulator
    BY <1>2 DEF AccFor, AccOf, Lookup
  <2>3. Of(D, em, id) = {}
    <3>1. CASE id = overflow_behavior
      BY <1>2, <3>1 DEF Of, AggExact, PastCap
    <3>2. CASE id # overflow_behavior
      BY <2>1, <3>2 DEF Of
    <3> QED
      BY <3>1, <3>2
  <2>4. /\ DOMAIN NewAccumulator.scopes = {} /\ NewAccumulator.count = 0
        /\ NewAccumulator.errors = 0 /\ NewAccumulator.unattributed = 0
    BY DEF NewAccumulator
  <2>5. Lost(NewAccumulator, em, id) = {}
    BY <2>1 DEF Lost
  <2>6. Failed_(em, {}) = {}
    BY DEF Failed_
  <2>7. AccExact(NewAccumulator, D, em, id)
    BY <2>3, <2>4, <2>5, <2>6, NewFields, Empty DEF AccExact, ScopesExact
  <2>8. NoRoom(a, NewAccumulator, em, id)
    BY <2>5 DEF NoRoom
  <2> QED
    BY <2>1, <2>2, <2>7, <2>8
<1> QED
  BY <1>1, <1>2

\* e is the event that em2 has more than em.
Extends(em, em2, n, e) ==
  /\ DOMAIN em = 1..n /\ DOMAIN em2 = 1..(n + 1)
  /\ \A i \in 1..n : em2[i] = em[i]
  /\ em2[n + 1] = e

\* An event is one more of the behavior it goes to, and of no other.
LEMMA OneMoreOf ==
  ASSUME NEW a, NEW em, NEW em2, NEW n \in Nat, NEW e, Extends(em, em2, n, e),
         AggExact(a, em), e.behavior # overflow_behavior
  PROVE  LET D == DOMAIN a.behaviors  D2 == D \cup {IdOf(a, e)}
         IN /\ Of(D2, em2, IdOf(a, e)) = Of(D, em, IdOf(a, e)) \cup {n + 1}
            /\ \A b \in D \ {IdOf(a, e)} : Of(D2, em2, b) = Of(D, em, b)
<1> DEFINE D  == DOMAIN a.behaviors
           id == IdOf(a, e)
           D2 == D \cup {id}
<1>1. \A i \in 1..n : em[i].behavior # overflow_behavior
  BY DEF AggExact, Extends
<1>2. id \notin D => \A i \in 1..n : em[i].behavior # id
  BY BeforeExact DEF Extends
<1>3. \/ id = e.behavior
      \/ id = overflow_behavior /\ e.behavior \notin D
  BY DEF IdOf, Admitted
<1>4. /\ DOMAIN em = 1..n /\ DOMAIN em2 = 1..(n + 1)
      /\ \A i \in 1..n : em2[i] = em[i]
      /\ em2[n + 1] = e
      /\ 1..(n + 1) = (1..n) \cup {n + 1}
  BY DEF Extends
<1> HIDE DEF D, id
<1>5. Of(D2, em2, id) = Of(D, em, id) \cup {n + 1}
  <2>1. CASE id = overflow_behavior
    BY <1>1, <1>3, <1>4, <2>1 DEF Of
  <2>2. CASE id # overflow_behavior
    BY <1>3, <1>4, <2>2 DEF Of
  <2> QED
    BY <2>1, <2>2
<1>6. ASSUME NEW b \in D \ {id}
      PROVE  Of(D2, em2, b) = Of(D, em, b)
  <2>1. CASE b = overflow_behavior
    BY <1>1, <1>2, <1>3, <1>4, <1>6, <2>1 DEF Of
  <2>2. CASE b # overflow_behavior
    BY <1>3, <1>4, <1>6, <2>2 DEF Of
  <2> QED
    BY <2>1, <2>2
<1> QED
  BY <1>5, <1>6 DEF D, id

\* And of its scope, if it has one.
LEMMA OneMoreScoped ==
  ASSUME NEW em, NEW em2, NEW n \in Nat, NEW e, Extends(em, em2, n, e), NEW b, NEW s
  PROVE  Scoped(em2, b, s) =
           IF e.behavior = b /\ e.scope = s THEN Scoped(em, b, s) \cup {n + 1}
           ELSE Scoped(em, b, s)
<1>1. /\ DOMAIN em = 1..n /\ DOMAIN em2 = 1..(n + 1)
      /\ \A i \in 1..n : em2[i] = em[i]
      /\ em2[n + 1] = e
      /\ 1..(n + 1) = (1..n) \cup {n + 1}
  BY DEF Extends
<1>2. CASE e.behavior = b /\ e.scope = s
  BY <1>1, <1>2 DEF Scoped
<1>3. CASE ~ (e.behavior = b /\ e.scope = s)
  BY <1>1, <1>3 DEF Scoped
<1> QED
  BY <1>2, <1>3

LEMMA OneMoreLost ==
  ASSUME NEW em, NEW em2, NEW n \in Nat, NEW e, Extends(em, em2, n, e), NEW b, NEW acc
  PROVE  Lost(acc, em2, b) =
           IF e.behavior = b /\ e.scope \notin DOMAIN acc.scopes \cup {NoScope}
           THEN Lost(acc, em, b) \cup {n + 1}
           ELSE Lost(acc, em, b)
<1>1. /\ DOMAIN em = 1..n /\ DOMAIN em2 = 1..(n + 1)
      /\ \A i \in 1..n : em2[i] = em[i]
      /\ em2[n + 1] = e
      /\ 1..(n + 1) = (1..n) \cup {n + 1}
  BY DEF Extends
<1>2. CASE e.behavior = b /\ e.scope \notin DOMAIN acc.scopes \cup {NoScope}
  BY <1>1, <1>2 DEF Lost
<1>3. CASE ~ (e.behavior = b /\ e.scope \notin DOMAIN acc.scopes \cup {NoScope})
  BY <1>1, <1>3 DEF Lost
<1> QED
  BY <1>2, <1>3

\* The scopes of the accumulator it goes to stay exact, and there is as much room.
LEMMA ScopesStayExact ==
  ASSUME NEW a, NEW em, NEW em2, NEW n \in Nat, NEW e, Extends(em, em2, n, e),
         a.cells \in Nat, Admitted(a, e.behavior), NEW acc, NEW final,
         IsFiniteSet(DOMAIN acc.scopes), ScopesExact(acc, em, e.behavior),
         Lost(acc, em, e.behavior) # {} => a.cells >= MAX_SCOPE_CELLS,
         ScopesAfter(a, e, acc, final)
  PROVE  /\ ScopesExact(final, em2, e.behavior)
         /\ Lost(final, em2, e.behavior) # {} => a.cells >= MAX_SCOPE_CELLS
<1>b. PICK b : b = e.behavior
  OBVIOUS
<1>0. \A s : Scoped(em, b, s) \subseteq 1..n
  BY DEF Scoped, Extends
<1>1. Lost(acc, em, b) \subseteq 1..n
  BY DEF Lost, Extends
<1>s. ASSUME NEW s
      PROVE  Scoped(em2, b, s) =
               IF e.behavior = b /\ e.scope = s THEN Scoped(em, b, s) \cup {n + 1}
               ELSE Scoped(em, b, s)
  BY OneMoreScoped
<1>l. Lost(acc, em2, b) =
        IF e.behavior = b /\ e.scope \notin DOMAIN acc.scopes \cup {NoScope}
        THEN Lost(acc, em, b) \cup {n + 1}
        ELSE Lost(acc, em, b)
  BY OneMoreLost
<1>f. Lost(final, em2, b) =
        IF e.behavior = b /\ e.scope \notin DOMAIN final.scopes \cup {NoScope}
        THEN Lost(final, em, b) \cup {n + 1}
        ELSE Lost(final, em, b)
  BY OneMoreLost
<1>2. CASE e.scope = NoScope
  <2>1. final.scopes = acc.scopes /\ final.unattributed = acc.unattributed
    BY <1>2 DEF ScopesAfter
  <2>2. \A s \in DOMAIN acc.scopes : Scoped(em2, b, s) = Scoped(em, b, s)
    BY <1>b, <1>2, <1>s DEF ScopesExact
  <2>3. Lost(acc, em2, b) = Lost(acc, em, b)
    BY <1>2, <1>l
  <2>4. Lost(final, em2, b) = Lost(acc, em2, b)
    BY <2>1 DEF Lost
  <2> QED
    BY <1>b, <2>1, <2>2, <2>3, <2>4 DEF ScopesExact
<1>3. CASE e.scope # NoScope /\ Attributed(a, acc, e.scope)
  <2> DEFINE cell == RecordCell(Lookup(acc.scopes, e.scope, NewCell), e.measures)
  <2>1. /\ final.scopes = Put(acc.scopes, e.scope, cell)
        /\ final.unattributed = acc.unattributed
    BY <1>3 DEF ScopesAfter
  <2>2. cell.count = Lookup(acc.scopes, e.scope, NewCell).count + 1
    BY Zenon DEF RecordCell
  <2> HIDE DEF cell
  <2>3. /\ DOMAIN final.scopes = DOMAIN acc.scopes \cup {e.scope}
        /\ final.scopes[e.scope] = cell
        /\ \A s \in DOMAIN acc.scopes \ {e.scope} : final.scopes[s] = acc.scopes[s]
    BY <2>1 DEF Put
  <2>4. CASE e.scope \in DOMAIN acc.scopes
    <3>1. Lost(final, em2, b) = Lost(acc, em2, b)
      BY <2>3, <2>4 DEF Lost
    <3>2. Lost(acc, em2, b) = Lost(acc, em, b)
      BY <2>4, <1>l
    <3>3. cell.count = acc.scopes[e.scope].count + 1
      BY <2>2, <2>4 DEF Lookup
    <3>4. Scoped(em2, b, e.scope) = Scoped(em, b, e.scope) \cup {n + 1}
      BY <1>b, <1>s
    <3>5. cell.count = Cardinality(Scoped(em2, b, e.scope))
      <4>1. PICK S : S = Scoped(em, b, e.scope)
        OBVIOUS
      <4>2. S \subseteq 1..n
        BY <1>0, <4>1
      <4>3. Cardinality(S \cup {n + 1}) = Cardinality(S) + 1
        BY <4>2, OneMore
      <4>4. cell.count = Cardinality(S) + 1
        BY <1>b, <2>4, <3>3, <4>1 DEF ScopesExact
      <4> QED
        BY <3>4, <4>1, <4>3, <4>4
    <3>6. \A s \in DOMAIN acc.scopes \ {e.scope} : Scoped(em2, b, s) = Scoped(em, b, s)
      BY <1>s
    <3> QED
      BY <1>b, <2>1, <2>3, <2>4, <3>1, <3>2, <3>5, <3>6 DEF ScopesExact
  <2>5. CASE e.scope \notin DOMAIN acc.scopes
    <3>1. Lost(acc, em, b) = {}
      BY <1>b, <1>3, <2>5, AggregatorAssumption DEF Attributed
    <3>2. \A i \in DOMAIN em : em[i].behavior = b => em[i].scope \in DOMAIN acc.scopes \cup {NoScope}
      BY <3>1 DEF Lost
    <3>3. /\ Lost(final, em, b) = {}
          /\ Scoped(em, b, e.scope) = {}
      BY <1>3, <2>3, <2>5, <3>2 DEF Lost, Scoped
    <3>4. Lost(final, em2, b) = {}
      BY <2>3, <3>3, <1>f
    <3>5. cell.count = 1
      BY <2>2, <2>5 DEF Lookup, NewCell
    <3>6. Scoped(em2, b, e.scope) = {} \cup {n + 1}
      BY <1>b, <3>3, <1>s
    <3>7. cell.count = Cardinality(Scoped(em2, b, e.scope))
      <4>1. {} \subseteq 1..n
        OBVIOUS
      <4>2. Cardinality({} \cup {n + 1}) = Cardinality({}) + 1
        BY <4>1, OneMore
      <4>3. Cardinality({} \cup {n + 1}) = 1
        BY <4>2, Empty
      <4> QED
        BY <3>5, <3>6, <4>3
    <3>8. \A s \in DOMAIN acc.scopes : Scoped(em2, b, s) = Scoped(em, b, s)
      BY <2>5, <1>s
    <3> QED
      BY <1>b, <1>3, <2>1, <2>3, <2>5, <3>1, <3>4, <3>7, <3>8 DEF ScopesExact
  <2> QED
    BY <2>4, <2>5
<1>4. CASE e.scope # NoScope /\ ~ Attributed(a, acc, e.scope)
  <2>1. final.scopes = acc.scopes /\ final.unattributed = acc.unattributed + 1
    BY <1>4 DEF ScopesAfter
  <2>2. e.scope \notin DOMAIN acc.scopes /\ a.cells >= MAX_SCOPE_CELLS
    BY <1>4, AggregatorAssumption DEF Attributed
  <2>3. \A s \in DOMAIN acc.scopes : Scoped(em2, b, s) = Scoped(em, b, s)
    BY <2>2, <1>s
  <2>4. Lost(acc, em2, b) = Lost(acc, em, b) \cup {n + 1}
    BY <1>b, <1>4, <2>2, <1>l
  <2>5. Lost(final, em2, b) = Lost(acc, em2, b)
    BY <2>1 DEF Lost
  <2>6. Cardinality(Lost(acc, em2, b)) = acc.unattributed + 1
    BY <1>b, <1>1, <2>4, OneMore DEF ScopesExact
  <2> QED
    BY <1>b, <2>1, <2>2, <2>3, <2>5, <2>6 DEF ScopesExact
<1> QED
  BY <1>2, <1>3, <1>4

\* The cells are counted.
LEMMA CellsGrow ==
  ASSUME NEW a, NEW e, a.cells \in Nat, NEW acc, NEW final,
         IsFiniteSet(DOMAIN acc.scopes), ScopesAfter(a, e, acc, final)
  PROVE  /\ IsFiniteSet(DOMAIN final.scopes)
         /\ a.cells + Cardinality(DOMAIN final.scopes) - Cardinality(DOMAIN acc.scopes) \in Nat
         /\ a.cells + Cardinality(DOMAIN final.scopes) - Cardinality(DOMAIN acc.scopes) >= a.cells
<1>1. PICK D : D = DOMAIN acc.scopes
  OBVIOUS
<1>2. PICK D2 : D2 = DOMAIN final.scopes
  OBVIOUS
<1>3. Cardinality(D) \in Nat
  BY <1>1, FS_CardinalityType
<1>4. D2 = D \/ D2 = D \cup {e.scope}
  BY <1>1, <1>2 DEF ScopesAfter, Put
<1>5. IsFiniteSet(D2) /\ Cardinality(D2) \in Nat /\ Cardinality(D2) >= Cardinality(D)
  <2>1. CASE D2 = D
    BY <1>1, <1>3, <2>1
  <2>2. CASE D2 = D \cup {e.scope}
    BY <1>1, <2>2, AddOne
  <2> QED
    BY <1>4, <2>1, <2>2
<1> QED
  BY <1>1, <1>2, <1>3, <1>5

LEMMA RecordKeepsExact ==
  ASSUME NEW a, NEW em, NEW em2, NEW n \in Nat, NEW e, Extends(em, em2, n, e),
         AggExact(a, em), e.behavior # overflow_behavior
  PROVE  AggExact(Record(a, e), em2)
<1>1. PICK id, acc, final, D, D2, a2 :
        /\ id = IdOf(a, e) /\ acc = AccFor(a, e) /\ final = FinalOf(a, e)
        /\ D = DOMAIN a.behaviors /\ D2 = D \cup {id} /\ a2 = Record(a, e)
  OBVIOUS
<1>2. AccExact(acc, D, em, id) /\ NoRoom(a, acc, em, id)
  BY <1>1, BeforeExact
<1>3. /\ DOMAIN a2.behaviors = D2 /\ \A b \in D \ {id} : a2.behaviors[b] = a.behaviors[b]
      /\ a2.behaviors[id] = final /\ DOMAIN final = Fields
      /\ final.count = acc.count + 1
      /\ final.errors = acc.errors + IF e.failure THEN 1 ELSE 0
      /\ ScopesAfter(a, e, acc, final)
      /\ a2.cells = a.cells + Cardinality(DOMAIN final.scopes) - Cardinality(DOMAIN acc.scopes)
  BY <1>1, <1>2, RecordsCounts DEF FinalOf, AccExact
<1>4. a.cells \in Nat /\ IsFiniteSet(D) /\ IsFiniteSet(DOMAIN acc.scopes)
  BY <1>1, <1>2 DEF AggExact, AccExact
<1>5. IsFiniteSet(DOMAIN final.scopes) /\ a2.cells \in Nat /\ a2.cells >= a.cells
  BY <1>3, <1>4, CellsGrow
<1>6. /\ IsFiniteSet(D2) /\ Cardinality(D) \in Nat
      /\ Cardinality(D2) \in Nat /\ Cardinality(D2) >= Cardinality(D)
  BY <1>1, <1>4, AddOne
<1>7. /\ Of(D2, em2, id) = Of(D, em, id) \cup {n + 1}
      /\ \A b \in D \ {id} : Of(D2, em2, b) = Of(D, em, b)
  <2>1. /\ Of(DOMAIN a.behaviors \cup {IdOf(a, e)}, em2, IdOf(a, e))
             = Of(DOMAIN a.behaviors, em, IdOf(a, e)) \cup {n + 1}
        /\ \A b \in DOMAIN a.behaviors \ {IdOf(a, e)} :
             Of(DOMAIN a.behaviors \cup {IdOf(a, e)}, em2, b) = Of(DOMAIN a.behaviors, em, b)
    BY OneMoreOf
  <2> QED
    BY <1>1, <2>1
<1>8. \A b : Of(D, em, b) \subseteq 1..n
  BY DEF Of, Extends
<1>9. id = overflow_behavior \/ (id = e.behavior /\ Admitted(a, e.behavior))
  BY <1>1 DEF IdOf
<1>10. ASSUME NEW i \in DOMAIN em2
       PROVE  em2[i].behavior # overflow_behavior /\ PastCap(a2, em2[i].behavior)
  <2>1. PICK m : m = em2[i].behavior
    OBVIOUS
  <2>2. CASE i \in 1..n
    <3>1. m # overflow_behavior /\ PastCap(a, m)
      BY <2>1, <2>2 DEF Extends, AggExact
    <3>2. PastCap(a2, m)
      BY <1>1, <1>3, <1>6, <3>1, AggregatorAssumption DEF PastCap
    <3> QED
      BY <2>1, <3>1, <3>2
  <2>3. CASE i = n + 1
    <3>1. m = e.behavior
      BY <2>1, <2>3 DEF Extends
    <3>2. CASE Admitted(a, m)
      BY <1>1, <1>3, <2>1, <3>1, <3>2 DEF IdOf, PastCap
    <3>3. CASE ~ Admitted(a, m)
      <4>1. id = overflow_behavior
        BY <1>1, <3>1, <3>3 DEF IdOf
      <4>2. Cardinality(D) >= MAX_BEHAVIORS /\ capped(m.kind)
        BY <1>1, <1>6, <3>3, AggregatorAssumption DEF Admitted
      <4> QED
        BY <1>1, <1>3, <1>6, <2>1, <3>1, <4>1, <4>2, AggregatorAssumption DEF PastCap
    <3> QED
      BY <3>2, <3>3
  <2> QED
    BY <2>2, <2>3 DEF Extends
<1>11. AccExact(final, D2, em2, id) /\ NoRoom(a2, final, em2, id)
  <2>1. PICK S : S = Of(D, em, id)
    OBVIOUS
  <2>2. /\ S \subseteq 1..n /\ Of(D2, em2, id) = S \cup {n + 1}
        /\ acc.count = Cardinality(S) /\ acc.errors = Cardinality(Failed_(em, S))
    BY <1>2, <1>7, <1>8, <2>1 DEF AccExact
  <2>3. final.count = Cardinality(S \cup {n + 1})
    BY <1>3, <2>2, OneMore
  <2>4. final.errors = Cardinality(Failed_(em2, S \cup {n + 1}))
    <3>1. PICK F : F = Failed_(em, S)
      OBVIOUS
    <3>2. F \subseteq 1..n
      BY <2>2, <3>1 DEF Failed_
    <3>3. Cardinality(F \cup {n + 1}) = Cardinality(F) + 1 /\ Cardinality(F) \in Nat
      BY <3>2, OneMore
    <3>4. (\A i \in S : em2[i] = em[i]) /\ em2[n + 1] = e
      BY <2>2 DEF Extends
    <3>5. CASE e.failure
      <4>1. Failed_(em2, S \cup {n + 1}) = F \cup {n + 1}
        BY <3>1, <3>4, <3>5 DEF Failed_
      <4>2. final.errors = acc.errors + 1
        BY <1>3, <3>5
      <4> QED
        BY <2>2, <3>1, <3>3, <4>1, <4>2
    <3>6. CASE ~ e.failure
      <4>1. Failed_(em2, S \cup {n + 1}) = F
        BY <3>1, <3>4, <3>6 DEF Failed_
      <4>2. final.errors = acc.errors + 0
        BY <1>3, <3>6
      <4> QED
        BY <2>2, <3>1, <3>3, <4>1, <4>2
    <3> QED
      BY <3>5, <3>6
  <2>5. CASE id = overflow_behavior
    BY <1>3, <1>5, <2>2, <2>3, <2>4, <2>5 DEF AccExact, NoRoom
  <2>6. CASE id # overflow_behavior
    <3>1. id = e.behavior /\ Admitted(a, e.behavior)
      BY <1>9, <2>6
    <3>2. /\ ScopesExact(acc, em, e.behavior)
          /\ Lost(acc, em, e.behavior) # {} => a.cells >= MAX_SCOPE_CELLS
      BY <1>2, <2>6, <3>1 DEF AccExact, NoRoom
    <3>3. /\ ScopesExact(final, em2, e.behavior)
          /\ Lost(final, em2, e.behavior) # {} => a.cells >= MAX_SCOPE_CELLS
      <4>1. ScopesAfter(a, e, acc, final)
        BY <1>3
      <4> QED
        BY <1>4, <3>1, <3>2, <4>1, ScopesStayExact
    <3>4. Lost(final, em2, id) # {} => a2.cells >= MAX_SCOPE_CELLS
      BY <1>4, <1>5, <3>1, <3>3, AggregatorAssumption
    <3> QED
      BY <1>3, <1>5, <2>2, <2>3, <2>4, <3>1, <3>3, <3>4 DEF AccExact, NoRoom
  <2> QED
    BY <2>5, <2>6
<1>12. ASSUME NEW b \in D \ {id}
       PROVE  AccExact(a.behaviors[b], D2, em2, b) /\ NoRoom(a2, a.behaviors[b], em2, b)
  <2>1. PICK x : x = a.behaviors[b]
    OBVIOUS
  <2>2. AccExact(x, D, em, b) /\ NoRoom(a, x, em, b)
    BY <1>1, <2>1 DEF AggExact
  <2>3. PICK S : S = Of(D, em, b)
    OBVIOUS
  <2>4. S \subseteq 1..n /\ Of(D2, em2, b) = S
    BY <1>7, <1>8, <2>3
  <2>a. Failed_(em2, S) = Failed_(em, S)
    BY <2>4 DEF Failed_, Extends
  <2>5. /\ DOMAIN x = Fields /\ x.count = Cardinality(Of(D2, em2, b))
        /\ x.errors = Cardinality(Failed_(em2, Of(D2, em2, b)))
        /\ IsFiniteSet(DOMAIN x.scopes)
    BY <2>2, <2>3, <2>4, <2>a DEF AccExact
  <2>6. ASSUME b # overflow_behavior
        PROVE  ScopesExact(x, em2, b) /\ NoRoom(a2, x, em2, b)
    <3>1. e.behavior # b
      BY <1>1, <2>6 DEF IdOf, Admitted
    <3>2. ASSUME NEW s
          PROVE  Scoped(em2, b, s) = Scoped(em, b, s)
      BY <3>1, OneMoreScoped
    <3>3. Lost(x, em2, b) = Lost(x, em, b)
      BY <3>1, OneMoreLost
    <3>4. ScopesExact(x, em, b)
      BY <2>2, <2>6 DEF AccExact
    <3>5. ScopesExact(x, em2, b)
      BY <3>2, <3>3, <3>4 DEF ScopesExact
    <3>6. NoRoom(a2, x, em2, b)
      BY <1>4, <1>5, <2>2, <3>3, AggregatorAssumption DEF NoRoom
    <3> QED
      BY <3>5, <3>6
  <2> QED
    BY <2>1, <2>5, <2>6 DEF AccExact, NoRoom
<1>13. \E m \in Nat : DOMAIN em2 = 1..m
  BY DEF Extends
<1>14. \A b \in D2 : AccExact(a2.behaviors[b], D2, em2, b) /\ NoRoom(a2, a2.behaviors[b], em2, b)
  BY <1>1, <1>3, <1>11, <1>12
<1> QED
  BY <1>1, <1>3, <1>5, <1>6, <1>10, <1>13, <1>14 DEF AggExact

-----------------------------------------------------------------------------
(* What an observation makes of an aggregate, an event at a time.           *)

RecordAll(a, events) == FoldLeft(Record, a, events)

\* What the fold over a sequence is by definition, one function of its steps.
FoldEq(f, base, seq) ==
  f = [s \in SUBSET DOMAIN seq |->
         IF s = {} THEN base ELSE Record(f[s \ {Max(s)}], seq[Max(s)])]

LEMMA FoldIs ==
  ASSUME NEW base, NEW seq, \E f : FoldEq(f, base, seq)
  PROVE  \E f : FoldEq(f, base, seq) /\ RecordAll(base, seq) = f[DOMAIN seq]
<1> DEFINE fold == CHOOSE f : FoldEq(f, base, seq)
<1>1. RecordAll(base, seq) = fold[DOMAIN seq]
  BY Zenon DEF RecordAll, FoldLeft, MapThenFoldSet, FoldEq
<1>2. FoldEq(fold, base, seq)
  BY Zenon
<1> QED
  BY <1>1, <1>2

LEMMA Largest ==
  Max({1}) = 1 /\ Max({2}) = 2 /\ Max({1, 2}) = 2
<1>1. Max({1}) \in {1} /\ Max({2}) \in {2}
  BY DEF Max
<1>2. Max({1, 2}) \in {1, 2} /\ \A y \in {1, 2} : Max({1, 2}) >= y
  <2>1. 2 \in {1, 2} /\ \A y \in {1, 2} : 2 >= y
    OBVIOUS
  <2> QED
    BY <2>1, Zenon DEF Max
<1> QED
  BY <1>1, <1>2

LEMMA FoldTwo ==
  ASSUME NEW a, NEW e1, NEW e2
  PROVE  RecordAll(a, <<e1, e2>>) = Record(Record(a, e1), e2)
<1>1. PICK seq : seq = <<e1, e2>>
  OBVIOUS
<1>2. DOMAIN seq = {1, 2} /\ seq[1] = e1 /\ seq[2] = e2
  BY <1>1
<1>a. SUBSET {1, 2} = {{}, {1}, {2}, {1, 2}}
  OBVIOUS
<1>3. PICK g : g = [s \in {{}, {1}, {2}, {1, 2}} |->
                      CASE s = {} -> a
                        [] s = {1} -> Record(a, e1)
                        [] s = {2} -> Record(a, e2)
                        [] s = {1, 2} -> Record(Record(a, e1), e2)]
  OBVIOUS
<1>b. {} # {1} /\ {} # {2} /\ {} # {1, 2} /\ {1} # {2} /\ {1} # {1, 2} /\ {2} # {1, 2}
  OBVIOUS
<1>4. /\ DOMAIN g = {{}, {1}, {2}, {1, 2}} /\ g[{}] = a /\ g[{1}] = Record(a, e1)
      /\ g[{2}] = Record(a, e2) /\ g[{1, 2}] = Record(Record(a, e1), e2)
  BY <1>3, <1>b
<1>c. /\ {1} \ {Max({1})} = {} /\ {2} \ {Max({2})} = {} /\ {1, 2} \ {Max({1, 2})} = {1}
  BY Largest
<1>5. FoldEq(g, a, seq)
  <2>1. \A s \in {{}, {1}, {2}, {1, 2}} :
          g[s] = IF s = {} THEN a ELSE Record(g[s \ {Max(s)}], seq[Max(s)])
    <3>1. g[{1}] = Record(g[{1} \ {Max({1})}], seq[Max({1})])
      BY <1>2, <1>4, <1>c, Largest
    <3>2. g[{2}] = Record(g[{2} \ {Max({2})}], seq[Max({2})])
      BY <1>2, <1>4, <1>c, Largest
    <3>3. g[{1, 2}] = Record(g[{1, 2} \ {Max({1, 2})}], seq[Max({1, 2})])
      BY <1>2, <1>4, <1>c, Largest
    <3> QED
      BY <1>4, <1>b, <3>1, <3>2, <3>3
  <2>2. g = [s \in {{}, {1}, {2}, {1, 2}} |-> g[s]]
    BY <1>3
  <2> QED
    BY <1>2, <1>a, <2>1, <2>2 DEF FoldEq
<1>6. PICK f : FoldEq(f, a, seq) /\ RecordAll(a, seq) = f[DOMAIN seq]
  BY <1>5, FoldIs
<1>7. f[{}] = a
  BY <1>2, <1>6 DEF FoldEq
<1>8. f[{1}] = Record(f[{1} \ {Max({1})}], seq[Max({1})])
  BY <1>2, <1>6 DEF FoldEq
<1>9. f[{1, 2}] = Record(f[{1, 2} \ {Max({1, 2})}], seq[Max({1, 2})])
  BY <1>2, <1>6 DEF FoldEq
<1>10. f[{1}] = Record(a, e1)
  BY <1>2, <1>7, <1>8, <1>c, Largest
<1>11. f[{1, 2}] = Record(Record(a, e1), e2)
  BY <1>2, <1>9, <1>10, <1>c, Largest
<1> QED
  BY <1>1, <1>2, <1>6, <1>11

LEMMA Folds ==
  ASSUME NEW a, NEW e1
  PROVE  /\ RecordAll(a, <<>>) = a
         /\ RecordAll(a, <<e1>>) = Record(a, e1)
<1>1. RecordAll(a, <<>>) = a
  <2>1. DOMAIN <<>> = {} /\ SUBSET {} = {{}}
    OBVIOUS
  <2>2. FoldEq([s \in {{}} |-> a], a, <<>>)
    BY <2>1 DEF FoldEq
  <2>3. PICK f : FoldEq(f, a, <<>>) /\ RecordAll(a, <<>>) = f[DOMAIN <<>>]
    BY <2>2, FoldIs
  <2>4. f[{}] = a
    BY <2>1, <2>3 DEF FoldEq
  <2> QED
    BY <2>1, <2>3, <2>4
<1>2. RecordAll(a, <<e1>>) = Record(a, e1)
  <2>1. PICK seq : seq = <<e1>>
    OBVIOUS
  <2>2. DOMAIN seq = {1} /\ seq[1] = e1 /\ SUBSET {1} = {{}, {1}}
    BY <2>1
  <2>3. PICK g : g = [s \in {{}, {1}} |-> IF s = {} THEN a ELSE Record(a, e1)]
    OBVIOUS
  <2>4. /\ DOMAIN g = {{}, {1}} /\ g[{}] = a /\ g[{1}] = Record(a, e1)
    BY <2>3
  <2>5. FoldEq(g, a, seq)
    <3>1. \A s \in {{}, {1}} : g[s] = IF s = {} THEN a ELSE Record(g[s \ {Max(s)}], seq[Max(s)])
      <4>1. {1} \ {Max({1})} = {}
        BY Largest
      <4>2. g[{1}] = Record(g[{1} \ {Max({1})}], seq[Max({1})])
        BY <2>2, <2>4, <4>1, Largest
      <4> QED
        BY <2>4, <4>2
    <3> QED
      BY <2>2, <2>3, <3>1 DEF FoldEq
  <2>6. PICK f : FoldEq(f, a, seq) /\ RecordAll(a, seq) = f[DOMAIN seq]
    BY <2>5, FoldIs
  <2>7. f[{}] = a
    BY <2>2, <2>6 DEF FoldEq
  <2>8. f[{1}] = Record(f[{1} \ {Max({1})}], seq[Max({1})])
    BY <2>2, <2>6 DEF FoldEq
  <2>9. {1} \ {Max({1})} = {}
    BY Largest
  <2>10. f[{1}] = Record(a, e1)
    BY <2>2, <2>7, <2>8, <2>9, Largest
  <2> QED
    BY <2>1, <2>2, <2>6, <2>10
<1> QED
  BY <1>1, <1>2

IsSeq(s) == s \in Seq(Range(s))

\* One sequence after another.
Joins(s, t, u) ==
  /\ IsSeq(u) /\ DOMAIN u = 1..(Len(s) + Len(t))
  /\ \A i \in 1..Len(s) : u[i] = s[i]
  /\ \A i \in 1..Len(t) : u[Len(s) + i] = t[i]

LEMMA SeqOfItsRange ==
  ASSUME NEW S, NEW u \in Seq(S)
  PROVE  IsSeq(u)
<1>1. PICK R, k : R = Range(u) /\ k = Len(u)
  OBVIOUS
<1>2. k \in Nat /\ u \in [1..k -> S]
  BY <1>1, LenProperties
<1>3. \A i \in 1..k : u[i] \in R
  BY <1>1, <1>2 DEF Range
<1>4. u \in [1..k -> R]
  BY <1>2, <1>3
<1>5. u \in Seq(R)
  BY <1>2, <1>4, SeqDef
<1> QED
  BY <1>1, <1>5 DEF IsSeq

LEMMA Joined ==
  ASSUME NEW s, IsSeq(s), NEW t, IsSeq(t)
  PROVE  Joins(s, t, s \o t)
<1>1. PICK S : S = Range(s) \cup Range(t)
  OBVIOUS
<1>2. s \in Seq(S) /\ t \in Seq(S)
  BY <1>1, SeqMonotonic DEF IsSeq
<1>3. PICK u : u = s \o t
  OBVIOUS
<1>4. /\ u \in Seq(S) /\ Len(u) = Len(s) + Len(t)
      /\ \A i \in 1..Len(s) + Len(t) : u[i] = IF i <= Len(s) THEN s[i] ELSE t[i - Len(s)]
  BY <1>2, <1>3, ConcatProperties
<1>5. Len(s) \in Nat /\ Len(t) \in Nat /\ DOMAIN s = 1..Len(s) /\ DOMAIN u = 1..Len(u)
  BY <1>2, <1>4, LenProperties
<1>6. IsSeq(u)
  BY <1>4, SeqOfItsRange
<1>7. \A i \in 1..Len(s) : u[i] = s[i]
  BY <1>4, <1>5
<1>8. ASSUME NEW i \in 1..Len(t)
      PROVE  u[Len(s) + i] = t[i]
  <2>1. PICK j : j = Len(s) + i
    OBVIOUS
  <2>2. j \in 1..Len(s) + Len(t) /\ ~ (j <= Len(s)) /\ j - Len(s) = i
    BY <1>5, <2>1
  <2> QED
    BY <1>4, <2>1, <2>2
<1>9. Joins(s, t, u)
  BY <1>4, <1>5, <1>6, <1>7, <1>8 DEF Joins
<1> QED
  BY <1>3, <1>9

LEMMA Single ==
  ASSUME NEW e1, NEW e2
  PROVE  /\ IsSeq(<<>>) /\ IsSeq(<<e1>>) /\ IsSeq(<<e1, e2>>)
         /\ Len(<<>>) = 0 /\ Len(<<e1>>) = 1 /\ Len(<<e1, e2>>) = 2
         /\ <<e1>>[1] = e1 /\ <<e1, e2>>[1] = e1 /\ <<e1, e2>>[2] = e2
         /\ <<e1>> \o <<>> = <<e1>> /\ <<e1>> \o <<e2>> = <<e1, e2>>
<1>1. PICK S : S = {e1, e2}
  OBVIOUS
<1>2. PICK s, t : s = <<e1>> /\ t = <<e1, e2>>
  OBVIOUS
<1>3. /\ DOMAIN s = {1} /\ Len(s) = 1 /\ s[1] = e1 /\ s \in Seq({e1})
      /\ DOMAIN t = {1, 2} /\ Len(t) = 2 /\ t[1] = e1 /\ t[2] = e2 /\ t \in Seq({e1, e2})
  BY <1>2
<1>4. Range(s) = {e1} /\ Range(t) = {e1, e2}
  BY <1>3 DEF Range
<1>5. IsSeq(s) /\ IsSeq(t)
  BY <1>3, <1>4 DEF IsSeq
<1>6. IsSeq(<<>>) /\ Len(<<>>) = 0
  BY EmptySeq DEF IsSeq
<1>7. s \o <<>> = s
  BY <1>3, ConcatEmptySeq
<1>8. s \o <<e2>> = t
  <2>1. s \in Seq(S) /\ t \in Seq(S) /\ <<e2>> \in Seq(S) /\ Len(<<e2>>) = 1 /\ <<e2>>[1] = e2
    BY <1>1, <1>2
  <2>2. PICK r, u : r = <<e2>> /\ u = s \o r
    OBVIOUS
  <2>3. /\ u \in Seq(S) /\ Len(u) = Len(s) + Len(r)
        /\ \A i \in 1..Len(s) + Len(r) : u[i] = IF i <= Len(s) THEN s[i] ELSE r[i - Len(s)]
    BY <2>1, <2>2, ConcatProperties
  <2>4. Len(u) = 2 /\ u[1] = e1 /\ u[2] = e2
    BY <1>3, <2>1, <2>2, <2>3
  <2>5. u = t
    BY <1>3, <2>1, <2>3, <2>4, SeqEqual
  <2> QED
    BY <2>2, <2>5
<1> QED
  BY <1>2, <1>3, <1>5, <1>6, <1>7, <1>8

\* An event of a line, which no line gives the overflow's behavior.
Real(e, obs) ==
  /\ e.behavior # overflow_behavior
  /\ e.source = [stream |-> obs.stream, seq |-> obs.seq]

Few(events, obs) ==
  \/ events = <<>>
  \/ \E e : Real(e, obs) /\ events = <<e>>
  \/ \E e1, e2 :
       /\ Real(e1, obs) /\ Real(e2, obs) /\ events = <<e1, e2>>
       /\ e1.behavior.kind = "test.example" /\ e2.behavior.kind = "exception"

LEMMA RealEvent ==
  ASSUME NEW obs, NEW kind, NEW template, NEW failure, NEW scope, NEW measures,
         kind # "log" \/ Len(template) = 2
  PROVE  Real(Event(obs, Behavior(kind, template), failure, scope, measures), obs)
<1>1. /\ Event(obs, Behavior(kind, template), failure, scope, measures).behavior
             = [kind |-> kind, template |-> template]
      /\ Event(obs, Behavior(kind, template), failure, scope, measures).source
             = [stream |-> obs.stream, seq |-> obs.seq]
  BY DEF Event, Behavior
<1>2. overflow_behavior.kind = "log" /\ overflow_behavior.template = OVERFLOW_TEMPLATE
  BY DEF overflow_behavior
<1> QED
  BY <1>1, <1>2, SuiteAssumption DEF Real

LEMMA RealLog ==
  ASSUME NEW obs, NEW scope
  PROVE  Real(log(obs, scope), obs)
<1>1. Len(<<obs.line.is, obs.line.text>>) = 2
  OBVIOUS
<1> QED
  BY <1>1, RealEvent DEF log

\* A line makes at most two events: an example, and what it raised.
LEMMA FewEvents ==
  ASSUME NEW ch, NEW obs
  PROVE  Few(EventsOf(ch, obs), obs)
<1>1. Few(<<log(obs, NoScope)>>, obs)
  BY RealLog DEF Few
<1>2. Few(GenericEvents(obs), obs)
  BY <1>1 DEF GenericEvents, Few
<1>3. Few(ResultEvents(obs), obs)
  <2>1. PICK e1, e2 :
          /\ e1 = Event(obs, Behavior("test.example", <<obs.line.name>>),
                        obs.line.status = "failed", NoScope, <<>>)
          /\ e2 = Event(obs, Behavior("test.summary", <<"cargo test">>),
                        obs.line.status = "failed", NoScope, CargoSummary(obs.line.counts))
    OBVIOUS
  <2>2. Real(e1, obs) /\ Real(e2, obs)
    BY <2>1, RealEvent
  <2>3. ResultEvents(obs) = <<e1>> \/ ResultEvents(obs) = <<e2>>
    BY <2>1 DEF ResultEvents
  <2> QED
    BY <2>2, <2>3 DEF Few
<1>4. Few(RspecEvents(ch.start, obs), obs)
  <2>1. Few(ExampleEvents(obs), obs)
    <3>1. PICK id : id = Identity(obs.line)
      OBVIOUS
    <3>2. PICK e1, e2 :
            /\ e1 = Event(obs, id, obs.line.status = "failed", NoScope, <<>>)
            /\ e2 = Event(obs, Behavior("exception", <<obs.line.exception>>), TRUE, id, <<>>)
      OBVIOUS
    <3>3. Real(e1, obs) /\ Real(e2, obs)
      BY <3>1, <3>2, RealEvent DEF Identity
    <3>a. e1.behavior.kind = "test.example" /\ e2.behavior.kind = "exception"
      BY <3>1, <3>2 DEF Event, Behavior, Identity
    <3>4. ExampleEvents(obs) = <<e1>> \o IF obs.line.exception = NoExample THEN <<>> ELSE <<e2>>
      BY <3>1, <3>2 DEF ExampleEvents
    <3>5. <<e1>> \o <<>> = <<e1>> /\ <<e1>> \o <<e2>> = <<e1, e2>>
      BY Single
    <3> QED
      BY <3>3, <3>4, <3>5, <3>a DEF Few
  <2>2. Few(<<SummaryEvent(obs, ch.start)>>, obs)
    <3>1. PICK e : e = SummaryEvent(obs, ch.start)
      OBVIOUS
    <3>2. Real(e, obs)
      BY <3>1, RealEvent DEF SummaryEvent
    <3> QED
      BY <3>1, <3>2 DEF Few
  <2>3. Few(<<OutsideEvent(obs)>>, obs)
    <3>1. PICK e : e = OutsideEvent(obs)
      OBVIOUS
    <3>2. Real(e, obs)
      BY <3>1, RealEvent DEF OutsideEvent
    <3> QED
      BY <3>1, <3>2 DEF Few
  <2>4. Few(<<>>, obs)
    BY DEF Few
  <2> QED
    BY <1>1, <2>1, <2>2, <2>3, <2>4 DEF RspecEvents
<1>5. ASSUME NEW scope
      PROVE  Few(RailsEvents(ch.request, obs, scope), obs)
  <2>1. PICK at : at = LineScope(ch.request, scope)
    OBVIOUS
  <2>2. Few(<<log(obs, at)>>, obs)
    BY RealLog DEF Few
  <2>3. Few(<<CompletedEvent(obs, ch.request)>>, obs)
    <3>1. PICK e : e = CompletedEvent(obs, ch.request)
      OBVIOUS
    <3>2. Real(e, obs)
      BY <3>1, RealEvent DEF CompletedEvent
    <3> QED
      BY <3>1, <3>2 DEF Few
  <2>4. PICK e : e = Event(obs, Behavior("db.query", <<obs.line.name, collapse_placeholders(obs.line.sql)>>),
                           FALSE, at, <<>>)
    OBVIOUS
  <2>5. Real(e, obs)
    BY <2>4, RealEvent
  <2>6. Few(<<e>>, obs) /\ Few(<<>>, obs)
    BY <2>5 DEF Few
  <2> QED
    BY <2>1, <2>2, <2>3, <2>4, <2>6 DEF RailsEvents
<1>6. Few(<<>>, obs)
  BY DEF Few
<1> QED
  BY <1>2, <1>3, <1>4, <1>5, <1>6 DEF EventsOf

RUsage == Observation("rusage", 1, NoExample)

LEMMA RealResources == Real(ResourcesEvent(1), RUsage)
BY RealEvent DEF ResourcesEvent, RUsage

\* e is recorded and emitted.
OneAfter(a, em, n, e, a2, em2) ==
  /\ Extends(em, em2, n, e) /\ IsSeq(em2)
  /\ a2 = Record(a, e)

\* The events of an observation are recorded and emitted one after the other.
LEMMA EventByEvent ==
  ASSUME NEW a, NEW em, IsSeq(em), NEW n \in Nat, DOMAIN em = 1..n,
         NEW obs, NEW events, Few(events, obs)
  PROVE  \/ em \o events = em /\ RecordAll(a, events) = a
         \/ \E e : /\ Real(e, obs)
                   /\ OneAfter(a, em, n, e, RecordAll(a, events), em \o events)
         \/ \E e1, e2, a1, em1 :
              /\ Real(e1, obs) /\ Real(e2, obs)
              /\ e1.behavior.kind = "test.example" /\ e2.behavior.kind = "exception"
              /\ OneAfter(a, em, n, e1, a1, em1)
              /\ OneAfter(a1, em1, n + 1, e2, RecordAll(a, events), em \o events)
<1>2. Len(em) = n
  BY LenProperties DEF IsSeq
<1>3. CASE events = <<>>
  <2>1. em \o <<>> = em
    BY ConcatEmptySeq DEF IsSeq
  <2> QED
    BY <1>3, <2>1, Folds
<1>6. ASSUME NEW e
      PROVE  Extends(em, em \o <<e>>, n, e) /\ IsSeq(em \o <<e>>)
  <2>1. PICK one : one = <<e>>
    OBVIOUS
  <2>2. IsSeq(one) /\ Len(one) = 1 /\ one[1] = e
    BY <2>1, Single
  <2>a. PICK em2 : em2 = em \o one
    OBVIOUS
  <2>b. /\ IsSeq(em2) /\ DOMAIN em2 = 1..(Len(em) + Len(one))
        /\ \A i \in 1..Len(em) : em2[i] = em[i]
        /\ \A i \in 1..Len(one) : em2[Len(em) + i] = one[i]
    <3>1. Joins(em, one, em \o one)
      BY <2>2, Joined
    <3>2. Joins(em, one, em2)
      BY <2>a, <3>1
    <3> QED
      BY <3>2 DEF Joins
  <2>3. /\ IsSeq(em2) /\ DOMAIN em2 = 1..(n + 1)
        /\ \A i \in 1..n : em2[i] = em[i]
        /\ em2[n + 1] = e
    BY <1>2, <2>2, <2>b
  <2>4. Extends(em, em2, n, e)
    BY <2>3 DEF Extends
  <2> QED
    BY <2>1, <2>a, <2>3, <2>4
<1>4. ASSUME NEW e, Real(e, obs), events = <<e>>
      PROVE  OneAfter(a, em, n, e, RecordAll(a, events), em \o events)
  <2>1. RecordAll(a, events) = Record(a, e)
    BY <1>4, Folds
  <2>2. Extends(em, em \o events, n, e) /\ IsSeq(em \o events)
    BY <1>4, <1>6
  <2> QED
    BY <2>1, <2>2 DEF OneAfter
<1>5. ASSUME NEW e1, NEW e2, Real(e1, obs), Real(e2, obs), events = <<e1, e2>>
      PROVE  \E a1, em1 : /\ OneAfter(a, em, n, e1, a1, em1)
                          /\ OneAfter(a1, em1, n + 1, e2, RecordAll(a, events), em \o events)
  <2>1. PICK a1, em1, em2 : a1 = Record(a, e1) /\ em1 = em \o <<e1>> /\ em2 = em \o events
    OBVIOUS
  <2>2. Extends(em, em1, n, e1) /\ IsSeq(em1)
    BY <1>6, <2>1
  <2>3. IsSeq(events) /\ Len(events) = 2 /\ events[1] = e1 /\ events[2] = e2
    BY <1>5, Single
  <2>4. /\ IsSeq(em2) /\ DOMAIN em2 = 1..(Len(em) + Len(events))
        /\ \A i \in 1..Len(em) : em2[i] = em[i]
        /\ \A i \in 1..Len(events) : em2[Len(em) + i] = events[i]
    <3>1. Joins(em, events, em \o events)
      BY <2>3, Joined
    <3>2. Joins(em, events, em2)
      BY <2>1, <3>1
    <3> QED
      BY <3>2 DEF Joins
  <2>5. /\ IsSeq(em2) /\ DOMAIN em2 = 1..(n + 2)
        /\ \A i \in 1..n : em2[i] = em[i]
        /\ em2[n + 1] = e1 /\ em2[n + 2] = e2
    BY <1>2, <2>3, <2>4
  <2>6. Extends(em1, em2, n + 1, e2)
    BY <2>2, <2>5 DEF Extends
  <2>7. RecordAll(a, events) = Record(a1, e2)
    BY <1>5, <2>1, FoldTwo
  <2>8. OneAfter(a, em, n, e1, a1, em1)
    BY <2>1, <2>2 DEF OneAfter
  <2>9. OneAfter(a1, em1, n + 1, e2, RecordAll(a, events), em \o events)
    BY <2>1, <2>5, <2>6, <2>7 DEF OneAfter
  <2> QED
    BY <2>8, <2>9
<1>7. CASE \E e : Real(e, obs) /\ events = <<e>>
  BY <1>4, <1>7, Zenon
<1>8. CASE \E e1, e2 :
             /\ Real(e1, obs) /\ Real(e2, obs) /\ events = <<e1, e2>>
             /\ e1.behavior.kind = "test.example" /\ e2.behavior.kind = "exception"
  BY <1>5, <1>8, Zenon
<1> QED
  BY <1>3, <1>7, <1>8, Zenon DEF Few

\* What an observation's events make of an aggregate that was exact, is exact.
LEMMA RecordedExact ==
  ASSUME NEW a, NEW em, IsSeq(em), AggExact(a, em), NEW obs, NEW events, Few(events, obs)
  PROVE  IsSeq(em \o events) /\ AggExact(RecordAll(a, events), em \o events)
<1>1. PICK n \in Nat : DOMAIN em = 1..n
  BY DEF AggExact
<1>2. PICK a2, em2 : a2 = RecordAll(a, events) /\ em2 = em \o events
  OBVIOUS
<1>3. \/ em2 = em /\ a2 = a
      \/ \E e : Real(e, obs) /\ OneAfter(a, em, n, e, a2, em2)
      \/ \E e1, e2, a1, em1 :
           /\ Real(e1, obs) /\ Real(e2, obs)
           /\ OneAfter(a, em, n, e1, a1, em1) /\ OneAfter(a1, em1, n + 1, e2, a2, em2)
  BY <1>1, <1>2, EventByEvent
<1>4. ASSUME NEW x, NEW xs, AggExact(x, xs), NEW m \in Nat, NEW e, Real(e, obs),
             NEW y, NEW ys, OneAfter(x, xs, m, e, y, ys)
      PROVE  IsSeq(ys) /\ AggExact(y, ys)
  BY <1>4, RecordKeepsExact DEF OneAfter, Real
<1>5. CASE \E e : Real(e, obs) /\ OneAfter(a, em, n, e, a2, em2)
  BY <1>1, <1>2, <1>4, <1>5
<1>6. ASSUME NEW e1, NEW e2, NEW a1, NEW em1, Real(e1, obs), Real(e2, obs),
             OneAfter(a, em, n, e1, a1, em1), OneAfter(a1, em1, n + 1, e2, a2, em2)
      PROVE  IsSeq(em2) /\ AggExact(a2, em2)
  <2>1. AggExact(a1, em1)
    BY <1>1, <1>4, <1>6
  <2>2. n + 1 \in Nat
    BY <1>1
  <2> QED
    BY <1>4, <1>6, <2>1, <2>2
<1> QED
  BY <1>2, <1>3, <1>5, <1>6

-----------------------------------------------------------------------------
(* Every state of a run.                                                    *)

CountsInv == IsSeq(emitted) /\ AggExact(agg, emitted)

LEMMA InitCounts == Init => CountsInv
<1> SUFFICES ASSUME Init PROVE CountsInv
  OBVIOUS
<1>1. emitted = <<>> /\ agg = NewAggregator(Drawn)
  BY DEF Init
<1>2. agg.behaviors = <<>> /\ agg.cells = 0
  BY <1>1 DEF NewAggregator
<1>3. DOMAIN agg.behaviors = {} /\ DOMAIN emitted = {} /\ 1..0 = {}
  BY <1>1, <1>2
<1>4. \E n \in Nat : DOMAIN emitted = 1..n
  BY <1>3
<1>5. IsSeq(emitted)
  BY <1>1, Single
<1>6. AggExact(agg, emitted)
  BY <1>2, <1>3, <1>4, Empty DEF AggExact
<1> QED
  BY <1>5, <1>6 DEF CountsInv

LEMMA NextCounts == CountsInv /\ [Next]_vars => CountsInv'
<1> SUFFICES ASSUME CountsInv, [Next]_vars PROVE CountsInv'
  OBVIOUS
<1>1. CASE UNCHANGED <<agg, emitted>>
  <2>1. IsSeq(emitted') /\ AggExact(agg', emitted')
    BY <1>1 DEF CountsInv
  <2> QED
    BY <2>1 DEF CountsInv, IsSeq, AggExact, PastCap, AccExact, NoRoom, Of, Failed_, Scoped, Lost,
                ScopesExact
<1>2. ASSUME NEW obs, NEW events, Few(events, obs), emitted' = emitted \o events,
             agg' = RecordAll(agg, events)
      PROVE  CountsInv'
  <2>1. IsSeq(emitted') /\ AggExact(agg', emitted')
    BY <1>2, RecordedExact DEF CountsInv
  <2> QED
    BY <2>1 DEF CountsInv, IsSeq, AggExact, PastCap, AccExact, NoRoom, Of, Failed_, Scoped, Lost,
                ScopesExact
<1>3. ASSUME NEW s \in Streams, Observe(s)
      PROVE  CountsInv'
  <2>1. PICK obs : obs = Observation(s, fed[s] + 1, out[s][fed[s] + 1])
    OBVIOUS
  <2>2. PICK events : events = EventsOf(chain, obs)
    OBVIOUS
  <2>3. emitted' = emitted \o events /\ agg' = RecordAll(agg, events)
    BY <1>3, <2>1, <2>2 DEF Observe, Recorded, RecordAll
  <2> QED
    BY <1>2, <2>2, <2>3, FewEvents
<1>4. CASE record_resources
  <2>1. Few(<<ResourcesEvent(1)>>, RUsage)
    BY RealResources DEF Few
  <2>2. emitted' = emitted \o <<ResourcesEvent(1)>> /\ agg' = RecordAll(agg, <<ResourcesEvent(1)>>)
    BY <1>4 DEF record_resources, Recorded, RecordAll
  <2> QED
    BY <1>2, <2>1, <2>2
<1>5. CASE Rspec \/ Cargo \/ EndCargo \/ Kill \/ UNCHANGED vars
  <2>1. UNCHANGED <<agg, emitted>>
    BY <1>5 DEF Rspec, StartSuite, OtherEvent, EndSuite, NoteStart, StartExample, NoteEnd, EndExample, LogText, Logs,
                LogQuery, LogStarted, LogProcessing, LogCompleted, Cargo, Test, Prints, TestPrints,
                TestResult, Failed, EndCargo, Kill, vars, siftr
  <2> QED
    BY <1>1, <2>1
<1> QED
  BY <1>3, <1>4, <1>5 DEF Next

LEMMA CountsInvariant == Spec => []CountsInv
BY InitCounts, NextCounts, PTL DEF Spec

-----------------------------------------------------------------------------
(* Adding up the parts.                                                     *)

\* Of the members of a set of naturals, one is the least.
LEMMA Least ==
  ASSUME NEW S \in SUBSET Nat, NEW s \in S
  PROVE  \E o \in S : \A p \in S : o <= p
<1> DEFINE R == OpToRel(<, Nat)
<1>1. R = {d \in Nat \X Nat : d[1] < d[2]}
  BY DEF OpToRel
<1> HIDE DEF R
<1>2. IsWellFoundedOn(R, Nat)
  BY NatLessThanWellFounded DEF R
<1>3. PICK o \in S : \A p \in S : <<p, o>> \notin R
  <2>1. S \subseteq Nat /\ S # {}
    OBVIOUS
  <2>2. \E o \in S : \A p \in S : ~ (<<p, o>> \in R)
    BY <1>2, <2>1, WFMin, Zenon
  <2> QED
    BY <2>2
<1>4. ASSUME NEW p \in S, p < o PROVE FALSE
  <2>1. PICK d : d = <<p, o>>
    OBVIOUS
  <2>2. d \in Nat \X Nat /\ d[1] < d[2]
    BY <1>4, <2>1
  <2> QED
    BY <1>1, <1>3, <2>1, <2>2
<1> QED
  BY <1>4

\* Two sets of places, without one in common.
LEMMA Disjoint ==
  ASSUME NEW n \in Nat, NEW S, NEW T, S \subseteq 1..n, T \subseteq 1..n, S \cap T = {}
  PROVE  /\ Cardinality(S \cup T) = Cardinality(S) + Cardinality(T)
         /\ Cardinality(S) \in Nat /\ Cardinality(T) \in Nat
<1>1. IsFiniteSet(S) /\ IsFiniteSet(T) /\ Cardinality(S) \in Nat /\ Cardinality(T) \in Nat
  BY OneMore
<1>2. Cardinality(S \cup T) = Cardinality(S) + Cardinality(T) - Cardinality(S \cap T)
  BY <1>1, FS_Union
<1>3. Cardinality(S \cap T) = 0
  BY Empty
<1> QED
  BY <1>1, <1>2, <1>3

One(s) == CHOOSE x \in s : TRUE

\* What the sum of the counts of cells is by definition.
SumOf(f, S) == MapThenSumSet(LAMBDA s : f[s].count, S)

SumEq(g, f, S) ==
  g = [s \in SUBSET S |-> IF s = {} THEN 0 ELSE f[One(s)].count + g[s \ {One(s)}]]

LEMMA SumIs ==
  ASSUME NEW f, NEW S, \E g : SumEq(g, f, S)
  PROVE  \E g : SumEq(g, f, S) /\ SumOf(f, S) = g[S]
<1> DEFINE sum == CHOOSE g : SumEq(g, f, S)
<1>1. SumOf(f, S) = sum[S]
  BY Zenon DEF SumOf, MapThenSumSet, MapThenFoldSet, SumEq, One
<1>2. SumEq(sum, f, S)
  BY Zenon
<1> QED
  BY <1>1, <1>2

\* Places with a key, and those with one in s.
With(E, key, x) == {i \in E : key[i] = x}
Keyed(E, key, s) == {i \in E : key[i] \in s}

CellsCount(f, S, E, key) == \A s \in S : f[s].count = Cardinality(With(E, key, s))

\* If each cell's count is how many places have its key, the sum is how many
\* places have the key of one of them.
LEMMA SumOfParts ==
  ASSUME NEW f, NEW S, IsFiniteSet(S), NEW n \in Nat, NEW E, E \subseteq 1..n, NEW key,
         CellsCount(f, S, E, key)
  PROVE  SumOf(f, S) = Cardinality(Keyed(E, key, S))
<1>1. PICK whole : whole = [s \in SUBSET S |-> Cardinality(Keyed(E, key, s))]
  OBVIOUS
<1>2. ASSUME NEW s \in SUBSET S, s # {}
      PROVE  whole[s] = f[One(s)].count + whole[s \ {One(s)}]
  <2>1. PICK x : x = One(s)
    OBVIOUS
  <2>2. x \in s
    BY <1>2, <2>1 DEF One
  <2>3. PICK A, B : A = With(E, key, x) /\ B = Keyed(E, key, s \ {x})
    OBVIOUS
  <2>4. A \subseteq 1..n /\ B \subseteq 1..n /\ A \cap B = {} /\ Keyed(E, key, s) = A \cup B
    BY <2>2, <2>3 DEF Keyed, With
  <2>5. Cardinality(A \cup B) = Cardinality(A) + Cardinality(B)
    <3>1. A \subseteq 1..n /\ B \subseteq 1..n /\ A \cap B = {}
      BY <2>4
    <3> HIDE <2>4
    <3> QED
      BY <3>1, Disjoint, Zenon
  <2>6. whole[s] = Cardinality(A \cup B) /\ whole[s \ {x}] = Cardinality(B)
    BY <1>1, <2>3, <2>4
  <2>7. f[x].count = Cardinality(A)
    BY <2>2, <2>3 DEF CellsCount
  <2> QED
    BY <2>1, <2>5, <2>6, <2>7
<1>3. whole[{}] = 0
  <2>1. Keyed(E, key, {}) = {}
    BY DEF Keyed
  <2> QED
    BY <1>1, <2>1, Empty
<1>4. SumEq(whole, f, S)
  <2>1. whole = [s \in SUBSET S |-> whole[s]]
    BY <1>1
  <2>2. \A s \in SUBSET S :
          whole[s] = IF s = {} THEN 0 ELSE f[One(s)].count + whole[s \ {One(s)}]
    BY <1>2, <1>3
  <2> QED
    BY <2>1, <2>2 DEF SumEq
<1>5. PICK g : SumEq(g, f, S) /\ SumOf(f, S) = g[S]
  BY <1>4, SumIs
<1>6. \A s \in SUBSET S : g[s] = IF s = {} THEN 0 ELSE f[One(s)].count + g[s \ {One(s)}]
  BY <1>5 DEF SumEq
<1>7. \A s \in SUBSET S : g[s] = whole[s]
  <2> SUFFICES ASSUME NEW t \in SUBSET S, g[t] # whole[t]
               PROVE  FALSE
    OBVIOUS
  <2>1. PICK odd : odd = {s \in SUBSET S : g[s] # whole[s]}
    OBVIOUS
  <2>2. PICK sizes : sizes = {Cardinality(s) : s \in odd}
    OBVIOUS
  <2>3. \A s \in SUBSET S : IsFiniteSet(s) /\ Cardinality(s) \in Nat
    BY FS_Subset, FS_CardinalityType
  <2>4. sizes \in SUBSET Nat /\ Cardinality(t) \in sizes
    BY <2>1, <2>2, <2>3
  <2>5. PICK m \in sizes : \A p \in sizes : m <= p
    BY <2>4, Least
  <2>6. PICK s \in odd : Cardinality(s) = m
    BY <2>2, <2>5
  <2>7. s \in SUBSET S /\ s # {}
    BY <1>3, <1>6, <2>1, <2>6
  <2>8. PICK x : x = One(s)
    OBVIOUS
  <2>9. x \in s
    BY <2>7, <2>8 DEF One
  <2>10. Cardinality(s \ {x}) = Cardinality(s) - 1
    BY <2>3, <2>7, <2>9, FS_RemoveElement
  <2>11. s \ {x} \in SUBSET S
    BY <2>7
  <2>12. s \ {x} \notin odd
    <3> SUFFICES ASSUME s \ {x} \in odd PROVE FALSE
      OBVIOUS
    <3>1. Cardinality(s \ {x}) \in sizes
      BY <2>2
    <3> QED
      BY <2>3, <2>5, <2>6, <2>7, <2>10, <3>1
  <2>13. g[s \ {x}] = whole[s \ {x}]
    BY <2>1, <2>11, <2>12
  <2>14. g[s] = whole[s]
    BY <1>2, <1>6, <2>7, <2>8, <2>13
  <2> QED
    BY <2>1, <2>6, <2>14
<1> QED
  BY <1>1, <1>5, <1>7

LEMMA MaxNat ==
  ASSUME NEW x \in Nat
  PROVE  Max({0, x}) = x
<1>1. x \in {0, x} /\ \A y \in {0, x} : x >= y
  OBVIOUS
<1>2. Max({0, x}) \in {0, x} /\ \A y \in {0, x} : Max({0, x}) >= y
  BY <1>1, Zenon DEF Max
<1> QED
  BY <1>2

\* What a behavior's events are outside of any scope: those that are in no cell
\* and not lost.
LEMMA UnscopedExact ==
  ASSUME NEW D, NEW em, NEW n \in Nat, DOMAIN em = 1..n, NEW b, b # overflow_behavior,
         NEW acc, AccExact(acc, D, em, b)
  PROVE  /\ unscoped_count(acc) = Cardinality(Scoped(em, b, NoScope))
         /\ acc.unattributed =
              Cardinality(Of(D, em, b))
                - Cardinality({i \in DOMAIN em :
                                 em[i].behavior = b /\ em[i].scope \in DOMAIN acc.scopes \cup {NoScope}})
<1>1. PICK S, E, N, L, A, key :
        /\ S = DOMAIN acc.scopes
        /\ E = {i \in 1..n : em[i].behavior = b}
        /\ N = Scoped(em, b, NoScope)
        /\ L = Lost(acc, em, b)
        /\ key = [i \in 1..n |-> em[i].scope]
        /\ A = Keyed(E, key, S)
  OBVIOUS
<1>2. /\ IsFiniteSet(S) /\ NoScope \notin S /\ acc.unattributed = Cardinality(L)
      /\ acc.count = Cardinality(E)
      /\ \A s \in S : acc.scopes[s].count = Cardinality(Scoped(em, b, s))
  <2>1. Of(D, em, b) = E
    BY <1>1 DEF Of
  <2> QED
    BY <1>1, <2>1 DEF AccExact, ScopesExact
<1>3. /\ E \subseteq 1..n /\ N \subseteq 1..n /\ L \subseteq 1..n /\ A \subseteq 1..n
      /\ A \cap N = {} /\ (A \cup N) \cap L = {} /\ (A \cup N) \subseteq 1..n
      /\ E = (A \cup N) \cup L
  BY <1>1, <1>2 DEF Scoped, Lost, Keyed
<1>4. SumOf(acc.scopes, S) = Cardinality(A)
  <2>1. \A s \in S : Scoped(em, b, s) = With(E, key, s)
    BY <1>1 DEF Scoped, With
  <2>2. PICK f : f = acc.scopes
    OBVIOUS
  <2>3. CellsCount(f, S, E, key)
    BY <1>2, <2>1, <2>2 DEF CellsCount
  <2>a. IsFiniteSet(S) /\ E \subseteq 1..n
    BY <1>2, <1>3
  <2>4. SumOf(f, S) = Cardinality(Keyed(E, key, S))
    BY <2>a, <2>3, SumOfParts
  <2> QED
    BY <1>1, <2>2, <2>4
<1>5. /\ Cardinality(A \cup N) = Cardinality(A) + Cardinality(N)
      /\ Cardinality(E) = Cardinality(A \cup N) + Cardinality(L)
      /\ Cardinality(A) \in Nat /\ Cardinality(N) \in Nat /\ Cardinality(L) \in Nat
  <2>1. /\ Cardinality(A \cup N) = Cardinality(A) + Cardinality(N)
        /\ Cardinality(A) \in Nat /\ Cardinality(N) \in Nat
    BY <1>3, Disjoint
  <2>2. PICK B : B = A \cup N
    OBVIOUS
  <2>3. B \subseteq 1..n /\ L \subseteq 1..n /\ B \cap L = {}
    BY <1>3, <2>2
  <2>4. /\ Cardinality(B \cup L) = Cardinality(B) + Cardinality(L)
        /\ Cardinality(L) \in Nat
    BY <2>3, Disjoint
  <2> QED
    BY <1>3, <2>1, <2>2, <2>4
<1>6. unscoped_count(acc) = Max({0, Max({0, acc.count - SumOf(acc.scopes, S)}) - acc.unattributed})
  BY <1>1, Zenon DEF unscoped_count, SumOf
<1>7. PICK total, u : total = Cardinality(N) + Cardinality(L) /\ u = Cardinality(N)
  OBVIOUS
<1>8. acc.count - SumOf(acc.scopes, S) = total /\ total - acc.unattributed = u
  BY <1>2, <1>4, <1>5, <1>7
<1>9. Max({0, total}) = total /\ Max({0, u}) = u
  <2>1. total \in Nat /\ u \in Nat
    BY <1>5, <1>7
  <2>2. Max({0, total}) = total
    BY <2>1, MaxNat
  <2>3. Max({0, u}) = u
    BY <2>1, MaxNat
  <2> QED
    BY <2>2, <2>3
<1>10. unscoped_count(acc) = u
  BY <1>6, <1>8, <1>9, Zenon
<1>11. unscoped_count(acc) = Cardinality(Scoped(em, b, NoScope))
  BY <1>1, <1>7, <1>10
<1>12. {i \in DOMAIN em : em[i].behavior = b /\ em[i].scope \in DOMAIN acc.scopes \cup {NoScope}}
         = A \cup N
  BY <1>1 DEF Keyed, Scoped
<1>13. Of(D, em, b) = E
  BY <1>1 DEF Of
<1>14. acc.unattributed = Cardinality(E) - Cardinality(A \cup N)
  BY <1>2, <1>5
<1> QED
  BY <1>11, <1>12, <1>13, <1>14, Zenon

LEMMA CountsFollow == CountsInv => CountsExact
<1> SUFFICES ASSUME CountsInv PROVE CountsExact
  OBVIOUS
<1>1. AggExact(agg, emitted)
  BY DEF CountsInv
<1>2. PICK n \in Nat : DOMAIN emitted = 1..n
  BY <1>1 DEF AggExact
<1>3. PICK D : D = DOMAIN agg.behaviors
  OBVIOUS
<1>4. \A b : EventsIn(b) = Of(D, emitted, b)
  BY <1>3 DEF EventsIn, Of
<1>5. ASSUME NEW b \in D
      PROVE  AccExact(agg.behaviors[b], D, emitted, b)
  BY <1>1, <1>3 DEF AggExact
<1>6. ASSUME NEW b \in D
      PROVE  /\ agg.behaviors[b].count = Cardinality(EventsIn(b))
             /\ agg.behaviors[b].errors = Cardinality({i \in EventsIn(b) : emitted[i].failure})
  <2>1. {i \in EventsIn(b) : emitted[i].failure} = Failed_(emitted, Of(D, emitted, b))
    BY <1>4 DEF Failed_
  <2>2. /\ agg.behaviors[b].count = Cardinality(Of(D, emitted, b))
        /\ agg.behaviors[b].errors = Cardinality(Failed_(emitted, Of(D, emitted, b)))
    BY <1>5 DEF AccExact
  <2> QED
    BY <1>4, <2>1, <2>2
<1>7. ASSUME NEW b \in D, b # overflow_behavior
      PROVE  LET acc == agg.behaviors[b]
             IN /\ \A s \in DOMAIN acc.scopes : acc.scopes[s].count = ScopedIn(b, {s})
                /\ unscoped_count(acc) = ScopedIn(b, {NoScope})
                /\ acc.unattributed =
                     Cardinality(EventsIn(b)) - ScopedIn(b, DOMAIN acc.scopes \cup {NoScope})
  <2>1. PICK acc : acc = agg.behaviors[b]
    OBVIOUS
  <2>2. AccExact(acc, D, emitted, b)
    BY <1>5, <2>1
  <2>3. \A s : ScopedIn(b, {s}) = Cardinality(Scoped(emitted, b, s))
    <3>1. ASSUME NEW s
          PROVE  {i \in DOMAIN emitted : emitted[i].behavior = b /\ emitted[i].scope \in {s}}
                   = Scoped(emitted, b, s)
      BY DEF Scoped
    <3> QED
      BY <3>1 DEF ScopedIn
  <2>4. \A s \in DOMAIN acc.scopes : acc.scopes[s].count = ScopedIn(b, {s})
    BY <1>7, <2>2, <2>3 DEF AccExact, ScopesExact
  <2>5. /\ unscoped_count(acc) = Cardinality(Scoped(emitted, b, NoScope))
        /\ acc.unattributed =
             Cardinality(Of(D, emitted, b))
               - Cardinality({i \in DOMAIN emitted :
                                /\ emitted[i].behavior = b
                                /\ emitted[i].scope \in DOMAIN acc.scopes \cup {NoScope}})
    BY <1>2, <1>7, <2>2, UnscopedExact
  <2>6. acc.unattributed =
          Cardinality(EventsIn(b)) - ScopedIn(b, DOMAIN acc.scopes \cup {NoScope})
    BY <1>4, <2>5, Zenon DEF ScopedIn
  <2>7. unscoped_count(acc) = ScopedIn(b, {NoScope})
    BY <2>3, <2>5
  <2> QED
    BY <2>1, <2>4, <2>6, <2>7
<1>8. events_past_cap(agg) = Cardinality(EventsIn(overflow_behavior))
  <2>1. CASE overflow_behavior \in D
    BY <1>3, <1>6, <2>1 DEF events_past_cap, Lookup
  <2>2. CASE overflow_behavior \notin D
    <3>1. events_past_cap(agg) = 0
      BY <1>3, <2>2 DEF events_past_cap, Lookup, NewAccumulator
    <3>2. EventsIn(overflow_behavior) = {}
      BY <1>1, <1>3, <2>2 DEF EventsIn, AggExact, PastCap
    <3> QED
      BY <3>1, <3>2, Empty
  <2> QED
    BY <2>1, <2>2
<1>9. \A i \in EventsIn(overflow_behavior) : capped(emitted[i].behavior.kind)
  BY <1>1 DEF EventsIn, AggExact, PastCap
<1> QED
  BY <1>3, <1>6, <1>7, <1>8, <1>9 DEF CountsExact

\* Within its limits a run's statistics are exact, after any lines, in any order
\* of the streams: every event is in the count of its behavior, or in the
\* overflow's, and every scoped one in its cell or among the unattributed.
THEOREM CountsAreExact == Spec => []CountsExact
BY CountsInvariant, CountsFollow, PTL

-----------------------------------------------------------------------------
(* The lines that are kept of a behavior.                                   *)

\* How many of O come before n.
Rank(O, n) == Cardinality({i \in O : i < n})

\* first has the first lines of O's events, and sampled others, as many as fit.
KeptOf(first, sampled, O, em) ==
  /\ IsSeq(first) /\ IsSeq(sampled)
  /\ \/ Len(first) < FIRST_EXEMPLARS /\ Len(first) = Cardinality(O) /\ Len(sampled) = 0
     \/ /\ Len(first) = FIRST_EXEMPLARS /\ Len(sampled) <= SAMPLED_EXEMPLARS
        /\ Cardinality(O) >= FIRST_EXEMPLARS + Len(sampled)
        /\ Len(sampled) < SAMPLED_EXEMPLARS =>
             Cardinality(O) = FIRST_EXEMPLARS + Len(sampled)
  /\ \A k \in 1..Len(first) : \E n \in O :
       first[k] = em[n].source /\ Rank(O, n) = k - 1
  /\ \A k \in 1..Len(sampled) : \E n \in O :
       sampled[k] = em[n].source /\ Rank(O, n) >= FIRST_EXEMPLARS
  /\ \A j, k \in 1..Len(sampled) : sampled[j] = sampled[k] => j = k

\* The ranks of the events there were stay, and the next one has the next rank.
LEMMA Ranks ==
  ASSUME NEW n \in Nat, NEW O, O \subseteq 1..n
  PROVE  /\ \A i \in 1..n : Rank(O \cup {n + 1}, i) = Rank(O, i)
         /\ Rank(O \cup {n + 1}, n + 1) = Cardinality(O)
<1>1. ASSUME NEW i \in 1..n
      PROVE  {j \in O \cup {n + 1} : j < i} = {j \in O : j < i}
  OBVIOUS
<1>2. {j \in O \cup {n + 1} : j < n + 1} = O
  <2>1. \A j \in O : j < n + 1
    OBVIOUS
  <2>2. ~ (n + 1 < n + 1)
    OBVIOUS
  <2> QED
    BY <2>1, <2>2
<1> QED
  BY <1>1, <1>2 DEF Rank

LEMMA Appended ==
  ASSUME NEW s, IsSeq(s), NEW e
  PROVE  /\ IsSeq(Append(s, e)) /\ Len(Append(s, e)) = Len(s) + 1 /\ Len(s) \in Nat
         /\ \A i \in 1..Len(s) : Append(s, e)[i] = s[i]
         /\ Append(s, e)[Len(s) + 1] = e
<1>1. PICK S : S = Range(s) \cup {e}
  OBVIOUS
<1>2. s \in Seq(S) /\ e \in S
  BY <1>1, SeqMonotonic DEF IsSeq
<1>3. PICK u : u = Append(s, e)
  OBVIOUS
<1>4. /\ u \in Seq(S) /\ Len(u) = Len(s) + 1 /\ Len(s) \in Nat
      /\ \A i \in 1..Len(s) : u[i] = s[i]
      /\ u[Len(s) + 1] = e
  BY <1>2, <1>3, AppendProperties
<1>5. IsSeq(u)
  BY <1>4, SeqOfItsRange
<1> QED
  BY <1>3, <1>4, <1>5

\* e takes the place of what was at k, if anything was.
Puts(s, k, e, u) == u = [s EXCEPT ![k] = e]

LEMMA Replaced ==
  ASSUME NEW s, IsSeq(s), NEW e, NEW k, NEW u, Puts(s, k, e, u)
  PROVE  /\ IsSeq(u) /\ Len(u) = Len(s) /\ Len(s) \in Nat
         /\ \A i \in 1..Len(s) : u[i] = s[i] \/ (u[i] = e /\ i = k)
<1>1. PICK S : S = Range(s) \cup {e}
  OBVIOUS
<1>2. s \in Seq(S) /\ e \in S
  BY <1>1, SeqMonotonic DEF IsSeq
<1>3. PICK m \in Nat : m = Len(s) /\ s \in [1..m -> S]
  BY <1>2, LenProperties
<1>4. u \in [1..m -> S] /\ \A i \in 1..m : u[i] = s[i] \/ (u[i] = e /\ i = k)
  BY <1>2, <1>3 DEF Puts
<1>5. u \in Seq(S) /\ Len(u) = m
  <2>1. u \in Seq(S)
    BY <1>4, SeqDef
  <2>2. Len(u) \in Nat /\ DOMAIN u = 1..Len(u)
    BY <2>1, LenProperties
  <2>3. DOMAIN u = 1..m
    BY <1>4
  <2>4. Len(u) = m
    <3>1. PICK l \in Nat : l = Len(u)
      BY <2>2
    <3>2. 1..l = 1..m
      BY <2>2, <2>3, <3>1
    <3>3. ~ (l < m) /\ ~ (m < l)
      <4>1. CASE l < m
        <5>1. m \in 1..m /\ m \notin 1..l
          BY <4>1
        <5> QED
          BY <3>2, <5>1
      <4>2. CASE m < l
        <5>1. l \in 1..l /\ l \notin 1..m
          BY <4>2
        <5> QED
          BY <3>2, <5>1
      <4> QED
        BY <4>1, <4>2
    <3> QED
      BY <3>1, <3>3, SMTT(30)
  <2> QED
    BY <2>1, <2>4
<1>6. IsSeq(u)
  BY <1>5, SeqOfItsRange
<1> QED
  BY <1>3, <1>4, <1>5, <1>6

\* None of O's events is of that line.
Apart(O, em, source) == \A i \in O : em[i].source # source

\* Recording an event keeps the lines of it and of those before: it fills the
\* first ones, then the sample, then takes the place of a sampled one, or of none.
LEMMA KeepStays ==
  ASSUME NEW n \in Nat, NEW em, NEW em2, NEW e, Extends(em, em2, n, e),
         NEW acc, NEW final, LinesAfter(acc, final, e.source),
         NEW O, O \subseteq 1..n, Apart(O, em, e.source),
         KeptOf(acc.first, acc.sampled, O, em)
  PROVE  KeptOf(final.first, final.sampled, O \cup {n + 1}, em2)
<1> DEFINE source == e.source
<1>b. /\ \A i \in 1..n : em2[i] = em[i]
      /\ em2[n + 1].source = source
      /\ \A i \in O : em[i].source # source
      /\ LinesAfter(acc, final, source)
  BY DEF Extends, Apart
<1> HIDE DEF source
<1>1. PICK F, M : F = FIRST_EXEMPLARS /\ M = SAMPLED_EXEMPLARS
  OBVIOUS
<1>2. F \in Nat \ {0} /\ M \in Nat \ {0}
  BY <1>1, AggregatorAssumption
<1>3. PICK first, sampled, O2 : first = acc.first /\ sampled = acc.sampled /\ O2 = O \cup {n + 1}
  OBVIOUS
<1>a. KeptOf(first, sampled, O, em)
  BY <1>3
<1>4. PICK C \in Nat : C = Cardinality(O) /\ Cardinality(O2) = C + 1
  BY <1>3, OneMore
<1>5. /\ IsSeq(first) /\ IsSeq(sampled) /\ Len(first) \in Nat /\ Len(sampled) \in Nat
      /\ \/ Len(first) < F /\ Len(first) = C /\ Len(sampled) = 0
         \/ /\ Len(first) = F /\ Len(sampled) <= M /\ C >= F + Len(sampled)
            /\ Len(sampled) < M => C = F + Len(sampled)
  BY <1>1, <1>4, <1>a, Appended DEF KeptOf
<1>6. /\ \A i \in O : em2[i].source = em[i].source /\ Rank(O2, i) = Rank(O, i) /\ i \in O2
      /\ n + 1 \in O2 /\ em2[n + 1].source = source /\ Rank(O2, n + 1) = C
  <2>1. /\ \A i \in 1..n : Rank(O \cup {n + 1}, i) = Rank(O, i)
        /\ Rank(O \cup {n + 1}, n + 1) = Cardinality(O)
    BY Ranks
  <2>2. O \subseteq O2 /\ n + 1 \in O2
    BY <1>3
  <2> QED
    BY <1>3, <1>4, <1>b, <2>1, <2>2
<1>7. \A k \in 1..Len(first) : \E i \in O2 : first[k] = em2[i].source /\ Rank(O2, i) = k - 1
  BY <1>6, <1>a DEF KeptOf
<1>8. /\ \A k \in 1..Len(sampled) : \E i \in O2 : sampled[k] = em2[i].source /\ Rank(O2, i) >= F
      /\ \A k \in 1..Len(sampled) : sampled[k] # source
      /\ \A j, k \in 1..Len(sampled) : sampled[j] = sampled[k] => j = k
  <2>1. ASSUME NEW k \in 1..Len(sampled)
        PROVE  /\ \E i \in O2 : sampled[k] = em2[i].source /\ Rank(O2, i) >= F
               /\ sampled[k] # source
    <3>1. PICK i \in O : sampled[k] = em[i].source /\ Rank(O, i) >= F
      BY <1>1, <1>a DEF KeptOf
    <3> QED
      BY <1>6, <1>b, <3>1
  <2>2. \A j, k \in 1..Len(sampled) : sampled[j] = sampled[k] => j = k
    BY <1>a DEF KeptOf
  <2> QED
    BY <2>1, <2>2
<1>9. PICK counted, draw : /\ DOMAIN counted = Fields /\ SameLines(counted, acc)
                           /\ SameLines(final, KeepExemplar(counted, source, draw))
  BY <1>b DEF LinesAfter
<1>10. counted.first = first /\ counted.sampled = sampled
  BY <1>3, <1>9 DEF SameLines
<1>11. PICK slot : slot = below(draw, counted.count - FIRST_EXEMPLARS)
  OBVIOUS
<1>12. PICK kept : kept = KeepExemplar(counted, source, draw)
  OBVIOUS
<1>13. final.first = kept.first /\ final.sampled = kept.sampled
  BY <1>9, <1>12 DEF SameLines
<1>14. CASE Len(first) < F
  <2>1. kept = [counted EXCEPT !.first = Append(first, source)]
    <3>1. /\ Len(counted.first) < FIRST_EXEMPLARS /\ Len(counted.first) # FIRST_EXEMPLARS
          /\ ~ Draws(counted)
      BY <1>1, <1>2, <1>5, <1>10, <1>14 DEF Draws
    <3>2. kept = [counted EXCEPT !.first = Append(counted.first, source)]
      BY <1>12, <3>1, Zenon DEF KeepExemplar
    <3> QED
      BY <1>10, <3>2
  <2>2. final.first = Append(first, source) /\ final.sampled = sampled
    BY <1>9, <1>10, <1>13, <2>1 DEF Fields
  <2>3. PICK u : u = Append(first, source)
    OBVIOUS
  <2>4. /\ IsSeq(u) /\ Len(u) = Len(first) + 1
        /\ \A i \in 1..Len(first) : u[i] = first[i]
        /\ u[Len(first) + 1] = source
    BY <1>5, <2>3, Appended
  <2>5. ASSUME NEW k \in 1..Len(u)
        PROVE  \E i \in O2 : u[k] = em2[i].source /\ Rank(O2, i) = k - 1
    <3>1. k \in 1..Len(first) \/ (k = Len(first) + 1 /\ k - 1 = C)
      BY <1>2, <1>5, <1>14, <2>4
    <3>2. CASE k \in 1..Len(first)
      BY <1>7, <2>4, <3>2
    <3>3. CASE k = Len(first) + 1 /\ k - 1 = C
      BY <1>6, <2>4, <3>3
    <3> QED
      BY <3>1, <3>2, <3>3
  <2>6. \/ Len(u) < F /\ Len(u) = C + 1 /\ Len(sampled) = 0
        \/ /\ Len(u) = F /\ Len(sampled) <= M /\ C + 1 >= F + Len(sampled)
           /\ Len(sampled) < M => C + 1 = F + Len(sampled)
    BY <1>2, <1>5, <1>14, <2>4
  <2> QED
    <3>1. KeptOf(u, sampled, O2, em2)
      BY <1>1, <1>4, <1>5, <1>8, <2>4, <2>5, <2>6 DEF KeptOf
    <3> QED
      BY <1>3, <2>2, <2>3, <3>1
<1>15. CASE ~ (Len(first) < F) /\ Len(sampled) < M
  <2>1. kept = [counted EXCEPT !.sampled = Append(sampled, source)]
    <3>1. /\ ~ (Len(counted.first) < FIRST_EXEMPLARS) /\ Len(counted.first) = FIRST_EXEMPLARS
          /\ Len(counted.sampled) < SAMPLED_EXEMPLARS
      BY <1>1, <1>2, <1>5, <1>10, <1>15
    <3>2. ~ Draws(counted)
      BY <1>1, <1>2, <1>5, <3>1, <1>10 DEF Draws
    <3>3. kept = [counted EXCEPT !.sampled = Append(counted.sampled, source)]
      BY <1>12, <3>1, <3>2, Zenon DEF KeepExemplar
    <3> QED
      BY <1>10, <3>3
  <2>2. final.sampled = Append(sampled, source) /\ final.first = first
    BY <1>9, <1>10, <1>13, <2>1 DEF Fields
  <2>3. PICK u : u = Append(sampled, source)
    OBVIOUS
  <2>4. /\ IsSeq(u) /\ Len(u) = Len(sampled) + 1
        /\ \A i \in 1..Len(sampled) : u[i] = sampled[i]
        /\ u[Len(sampled) + 1] = source
    BY <1>5, <2>3, Appended
  <2>5. \A k \in 1..Len(u) : k \in 1..Len(sampled) \/ k = Len(sampled) + 1
    BY <1>5, <2>4
  <2>6. Len(first) = F /\ C = F + Len(sampled)
    BY <1>2, <1>5, <1>15
  <2>7. \A k \in 1..Len(u) : \E i \in O2 : u[k] = em2[i].source /\ Rank(O2, i) >= F
    <3>1. C >= F
      BY <1>2, <1>5, <2>6
    <3>2. ASSUME NEW k \in 1..Len(u)
          PROVE  \E i \in O2 : u[k] = em2[i].source /\ Rank(O2, i) >= F
      <4>1. CASE k \in 1..Len(sampled)
        BY <1>8, <2>4, <4>1
      <4>2. CASE k = Len(sampled) + 1
        BY <1>6, <2>4, <3>1, <4>2
      <4> QED
        BY <2>5, <4>1, <4>2
    <3> QED
      BY <3>2
  <2>8. \A j, k \in 1..Len(u) : u[j] = u[k] => j = k
    BY <1>8, <2>4, <2>5
  <2>9. /\ Len(u) <= M /\ C + 1 >= F + Len(u)
        /\ Len(u) < M => C + 1 = F + Len(u)
    BY <1>2, <1>5, <1>15, <2>4, <2>6
  <2> QED
    <3>1. KeptOf(first, u, O2, em2)
      BY <1>1, <1>4, <1>5, <1>7, <2>4, <2>6, <2>7, <2>8, <2>9 DEF KeptOf
    <3> QED
      BY <1>3, <2>2, <2>3, <3>1
<1>16. CASE ~ (Len(first) < F) /\ ~ (Len(sampled) < M)
  <2>1. Len(first) = F /\ Len(sampled) = M /\ C >= F + M
    BY <1>2, <1>5, <1>16
  <2>2. \E u : /\ kept = [counted EXCEPT !.sampled = u] \/ (kept = counted /\ u = sampled)
               /\ u = [sampled EXCEPT ![slot + 1] = source] \/ u = sampled
    <3>1. Draws(counted)
      BY <1>1, <1>10, <2>1 DEF Draws
    <3>2. ~ (Len(counted.first) < FIRST_EXEMPLARS) /\ ~ (Len(counted.sampled) < SAMPLED_EXEMPLARS)
      BY <1>1, <1>10, <1>16
    <3>3. \/ kept = [counted EXCEPT !.sampled = [counted.sampled EXCEPT ![slot + 1] = source]]
          \/ kept = counted
      BY <1>11, <1>12, <3>1, <3>2, Zenon DEF KeepExemplar
    <3>4. PICK u : u = [sampled EXCEPT ![slot + 1] = source]
      OBVIOUS
    <3>5. CASE kept = [counted EXCEPT !.sampled = [counted.sampled EXCEPT ![slot + 1] = source]]
      BY <1>10, <3>4, <3>5
    <3> QED
      BY <3>3, <3>5
  <2>3. PICK u : /\ kept = [counted EXCEPT !.sampled = u] \/ (kept = counted /\ u = sampled)
                 /\ u = [sampled EXCEPT ![slot + 1] = source] \/ u = sampled
    BY <2>2
  <2>4. final.sampled = u /\ final.first = first
    BY <1>9, <1>10, <1>13, <2>3 DEF Fields
  <2>5. /\ IsSeq(u) /\ Len(u) = Len(sampled)
        /\ \A i \in 1..Len(sampled) : u[i] = sampled[i] \/ (u[i] = source /\ i = slot + 1)
    <3>1. CASE u = sampled
      BY <1>5, <3>1
    <3>2. CASE u = [sampled EXCEPT ![slot + 1] = source]
      <4>1. PICK k : k = slot + 1
        OBVIOUS
      <4>2. u = [sampled EXCEPT ![k] = source]
        BY <3>2, <4>1
      <4>3. /\ IsSeq(u) /\ Len(u) = Len(sampled)
            /\ \A i \in 1..Len(sampled) : u[i] = sampled[i] \/ (u[i] = source /\ i = k)
        <5>1. Puts(sampled, k, source, u)
          BY <4>2 DEF Puts
        <5> QED
          BY <1>5, <5>1, Replaced
      <4> QED
        BY <4>1, <4>3
    <3> QED
      BY <2>3, <3>1, <3>2
  <2>6. \A k \in 1..Len(u) : \E i \in O2 : u[k] = em2[i].source /\ Rank(O2, i) >= F
    <3>1. C >= F
      BY <1>2, <2>1
    <3> QED
      <4>1. ASSUME NEW k \in 1..Len(u)
            PROVE  \E i \in O2 : u[k] = em2[i].source /\ Rank(O2, i) >= F
        <5>1. CASE u[k] = sampled[k]
          BY <1>8, <2>5, <5>1
        <5>2. CASE u[k] = source
          BY <1>6, <3>1, <5>2
        <5> QED
          BY <2>5, <5>1, <5>2
      <4> QED
        BY <4>1
  <2>7. \A j, k \in 1..Len(u) : u[j] = u[k] => j = k
    BY <1>8, <2>5
  <2>8. /\ Len(first) = F /\ Len(u) <= M /\ C + 1 >= F + Len(u)
        /\ ~ (Len(u) < M)
    BY <1>2, <2>1, <2>5
  <2> QED
    <3>1. KeptOf(first, u, O2, em2)
      BY <1>1, <1>4, <1>5, <1>7, <2>5, <2>6, <2>7, <2>8 DEF KeptOf
    <3> QED
      BY <1>3, <2>4, <3>1
<1> QED
  BY <1>14, <1>15, <1>16

-----------------------------------------------------------------------------
(* The sample, in the order of its lines.                                   *)

\* The order of the lines, and where in it a line of the sample is.
Precedes(s, i, j) == s[i].seq < s[j].seq \/ (s[i].seq = s[j].seq /\ i < j)

Preceding(s, i) == {j \in DOMAIN s : Precedes(s, j, i)}

Place(s, i) == Cardinality(Preceding(s, i)) + 1

LEMMA PrecedesIsOrder ==
  ASSUME NEW s, NEW m \in Nat, DOMAIN s = 1..m, \A i \in 1..m : s[i].seq \in Nat
  PROVE  /\ \A i \in 1..m : ~ Precedes(s, i, i)
         /\ \A i, j \in 1..m : i = j \/ Precedes(s, i, j) \/ Precedes(s, j, i)
         /\ \A i, j, k \in 1..m : Precedes(s, i, j) /\ Precedes(s, j, k) => Precedes(s, i, k)
<1>1. \A i \in 1..m : ~ Precedes(s, i, i)
  BY DEF Precedes
<1>2. \A i, j \in 1..m : i = j \/ Precedes(s, i, j) \/ Precedes(s, j, i)
  BY DEF Precedes
<1>3. \A i, j, k \in 1..m : Precedes(s, i, j) /\ Precedes(s, j, k) => Precedes(s, i, k)
  BY DEF Precedes
<1> QED
  BY <1>1, <1>2, <1>3

\* What precedes has the lower place, and every place is within the sample.
LEMMA PlacesAreOrdered ==
  ASSUME NEW s, NEW m \in Nat, DOMAIN s = 1..m, \A i \in 1..m : s[i].seq \in Nat,
         NEW i \in 1..m, NEW j \in 1..m
  PROVE  /\ Place(s, i) \in 1..m
         /\ Precedes(s, i, j) => Place(s, i) < Place(s, j)
<1>1. IsFiniteSet(1..m) /\ Cardinality(1..m) = m
  <2>1. /\ IsFiniteSet(1..m)
        /\ Cardinality(1..m) = IF 1 > m THEN 0 ELSE m - 1 + 1
    BY FS_Interval
  <2> QED
    BY <2>1
<1>2. ASSUME NEW k \in 1..m
      PROVE  /\ IsFiniteSet(Preceding(s, k)) /\ Cardinality(Preceding(s, k)) \in Nat
             /\ Preceding(s, k) \in SUBSET 1..m /\ k \notin Preceding(s, k)
  <2>1. Preceding(s, k) \in SUBSET 1..m
    BY DEF Preceding
  <2>2. k \notin Preceding(s, k)
    BY PrecedesIsOrder DEF Preceding
  <2> QED
    BY <1>1, <2>1, <2>2, FS_Subset, FS_CardinalityType
<1>3. Place(s, i) \in 1..m
  <2>1. PICK P : P = Preceding(s, i)
    OBVIOUS
  <2>2. P \in SUBSET 1..m /\ P # 1..m /\ Cardinality(P) \in Nat
    BY <1>2, <2>1
  <2>3. Cardinality(P) <= m /\ Cardinality(P) # m
    BY <1>1, <2>2, FS_Subset
  <2> QED
    BY <2>1, <2>2, <2>3 DEF Place
<1>4. ASSUME Precedes(s, i, j)
      PROVE  Place(s, i) < Place(s, j)
  <2>1. PICK P, Q : P = Preceding(s, i) /\ Q = Preceding(s, j)
    OBVIOUS
  <2>2. P \in SUBSET Q
    BY <1>4, <2>1, PrecedesIsOrder DEF Preceding
  <2>3. i \in Q /\ i \notin P
    BY <1>2, <1>4, <2>1 DEF Preceding
  <2>4. IsFiniteSet(Q) /\ Cardinality(P) \in Nat /\ Cardinality(Q) \in Nat
    BY <1>2, <2>1
  <2>5. Cardinality(P) <= Cardinality(Q) /\ Cardinality(P) # Cardinality(Q)
    BY <2>2, <2>3, <2>4, FS_Subset
  <2> QED
    BY <2>1, <2>4, <2>5 DEF Place
<1> QED
  BY <1>3, <1>4

\* Each has a place of its own, and no place is without one.
LEMMA PlacesAreTaken ==
  ASSUME NEW s, NEW m \in Nat, DOMAIN s = 1..m, \A i \in 1..m : s[i].seq \in Nat
  PROVE  \A k \in 1..m : \E i \in 1..m : Place(s, i) = k
<1>1. PICK f : f = [i \in 1..m |-> Place(s, i)]
  OBVIOUS
<1>2. f \in [1..m -> 1..m]
  BY <1>1, PlacesAreOrdered
<1>3. ASSUME NEW i \in 1..m, NEW j \in 1..m, f[i] = f[j]
      PROVE  i = j
  <2>1. Place(s, i) = Place(s, j) /\ Place(s, i) \in 1..m
    BY <1>1, <1>3, PlacesAreOrdered
  <2>2. ~ Precedes(s, i, j) /\ ~ Precedes(s, j, i)
    BY <2>1, PlacesAreOrdered
  <2> QED
    BY <2>2, PrecedesIsOrder
<1>4. PICK I : I = 1..m
  OBVIOUS
<1>5. f \in Injection(I, I)
  BY <1>2, <1>3, <1>4 DEF Injection, IsInjective
<1>6. IsFiniteSet(I)
  BY <1>4, FS_Interval
<1>7. f \in Surjection(I, I)
  BY <1>5, <1>6, FS_Injection
<1>8. \A k \in I : \E i \in I : f[i] = k
  BY <1>7 DEF Surjection
<1> QED
  BY <1>1, <1>4, <1>8

\* t has the lines of s, in their order.
Sorted(s, t) ==
  /\ IsSeq(t) /\ Len(t) = Len(s)
  /\ \A k \in 1..Len(s) : \E i \in 1..Len(s) : t[k] = s[i]
  /\ \A j, k \in 1..Len(s) : t[j] = t[k] => j = k
  /\ \A j, k \in 1..Len(s) : j < k => t[j].seq <= t[k].seq

\* The sample in the order of its lines has the same lines, each of them once.
LEMMA BySeqSorts ==
  ASSUME NEW s, IsSeq(s), \A i \in 1..Len(s) : s[i].seq \in Nat,
         \A i, j \in 1..Len(s) : s[i] = s[j] => i = j
  PROVE  Sorted(s, BySeq(s))
<1>1. PICK m \in Nat : m = Len(s) /\ DOMAIN s = 1..m
  BY LenProperties DEF IsSeq
<1>2. PICK at : at = [k \in 1..m |-> CHOOSE i \in 1..m : Place(s, i) = k]
  OBVIOUS
<1>3. \A k \in 1..m : at[k] \in 1..m /\ Place(s, at[k]) = k
  <2>1. ASSUME NEW k \in 1..m
        PROVE  at[k] \in 1..m /\ Place(s, at[k]) = k
    <3>1. \E i \in 1..m : Place(s, i) = k
      BY <1>1, PlacesAreTaken
    <3> QED
      BY <1>2, <3>1
  <2> QED
    BY <2>1
<1>4. PICK t : t = BySeq(s)
  OBVIOUS
<1>5. t = [k \in 1..m |-> s[at[k]]]
  <2>1. t = [k \in DOMAIN s |-> s[CHOOSE i \in DOMAIN s : Place(s, i) = k]]
    BY <1>4, Zenon DEF BySeq, Place, Preceding, Precedes
  <2>2. t = [k \in 1..m |-> s[CHOOSE i \in 1..m : Place(s, i) = k]]
    BY <1>1, <2>1
  <2> QED
    BY <1>2, <2>2
<1>6. \A k \in 1..m : t[k] = s[at[k]]
  BY <1>5
<1>7. IsSeq(t) /\ Len(t) = m
  <2>1. PICK S : S = Range(s)
    OBVIOUS
  <2>2. s \in [1..m -> S]
    BY <1>1, <2>1, LenProperties DEF IsSeq
  <2>3. t \in [1..m -> S]
    BY <1>3, <1>5, <2>2
  <2>4. t \in Seq(S) /\ Len(t) = m
    BY <2>3, IsASeq
  <2> QED
    BY <2>4, SeqOfItsRange
<1>8. ASSUME NEW j \in 1..m, NEW k \in 1..m, t[j] = t[k]
      PROVE  j = k
  <2>1. at[j] = at[k]
    BY <1>1, <1>3, <1>6, <1>8
  <2> QED
    BY <1>3, <2>1
<1>a. ASSUME NEW x \in 1..m, NEW y \in 1..m
      PROVE  Precedes(s, y, x) => Place(s, y) < Place(s, x)
  <2>1. DOMAIN s = 1..m /\ \A i \in 1..m : s[i].seq \in Nat
    BY <1>1
  <2> QED
    BY <2>1, PlacesAreOrdered
<1>9. ASSUME NEW j \in 1..m, NEW k \in 1..m, j < k
      PROVE  t[j].seq <= t[k].seq
  <2>1. PICK x \in 1..m, y \in 1..m : x = at[j] /\ y = at[k] /\ Place(s, x) = j /\ Place(s, y) = k
    BY <1>3
  <2>2. ~ Precedes(s, y, x)
    BY <1>9, <1>a, <2>1
  <2>3. s[x].seq \in Nat /\ s[y].seq \in Nat /\ ~ (s[y].seq < s[x].seq)
    BY <1>1, <2>2 DEF Precedes
  <2>4. t[j] = s[x] /\ t[k] = s[y]
    BY <1>6, <2>1
  <2>5. \A a, b \in Nat : ~ (b < a) => a <= b
    OBVIOUS
  <2> QED
    BY <2>3, <2>4, <2>5
<1>10. \A k \in 1..m : \E i \in 1..m : t[k] = s[i]
  BY <1>3, <1>6
<1> QED
  BY <1>1, <1>4, <1>7, <1>8, <1>9, <1>10 DEF Sorted

-----------------------------------------------------------------------------
(* Every state of a run keeps what it should of every behavior.             *)

SourceOf(obs) == [stream |-> obs.stream, seq |-> obs.seq]

\* Of one line are at most an example and what it raised.
Distinct(em) ==
  \A i, j \in DOMAIN em : i < j /\ em[i].source = em[j].source =>
    em[i].behavior.kind = "test.example" /\ em[j].behavior.kind = "exception"

AggLines(a, em) ==
  \A b \in DOMAIN a.behaviors :
    KeptOf(a.behaviors[b].first, a.behaviors[b].sampled, Of(DOMAIN a.behaviors, em, b), em)

\* Two events of an aggregate's behavior are of two lines.
LEMMA LinesApart ==
  ASSUME NEW a, NEW em, AggExact(a, em), Distinct(em), NEW b,
         NEW i \in Of(DOMAIN a.behaviors, em, b), NEW j \in Of(DOMAIN a.behaviors, em, b),
         em[i].source = em[j].source
  PROVE  i = j
<1>1. i \in DOMAIN em /\ j \in DOMAIN em /\ \E n \in Nat : DOMAIN em = 1..n
  BY DEF Of, AggExact
<1>2. \/ em[i].behavior = em[j].behavior
      \/ capped(em[i].behavior.kind) /\ capped(em[j].behavior.kind)
  BY <1>1 DEF Of, AggExact, PastCap
<1>3. ASSUME NEW x \in DOMAIN em, NEW y \in DOMAIN em, x < y, em[x].source = em[y].source,
             \/ em[x].behavior = em[y].behavior
             \/ capped(em[x].behavior.kind)
      PROVE  FALSE
  <2>1. em[x].behavior.kind = "test.example" /\ em[y].behavior.kind = "exception"
    BY <1>3 DEF Distinct
  <2> QED
    BY <1>3, <2>1 DEF capped
<1>4. ~ (i < j) /\ ~ (j < i)
  BY <1>1, <1>2, <1>3
<1> QED
  BY <1>1, <1>4

LEMMA KeptElsewhere ==
  ASSUME NEW n \in Nat, NEW O, O \subseteq 1..n, NEW em, NEW em2,
         \A i \in 1..n : em2[i] = em[i],
         NEW first, NEW sampled, KeptOf(first, sampled, O, em)
  PROVE  KeptOf(first, sampled, O, em2)
<1>1. \A i \in O : em2[i].source = em[i].source
  OBVIOUS
<1>2. ASSUME NEW k \in 1..Len(first)
      PROVE  \E i \in O : first[k] = em2[i].source /\ Rank(O, i) = k - 1
  BY <1>1 DEF KeptOf
<1>3. ASSUME NEW k \in 1..Len(sampled)
      PROVE  \E i \in O : sampled[k] = em2[i].source /\ Rank(O, i) >= FIRST_EXEMPLARS
  BY <1>1 DEF KeptOf
<1> QED
  BY <1>2, <1>3 DEF KeptOf

LEMMA RecordKeepsLines ==
  ASSUME NEW a, NEW em, NEW em2, NEW n \in Nat, NEW e, Extends(em, em2, n, e),
         AggExact(a, em), AggLines(a, em), Distinct(em2), e.behavior # overflow_behavior
  PROVE  AggLines(Record(a, e), em2)
<1>1. PICK id, acc, final, D, D2, a2, O :
        /\ id = IdOf(a, e) /\ acc = AccFor(a, e) /\ final = FinalOf(a, e)
        /\ D = DOMAIN a.behaviors /\ D2 = D \cup {id} /\ a2 = Record(a, e)
        /\ O = Of(D, em, id)
  OBVIOUS
<1>2. AccExact(acc, D, em, id) /\ AggExact(a2, em2)
  BY <1>1, BeforeExact, RecordKeepsExact
<1>3. /\ DOMAIN a2.behaviors = D2 /\ \A b \in D \ {id} : a2.behaviors[b] = a.behaviors[b]
      /\ a2.behaviors[id] = final
      /\ LinesAfter(acc, final, e.source)
  BY <1>1, <1>2, RecordsCounts DEF FinalOf, AccExact
<1>4. /\ Of(D2, em2, id) = O \cup {n + 1}
      /\ \A b \in D \ {id} : Of(D2, em2, b) = Of(D, em, b)
  <2>1. /\ Of(DOMAIN a.behaviors \cup {IdOf(a, e)}, em2, IdOf(a, e))
             = Of(DOMAIN a.behaviors, em, IdOf(a, e)) \cup {n + 1}
        /\ \A b \in DOMAIN a.behaviors \ {IdOf(a, e)} :
             Of(DOMAIN a.behaviors \cup {IdOf(a, e)}, em2, b) = Of(DOMAIN a.behaviors, em, b)
    BY OneMoreOf
  <2> QED
    BY <1>1, <2>1
<1>5. \A b : Of(D, em, b) \subseteq 1..n
  BY DEF Of, Extends
<1>6. /\ \A i \in 1..n : em2[i] = em[i]
      /\ em2[n + 1] = e
  BY DEF Extends
<1>7. KeptOf(acc.first, acc.sampled, O, em)
  <2>1. CASE id \in D
    <3>1. acc = a.behaviors[id]
      BY <1>1, <2>1 DEF AccFor, AccOf, Lookup
    <3> QED
      BY <1>1, <2>1, <3>1 DEF AggLines
  <2>2. CASE id \notin D
    <3>1. acc = NewAccumulator
      BY <1>1, <2>2 DEF AccFor, AccOf, Lookup
    <3>2. acc.count = 0 /\ acc.first = <<>> /\ acc.sampled = <<>>
      BY <3>1 DEF NewAccumulator
    <3>3. Cardinality(O) = 0
      BY <1>1, <1>2, <3>2 DEF AccExact
    <3>4. IsSeq(<<>>) /\ Len(<<>>) = 0
      BY EmptySeq DEF IsSeq
    <3>5. 0 < FIRST_EXEMPLARS
      BY AggregatorAssumption
    <3>6. KeptOf(<<>>, <<>>, O, em)
      BY <3>3, <3>4, <3>5 DEF KeptOf
    <3> QED
      BY <3>2, <3>6
  <2> QED
    BY <2>1, <2>2
<1>8. KeptOf(final.first, final.sampled, O \cup {n + 1}, em2)
  <2>1. ASSUME NEW i \in O
        PROVE  em[i].source # e.source
    <3>1. i \in Of(D2, em2, id) /\ n + 1 \in Of(D2, em2, id) /\ i \in 1..n
      BY <1>1, <1>4, <1>5
    <3>2. em2[i].source # em2[n + 1].source
      BY <1>1, <1>2, <1>3, <3>1, LinesApart, SMTT(30)
    <3> QED
      BY <1>6, <3>1, <3>2
  <2>2. O \subseteq 1..n
    BY <1>1, <1>5
  <2>3. Apart(O, em, e.source)
    BY <2>1 DEF Apart
  <2> QED
    BY <1>3, <1>7, <2>2, <2>3, KeepStays
<1>9. ASSUME NEW b \in D \ {id}
      PROVE  KeptOf(a2.behaviors[b].first, a2.behaviors[b].sampled, Of(D2, em2, b), em2)
  <2>1. PICK x, P : x = a.behaviors[b] /\ P = Of(D, em, b)
    OBVIOUS
  <2>2. KeptOf(x.first, x.sampled, P, em) /\ P \subseteq 1..n
    BY <1>1, <1>5, <2>1 DEF AggLines
  <2>3. KeptOf(x.first, x.sampled, P, em2)
    BY <1>6, <2>2, KeptElsewhere
  <2> QED
    BY <1>3, <1>4, <2>1, <2>3
<1>10. ASSUME NEW b \in D2
       PROVE  KeptOf(a2.behaviors[b].first, a2.behaviors[b].sampled, Of(D2, em2, b), em2)
  <2>1. CASE b = id
    BY <1>3, <1>4, <1>8, <2>1
  <2>2. CASE b # id
    BY <1>1, <1>9, <2>2
  <2> QED
    BY <2>1, <2>2
<1> QED
  BY <1>1, <1>3, <1>10 DEF AggLines

\* An observation's events are recorded, of a line none was of.
LEMMA RecordedLines ==
  ASSUME NEW a, NEW em, IsSeq(em), AggExact(a, em), AggLines(a, em), Distinct(em),
         NEW obs, NEW events, Few(events, obs), \A i \in DOMAIN em : em[i].source # SourceOf(obs)
  PROVE  /\ Distinct(em \o events) /\ AggLines(RecordAll(a, events), em \o events)
         /\ \A i \in DOMAIN (em \o events) :
              \/ i \in DOMAIN em /\ (em \o events)[i] = em[i]
              \/ (em \o events)[i].source = SourceOf(obs)
<1>1. PICK n \in Nat : DOMAIN em = 1..n
  BY DEF AggExact
<1>2. PICK a2, em2 : a2 = RecordAll(a, events) /\ em2 = em \o events
  OBVIOUS
<1>3. \/ em2 = em /\ a2 = a
      \/ \E e : Real(e, obs) /\ OneAfter(a, em, n, e, a2, em2)
      \/ \E e1, e2, a1, em1 :
           /\ Real(e1, obs) /\ Real(e2, obs)
           /\ e1.behavior.kind = "test.example" /\ e2.behavior.kind = "exception"
           /\ OneAfter(a, em, n, e1, a1, em1) /\ OneAfter(a1, em1, n + 1, e2, a2, em2)
  BY <1>1, <1>2, EventByEvent
<1>4. ASSUME NEW e, Real(e, obs), NEW a1, NEW em1, OneAfter(a, em, n, e, a1, em1)
      PROVE  /\ Distinct(em1) /\ AggExact(a1, em1) /\ AggLines(a1, em1)
             /\ \A i \in 1..n : em1[i] = em[i]
             /\ em1[n + 1] = e /\ e.source = SourceOf(obs) /\ DOMAIN em1 = 1..(n + 1)
  <2>1. /\ \A i \in 1..n : em1[i] = em[i]
        /\ em1[n + 1] = e /\ e.source = SourceOf(obs) /\ DOMAIN em1 = 1..(n + 1)
    BY <1>4 DEF OneAfter, Extends, Real, SourceOf
  <2>2. \A i \in 1..(n + 1) : i \in 1..n \/ i = n + 1
    BY <1>1
  <2>3. ASSUME NEW i \in 1..(n + 1), NEW j \in 1..(n + 1), i < j, em1[i].source = em1[j].source
        PROVE  em1[i].behavior.kind = "test.example" /\ em1[j].behavior.kind = "exception"
    <3>1. i \in 1..n
      BY <1>1, <2>3
    <3>2. j \in 1..n
      BY <1>1, <2>1, <2>2, <2>3, <3>1
    <3> QED
      BY <1>1, <2>1, <2>3, <3>1, <3>2 DEF Distinct
  <2>4. Distinct(em1)
    BY <2>1, <2>3 DEF Distinct
  <2>5. AggExact(a1, em1) /\ AggLines(a1, em1)
    <3>1. Extends(em, em1, n, e) /\ a1 = Record(a, e) /\ e.behavior # overflow_behavior
      BY <1>4 DEF OneAfter, Real
    <3>2. AggExact(Record(a, e), em1)
      BY <1>1, <3>1, RecordKeepsExact
    <3>3. AggLines(Record(a, e), em1)
      BY <1>1, <2>4, <3>1, RecordKeepsLines
    <3> QED
      BY <3>1, <3>2, <3>3
  <2> QED
    BY <2>1, <2>4, <2>5
<1>5. CASE em2 = em /\ a2 = a
  BY <1>2, <1>5
<1>6. ASSUME NEW e, Real(e, obs), OneAfter(a, em, n, e, a2, em2)
      PROVE  /\ Distinct(em2) /\ AggLines(a2, em2)
             /\ \A i \in DOMAIN em2 : (i \in DOMAIN em /\ em2[i] = em[i]) \/ em2[i].source = SourceOf(obs)
  <2>1. /\ Distinct(em2) /\ AggLines(a2, em2)
        /\ \A i \in 1..n : em2[i] = em[i]
        /\ em2[n + 1].source = SourceOf(obs) /\ DOMAIN em2 = 1..(n + 1)
    BY <1>4, <1>6
  <2>2. \A i \in 1..(n + 1) : i \in 1..n \/ i = n + 1
    BY <1>1
  <2> QED
    BY <1>1, <2>1, <2>2
<1>7. ASSUME NEW e1, NEW e2, NEW a1, NEW em1, Real(e1, obs), Real(e2, obs),
             e1.behavior.kind = "test.example", e2.behavior.kind = "exception",
             OneAfter(a, em, n, e1, a1, em1), OneAfter(a1, em1, n + 1, e2, a2, em2)
      PROVE  /\ Distinct(em2) /\ AggLines(a2, em2)
             /\ \A i \in DOMAIN em2 : (i \in DOMAIN em /\ em2[i] = em[i]) \/ em2[i].source = SourceOf(obs)
  <2>1. /\ Distinct(em1) /\ AggExact(a1, em1) /\ AggLines(a1, em1)
        /\ \A i \in 1..n : em1[i] = em[i]
        /\ em1[n + 1] = e1 /\ e1.source = SourceOf(obs) /\ DOMAIN em1 = 1..(n + 1)
    BY <1>4, <1>7
  <2>2. /\ \A i \in 1..(n + 1) : em2[i] = em1[i]
        /\ em2[n + 2] = e2 /\ e2.source = SourceOf(obs) /\ DOMAIN em2 = 1..(n + 2)
    <3>1. PICK m \in Nat : m = n + 1
      BY <1>1
    <3>2. /\ \A i \in 1..m : em2[i] = em1[i]
          /\ em2[m + 1] = e2 /\ e2.source = SourceOf(obs) /\ DOMAIN em2 = 1..(m + 1)
      BY <1>7, <3>1 DEF OneAfter, Extends, Real, SourceOf
    <3>3. m + 1 = n + 2
      BY <1>1, <3>1
    <3> QED
      BY <3>1, <3>2, <3>3
  <2>3. \A i \in 1..(n + 2) : i \in 1..n \/ i = n + 1 \/ i = n + 2
    BY <1>1
  <2>4. ASSUME NEW i \in 1..(n + 2), NEW j \in 1..(n + 2), i < j, em2[i].source = em2[j].source
        PROVE  em2[i].behavior.kind = "test.example" /\ em2[j].behavior.kind = "exception"
    <3>1. CASE j = n + 2
      <4>1. i \notin 1..n
        BY <1>1, <2>1, <2>2, <2>4, <3>1
      <4>2. i = n + 1
        BY <1>1, <2>3, <2>4, <3>1, <4>1
      <4> QED
        BY <1>1, <1>7, <2>1, <2>2, <3>1, <4>2
    <3>2. CASE j # n + 2
      <4>1. i \in 1..(n + 1) /\ j \in 1..(n + 1)
        BY <1>1, <2>4, <3>2
      <4> QED
        BY <2>1, <2>2, <2>4, <4>1 DEF Distinct
    <3> QED
      BY <3>1, <3>2
  <2>5. Distinct(em2)
    BY <2>2, <2>4 DEF Distinct
  <2>6. AggLines(a2, em2)
    <3>1. PICK m \in Nat : m = n + 1
      BY <1>1
    <3>2. Extends(em1, em2, m, e2) /\ a2 = Record(a1, e2) /\ e2.behavior # overflow_behavior
      BY <1>7, <3>1 DEF OneAfter, Real
    <3>3. AggLines(Record(a1, e2), em2)
      BY <2>1, <2>5, <3>1, <3>2, RecordKeepsLines
    <3> QED
      BY <3>2, <3>3
  <2>7. ASSUME NEW i \in 1..(n + 2)
        PROVE  (i \in DOMAIN em /\ em2[i] = em[i]) \/ em2[i].source = SourceOf(obs)
    <3>1. i \in 1..n => i \in 1..(n + 1)
      BY <1>1
    <3>2. n + 1 \in 1..(n + 1)
      BY <1>1
    <3> QED
      BY <1>1, <2>1, <2>2, <2>3, <3>1, <3>2
  <2> QED
    BY <2>2, <2>5, <2>6, <2>7
<1> QED
  BY <1>1, <1>2, <1>3, <1>5, <1>6, <1>7

\* A line that was read, or the run's resources once they were charged.
Read(source, read, when) ==
  \/ \E s \in Streams : \E n \in 1..read[s] : source = [stream |-> s, seq |-> n]
  \/ when = "charged" /\ source = SourceOf(RUsage)

LinesInv ==
  /\ CountsInv
  /\ fed \in [Streams -> Nat]
  /\ Distinct(emitted) /\ AggLines(agg, emitted)
  /\ \A i \in DOMAIN emitted : Read(emitted[i].source, fed, suite)

LEMMA InitLines == Init => LinesInv
<1> SUFFICES ASSUME Init PROVE LinesInv
  OBVIOUS
<1>1. CountsInv
  BY InitCounts
<1>2. emitted = <<>> /\ agg = NewAggregator(Drawn) /\ fed = [s \in Streams |-> 0]
  BY DEF Init
<1>3. agg.behaviors = <<>>
  BY <1>2 DEF NewAggregator
<1>4. DOMAIN agg.behaviors = {} /\ DOMAIN emitted = {} /\ fed \in [Streams -> Nat]
  BY <1>2, <1>3
<1> QED
  BY <1>1, <1>4 DEF LinesInv, Distinct, AggLines

\* The next line of a stream is none of those that were read.
LEMMA NextIsNew ==
  ASSUME NEW read \in [Streams -> Nat], NEW s \in Streams, NEW when,
         NEW source, Read(source, read, when)
  PROVE  /\ source # [stream |-> s, seq |-> read[s] + 1]
         /\ Read(source, [read EXCEPT ![s] = @ + 1], when)
<1>1. PICK more : more = [read EXCEPT ![s] = read[s] + 1]
  OBVIOUS
<1>2. \A r \in Streams : read[r] \in Nat /\ more[r] \in Nat /\ read[r] <= more[r]
  BY <1>1
<1>3. CASE \E r \in Streams : \E n \in 1..read[r] : source = [stream |-> r, seq |-> n]
  <2>a. PICK r \in Streams : \E n \in 1..read[r] : source = [stream |-> r, seq |-> n]
    BY <1>3
  <2>1. PICK n \in 1..read[r] : source = [stream |-> r, seq |-> n]
    BY <2>a
  <2>2. n \in 1..more[r]
    BY <1>2, <2>1
  <2>3. source.stream = r /\ source.seq = n
    BY <2>1
  <2>4. source # [stream |-> s, seq |-> read[s] + 1]
    <3>1. read[s] + 1 \notin 1..read[s]
      BY <1>2
    <3> QED
      BY <2>1, <2>3, <3>1
  <2> QED
    BY <1>1, <2>1, <2>2, <2>4 DEF Read
<1>4. CASE when = "charged" /\ source = SourceOf(RUsage)
  <2>1. source.stream = "rusage"
    BY <1>4 DEF SourceOf, RUsage, Observation
  <2>2. s # "rusage"
    BY DEF Streams
  <2> QED
    BY <1>4, <2>1, <2>2 DEF Read
<1> QED
  BY <1>3, <1>4 DEF Read

LEMMA NextLines == LinesInv /\ [Next]_vars => LinesInv'
<1> SUFFICES ASSUME LinesInv, [Next]_vars PROVE LinesInv'
  OBVIOUS
<1>1. CountsInv'
  BY NextCounts DEF LinesInv
<1>2. CASE UNCHANGED <<agg, emitted, fed>> /\ (suite = "charged" => suite' = "charged")
  <2>1. \A i \in DOMAIN emitted : Read(emitted[i].source, fed, suite')
    BY <1>2 DEF LinesInv, Read
  <2>2. /\ fed' \in [Streams -> Nat]
        /\ Distinct(emitted') /\ AggLines(agg', emitted')
        /\ \A i \in DOMAIN emitted' : Read(emitted'[i].source, fed', suite')
    BY <1>2, <2>1 DEF LinesInv
  <2> QED
    BY <1>1, <2>2 DEF LinesInv, Distinct, AggLines, Read, KeptOf, Of, Rank, IsSeq
<1>3. ASSUME NEW obs, NEW events, Few(events, obs),
             emitted' = emitted \o events, agg' = RecordAll(agg, events),
             \A i \in DOMAIN emitted : emitted[i].source # SourceOf(obs),
             fed' \in [Streams -> Nat], Read(SourceOf(obs), fed', suite'),
             \A i \in DOMAIN emitted : Read(emitted[i].source, fed', suite')
      PROVE  LinesInv'
  <2>1. PICK a, em : a = agg /\ em = emitted
    OBVIOUS
  <2>2. /\ IsSeq(em) /\ AggExact(a, em) /\ AggLines(a, em) /\ Distinct(em)
        /\ \A i \in DOMAIN em : em[i].source # SourceOf(obs)
    BY <1>3, <2>1 DEF LinesInv, CountsInv
  <2>3. /\ Distinct(em \o events) /\ AggLines(RecordAll(a, events), em \o events)
        /\ \A i \in DOMAIN (em \o events) :
              \/ i \in DOMAIN em /\ (em \o events)[i] = em[i]
              \/ (em \o events)[i].source = SourceOf(obs)
    BY <1>3, <2>2, RecordedLines
  <2>4. PICK em2 : em2 = em \o events
    OBVIOUS
  <2>5. /\ Distinct(em2) /\ AggLines(agg', em2) /\ em2 = emitted'
        /\ \A i \in DOMAIN em2 : Read(em2[i].source, fed', suite')
    BY <1>3, <2>1, <2>3, <2>4
  <2>6. /\ fed' \in [Streams -> Nat]
        /\ Distinct(emitted') /\ AggLines(agg', emitted')
        /\ \A i \in DOMAIN emitted' : Read(emitted'[i].source, fed', suite')
    BY <1>3, <2>5
  <2> QED
    BY <1>1, <2>6 DEF LinesInv, Distinct, AggLines, Read, KeptOf, Of, Rank, IsSeq
<1>4. ASSUME NEW s \in Streams, Observe(s)
      PROVE  LinesInv'
  <2>1. PICK obs : obs = Observation(s, fed[s] + 1, out[s][fed[s] + 1])
    OBVIOUS
  <2>2. PICK events : events = EventsOf(chain, obs)
    OBVIOUS
  <2>3. /\ emitted' = emitted \o events /\ agg' = RecordAll(agg, events)
        /\ fed' = [fed EXCEPT ![s] = @ + 1] /\ suite' = suite
    BY <1>4, <2>1, <2>2 DEF Observe, Recorded, RecordAll, world
  <2>4. SourceOf(obs) = [stream |-> s, seq |-> fed[s] + 1]
    BY <2>1 DEF SourceOf, Observation
  <2>5. fed \in [Streams -> Nat] /\ fed' \in [Streams -> Nat] /\ fed[s] + 1 \in 1..fed'[s]
    BY <2>3 DEF LinesInv
  <2>6. Read(SourceOf(obs), fed', suite')
    BY <2>4, <2>5 DEF Read
  <2>7. ASSUME NEW i \in DOMAIN emitted
        PROVE  emitted[i].source # SourceOf(obs) /\ Read(emitted[i].source, fed', suite')
    <3>1. PICK source : source = emitted[i].source
      OBVIOUS
    <3>2. Read(source, fed, suite)
      BY <3>1 DEF LinesInv
    <3>3. /\ source # [stream |-> s, seq |-> fed[s] + 1]
          /\ Read(source, [fed EXCEPT ![s] = @ + 1], suite)
      BY <2>5, <3>2, NextIsNew
    <3> QED
      BY <2>3, <2>4, <3>1, <3>3
  <2>8. Few(events, obs)
    BY <2>2, FewEvents
  <2> QED
    BY <1>3, <2>3, <2>5, <2>6, <2>7, <2>8
<1>5. CASE record_resources
  <2>1. PICK events : events = <<ResourcesEvent(1)>>
    OBVIOUS
  <2>2. /\ emitted' = emitted \o events /\ agg' = RecordAll(agg, events)
        /\ fed' = fed /\ suite = "ended" /\ suite' = "charged"
    BY <1>5, <2>1 DEF record_resources, Recorded, RecordAll
  <2>3. Few(events, RUsage)
    BY <2>1, RealResources DEF Few
  <2>4. ASSUME NEW i \in DOMAIN emitted
        PROVE  emitted[i].source # SourceOf(RUsage) /\ Read(emitted[i].source, fed', suite')
    <3>1. Read(emitted[i].source, fed, suite)
      BY DEF LinesInv
    <3>2. PICK s \in Streams : \E n \in 1..fed[s] : emitted[i].source = [stream |-> s, seq |-> n]
      BY <2>2, <3>1 DEF Read
    <3>3. emitted[i].source.stream = s /\ s # "rusage"
      BY <3>2 DEF Streams
    <3>4. SourceOf(RUsage).stream = "rusage"
      BY DEF SourceOf, RUsage, Observation
    <3> QED
      BY <2>2, <3>2, <3>3, <3>4 DEF Read
  <2>5. Read(SourceOf(RUsage), fed', suite')
    BY <2>2 DEF Read
  <2>6. fed' \in [Streams -> Nat]
    BY <2>2 DEF LinesInv
  <2> QED
    BY <1>3, <2>2, <2>3, <2>4, <2>5, <2>6
<1>6. CASE Rspec \/ Cargo \/ EndCargo \/ Kill \/ UNCHANGED vars
  <2>1. UNCHANGED <<agg, emitted, fed>> /\ (suite = "charged" => suite' = "charged")
    BY <1>6 DEF Rspec, StartSuite, OtherEvent, EndSuite, NoteStart, StartExample, NoteEnd, EndExample, LogText, Logs,
                LogQuery, LogStarted, LogProcessing, LogCompleted, Cargo, Test, Prints, TestPrints,
                TestResult, Failed, EndCargo, Kill, vars, siftr, world
  <2> QED
    BY <1>2, <2>1
<1> QED
  BY <1>4, <1>5, <1>6 DEF Next

LEMMA LinesInvariant == Spec => []LinesInv
BY InitLines, NextLines, PTL DEF Spec

LEMMA MinNat ==
  ASSUME NEW x \in Nat, NEW y \in Nat
  PROVE  Min({x, y}) = IF x <= y THEN x ELSE y
<1>1. Min({x, y}) = CHOOSE z \in {x, y} : \A w \in {x, y} : z <= w
  BY Zenon DEF Min
<1>2. \E z \in {x, y} : \A w \in {x, y} : z <= w
  OBVIOUS
<1> QED
  BY <1>1, <1>2

\* The events of O are of lines of their own.
OneEach(O, em) ==
  /\ \A i \in O : em[i].source.seq \in Nat
  /\ \A i, j \in O : em[i].source = em[j].source => i = j

\* The exemplars of O's events.
RealOf(kept, O, em) ==
  /\ Len(kept) = Min({Cardinality(O), FIRST_EXEMPLARS + SAMPLED_EXEMPLARS})
  /\ IsInjective(kept)
  /\ \A k \in DOMAIN kept : \E i \in O :
       /\ kept[k] = em[i].source
       /\ IF k <= FIRST_EXEMPLARS THEN Rank(O, i) = k - 1 ELSE Rank(O, i) >= FIRST_EXEMPLARS
  /\ \A j, k \in FIRST_EXEMPLARS + 1..Len(kept) : j < k => kept[j].seq <= kept[k].seq

\* A behavior's exemplars, of what its accumulator keeps.
LEMMA KeptAreReal ==
  ASSUME NEW n \in Nat, NEW O, O \subseteq 1..n, NEW em, NEW acc,
         KeptOf(acc.first, acc.sampled, O, em), OneEach(O, em)
  PROVE  RealOf(Exemplars(acc), O, em)
<1>0. /\ \A i \in O : em[i].source.seq \in Nat
      /\ \A i, j \in O : em[i].source = em[j].source => i = j
  BY DEF OneEach
<1>1. PICK F, M, first, sampled, t, kept :
        /\ F = FIRST_EXEMPLARS /\ M = SAMPLED_EXEMPLARS
        /\ first = acc.first /\ sampled = acc.sampled
        /\ t = BySeq(sampled) /\ kept = first \o t
  OBVIOUS
<1>2. F \in Nat /\ M \in Nat /\ Cardinality(O) \in Nat
  BY <1>1, AggregatorAssumption, OneMore
<1>3. PICK C \in Nat : C = Cardinality(O)
  BY <1>2
<1>4. KeptOf(first, sampled, O, em)
  BY <1>1
<1>5. PICK p \in Nat, m \in Nat : p = Len(first) /\ m = Len(sampled)
  BY <1>4, LenProperties DEF KeptOf, IsSeq
<1>6. \/ p < F /\ p = C /\ m = 0
      \/ p = F /\ m <= M /\ C >= F + m /\ (m < M => C = F + m)
  BY <1>1, <1>3, <1>4, <1>5 DEF KeptOf
<1>7. /\ \A k \in 1..p : \E i \in O : first[k] = em[i].source /\ Rank(O, i) = k - 1
      /\ \A k \in 1..m : \E i \in O : sampled[k] = em[i].source /\ Rank(O, i) >= F
      /\ \A j, k \in 1..m : sampled[j] = sampled[k] => j = k
  BY <1>1, <1>4, <1>5 DEF KeptOf
<1>8. /\ IsSeq(t) /\ Len(t) = m
      /\ \A k \in 1..m : \E i \in 1..m : t[k] = sampled[i]
      /\ \A j, k \in 1..m : t[j] = t[k] => j = k
      /\ \A j, k \in 1..m : j < k => t[j].seq <= t[k].seq
  <2>1. IsSeq(sampled)
    BY <1>4 DEF KeptOf
  <2>2. \A i \in 1..Len(sampled) : sampled[i].seq \in Nat
    BY <1>0, <1>5, <1>7
  <2>3. \A i, j \in 1..Len(sampled) : sampled[i] = sampled[j] => i = j
    BY <1>5, <1>7
  <2>4. Sorted(sampled, BySeq(sampled))
    BY <2>1, <2>2, <2>3, BySeqSorts
  <2> QED
    BY <1>1, <1>5, <2>4, SMTT(30) DEF Sorted
<1>9. /\ IsSeq(kept) /\ DOMAIN kept = 1..(p + m) /\ Len(kept) = p + m
      /\ \A k \in 1..p : kept[k] = first[k]
      /\ \A k \in 1..m : kept[p + k] = t[k]
  <2>1. IsSeq(first)
    BY <1>4 DEF KeptOf
  <2>2. Joins(first, t, first \o t)
    BY <1>8, <2>1, Joined
  <2>3. Joins(first, t, kept)
    BY <1>1, <2>2
  <2>4. /\ IsSeq(kept) /\ DOMAIN kept = 1..(p + m)
        /\ \A k \in 1..p : kept[k] = first[k]
        /\ \A k \in 1..m : kept[p + k] = t[k]
    BY <1>5, <1>8, <2>3 DEF Joins
  <2>5. Len(kept) = p + m
    <3>1. PICK l \in Nat : l = Len(kept) /\ DOMAIN kept = 1..l
      BY <2>4, LenProperties DEF IsSeq
    <3>2. 1..l = 1..(p + m)
      BY <2>4, <3>1
    <3>3. CASE l < p + m
      <4>1. p + m \in 1..(p + m) /\ p + m \notin 1..l
        BY <3>3
      <4> QED
        BY <3>2, <4>1
    <3>4. CASE p + m < l
      <4>1. l \in 1..l /\ l \notin 1..(p + m)
        BY <3>4
      <4> QED
        BY <3>2, <4>1
    <3> QED
      BY <3>1, <3>3, <3>4
  <2> QED
    BY <2>4, <2>5
<1>10. ASSUME NEW k \in 1..(p + m)
       PROVE  \/ /\ k \in 1..p /\ k <= F /\ kept[k] = first[k]
                 /\ \E i \in O : kept[k] = em[i].source /\ Rank(O, i) = k - 1
              \/ /\ p = F /\ ~ (k <= F) /\ k - p \in 1..m /\ kept[k] = t[k - p]
                 /\ \E i \in O : kept[k] = em[i].source /\ Rank(O, i) >= F
  <2>1. CASE k <= p
    <3>1. k \in 1..p /\ k <= F
      BY <1>2, <1>6, <2>1
    <3> QED
      BY <1>7, <1>9, <3>1
  <2>2. CASE ~ (k <= p)
    <3>1. PICK j \in 1..m : j = k - p /\ k = p + j
      BY <2>2
    <3>2. p = F /\ ~ (k <= F)
      BY <1>2, <1>6, <2>2, <3>1
    <3>3. kept[k] = t[j]
      BY <1>9, <3>1
    <3>4. \E i \in O : kept[k] = em[i].source /\ Rank(O, i) >= F
      <4>1. PICK x \in 1..m : t[j] = sampled[x]
        BY <1>8, <3>1
      <4>2. PICK i \in O : sampled[x] = em[i].source /\ Rank(O, i) >= F
        BY <1>7, <4>1
      <4> QED
        BY <3>3, <4>1, <4>2
    <3> QED
      BY <3>1, <3>2, <3>3, <3>4
  <2> QED
    BY <2>1, <2>2
<1>11. Len(kept) = Min({C, F + M})
  <2>1. Min({C, F + M}) = IF C <= F + M THEN C ELSE F + M
    BY <1>2, MinNat
  <2>2. p + m = IF C <= F + M THEN C ELSE F + M
    BY <1>2, <1>6
  <2> QED
    BY <1>9, <2>1, <2>2
<1>12. ASSUME NEW j \in 1..(p + m), NEW k \in 1..(p + m), kept[j] = kept[k]
       PROVE  j = k
  <2>1. CASE j <= F /\ k <= F
    <3>1. PICK x \in O : kept[j] = em[x].source /\ Rank(O, x) = j - 1
      BY <1>10, <2>1
    <3>2. PICK y \in O : kept[k] = em[y].source /\ Rank(O, y) = k - 1
      BY <1>10, <2>1
    <3>3. x = y
      BY <1>0, <1>12, <3>1, <3>2
    <3> QED
      BY <3>1, <3>2, <3>3
  <2>2. CASE ~ (j <= F) /\ ~ (k <= F)
    <3>1. j - p \in 1..m /\ k - p \in 1..m /\ t[j - p] = t[k - p]
      BY <1>10, <1>12, <2>2
    <3>2. PICK x \in 1..m, y \in 1..m : x = j - p /\ y = k - p /\ t[x] = t[y]
      BY <3>1
    <3>3. x = y
      BY <1>8, <3>2
    <3> QED
      BY <3>2, <3>3
  <2>3. ASSUME NEW x \in 1..(p + m), NEW y \in 1..(p + m), x <= F, ~ (y <= F)
        PROVE  kept[x] # kept[y]
    <3>1. PICK u \in O : kept[x] = em[u].source /\ Rank(O, u) = x - 1
      BY <1>10, <2>3
    <3>2. PICK v \in O : kept[y] = em[v].source /\ Rank(O, v) >= F
      BY <1>10, <2>3
    <3>3. u # v
      BY <1>2, <2>3, <3>1, <3>2
    <3> QED
      BY <1>0, <3>1, <3>2, <3>3
  <2> QED
    BY <1>12, <2>1, <2>2, <2>3
<1>13. ASSUME NEW j \in (F + 1)..(p + m), NEW k \in (F + 1)..(p + m), j < k
       PROVE  kept[j].seq <= kept[k].seq
  <2>1. j \in 1..(p + m) /\ k \in 1..(p + m) /\ ~ (j <= F) /\ ~ (k <= F)
    BY <1>2, <1>13
  <2>a. /\ \/ j <= F
           \/ j - p \in 1..m /\ kept[j] = t[j - p]
        /\ \/ k <= F
           \/ k - p \in 1..m /\ kept[k] = t[k - p]
    BY <1>10, <2>1
  <2>2. /\ j - p \in 1..m /\ kept[j] = t[j - p]
        /\ k - p \in 1..m /\ kept[k] = t[k - p]
    BY <2>1, <2>a
  <2>3. PICK x \in 1..m, y \in 1..m : x = j - p /\ y = k - p /\ x < y
    BY <1>13, <2>2
  <2>4. t[x].seq <= t[y].seq
    BY <1>8, <2>3
  <2> QED
    BY <2>2, <2>3, <2>4
<1>14. kept = Exemplars(acc)
  BY <1>1, Zenon DEF Exemplars
<1>15. IsInjective(kept)
  BY <1>9, <1>12 DEF IsInjective
<1>16. \A k \in DOMAIN kept : \E i \in O :
         /\ kept[k] = em[i].source
         /\ IF k <= F THEN Rank(O, i) = k - 1 ELSE Rank(O, i) >= F
  <2>1. ASSUME NEW k \in 1..(p + m)
        PROVE  \E i \in O : /\ kept[k] = em[i].source
                            /\ IF k <= F THEN Rank(O, i) = k - 1 ELSE Rank(O, i) >= F
    BY <1>10
  <2> QED
    BY <1>9, <2>1
<1>17. \A j, k \in F + 1..Len(kept) : j < k => kept[j].seq <= kept[k].seq
  BY <1>9, <1>13
<1> QED
  BY <1>1, <1>3, <1>11, <1>14, <1>15, <1>16, <1>17 DEF RealOf

LEMMA LinesFollow == LinesInv => ExemplarsReal
<1> SUFFICES ASSUME LinesInv, NEW b \in DOMAIN agg.behaviors
             PROVE  LET kept == Exemplars(agg.behaviors[b])
                    IN /\ Len(kept) = Min({Cardinality(EventsIn(b)),
                                           FIRST_EXEMPLARS + SAMPLED_EXEMPLARS})
                       /\ IsInjective(kept)
                       /\ \A k \in DOMAIN kept : \E n \in EventsIn(b) :
                            /\ kept[k] = emitted[n].source
                            /\ IF k <= FIRST_EXEMPLARS THEN Earlier(b, n) = k - 1
                               ELSE Earlier(b, n) >= FIRST_EXEMPLARS
                       /\ \A j, k \in FIRST_EXEMPLARS + 1..Len(kept) :
                            j < k => kept[j].seq <= kept[k].seq
  BY DEF ExemplarsReal
<1>1. PICK O, em, acc : O = EventsIn(b) /\ em = emitted /\ acc = agg.behaviors[b]
  OBVIOUS
<1>2. O = Of(DOMAIN agg.behaviors, em, b)
  BY <1>1 DEF EventsIn, Of
<1>3. PICK n \in Nat : DOMAIN em = 1..n
  BY <1>1 DEF LinesInv, CountsInv, AggExact
<1>4. O \subseteq 1..n
  BY <1>2, <1>3 DEF Of
<1>5. KeptOf(acc.first, acc.sampled, O, em)
  BY <1>1, <1>2 DEF LinesInv, AggLines
<1>6. ASSUME NEW i \in O
      PROVE  em[i].source.seq \in Nat
  <2>1. Read(em[i].source, fed, suite)
    BY <1>1, <1>3, <1>4 DEF LinesInv
  <2>2. CASE \E s \in Streams : \E k \in 1..fed[s] : em[i].source = [stream |-> s, seq |-> k]
    <3>a. PICK s \in Streams : \E k \in 1..fed[s] : em[i].source = [stream |-> s, seq |-> k]
      BY <2>2
    <3>1. PICK k \in 1..fed[s] : em[i].source = [stream |-> s, seq |-> k]
      BY <3>a
    <3>2. fed[s] \in Nat /\ em[i].source.seq = k
      BY <3>1 DEF LinesInv
    <3> QED
      BY <3>1, <3>2
  <2>3. CASE em[i].source = SourceOf(RUsage)
    BY <2>3 DEF SourceOf, RUsage, Observation
  <2> QED
    BY <2>1, <2>2, <2>3 DEF Read
<1>7. ASSUME NEW i \in O, NEW j \in O, em[i].source = em[j].source
      PROVE  i = j
  BY <1>1, <1>2, <1>7, LinesApart DEF LinesInv, CountsInv
<1>8. RealOf(Exemplars(acc), O, em)
  <2>1. OneEach(O, em)
    BY <1>6, <1>7 DEF OneEach
  <2> QED
    BY <1>4, <1>5, <2>1, KeptAreReal
<1>9. \A i : Earlier(b, i) = Rank(O, i)
  BY <1>1 DEF Earlier, Rank
<1> QED
  BY <1>1, <1>8, <1>9, Zenon DEF RealOf

\* A behavior's exemplars are lines it was recorded from, whatever the generator
\* draws: its first ones, and as many others as there is room for, in order of
\* their lines, none of them twice.
THEOREM ExemplarsAreReal == Spec => []ExemplarsReal
BY LinesInvariant, LinesFollow, PTL

-----------------------------------------------------------------------------
(* Where the lines of the log were written, however many workers run.       *)

OneWorker == \E w : Workers = {w}

\* Where the log's n-th line ends.
LenTo(lines, n) == Length(SubSeq(lines, 1, n))

\* The request a worker is in, if it is in one.
Block ==
  {NoRequest} \cup
  [method : {"GET"}, action : Actions \cup {NoExample}, scope : {NoScope}, queries : Nat]

\* The request a worker is in after it logged a line.
NextBlock(l) ==
  CASE l.is = "started" -> [NoRequest EXCEPT !.method = "GET"]
    [] l.is = "processing" -> [l.block EXCEPT !.action = l.action]
    [] l.is = "query" /\ l.block # NoRequest /\ counts(l) -> [l.block EXCEPT !.queries = @ + 1]
    [] l.is = "completed" -> NoRequest
    [] OTHER -> l.block

\* A line of the log.
LogLine(l) ==
  /\ l.is \in {"text", "query", "started", "processing", "completed"}
  /\ l.len \in Nat \ {0}
  /\ l.block \in Block
  /\ l.by # NoExample => l.by \in Examples /\ l.by \in l.during
  /\ l.is = "query" => \E q \in Statements : l.name = q.name /\ l.sql = q.sql /\ l.asks = q.asks
  /\ l.is = "started" => l.method = "GET"
  /\ l.is = "processing" => l.action \in Actions
  /\ l.is \in {"processing", "completed"} => l.block # NoRequest

\* A log's lines take room.
LogOk(lines) ==
  /\ IsSeq(lines)
  /\ \A n \in 0..Len(lines) : LenTo(lines, n) \in Nat
  /\ \A m, n \in 0..Len(lines) : m < n => LenTo(lines, m) < LenTo(lines, n)
  /\ \A n \in 1..Len(lines) : LogLine(lines[n])

\* With one worker a line in a request goes on with that of the line before, and the
\* request a worker is in is that of the last line.
BlocksOk(lines, requests) ==
  /\ \A n \in 1..Len(lines) :
       lines[n].block # NoRequest => n > 1 /\ lines[n].block = NextBlock(lines[n - 1])
  /\ \A w \in Workers : requests[w] # NoRequest =>
       Len(lines) > 0 /\ requests[w] = NextBlock(lines[Len(lines)])

\* What a worker may run.
Run ==
  [example : Examples, is : {"starting", "running", "ending"}, offset : Nat \cup {NoNumber},
   placed : BOOLEAN]

\* Whether a worker runs an example, and whether that is from the look at its start to
\* the one at its end.
Has(runs, e) == \E w \in Workers : runs[w] # NoExample /\ runs[w].example = e

Runs(runs, e) ==
  \E w \in Workers : runs[w] # NoExample /\ runs[w].is # "ending" /\ runs[w].example = e

\* A look at the log that a worker took and did not yet write.
HasSeen(r, stage, e, o) == r # NoExample /\ r.is = stage /\ r.example = e /\ r.offset = o

\* Whether a look at the log said o of an example.
Seen(events, runs, stage, is, e, o) ==
  \/ \E j \in 1..Len(events) : events[j].is = is /\ events[j].id = e.id /\ events[j].offset = o
  \/ \E w \in Workers : HasSeen(runs[w], stage, e, o)

Began(events, runs, e, o) == Seen(events, runs, "starting", "example_started", e, o)
Finished(events, runs, e, o) == Seen(events, runs, "ending", "example", e, o)

\* An example ran from the log's a-th line to its b-th, which is what was seen of it.
Span(lines, events, runs, e, a, b) ==
  /\ a <= b
  /\ \A n \in 1..Len(lines) : e \in lines[n].during <=> a < n /\ n <= b
  /\ \A o : Began(events, runs, e, o) => o \in {LenTo(lines, a), NoNumber}
  /\ \A o : Finished(events, runs, e, o) => o \in {LenTo(lines, b), NoNumber}
  /\ Runs(runs, e) => b = Len(lines) /\ \A o : ~ Finished(events, runs, e, o)

SpanOk(lines, events, runs, e) ==
  \E a, b \in 0..Len(lines) : Span(lines, events, runs, e, a, b)

\* An example that did not start.
Unseen(lines, events, runs, e) ==
  /\ ~ Has(runs, e)
  /\ \A o : ~ Began(events, runs, e, o) /\ ~ Finished(events, runs, e, o)
  /\ \A n \in 1..Len(lines) : e \notin lines[n].during

\* An event that says where the log was.
Places(l) == l.is \in {"example_started", "example"} /\ l.offset # NoNumber

\* An event is an example's.
EventOk(l) ==
  l.is \in {"example_started", "example"} =>
    \E e \in Examples : l.id = e.id /\ (l.is = "example" => Identity(l) = Ident(e))

\* The log was there at an event, and never before it further on.
Clear(events, k) ==
  /\ Places(events[k])
  /\ \A j \in 1..(k - 1) : Places(events[j]) => events[j].offset <= events[k].offset

\* What was written since the start of an example that was placed so far.
PlacedRun(events, r) ==
  /\ r.is = "starting" =>
       /\ r.offset # NoNumber
       /\ \A j \in 1..Len(events) : Places(events[j]) => events[j].offset <= r.offset
  /\ r.is # "starting" =>
       /\ Len(events) > 0 /\ Clear(events, Len(events))
       /\ events[Len(events)].is = "example_started" /\ events[Len(events)].id = r.example.id
  /\ r.is = "ending" => r.offset # NoNumber

\* The end of an example that was placed.
PlacedEnd(events, k) ==
  /\ k > 1 /\ events[k - 1].is = "example_started" /\ events[k].is = "example"
  /\ events[k - 1].id = events[k].id
  /\ Clear(events, k - 1) /\ Places(events[k])

PlacedOk(events, runs, done) ==
  /\ \A w \in Workers : runs[w] # NoExample /\ runs[w].placed =>
       PlacedRun(events, runs[w]) /\ \A v \in Workers : runs[v] # NoExample => v = w
  /\ \A e \in Examples : e.id \in done =>
       \E k \in 1..Len(events) : events[k].id = e.id /\ PlacedEnd(events, k)

\* No two workers run the same example.
NoneShared(runs) ==
  \A v, w \in Workers :
    runs[v] # NoExample /\ runs[w] # NoExample /\ runs[v].example = runs[w].example => v = w

EventsOk(lines, events, runs, left, done) ==
  /\ IsSeq(events)
  /\ \A k \in 1..Len(events) : EventOk(events[k])
  /\ NoneShared(runs)
  /\ \A e \in Examples : SpanOk(lines, events, runs, e)
  /\ \A e \in left : Unseen(lines, events, runs, e)
  /\ PlacedOk(events, runs, done)

WorldInv ==
  /\ DOMAIN out = Streams
  /\ running \in [Workers -> {NoExample} \cup Run] /\ block \in [Workers -> Block]
  /\ todo \subseteq Examples
  /\ LogOk(out.log) /\ (OneWorker => BlocksOk(out.log, block))
  /\ EventsOk(out.log, out.events, running, todo, placed)

-----------------------------------------------------------------------------
(* How long a log is.                                                       *)

\* What the sum of the lengths is by definition, of the first n lines.
LengthEq(f, s, n) ==
  f = [t \in SUBSET (1..n) |-> IF t = {} THEN 0 ELSE f[t \ {Max(t)}] + s[Max(t)].len]

LengthOf(f, s) ==
  f = [t \in SUBSET DOMAIN s |-> IF t = {} THEN 0 ELSE f[t \ {Max(t)}] + s[Max(t)].len]

\* The same, a line at a time.
LengthWalk(h, s, n) == h[0] = 0 /\ \A k \in 1..n : h[k] = h[k - 1] + s[k].len

\* What holds at the start, and at each place if at the one before, holds at all.
LEMMA UpTo ==
  ASSUME NEW S, NEW n \in Nat, 0 \in S, \A k \in 1..n : k - 1 \in S => k \in S
  PROVE  \A k \in 0..n : k \in S
<1> SUFFICES ASSUME NEW k \in 0..n, k \notin S PROVE FALSE
  OBVIOUS
<1> DEFINE T == {j \in 0..n : j \notin S}
<1>1. T \in SUBSET Nat /\ k \in T
  OBVIOUS
<1>2. PICK o \in T : \A p \in T : o <= p
  BY <1>1, Least
<1>3. o # 0 /\ o \in 1..n /\ o - 1 \in 0..n
  BY <1>2
<1>4. o - 1 \notin T
  BY <1>2, <1>3
<1> QED
  BY <1>2, <1>3, <1>4

\* Of the members of a set of numbers up to n, one is the greatest.
LEMMA MaxIs ==
  ASSUME NEW n \in Nat, NEW s \in SUBSET (1..n), s # {}
  PROVE  Max(s) \in s /\ \A y \in s : Max(s) >= y
<1> DEFINE T == {n - i : i \in s}
<1>1. T \in SUBSET Nat
  OBVIOUS
<1>2. PICK i \in s : TRUE
  OBVIOUS
<1>3. PICK o \in T : \A p \in T : o <= p
  <2>1. PICK d : d = n - i
    OBVIOUS
  <2>2. d \in T
    BY <2>1
  <2> HIDE DEF T
  <2> QED
    BY <1>1, <2>2, Least
<1>4. PICK m \in s : o = n - m
  BY <1>3
<1>5. \A y \in s : m >= y
  <2> SUFFICES ASSUME NEW y \in s PROVE m >= y
    OBVIOUS
  <2>1. n - y \in T /\ y \in 1..n /\ m \in 1..n
    OBVIOUS
  <2>2. o <= n - y
    BY <1>3, <2>1
  <2> QED
    BY <1>4, <2>1, <2>2
<1> QED
  BY <1>4, <1>5, Zenon DEF Max

\* There is such a sum.
LEMMA LengthExists ==
  ASSUME NEW seq, NEW n \in Nat
  PROVE  \E f : LengthEq(f, seq, n)
<1> DEFINE S == {k \in 0..n : \E f : LengthEq(f, seq, k)}
<1>1. 0 \in S
  <2>1. SUBSET (1..0) = {{}}
    OBVIOUS
  <2>2. LengthEq([s \in {{}} |-> 0], seq, 0)
    BY <2>1 DEF LengthEq
  <2> QED
    BY <2>2
<1>2. ASSUME NEW k \in 1..n, k - 1 \in S PROVE k \in S
  <2>1. PICK f : LengthEq(f, seq, k - 1)
    BY <1>2
  <2> DEFINE g == [s \in SUBSET (1..k) |-> IF s = {} THEN 0 ELSE f[s \ {Max(s)}] + seq[Max(s)].len]
  <2>2. ASSUME NEW s \in SUBSET (1..(k - 1)) PROVE g[s] = f[s]
    <3>1. s \in SUBSET (1..k)
      OBVIOUS
    <3>2. g[s] = IF s = {} THEN 0 ELSE f[s \ {Max(s)}] + seq[Max(s)].len
      BY <3>1
    <3>3. f[s] = IF s = {} THEN 0 ELSE f[s \ {Max(s)}] + seq[Max(s)].len
      BY <2>1 DEF LengthEq
    <3> QED
      BY <3>2, <3>3
  <2>3. ASSUME NEW s \in SUBSET (1..k), s # {} PROVE s \ {Max(s)} \in SUBSET (1..(k - 1))
    <3>1. Max(s) \in s /\ \A y \in s : Max(s) >= y
      BY <2>3, MaxIs
    <3> SUFFICES ASSUME NEW y \in s, y # Max(s) PROVE y \in 1..(k - 1)
      OBVIOUS
    <3>2. y \in 1..k /\ Max(s) \in 1..k /\ Max(s) >= y
      BY <3>1
    <3> QED
      BY <3>2
  <2> HIDE DEF g
  <2>4. \A s \in SUBSET (1..k) : g[s] = IF s = {} THEN 0 ELSE g[s \ {Max(s)}] + seq[Max(s)].len
    <3> SUFFICES ASSUME NEW s \in SUBSET (1..k)
                 PROVE  g[s] = IF s = {} THEN 0 ELSE g[s \ {Max(s)}] + seq[Max(s)].len
      OBVIOUS
    <3>1. g[s] = IF s = {} THEN 0 ELSE f[s \ {Max(s)}] + seq[Max(s)].len
      BY DEF g
    <3> QED
      BY <3>1, <2>2, <2>3
  <2>5. LengthEq(g, seq, k)
    BY <2>4, Zenon DEF LengthEq, g
  <2> QED
    BY <2>5
<1> HIDE DEF S
<1>3. n \in S
  BY <1>1, <1>2, UpTo
<1> QED
  BY <1>3 DEF S

\* A length is summed from the first line to the last.
LEMMA LengthWalks ==
  ASSUME NEW s, NEW n \in Nat, DOMAIN s = 1..n
  PROVE  \E h : LengthWalk(h, s, n) /\ Length(s) = h[n]
<1> DEFINE fold == CHOOSE f : LengthOf(f, s)
<1>1. Length(s) = fold[1..n]
  BY Zenon DEF Length, FoldLeft, MapThenFoldSet, LengthOf
<1>a. \A f : LengthOf(f, s) <=> LengthEq(f, s, n)
  BY Zenon DEF LengthOf, LengthEq
<1>2. LengthEq(fold, s, n)
  BY <1>a, LengthExists, Zenon
<1> HIDE DEF fold
<1>3. PICK h : h = [k \in 0..n |-> fold[1..k]]
  OBVIOUS
<1>4. h[0] = 0
  <2>1. 1..0 = {} /\ {} \in SUBSET (1..n) /\ 0 \in 0..n
    OBVIOUS
  <2> QED
    BY <1>2, <1>3, <2>1 DEF LengthEq
<1>5. ASSUME NEW k \in 1..n PROVE h[k] = h[k - 1] + s[k].len
  <2>1. 1..k \in SUBSET (1..n) /\ 1..k # {} /\ k - 1 \in 0..n /\ k \in 0..n /\ k \in 1..k
    <3>1. k \in Nat /\ k >= 1 /\ k <= n
      OBVIOUS
    <3>2. 1..k \in SUBSET (1..n)
      BY <3>1
    <3>3. k \in 1..k /\ 1..k # {}
      BY <3>1
    <3>4. k - 1 \in 0..n /\ k \in 0..n
      BY <3>1
    <3> QED
      BY <3>2, <3>3, <3>4
  <2>2. Max(1..k) \in 1..k /\ Max(1..k) >= k
    BY <2>1, MaxIs
  <2>3. Max(1..k) = k /\ (1..k) \ {Max(1..k)} = 1..(k - 1)
    BY <2>2
  <2>4. fold[1..k] = fold[(1..k) \ {Max(1..k)}] + s[Max(1..k)].len
    BY <1>2, <2>1 DEF LengthEq
  <2> QED
    BY <1>3, <2>1, <2>3, <2>4
<1>6. LengthWalk(h, s, n)
  BY <1>4, <1>5, Zenon DEF LengthWalk
<1>7. Length(s) = h[n]
  BY <1>1, <1>3
<1> QED
  BY <1>6, <1>7

\* The lines of u are those of s and then l.
Grown(s, u, l) ==
  /\ IsSeq(s) /\ IsSeq(u) /\ Len(s) \in Nat /\ Len(u) = Len(s) + 1
  /\ DOMAIN s = 1..Len(s) /\ DOMAIN u = 1..Len(u)
  /\ \A i \in 1..Len(s) : u[i] = s[i]
  /\ u[Len(s) + 1] = l

\* A sequence with one more at its end.
LEMMA Grows ==
  ASSUME NEW s, IsSeq(s), NEW l
  PROVE  Grown(s, s \o <<l>>, l)
<1>1. PICK one, u : one = <<l>> /\ u = s \o one
  OBVIOUS
<1>2. IsSeq(one) /\ Len(one) = 1 /\ one[1] = l
  BY <1>1, Single
<1>3. Joins(s, one, s \o one)
  BY <1>2, Joined
<1>4. Joins(s, one, u)
  BY <1>1, <1>3
<1>5. Len(s) \in Nat /\ DOMAIN s = 1..Len(s) /\ Len(u) \in Nat /\ DOMAIN u = 1..Len(u)
  BY <1>4, LenProperties DEF IsSeq, Joins
<1>6. Len(u) = Len(s) + 1
  BY <1>2, <1>4, <1>5 DEF Joins
<1>7. u[Len(s) + 1] = l
  <2>1. 1 \in 1..Len(one)
    BY <1>2
  <2> QED
    BY <1>2, <1>4, <2>1 DEF Joins
<1>8. Grown(s, u, l)
  BY <1>4, <1>5, <1>6, <1>7 DEF Grown, Joins
<1> QED
  BY <1>1, <1>8

\* Where no line of a log ends, where the next one does, and that this is so of a log
\* that is longer.
LEMMA LenToIs ==
  ASSUME NEW s, IsSeq(s)
  PROVE  \E h : /\ LengthWalk(h, s, Len(s))
                /\ \A n \in 0..Len(s) : LenTo(s, n) = h[n]
<1>1. PICK m : m = Len(s)
  OBVIOUS
<1>2. m \in Nat /\ DOMAIN s = 1..m
  BY <1>1, LenProperties DEF IsSeq
<1>3. PICK h : LengthWalk(h, s, m)
  BY <1>2, LengthWalks
<1>4. ASSUME NEW n \in 0..m PROVE LenTo(s, n) = h[n]
  <2>1. PICK t : t = SubSeq(s, 1, n)
    OBVIOUS
  <2>2. n \in Nat /\ DOMAIN t = 1..n /\ \A k \in 1..n : t[k] = s[k]
    <3>1. PICK S : S = Range(s) /\ s \in Seq(S)
      BY DEF IsSeq
    <3> QED
      BY <1>1, <1>2, <2>1, <3>1, SubSeqProperties
  <2>3. PICK g : LengthWalk(g, t, n) /\ Length(t) = g[n]
    BY <2>2, LengthWalks
  <2> DEFINE S == {k \in 0..n : g[k] = h[k]}
  <2>4. 0 \in S
    BY <1>3, <2>2, <2>3 DEF LengthWalk
  <2>5. ASSUME NEW k \in 1..n, k - 1 \in S PROVE k \in S
    <3>1. k \in 1..m /\ t[k] = s[k] /\ k \in 0..n
      BY <1>2, <2>2
    <3>2. g[k] = g[k - 1] + t[k].len /\ h[k] = h[k - 1] + s[k].len
      BY <1>3, <2>3, <3>1 DEF LengthWalk
    <3> QED
      BY <2>5, <3>1, <3>2
  <2> HIDE DEF S
  <2>6. n \in S
    BY <2>2, <2>4, <2>5, UpTo
  <2>7. g[n] = h[n]
    BY <2>6 DEF S
  <2> QED
    BY <2>1, <2>3, <2>7 DEF LenTo
<1> QED
  BY <1>1, <1>3, <1>4

\* Each line ends its length after the one before.
LEMMA LenToNext ==
  ASSUME NEW s, IsSeq(s)
  PROVE  /\ LenTo(s, 0) = 0
         /\ \A n \in 1..Len(s) : LenTo(s, n) = LenTo(s, n - 1) + s[n].len
<1>1. PICK h, m : m = Len(s) /\ LengthWalk(h, s, m) /\ \A n \in 0..m : LenTo(s, n) = h[n]
  BY LenToIs
<1>2. m \in Nat
  BY <1>1, LenProperties DEF IsSeq
<1>3. ASSUME NEW n \in 1..m PROVE LenTo(s, n) = LenTo(s, n - 1) + s[n].len
  <2>1. n \in 0..m /\ n - 1 \in 0..m
    BY <1>2
  <2> QED
    BY <1>1, <2>1 DEF LengthWalk
<1> QED
  BY <1>1, <1>2, <1>3 DEF LengthWalk

\* A line more moves none of the others.
LEMMA LenToGrown ==
  ASSUME NEW s, NEW u, NEW l, Grown(s, u, l)
  PROVE  /\ \A n \in 0..Len(s) : LenTo(u, n) = LenTo(s, n)
         /\ LenTo(u, Len(s) + 1) = LenTo(s, Len(s)) + l.len
<1>1. PICK m : m = Len(s) /\ m \in Nat /\ Len(u) = m + 1
  BY DEF Grown
<1>2. LenTo(s, 0) = 0 /\ \A n \in 1..m : LenTo(s, n) = LenTo(s, n - 1) + s[n].len
  BY <1>1, LenToNext DEF Grown
<1>3. LenTo(u, 0) = 0 /\ \A n \in 1..(m + 1) : LenTo(u, n) = LenTo(u, n - 1) + u[n].len
  BY <1>1, LenToNext DEF Grown
<1> DEFINE S == {n \in 0..m : LenTo(u, n) = LenTo(s, n)}
<1>4. 0 \in S
  BY <1>1, <1>2, <1>3
<1>5. ASSUME NEW n \in 1..m, n - 1 \in S PROVE n \in S
  <2>1. n \in 0..m /\ n \in 1..(m + 1) /\ u[n] = s[n]
    BY <1>1 DEF Grown
  <2> QED
    BY <1>2, <1>3, <1>5, <2>1
<1> HIDE DEF S
<1>6. \A n \in 0..m : n \in S
  BY <1>1, <1>4, <1>5, UpTo
<1>7. \A n \in 0..m : LenTo(u, n) = LenTo(s, n)
  BY <1>6 DEF S
<1>8. LenTo(u, m + 1) = LenTo(u, m) + l.len
  <2>1. m + 1 \in 1..(m + 1) /\ (m + 1) - 1 = m /\ u[m + 1] = l
    BY <1>1 DEF Grown
  <2> QED
    BY <1>3, <2>1
<1> QED
  BY <1>1, <1>7, <1>8

\* A log's length is where its last line ends.
LEMMA LengthIs ==
  ASSUME NEW s, IsSeq(s)
  PROVE  Length(s) = LenTo(s, Len(s))
<1>1. PICK m : m = Len(s) /\ m \in Nat /\ DOMAIN s = 1..m
  BY LenProperties DEF IsSeq
<1>2. SubSeq(s, 1, m) = s
  <2>1. PICK S : S = Range(s) /\ s \in Seq(S)
    BY DEF IsSeq
  <2> QED
    BY <1>1, <2>1, SubSeqFull
<1> QED
  BY <1>1, <1>2 DEF LenTo

-----------------------------------------------------------------------------
(* What a worker logs.                                                      *)

\* A line is where the worker was, and is what it is.
LoggedAs(w, line, l) ==
  /\ out' = [out EXCEPT !["log"] = @ \o <<l>>]
  /\ l.by = By(w) /\ l.block = block[w] /\ l.during = During
  /\ l.by # NoExample => l.by \in l.during
  /\ \A x \in DOMAIN line : l[x] = line[x]
  /\ "len" \notin DOMAIN line => l.len = 1

\* What a worker logs is a line of the log.
LEMMA LogsLine ==
  ASSUME NEW w \in Workers, NEW line, Logs(w, line),
         DOMAIN line \cap {"by", "block", "during"} = {}
  PROVE  \E l : LoggedAs(w, line, l)
<1>1. PICK g : g = [text |-> "", len |-> 1, by |-> By(w), block |-> block[w],
                    during |-> During]
  OBVIOUS
<1>2. PICK l : l = Filled(line, g)
  OBVIOUS
<1>3. out' = [out EXCEPT !["log"] = @ \o <<l>>]
  BY <1>1, <1>2 DEF Logs, Writes
<1>4. (\A x \in DOMAIN line : l[x] = line[x]) /\ \A x \in DOMAIN g \ DOMAIN line : l[x] = g[x]
  BY <1>2 DEF Filled
<1>5. /\ DOMAIN g = {"text", "len", "by", "block", "during"}
      /\ g["by"] = By(w) /\ g["block"] = block[w] /\ g["len"] = 1 /\ g["during"] = During
  BY <1>1
<1>6. {"by", "block", "during"} \subseteq DOMAIN g \ DOMAIN line
  BY <1>5
<1>7. l.by = By(w) /\ l.block = block[w] /\ l.during = During
  BY <1>4, <1>5, <1>6
<1>9. l.by # NoExample => l.by \in l.during
  <2> SUFFICES ASSUME By(w) # NoExample PROVE By(w) \in During
    BY <1>7
  <2>1. running[w] # NoExample /\ By(w) = running[w].example /\ running[w].is = "running"
    BY DEF By, Logs, IsAt
  <2> QED
    BY <2>1 DEF During, IsAt
<1>8. "len" \notin DOMAIN line => l.len = 1
  BY <1>4, <1>5
<1> QED
  BY <1>3, <1>4, <1>7, <1>8, <1>9 DEF LoggedAs

\* What a worker may log: a line of a kind there is, after which it is in the request
\* that the line says.
Logging(w) ==
  \/ LogText(w) \/ \E query \in Statements : LogQuery(w, query)
  \/ LogStarted(w) \/ \E action \in Actions : LogProcessing(w, action)
  \/ \E line \in Completed : LogCompleted(w, line)

OneLogged(w, l) ==
  /\ LogLine(l) /\ l.by = By(w) /\ l.block = block[w] /\ l.during = During
  /\ out' = [out EXCEPT !["log"] = @ \o <<l>>]
  /\ block' = [block EXCEPT ![w] = NextBlock(l)]
  /\ UNCHANGED <<suite, todo, running, placed, siftr>>

\* The fields of a request.
LEMMA NoRequestIs ==
  /\ NoRequest \in Block
  /\ [NoRequest EXCEPT !.method = "GET"] \in Block
BY DEF NoRequest, Block

\* Logging is a line more, in the request the worker is in.
LEMMA LoggingIs ==
  ASSUME NEW w \in Workers, block \in [Workers -> Block],
         running[w] # NoExample => running[w].example \in Examples, Logging(w)
  PROVE  \E l : OneLogged(w, l)
<1>1. By(w) # NoExample => By(w) \in Examples
  BY DEF By
<1>2. block[w] \in Block /\ [block EXCEPT ![w] = block[w]] = block
  OBVIOUS
<1>3. CASE LogText(w)
  <2>1. PICK line : line = [is |-> "text", text |-> "a", len |-> 2]
    OBVIOUS
  <2>2. DOMAIN line = {"is", "text", "len"} /\ line["is"] = "text" /\ line["len"] = 2
    BY <2>1
  <2>3. Logs(w, line)
    BY <1>3, <2>1 DEF LogText
  <2>4. PICK l : LoggedAs(w, line, l)
    BY <2>2, <2>3, LogsLine
  <2>5. /\ l.is = "text" /\ l.len = 2 /\ l.by = By(w) /\ l.block = block[w]
        /\ l.by # NoExample => l.by \in l.during
    BY <2>2, <2>4 DEF LoggedAs
  <2>6. LogLine(l)
    BY <1>1, <1>2, <2>5 DEF LogLine
  <2>7. NextBlock(l) = block[w]
    BY <2>5 DEF NextBlock
  <2>8. block' = [block EXCEPT ![w] = NextBlock(l)]
    BY <1>2, <1>3, <2>7 DEF LogText
  <2> QED
    BY <2>3, <2>4, <2>5, <2>6, <2>8 DEF OneLogged, LoggedAs, Logs
<1>4. ASSUME NEW query \in Statements, LogQuery(w, query) PROVE \E l : OneLogged(w, l)
  <2>1. PICK line, is : line = Filled(query, is) /\ is = [is |-> "query"]
    OBVIOUS
  <2>2. DOMAIN query = {"name", "sql", "asks"} /\ DOMAIN is = {"is"} /\ is["is"] = "query"
    BY <2>1, SuiteAssumption
  <2>3. /\ DOMAIN line = {"name", "sql", "asks", "is"} /\ line["is"] = "query"
        /\ \A x \in {"name", "sql", "asks"} : line[x] = query[x]
    <3>1. DOMAIN line = DOMAIN query \cup DOMAIN is
      BY <2>1 DEF Filled
    <3>2. (\A x \in DOMAIN query : line[x] = query[x]) /\ \A x \in DOMAIN is \ DOMAIN query : line[x] = is[x]
      BY <2>1 DEF Filled
    <3>3. "is" \in DOMAIN is \ DOMAIN query
      BY <2>2
    <3> QED
      BY <2>2, <3>1, <3>2, <3>3
  <2>4. Logs(w, line)
    BY <1>4, <2>1 DEF LogQuery
  <2>5. PICK l : LoggedAs(w, line, l)
    BY <2>3, <2>4, LogsLine
  <2>6. /\ l.is = "query" /\ l.len = 1 /\ l.by = By(w) /\ l.block = block[w]
        /\ l.by # NoExample => l.by \in l.during
        /\ l.name = query.name /\ l.sql = query.sql /\ l.asks = query.asks
    BY <2>3, <2>5 DEF LoggedAs
  <2>7. LogLine(l)
    BY <1>1, <1>2, <2>6 DEF LogLine
  <2>8. counts(l) <=> query.name \notin {"TRANSACTION", "SCHEMA"}
    BY <2>6 DEF counts
  <2>9. block' = [block EXCEPT ![w] = NextBlock(l)]
    <3>1. CASE block[w] # NoRequest /\ counts(l)
      <4>1. NextBlock(l) = [block[w] EXCEPT !.queries = @ + 1]
        BY <2>6, <3>1 DEF NextBlock
      <4>2. block' = [block EXCEPT ![w].queries = @ + 1]
        BY <1>4, <2>8, <3>1 DEF LogQuery
      <4> QED
        BY <4>1, <4>2
    <3>2. CASE ~ (block[w] # NoRequest /\ counts(l))
      <4>1. NextBlock(l) = block[w]
        BY <2>6, <3>2 DEF NextBlock
      <4>2. block' = block
        BY <1>4, <2>8, <3>2 DEF LogQuery
      <4> QED
        BY <1>2, <4>1, <4>2
    <3> QED
      BY <3>1, <3>2
  <2> QED
    BY <2>4, <2>5, <2>6, <2>7, <2>9 DEF OneLogged, LoggedAs, Logs
<1>5. CASE LogStarted(w)
  <2>1. PICK line : line = [is |-> "started", method |-> "GET"]
    OBVIOUS
  <2>2. DOMAIN line = {"is", "method"} /\ line["is"] = "started" /\ line["method"] = "GET"
    BY <2>1
  <2>3. Logs(w, line)
    BY <1>5, <2>1 DEF LogStarted
  <2>4. PICK l : LoggedAs(w, line, l)
    BY <2>2, <2>3, LogsLine
  <2>5. /\ l.is = "started" /\ l.method = "GET" /\ l.len = 1 /\ l.by = By(w) /\ l.block = block[w]
        /\ l.by # NoExample => l.by \in l.during
    BY <2>2, <2>4 DEF LoggedAs
  <2>6. LogLine(l)
    BY <1>1, <1>2, <2>5 DEF LogLine
  <2>7. block' = [block EXCEPT ![w] = NextBlock(l)]
    BY <1>5, <2>5 DEF LogStarted, NextBlock
  <2> QED
    BY <2>3, <2>4, <2>5, <2>6, <2>7 DEF OneLogged, LoggedAs, Logs
<1>6. ASSUME NEW action \in Actions, LogProcessing(w, action) PROVE \E l : OneLogged(w, l)
  <2>1. PICK line : line = [is |-> "processing", action |-> action]
    OBVIOUS
  <2>2. DOMAIN line = {"is", "action"} /\ line["is"] = "processing" /\ line["action"] = action
    BY <2>1
  <2>3. Logs(w, line)
    BY <1>6, <2>1 DEF LogProcessing
  <2>4. PICK l : LoggedAs(w, line, l)
    BY <2>2, <2>3, LogsLine
  <2>5. /\ l.is = "processing" /\ l.action = action /\ l.len = 1 /\ l.by = By(w) /\ l.block = block[w]
        /\ l.by # NoExample => l.by \in l.during
    BY <2>2, <2>4 DEF LoggedAs
  <2>6. LogLine(l)
    BY <1>1, <1>2, <1>6, <2>5 DEF LogLine, LogProcessing
  <2>7. block' = [block EXCEPT ![w] = NextBlock(l)]
    <3>1. NextBlock(l) = [block[w] EXCEPT !.action = action]
      BY <2>5 DEF NextBlock
    <3>2. block' = [block EXCEPT ![w].action = action]
      BY <1>6 DEF LogProcessing
    <3> QED
      BY <3>1, <3>2
  <2> QED
    BY <2>3, <2>4, <2>5, <2>6, <2>7 DEF OneLogged, LoggedAs, Logs
<1>7. ASSUME NEW line \in Completed, LogCompleted(w, line) PROVE \E l : OneLogged(w, l)
  <2>2. DOMAIN line = {"is", "class", "queries"} /\ line["is"] = "completed"
    BY DEF Completed
  <2>3. Logs(w, line)
    BY <1>7 DEF LogCompleted
  <2>4. PICK l : LoggedAs(w, line, l)
    BY <2>2, <2>3, LogsLine
  <2>5. /\ l.is = "completed" /\ l.len = 1 /\ l.by = By(w) /\ l.block = block[w]
        /\ l.by # NoExample => l.by \in l.during
    BY <2>2, <2>4 DEF LoggedAs
  <2>6. LogLine(l)
    BY <1>1, <1>2, <1>7, <2>5 DEF LogLine, LogCompleted
  <2>7. block' = [block EXCEPT ![w] = NextBlock(l)]
    BY <1>7, <2>5 DEF LogCompleted, NextBlock
  <2> QED
    BY <2>3, <2>4, <2>5, <2>6, <2>7 DEF OneLogged, LoggedAs, Logs
<1> QED
  BY <1>3, <1>4, <1>5, <1>6, <1>7 DEF Logging

-----------------------------------------------------------------------------
(* A line more in the log.                                                  *)

\* A log with one more line is a log.
LEMMA LogGrows ==
  ASSUME NEW s, NEW u, NEW l, LogOk(s), Grown(s, u, l), LogLine(l)
  PROVE  LogOk(u)
<1>1. PICK m : /\ m = Len(s) /\ m \in Nat /\ Len(u) = m + 1 /\ u[m + 1] = l
               /\ \A i \in 1..m : u[i] = s[i]
  BY DEF Grown
<1>2. /\ \A n \in 0..m : LenTo(u, n) = LenTo(s, n)
      /\ LenTo(u, m + 1) = LenTo(s, m) + l.len
  BY <1>1, LenToGrown
<1>3. /\ \A n \in 0..m : LenTo(s, n) \in Nat
      /\ \A j, n \in 0..m : j < n => LenTo(s, j) < LenTo(s, n)
      /\ \A n \in 1..m : LogLine(s[n])
  BY <1>1, Zenon DEF LogOk
<1>4. l.len \in Nat \ {0}
  BY DEF LogLine
<1>5. \A n \in 0..(m + 1) : LenTo(u, n) \in Nat
  <2> SUFFICES ASSUME NEW n \in 0..(m + 1) PROVE LenTo(u, n) \in Nat
    OBVIOUS
  <2>1. CASE n \in 0..m
    BY <1>2, <1>3, <2>1
  <2>2. CASE n = m + 1
    <3>1. LenTo(u, n) = LenTo(s, m) + l.len /\ LenTo(s, m) \in Nat
      BY <1>1, <1>2, <1>3, <2>2
    <3> QED
      BY <1>4, <3>1
  <2> QED
    BY <1>1, <2>1, <2>2
<1>6. \A j, n \in 0..(m + 1) : j < n => LenTo(u, j) < LenTo(u, n)
  <2> SUFFICES ASSUME NEW j \in 0..(m + 1), NEW n \in 0..(m + 1), j < n
               PROVE  LenTo(u, j) < LenTo(u, n)
    OBVIOUS
  <2>1. j \in 0..m
    BY <1>1
  <2>2. CASE n \in 0..m
    BY <1>2, <1>3, <2>1, <2>2
  <2>3. CASE n = m + 1
    <3>1. LenTo(u, n) = LenTo(s, m) + l.len /\ LenTo(u, j) = LenTo(s, j) /\ LenTo(s, j) \in Nat
      BY <1>2, <1>3, <2>1, <2>3
    <3>2. LenTo(s, m) \in Nat /\ (j = m \/ LenTo(s, j) < LenTo(s, m))
      BY <1>1, <1>3, <2>1
    <3> QED
      BY <1>4, <3>1, <3>2
  <2> QED
    BY <1>1, <2>2, <2>3
<1>7. \A n \in 1..(m + 1) : LogLine(u[n])
  <2> SUFFICES ASSUME NEW n \in 1..(m + 1) PROVE LogLine(u[n])
    OBVIOUS
  <2>1. CASE n \in 1..m
    BY <1>1, <1>3, <2>1
  <2>2. CASE n = m + 1
    <3>1. u[n] = l
      BY <1>1, <2>2
    <3> QED
      BY <3>1
  <2> QED
    BY <1>1, <2>1, <2>2
<1>8. IsSeq(u)
  BY DEF Grown
<1>9. /\ \A n \in 0..Len(u) : LenTo(u, n) \in Nat
      /\ \A j, n \in 0..Len(u) : j < n => LenTo(u, j) < LenTo(u, n)
      /\ \A n \in 1..Len(u) : LogLine(u[n])
  BY <1>1, <1>5, <1>6, <1>7
<1> QED
  BY <1>8, <1>9, Zenon DEF LogOk

\* With one worker, whose request the line goes on with, it is one that follows.
LEMMA BlocksGrow ==
  ASSUME NEW s, NEW u, NEW l, Grown(s, u, l), NEW requests, NEW w, Workers = {w},
         BlocksOk(s, requests), l.block = requests[w],
         NEW then, then[w] = NextBlock(l)
  PROVE  BlocksOk(u, then)
<1>1. PICK m : /\ m = Len(s) /\ m \in Nat /\ Len(u) = m + 1 /\ u[m + 1] = l
               /\ \A i \in 1..m : u[i] = s[i]
  BY DEF Grown
<1>2. /\ \A n \in 1..m : s[n].block # NoRequest => n > 1 /\ s[n].block = NextBlock(s[n - 1])
      /\ requests[w] # NoRequest => m > 0 /\ requests[w] = NextBlock(s[m])
  BY <1>1, Zenon DEF BlocksOk
<1>3. ASSUME NEW n \in 1..(m + 1), u[n].block # NoRequest
      PROVE  n > 1 /\ u[n].block = NextBlock(u[n - 1])
  <2>1. CASE n \in 1..m
    <3>1. u[n] = s[n] /\ (n > 1 => u[n - 1] = s[n - 1])
      BY <1>1, <2>1
    <3>2. n > 1 /\ s[n].block = NextBlock(s[n - 1])
      BY <1>2, <1>3, <2>1, <3>1
    <3> QED
      BY <3>1, <3>2
  <2>2. CASE n = m + 1
    <3>1. u[n] = l
      BY <1>1, <2>2
    <3>2. m > 0 /\ l.block = NextBlock(s[m])
      BY <1>2, <1>3, <3>1
    <3>3. n > 1 /\ n - 1 = m /\ m \in 1..m
      BY <1>1, <2>2, <3>2
    <3>4. u[n - 1] = s[m]
      BY <1>1, <3>3
    <3> QED
      BY <3>1, <3>2, <3>3, <3>4
  <2> QED
    BY <1>1, <2>1, <2>2
<1>4. Len(u) > 0 /\ u[Len(u)] = l
  BY <1>1
<1>5. \A v \in Workers : then[v] # NoRequest => Len(u) > 0 /\ then[v] = NextBlock(u[Len(u)])
  BY <1>4
<1>6. \A n \in 1..Len(u) : u[n].block # NoRequest => n > 1 /\ u[n].block = NextBlock(u[n - 1])
  BY <1>1, <1>3
<1> QED
  BY <1>5, <1>6, Zenon DEF BlocksOk

\* A line is written while those examples run that do, and moves none of the others.
LEMMA SpanGrows ==
  ASSUME NEW s, NEW u, NEW l, Grown(s, u, l), NEW events, NEW runs, NEW e,
         SpanOk(s, events, runs, e), e \in l.during <=> Runs(runs, e)
  PROVE  SpanOk(u, events, runs, e)
<1>1. PICK m : /\ m = Len(s) /\ m \in Nat /\ Len(u) = m + 1 /\ u[m + 1] = l
               /\ \A i \in 1..m : u[i] = s[i]
  BY DEF Grown
<1>2. PICK a \in 0..m, b \in 0..m : Span(s, events, runs, e, a, b)
  BY <1>1, Zenon DEF SpanOk
<1>3. /\ a <= b
      /\ \A n \in 1..m : e \in s[n].during <=> a < n /\ n <= b
      /\ \A o : Began(events, runs, e, o) => o \in {LenTo(s, a), NoNumber}
      /\ \A o : Finished(events, runs, e, o) => o \in {LenTo(s, b), NoNumber}
      /\ Runs(runs, e) => b = m /\ \A o : ~ Finished(events, runs, e, o)
  BY <1>1, <1>2, Zenon DEF Span
<1>4. \A n \in 0..m : LenTo(u, n) = LenTo(s, n)
  BY <1>1, LenToGrown
<1>5. PICK c : c = IF Runs(runs, e) THEN m + 1 ELSE b
  OBVIOUS
<1>6. a \in 0..Len(u) /\ c \in 0..Len(u) /\ a <= c
  BY <1>1, <1>3, <1>5
<1>7. ASSUME NEW n \in 1..(m + 1) PROVE e \in u[n].during <=> a < n /\ n <= c
  <2>1. CASE n \in 1..m
    <3>1. e \in u[n].during <=> a < n /\ n <= b
      BY <1>1, <1>3, <2>1
    <3>2. n <= b <=> n <= c
      BY <1>1, <1>3, <1>5, <2>1
    <3> QED
      BY <3>1, <3>2
  <2>2. CASE n = m + 1
    <3>1. u[n] = l
      BY <1>1, <2>2
    <3>2. a < n /\ (n <= c <=> Runs(runs, e))
      BY <1>1, <1>3, <1>5, <2>2
    <3> QED
      BY <3>1, <3>2
  <2> QED
    BY <1>1, <2>1, <2>2
<1>8. \A o : Began(events, runs, e, o) => o \in {LenTo(u, a), NoNumber}
  BY <1>3, <1>4
<1>9. ASSUME NEW o, Finished(events, runs, e, o) PROVE o \in {LenTo(u, c), NoNumber}
  <2>1. ~ Runs(runs, e)
    BY <1>3, <1>9
  <2> QED
    BY <1>3, <1>4, <1>5, <1>9, <2>1
<1>10. Runs(runs, e) => c = Len(u) /\ \A o : ~ Finished(events, runs, e, o)
  BY <1>1, <1>3, <1>5
<1>11. \A n \in 1..Len(u) : e \in u[n].during <=> a < n /\ n <= c
  BY <1>1, <1>7
<1>12. Span(u, events, runs, e, a, c)
  BY <1>6, <1>8, <1>9, <1>10, <1>11, Zenon DEF Span
<1> QED
  BY <1>6, <1>12, Zenon DEF SpanOk

\* What the streams and the workers are.
LEMMA WorldIs ==
  ASSUME WorldInv
  PROVE  /\ DOMAIN out = Streams /\ "log" \in Streams /\ "events" \in Streams
         /\ running \in [Workers -> {NoExample} \cup Run]
         /\ block \in [Workers -> Block] /\ todo \subseteq Examples
         /\ LogOk(out.log) /\ (OneWorker => BlocksOk(out.log, block))
         /\ EventsOk(out.log, out.events, running, todo, placed)
         /\ IsSeq(out.log) /\ IsSeq(out.events)
<1>1. /\ DOMAIN out = Streams /\ "log" \in Streams /\ "events" \in Streams
      /\ running \in [Workers -> {NoExample} \cup Run]
      /\ block \in [Workers -> Block] /\ todo \subseteq Examples
      /\ LogOk(out.log) /\ (OneWorker => BlocksOk(out.log, block))
      /\ EventsOk(out.log, out.events, running, todo, placed)
  BY DEF WorldInv, Streams
<1>2. IsSeq(out.log) /\ IsSeq(out.events)
  BY <1>1, Zenon DEF LogOk, EventsOk
<1> QED
  BY <1>1, <1>2

\* A worker's run.
LEMMA RunIs ==
  ASSUME WorldInv, NEW w \in Workers, running[w] # NoExample
  PROVE  running[w] \in Run
BY WorldIs

\* A request the worker is in after a line is one.
LEMMA NextIsBlock ==
  ASSUME NEW l, LogLine(l)
  PROVE  NextBlock(l) \in Block
<1>1. /\ l.block \in Block
      /\ l.is = "processing" => l.action \in Actions /\ l.block # NoRequest
  BY DEF LogLine
<1>2. NoRequest \in Block /\ [NoRequest EXCEPT !.method = "GET"] \in Block
  BY NoRequestIs
<1>3. l.is = "processing" => [l.block EXCEPT !.action = l.action] \in Block
  BY <1>1 DEF Block
<1>4. l.block # NoRequest => [l.block EXCEPT !.queries = @ + 1] \in Block
  BY <1>1 DEF Block
<1> QED
  BY <1>1, <1>2, <1>3, <1>4, Zenon DEF NextBlock

\* Who runs is who is said to in a line.
LEMMA DuringIs ==
  ASSUME WorldInv
  PROVE  \A e : e \in During <=> Runs(running, e)
<1>1. \A v \in Workers : running[v] # NoExample /\ ~ IsAt(v, "ending")
                        <=> running[v] # NoExample /\ running[v].is # "ending"
  BY DEF IsAt
<1> QED
  BY <1>1 DEF During, Runs

\* A worker logs a line.
LEMMA LoggedWorld ==
  ASSUME WorldInv, NEW w \in Workers, NEW l, OneLogged(w, l)
  PROVE  WorldInv'
<1>1. /\ LogLine(l) /\ l.block = block[w] /\ l.during = During
      /\ out' = [out EXCEPT !["log"] = @ \o <<l>>]
      /\ block' = [block EXCEPT ![w] = NextBlock(l)]
      /\ UNCHANGED <<todo, running, placed>>
  BY Zenon DEF OneLogged
<1>2. PICK s, u : s = out.log /\ u = s \o <<l>>
  OBVIOUS
<1>3. out'.log = u /\ out'.events = out.events /\ DOMAIN out' = Streams
  BY <1>1, <1>2, WorldIs
<1>4. Grown(s, u, l)
  BY <1>2, WorldIs, Grows
<1>5. block' \in [Workers -> Block] /\ block'[w] = NextBlock(l)
  BY <1>1, WorldIs, NextIsBlock
<1>6. LogOk(s) /\ LogOk(u)
  BY <1>1, <1>2, <1>4, WorldIs, LogGrows
<1>7. EventsOk(s, out.events, running, todo, placed)
  BY <1>2, WorldIs
<1>8. \A e \in Examples : SpanOk(u, out.events, running, e)
  <2> SUFFICES ASSUME NEW e \in Examples PROVE SpanOk(u, out.events, running, e)
    OBVIOUS
  <2>1. SpanOk(s, out.events, running, e)
    BY <1>7, Zenon DEF EventsOk
  <2>2. e \in l.during <=> Runs(running, e)
    BY <1>1, DuringIs
  <2> QED
    BY <1>4, <2>1, <2>2, SpanGrows
<1>9. \A e \in todo : Unseen(u, out.events, running, e)
  <2> SUFFICES ASSUME NEW e \in todo PROVE Unseen(u, out.events, running, e)
    OBVIOUS
  <2>1. /\ ~ Has(running, e)
        /\ \A o : ~ Began(out.events, running, e, o) /\ ~ Finished(out.events, running, e, o)
        /\ \A n \in 1..Len(s) : e \notin s[n].during
    BY <1>7, Zenon DEF EventsOk, Unseen
  <2>2. ~ Runs(running, e)
    BY <2>1 DEF Has, Runs
  <2>3. e \notin l.during
    BY <1>1, <2>2, DuringIs
  <2>4. \A n \in 1..Len(u) : e \notin u[n].during
    BY <1>4, <2>1, <2>3 DEF Grown
  <2> QED
    BY <2>1, <2>4, Zenon DEF Unseen
<1>10. EventsOk(u, out.events, running, todo, placed)
  BY <1>7, <1>8, <1>9, Zenon DEF EventsOk
<1>11. ASSUME OneWorker PROVE BlocksOk(u, block')
  <2>1. Workers = {w}
    BY <1>11 DEF OneWorker
  <2>2. BlocksOk(s, block) /\ l.block = block[w] /\ block'[w] = NextBlock(l)
    BY <1>1, <1>2, <1>5, <1>11, WorldIs
  <2> QED
    BY <1>4, <2>1, <2>2, BlocksGrow
<1>12. running' = running /\ todo' = todo /\ placed' = placed /\ todo \subseteq Examples
       /\ running \in [Workers -> {NoExample} \cup Run] /\ (OneWorker' <=> OneWorker)
  BY <1>1, WorldIs DEF OneWorker
<1>13. /\ running' \in [Workers -> {NoExample} \cup Run] /\ todo' \subseteq Examples
       /\ LogOk(out'.log) /\ (OneWorker' => BlocksOk(out'.log, block'))
       /\ EventsOk(out'.log, out'.events, running', todo', placed')
  BY <1>3, <1>6, <1>10, <1>11, <1>12
<1> QED
  BY <1>3, <1>5, <1>13 DEF WorldInv

-----------------------------------------------------------------------------
(* An event, or a look at the log, more.                                    *)

\* What was seen of an example is no more than it was, nor is it run.
NoMore(events, runs, events2, runs2, e) ==
  /\ \A o : Began(events2, runs2, e, o) => Began(events, runs, e, o)
  /\ \A o : Finished(events2, runs2, e, o) => Finished(events, runs, e, o)
  /\ Runs(runs2, e) => Runs(runs, e)
  /\ Has(runs2, e) => Has(runs, e)

\* Then where it ran stays, and so does that it did not start.
LEMMA SpanStays ==
  ASSUME NEW lines, NEW events, NEW runs, NEW events2, NEW runs2, NEW e,
         NoMore(events, runs, events2, runs2, e)
  PROVE  /\ SpanOk(lines, events, runs, e) => SpanOk(lines, events2, runs2, e)
         /\ Unseen(lines, events, runs, e) => Unseen(lines, events2, runs2, e)
<1>1. /\ \A o : Began(events2, runs2, e, o) => Began(events, runs, e, o)
      /\ \A o : Finished(events2, runs2, e, o) => Finished(events, runs, e, o)
      /\ Runs(runs2, e) => Runs(runs, e)
      /\ Has(runs2, e) => Has(runs, e)
  BY Zenon DEF NoMore
<1>2. ASSUME NEW a, NEW b, Span(lines, events, runs, e, a, b)
      PROVE  Span(lines, events2, runs2, e, a, b)
  <2>1. /\ a <= b
        /\ \A n \in 1..Len(lines) : e \in lines[n].during <=> a < n /\ n <= b
        /\ \A o : Began(events, runs, e, o) => o \in {LenTo(lines, a), NoNumber}
        /\ \A o : Finished(events, runs, e, o) => o \in {LenTo(lines, b), NoNumber}
        /\ Runs(runs, e) => b = Len(lines) /\ \A o : ~ Finished(events, runs, e, o)
    BY <1>2, Zenon DEF Span
  <2>2. \A o : Began(events2, runs2, e, o) => o \in {LenTo(lines, a), NoNumber}
    BY <1>1, <2>1
  <2>3. \A o : Finished(events2, runs2, e, o) => o \in {LenTo(lines, b), NoNumber}
    BY <1>1, <2>1
  <2>4. Runs(runs2, e) => b = Len(lines) /\ \A o : ~ Finished(events2, runs2, e, o)
    BY <1>1, <2>1
  <2> QED
    BY <2>1, <2>2, <2>3, <2>4, Zenon DEF Span
<1>3. SpanOk(lines, events, runs, e) => SpanOk(lines, events2, runs2, e)
  BY <1>2, Zenon DEF SpanOk
<1>4. Unseen(lines, events, runs, e) => Unseen(lines, events2, runs2, e)
  BY <1>1, Zenon DEF Unseen
<1> QED
  BY <1>3, <1>4

\* All workers but one run what they did, or nothing.
Others(runs, runs2, w) ==
  \A v \in Workers : v # w /\ runs2[v] # NoExample =>
    /\ runs[v] # NoExample /\ runs2[v].example = runs[v].example
    /\ runs2[v].is = runs[v].is /\ runs2[v].offset = runs[v].offset

\* What is seen then was seen before, or by that worker.
LEMMA SeenThen ==
  ASSUME NEW events, NEW runs, NEW runs2, NEW w \in Workers, Others(runs, runs2, w),
         NEW stage, NEW is, NEW e, NEW o, Seen(events, runs2, stage, is, e, o)
  PROVE  Seen(events, runs, stage, is, e, o) \/ HasSeen(runs2[w], stage, e, o)
<1>1. CASE \E j \in 1..Len(events) : events[j].is = is /\ events[j].id = e.id /\ events[j].offset = o
  BY <1>1, Zenon DEF Seen
<1>2. ASSUME NEW v \in Workers, HasSeen(runs2[v], stage, e, o)
      PROVE  Seen(events, runs, stage, is, e, o) \/ HasSeen(runs2[w], stage, e, o)
  <2>1. v = w \/ HasSeen(runs[v], stage, e, o)
    BY <1>2 DEF HasSeen, Others
  <2> QED
    BY <1>2, <2>1, Zenon DEF Seen
<1> QED
  BY <1>1, <1>2, Zenon DEF Seen

\* With an event more what is seen was seen before, or says the event.
LEMMA SeenGrown ==
  ASSUME NEW events, NEW events2, NEW x, Grown(events, events2, x), NEW runs,
         NEW stage, NEW is, NEW e, NEW o, Seen(events2, runs, stage, is, e, o)
  PROVE  Seen(events, runs, stage, is, e, o) \/ (x.is = is /\ x.id = e.id /\ x.offset = o)
<1>1. CASE \E w \in Workers : HasSeen(runs[w], stage, e, o)
  BY <1>1, Zenon DEF Seen
<1>2. ASSUME NEW j \in 1..Len(events2), events2[j].is = is, events2[j].id = e.id, events2[j].offset = o
      PROVE  Seen(events, runs, stage, is, e, o) \/ (x.is = is /\ x.id = e.id /\ x.offset = o)
  <2>1. (j \in 1..Len(events) /\ events2[j] = events[j]) \/ events2[j] = x
    BY DEF Grown
  <2>2. CASE j \in 1..Len(events) /\ events2[j] = events[j]
    BY <1>2, <2>2, Zenon DEF Seen
  <2>3. CASE events2[j] = x
    BY <1>2, <2>3
  <2> QED
    BY <2>1, <2>2, <2>3
<1> QED
  BY <1>1, <1>2, Zenon DEF Seen

\* An example that the worker does not run is seen and run no more.
LEMMA OthersStay ==
  ASSUME NEW events, NEW runs, NEW runs2, NEW w \in Workers, Others(runs, runs2, w),
         NEW e, runs2[w] # NoExample => runs2[w].example # e
  PROVE  NoMore(events, runs, events, runs2, e)
<1>1. ASSUME NEW stage, NEW is, NEW o, Seen(events, runs2, stage, is, e, o)
      PROVE  Seen(events, runs, stage, is, e, o)
  <2>1. ~ HasSeen(runs2[w], stage, e, o)
    BY DEF HasSeen
  <2> QED
    BY <1>1, <2>1, SeenThen
<1>2. \A o : Began(events, runs2, e, o) => Began(events, runs, e, o)
  BY <1>1, Zenon DEF Began
<1>3. \A o : Finished(events, runs2, e, o) => Finished(events, runs, e, o)
  BY <1>1, Zenon DEF Finished
<1>4. (Runs(runs2, e) => Runs(runs, e)) /\ (Has(runs2, e) => Has(runs, e))
  BY DEF Runs, Has, Others
<1> QED
  BY <1>2, <1>3, <1>4, Zenon DEF NoMore

\* A worker that writes what it saw of its example adds nothing to it.
LEMMA WrittenStays ==
  ASSUME NEW events, NEW events2, NEW x, Grown(events, events2, x),
         NEW runs, NEW runs2, NEW w \in Workers, Others(runs, runs2, w),
         runs[w] # NoExample, runs[w].example \in Examples,
         x.id = runs[w].example.id, x.offset = runs[w].offset,
         \/ runs[w].is = "starting" /\ x.is = "example_started"
         \/ runs[w].is = "ending" /\ x.is = "example",
         runs2[w] # NoExample =>
           runs[w].is = "starting" /\ runs2[w].is = "running" /\ runs2[w].example = runs[w].example,
         NEW e \in Examples
  PROVE  NoMore(events, runs, events2, runs2, e)
<1>1. x.id = e.id => e = runs[w].example
  BY SuiteAssumption
<1>2. ASSUME NEW stage, NEW is, NEW o, Seen(events2, runs2, stage, is, e, o),
             \/ stage = "starting" /\ is = "example_started"
             \/ stage = "ending" /\ is = "example"
      PROVE  Seen(events, runs, stage, is, e, o)
  <2>1. ~ HasSeen(runs2[w], stage, e, o)
    BY <1>2 DEF HasSeen
  <2>2. Seen(events, runs2, stage, is, e, o) \/ (x.is = is /\ x.id = e.id /\ x.offset = o)
    BY <1>2, SeenGrown
  <2>3. CASE Seen(events, runs2, stage, is, e, o)
    BY <2>1, <2>3, SeenThen
  <2>4. CASE x.is = is /\ x.id = e.id /\ x.offset = o
    <3>1. HasSeen(runs[w], stage, e, o)
      BY <1>1, <1>2, <2>4 DEF HasSeen
    <3> QED
      BY <3>1, Zenon DEF Seen
  <2> QED
    BY <2>2, <2>3, <2>4
<1>3. \A o : Began(events2, runs2, e, o) => Began(events, runs, e, o)
  BY <1>2, Zenon DEF Began
<1>4. \A o : Finished(events2, runs2, e, o) => Finished(events, runs, e, o)
  BY <1>2, Zenon DEF Finished
<1>5. (Runs(runs2, e) => Runs(runs, e)) /\ (Has(runs2, e) => Has(runs, e))
  BY DEF Runs, Has, Others
<1> QED
  BY <1>3, <1>4, <1>5, Zenon DEF NoMore

\* A log's length is a number, and is where its last line ends.
LEMMA LengthOfLog ==
  ASSUME WorldInv
  PROVE  /\ Len(out.log) \in Nat
         /\ Length(out.log) = LenTo(out.log, Len(out.log)) /\ Length(out.log) \in Nat
<1>1. PICK s : s = out.log
  OBVIOUS
<1>2. IsSeq(s) /\ LogOk(s)
  BY <1>1, WorldIs
<1>3. Len(s) \in Nat
  BY <1>2, LenProperties DEF IsSeq
<1>4. Length(s) = LenTo(s, Len(s))
  BY <1>2, LengthIs
<1>5. Len(s) \in 0..Len(s)
  BY <1>3
<1>6. LenTo(s, Len(s)) \in Nat
  BY <1>2, <1>5, Zenon DEF LogOk
<1> QED
  BY <1>1, <1>3, <1>4, <1>6

\* What a line of the log ends at is at most where the last one does.
LEMMA LenToAtMost ==
  ASSUME NEW lines, LogOk(lines), NEW n \in 0..Len(lines)
  PROVE  LenTo(lines, n) \in Nat /\ LenTo(lines, n) <= LenTo(lines, Len(lines))
<1>1. Len(lines) \in Nat
  BY LenProperties, Zenon DEF LogOk, IsSeq
<1>2. /\ \A i \in 0..Len(lines) : LenTo(lines, i) \in Nat
      /\ \A i, j \in 0..Len(lines) : i < j => LenTo(lines, i) < LenTo(lines, j)
  BY Zenon DEF LogOk
<1>3. Len(lines) \in 0..Len(lines)
  BY <1>1
<1>4. LenTo(lines, n) \in Nat /\ LenTo(lines, Len(lines)) \in Nat
  BY <1>2, <1>3
<1>5. CASE n = Len(lines)
  BY <1>4, <1>5
<1>6. CASE n < Len(lines)
  <2>1. LenTo(lines, n) < LenTo(lines, Len(lines))
    BY <1>2, <1>3, <1>6
  <2> QED
    BY <1>4, <2>1
<1> QED
  BY <1>1, <1>5, <1>6

\* The place an event says is in the log.
LEMMA PlaceIs ==
  ASSUME NEW lines, LogOk(lines), NEW events, NEW runs, NEW left, NEW done,
         EventsOk(lines, events, runs, left, done),
         NEW k \in 1..Len(events), Places(events[k])
  PROVE  events[k].offset \in Nat /\ events[k].offset <= LenTo(lines, Len(lines))
<1>1. PICK o, l : o = events[k].offset /\ l = events[k]
  OBVIOUS
<1>2. l.is \in {"example_started", "example"} /\ o # NoNumber
  BY <1>1, Zenon DEF Places
<1>3. PICK e \in Examples : l.id = e.id
  BY <1>1, <1>2, Zenon DEF EventsOk, EventOk
<1>4. Began(events, runs, e, o) \/ Finished(events, runs, e, o)
  <2>1. Seen(events, runs, "starting", l.is, e, o) /\ Seen(events, runs, "ending", l.is, e, o)
    BY <1>1, <1>3, Zenon DEF Seen
  <2> QED
    BY <1>2, <2>1 DEF Began, Finished
<1>5. PICK a \in 0..Len(lines), b \in 0..Len(lines) : Span(lines, events, runs, e, a, b)
  BY Zenon DEF EventsOk, SpanOk
<1>6. o \in {LenTo(lines, a), NoNumber} \/ o \in {LenTo(lines, b), NoNumber}
  BY <1>4, <1>5, Zenon DEF Span
<1> QED
  BY <1>1, <1>2, <1>5, <1>6, LenToAtMost

\* What stays clear when there is an event more.
LEMMA ClearGrown ==
  ASSUME NEW events, NEW events2, NEW x, Grown(events, events2, x), NEW k \in 1..Len(events)
  PROVE  /\ events2[k] = events[k] /\ k \in 1..Len(events2)
         /\ Clear(events, k) => Clear(events2, k)
         /\ PlacedEnd(events, k) => PlacedEnd(events2, k)
<1>1. PICK m : m = Len(events) /\ m \in Nat /\ Len(events2) = m + 1 /\ \A i \in 1..m : events2[i] = events[i]
  BY DEF Grown
<1>2. events2[k] = events[k] /\ k \in 1..Len(events2)
  BY <1>1
<1>3. ASSUME NEW i \in 1..m, Clear(events, i) PROVE Clear(events2, i)
  <2>1. events2[i] = events[i]
    BY <1>1
  <2>2. \A j \in 1..(i - 1) : events2[j] = events[j]
    BY <1>1
  <2> QED
    BY <1>3, <2>1, <2>2 DEF Clear
<1>4. ASSUME PlacedEnd(events, k) PROVE PlacedEnd(events2, k)
  <2>1. k > 1 /\ Clear(events, k - 1)
    BY <1>4, Zenon DEF PlacedEnd
  <2>2. k - 1 \in 1..m
    BY <1>1, <2>1
  <2>3. events2[k - 1] = events[k - 1] /\ Clear(events2, k - 1)
    BY <1>1, <1>3, <2>1, <2>2
  <2> QED
    BY <1>2, <1>4, <2>3 DEF PlacedEnd
<1> QED
  BY <1>1, <1>2, <1>3, <1>4

\* One event of an example, or of none, more.
LEMMA EventsGrown ==
  ASSUME NEW events, NEW events2, NEW x, Grown(events, events2, x), EventOk(x),
         \A k \in 1..Len(events) : EventOk(events[k])
  PROVE  IsSeq(events2) /\ \A k \in 1..Len(events2) : EventOk(events2[k])
<1>1. ASSUME NEW k \in 1..Len(events2) PROVE EventOk(events2[k])
  <2>1. (k \in 1..Len(events) /\ events2[k] = events[k]) \/ events2[k] = x
    BY DEF Grown
  <2>2. CASE k \in 1..Len(events) /\ events2[k] = events[k]
    BY <2>2
  <2>3. CASE events2[k] = x
    BY <2>3
  <2> QED
    BY <2>1, <2>2, <2>3
<1> QED
  BY <1>1 DEF Grown

\* Of the examples that ended so far, and may be placed, nothing is lost.
LEMMA DoneStays ==
  ASSUME NEW events, NEW events2, NEW x, Grown(events, events2, x), NEW runs, NEW done,
         PlacedOk(events, runs, done), NEW e \in Examples, e.id \in done
  PROVE  \E k \in 1..Len(events2) : events2[k].id = e.id /\ PlacedEnd(events2, k)
<1>1. PICK k \in 1..Len(events) : events[k].id = e.id /\ PlacedEnd(events, k)
  BY Zenon DEF PlacedOk
<1>2. k \in 1..Len(events2) /\ events2[k] = events[k] /\ PlacedEnd(events2, k)
  BY <1>1, ClearGrown
<1> QED
  BY <1>1, <1>2

\* A worker that is in no request any more goes on with none.
LEMMA BlocksLeft ==
  ASSUME NEW lines, NEW requests, NEW then, BlocksOk(lines, requests),
         \A v \in Workers : then[v] # NoRequest => then[v] = requests[v]
  PROVE  BlocksOk(lines, then)
BY Zenon DEF BlocksOk

\* The world is what it is after a step.
LEMMA WorldThen ==
  ASSUME WorldInv, DOMAIN out' = Streams, out'.log = out.log,
         running' \in [Workers -> {NoExample} \cup Run], todo' \subseteq Examples,
         block' \in [Workers -> Block], \A v \in Workers : block'[v] # NoRequest => block'[v] = block[v],
         EventsOk(out.log, out'.events, running', todo', placed')
  PROVE  WorldInv'
<1>1. OneWorker' => BlocksOk(out.log, block')
  <2>1. OneWorker' => OneWorker
    BY DEF OneWorker
  <2> QED
    BY <2>1, WorldIs, BlocksLeft
<1>2. LogOk(out.log)
  BY WorldIs
<1>3. /\ LogOk(out'.log) /\ (OneWorker' => BlocksOk(out'.log, block'))
      /\ EventsOk(out'.log, out'.events, running', todo', placed')
  BY <1>1, <1>2
<1> QED
  BY <1>3 DEF WorldInv

\* An event that is not of an example is written, when none was or no example runs.
LEMMA OtherWorld ==
  ASSUME WorldInv, NEW x, out' = [out EXCEPT !["events"] = @ \o <<x>>],
         x.is \notin {"example_started", "example"},
         out.events = <<>> \/ \A w \in Workers : running[w] = NoExample,
         UNCHANGED <<todo, running, block, placed>>
  PROVE  WorldInv'
<1>1. PICK s, u : s = out.events /\ u = s \o <<x>>
  OBVIOUS
<1>2. out'.log = out.log /\ out'.events = u /\ DOMAIN out' = Streams
  BY <1>1, WorldIs
<1>3. Grown(s, u, x)
  BY <1>1, WorldIs, Grows
<1>4. /\ \A k \in 1..Len(s) : EventOk(s[k])
      /\ NoneShared(running) /\ PlacedOk(s, running, placed)
      /\ \A e \in Examples : SpanOk(out.log, s, running, e)
      /\ \A e \in todo : Unseen(out.log, s, running, e)
  BY <1>1, WorldIs, Zenon DEF EventsOk
<1>5. ASSUME NEW e PROVE NoMore(s, running, u, running, e)
  <2>1. ASSUME NEW stage, NEW is \in {"example_started", "example"}, NEW o, Seen(u, running, stage, is, e, o)
        PROVE  Seen(s, running, stage, is, e, o)
    BY <1>3, <2>1, SeenGrown
  <2> QED
    BY <2>1, Zenon DEF NoMore, Began, Finished
<1>6. (\A e \in Examples : SpanOk(out.log, u, running, e)) /\ \A e \in todo : Unseen(out.log, u, running, e)
  BY <1>4, <1>5, SpanStays
<1>7. IsSeq(u) /\ \A k \in 1..Len(u) : EventOk(u[k])
  <2>1. EventOk(x)
    BY DEF EventOk
  <2> QED
    BY <1>3, <1>4, <2>1, EventsGrown
<1>8. PlacedOk(u, running, placed)
  <2>1. ASSUME NEW w \in Workers, running[w] # NoExample, running[w].placed
        PROVE  PlacedRun(u, running[w]) /\ \A v \in Workers : running[v] # NoExample => v = w
    <3>1. PlacedRun(s, running[w]) /\ \A v \in Workers : running[v] # NoExample => v = w
      BY <1>4, <2>1, Zenon DEF PlacedOk
    <3>2. Len(s) = 0
      BY <1>1, <2>1
    <3>3. Len(u) = 1 /\ u[1] = x /\ ~ Places(x)
      BY <1>3, <3>2 DEF Grown, Places
    <3>4. \A j \in 1..Len(u) : ~ Places(u[j])
      BY <3>3
    <3>5. running[w].is = "starting" /\ running[w].offset # NoNumber
      BY <3>1, <3>2 DEF PlacedRun
    <3>6. PlacedRun(u, running[w])
      BY <3>4, <3>5 DEF PlacedRun
    <3> QED
      BY <3>1, <3>6
  <2>2. \A e \in Examples : e.id \in placed =>
          \E k \in 1..Len(u) : u[k].id = e.id /\ PlacedEnd(u, k)
    BY <1>3, <1>4, DoneStays
  <2> QED
    BY <2>1, <2>2, Zenon DEF PlacedOk
<1>9. EventsOk(out.log, u, running, todo, placed)
  BY <1>4, <1>6, <1>7, <1>8, Zenon DEF EventsOk
<1>10. /\ running' \in [Workers -> {NoExample} \cup Run] /\ todo' \subseteq Examples
       /\ block' \in [Workers -> Block]
       /\ \A v \in Workers : block'[v] # NoRequest => block'[v] = block[v]
       /\ EventsOk(out.log, out'.events, running', todo', placed')
  BY <1>2, <1>9, WorldIs
<1> QED
  BY <1>2, <1>10, WorldThen

\* The listener looks at the log when an example starts.
LEMMA NoteStartWorld ==
  ASSUME WorldInv, NEW w \in Workers, NEW e \in Examples, NoteStart(w, e)
  PROVE  WorldInv'
<1>1. /\ running[w] = NoExample /\ e \in todo /\ todo' = todo \ {e}
      /\ block' = [block EXCEPT ![w] = NoRequest] /\ UNCHANGED <<out, placed>>
  BY DEF NoteStart
<1>2. PICK offset \in Offsets :
        running' = [v \in Workers |->
                      IF v # w THEN Beside(running[v])
                      ELSE [example |-> e, is |-> "starting", offset |-> offset,
                            placed |-> /\ offset # NoNumber
                                       /\ \A u \in Workers \ {w} : running[u] = NoExample]]
  BY DEF NoteStart
<1>3. PICK runs, then, q :
        /\ runs = running /\ then = running'
        /\ q = [example |-> e, is |-> "starting", offset |-> offset,
                placed |-> /\ offset # NoNumber
                           /\ \A u \in Workers \ {w} : running[u] = NoExample]
  OBVIOUS
<1>4. /\ q \in Run /\ q.example = e /\ q.is = "starting" /\ q.offset = offset
      /\ q.placed => offset # NoNumber /\ \A u \in Workers : u # w => runs[u] = NoExample
  <2>1. offset \in Nat \cup {NoNumber}
    BY <1>2, LengthOfLog DEF Offsets
  <2> QED
    BY <1>3, <2>1 DEF Run
<1>5. /\ then[w] = q /\ \A v \in Workers : v # w => then[v] = Beside(runs[v])
      /\ DOMAIN then = Workers
  BY <1>2, <1>3
<1>6. ASSUME NEW v \in Workers, v # w
      PROVE  /\ then[v] \in {NoExample} \cup Run
             /\ then[v] # NoExample =>
                  /\ runs[v] # NoExample /\ then[v].example = runs[v].example
                  /\ then[v].is = runs[v].is /\ then[v].offset = runs[v].offset
                  /\ ~ then[v].placed
  <2>1. CASE runs[v] = NoExample
    BY <1>5, <1>6, <2>1 DEF Beside
  <2>2. CASE runs[v] # NoExample
    <3>1. runs[v] \in Run /\ then[v] = [runs[v] EXCEPT !.placed = FALSE]
      BY <1>3, <1>5, <1>6, <2>2, RunIs DEF Beside
    <3> QED
      BY <2>2, <3>1 DEF Run
  <2> QED
    BY <2>1, <2>2
<1>7. then \in [Workers -> {NoExample} \cup Run]
  BY <1>2, <1>3, <1>4, <1>5, <1>6
<1>8. Others(runs, then, w)
  BY <1>6 DEF Others
<1>9. PICK s, lines, m : s = out.events /\ lines = out.log /\ m = Len(lines)
  OBVIOUS
<1>10. /\ IsSeq(s) /\ \A k \in 1..Len(s) : EventOk(s[k])
       /\ NoneShared(runs) /\ PlacedOk(s, runs, placed)
       /\ \A d \in Examples : SpanOk(lines, s, runs, d)
       /\ \A d \in todo : Unseen(lines, s, runs, d)
       /\ EventsOk(lines, s, runs, todo, placed) /\ LogOk(lines)
  BY <1>3, <1>9, WorldIs, Zenon DEF EventsOk
<1>11. m \in Nat /\ offset \in {LenTo(lines, m), NoNumber}
  BY <1>2, <1>9, LengthOfLog DEF Offsets
<1>12. ASSUME NEW d, d # e PROVE NoMore(s, runs, s, then, d)
  BY <1>4, <1>5, <1>8, <1>12, OthersStay
<1>13. SpanOk(lines, s, then, e)
  <2>1. /\ ~ Has(runs, e) /\ \A o : ~ Began(s, runs, e, o) /\ ~ Finished(s, runs, e, o)
        /\ \A n \in 1..Len(lines) : e \notin lines[n].during
    BY <1>1, <1>10, Zenon DEF Unseen
  <2>2. ASSUME NEW o, Began(s, then, e, o) PROVE o \in {LenTo(lines, m), NoNumber}
    <3>1. Began(s, runs, e, o) \/ HasSeen(then[w], "starting", e, o)
      BY <1>8, <2>2, SeenThen DEF Began
    <3> QED
      BY <1>4, <1>5, <1>11, <2>1, <3>1 DEF HasSeen
  <2>3. ASSUME NEW o, Finished(s, then, e, o) PROVE FALSE
    <3>1. Finished(s, runs, e, o) \/ HasSeen(then[w], "ending", e, o)
      BY <1>8, <2>3, SeenThen DEF Finished
    <3> QED
      BY <1>4, <1>5, <2>1, <3>1 DEF HasSeen
  <2>4. m \in 0..Len(lines) /\ m <= m /\ \A n \in 1..Len(lines) : ~ (m < n /\ n <= m)
    BY <1>9, <1>11
  <2>5. Span(lines, s, then, e, m, m)
    BY <1>9, <2>1, <2>2, <2>3, <2>4, Zenon DEF Span
  <2> QED
    BY <2>4, <2>5, Zenon DEF SpanOk
<1>14. \A d \in Examples : SpanOk(lines, s, then, d)
  BY <1>10, <1>12, <1>13, SpanStays
<1>15. \A d \in todo' : Unseen(lines, s, then, d)
  BY <1>1, <1>10, <1>12, SpanStays
<1>16. NoneShared(then)
  <2>1. \A v \in Workers : v # w /\ then[v] # NoExample => then[v].example # e
    BY <1>1, <1>6, <1>10 DEF Unseen, Has
  <2> QED
    BY <1>4, <1>5, <1>6, <1>10, <2>1 DEF NoneShared
<1>17. PlacedOk(s, then, placed)
  <2>1. ASSUME NEW v \in Workers, then[v] # NoExample, then[v].placed
        PROVE  PlacedRun(s, then[v]) /\ \A u \in Workers : then[u] # NoExample => u = v
    <3>1. v = w
      BY <1>6, <2>1
    <3>2. offset # NoNumber /\ \A u \in Workers : u # w => runs[u] = NoExample
      BY <1>4, <1>5, <2>1, <3>1
    <3>3. \A u \in Workers : then[u] # NoExample => u = v
      BY <1>6, <3>1, <3>2
    <3>4. \A j \in 1..Len(s) : Places(s[j]) => s[j].offset <= offset
      BY <1>9, <1>10, <1>11, <3>2, PlaceIs
    <3>5. PlacedRun(s, q)
      BY <1>4, <3>2, <3>4 DEF PlacedRun
    <3> QED
      BY <1>5, <3>1, <3>3, <3>5
  <2>2. \A d \in Examples : d.id \in placed => \E k \in 1..Len(s) : s[k].id = d.id /\ PlacedEnd(s, k)
    BY <1>10, Zenon DEF PlacedOk
  <2> QED
    BY <2>1, <2>2, Zenon DEF PlacedOk
<1>18. EventsOk(lines, s, then, todo', placed)
  BY <1>10, <1>14, <1>15, <1>16, <1>17, Zenon DEF EventsOk
<1>19. /\ DOMAIN out' = Streams /\ out'.log = out.log
       /\ running' \in [Workers -> {NoExample} \cup Run] /\ todo' \subseteq Examples
       /\ block' \in [Workers -> Block] /\ \A v \in Workers : block'[v] # NoRequest => block'[v] = block[v]
       /\ EventsOk(out.log, out'.events, running', todo', placed')
  BY <1>1, <1>3, <1>7, <1>9, <1>18, WorldIs, NoRequestIs
<1> QED
  BY <1>19, WorldThen

\* The listener looks at the log when an example ends.
LEMMA NoteEndWorld ==
  ASSUME WorldInv, NEW w \in Workers, NoteEnd(w)
  PROVE  WorldInv'
<1>1. /\ running[w] # NoExample /\ running[w].is = "running"
      /\ block' = [block EXCEPT ![w] = NoRequest] /\ UNCHANGED <<out, todo, placed>>
  BY DEF NoteEnd, IsAt
<1>2. PICK offset \in Offsets :
        running' = [running EXCEPT ![w] =
                      [example |-> running[w].example, is |-> "ending", offset |-> offset,
                       placed |-> running[w].placed /\ offset # NoNumber]]
  BY DEF NoteEnd
<1>3. PICK runs, then, r, e, q :
        /\ runs = running /\ then = running' /\ r = running[w] /\ e = r.example
        /\ q = [example |-> running[w].example, is |-> "ending", offset |-> offset,
                placed |-> running[w].placed /\ offset # NoNumber]
  OBVIOUS
<1>4. r \in Run /\ e \in Examples
  BY <1>1, <1>3, RunIs DEF Run
<1>6. /\ q \in Run /\ q.example = e /\ q.is = "ending" /\ q.offset = offset
      /\ q.placed => r.placed /\ offset # NoNumber
  <2>1. offset \in Nat \cup {NoNumber}
    BY <1>2, LengthOfLog DEF Offsets
  <2> QED
    BY <1>3, <1>4, <2>1 DEF Run
<1>7. /\ then[w] = q /\ \A v \in Workers : v # w => then[v] = runs[v]
      /\ then \in [Workers -> {NoExample} \cup Run]
  BY <1>2, <1>3, <1>6, WorldIs
<1>8. Others(runs, then, w)
  BY <1>7 DEF Others
<1>9. PICK s, lines, m : s = out.events /\ lines = out.log /\ m = Len(lines)
  OBVIOUS
<1>10. /\ IsSeq(s) /\ \A k \in 1..Len(s) : EventOk(s[k])
       /\ NoneShared(runs) /\ PlacedOk(s, runs, placed)
       /\ \A d \in Examples : SpanOk(lines, s, runs, d)
       /\ \A d \in todo : Unseen(lines, s, runs, d)
  BY <1>3, <1>9, WorldIs, Zenon DEF EventsOk
<1>11. m \in Nat /\ offset \in {LenTo(lines, m), NoNumber}
  BY <1>2, <1>9, LengthOfLog DEF Offsets
<1>12. ASSUME NEW d, d # e PROVE NoMore(s, runs, s, then, d)
  BY <1>6, <1>7, <1>8, <1>12, OthersStay
<1>13. SpanOk(lines, s, then, e)
  <2>1. PICK a \in 0..m, b \in 0..m : Span(lines, s, runs, e, a, b)
    BY <1>4, <1>9, <1>10, Zenon DEF SpanOk
  <2>2. Runs(runs, e)
    BY <1>1, <1>3 DEF Runs
  <2>3. /\ a <= b /\ b = m
        /\ \A n \in 1..Len(lines) : e \in lines[n].during <=> a < n /\ n <= b
        /\ \A o : Began(s, runs, e, o) => o \in {LenTo(lines, a), NoNumber}
        /\ \A o : ~ Finished(s, runs, e, o)
    BY <1>9, <2>1, <2>2, Zenon DEF Span
  <2>4. ASSUME NEW o, Began(s, then, e, o) PROVE o \in {LenTo(lines, a), NoNumber}
    <3>1. Began(s, runs, e, o) \/ HasSeen(then[w], "starting", e, o)
      BY <1>8, <2>4, SeenThen DEF Began
    <3> QED
      BY <1>6, <1>7, <2>3, <3>1 DEF HasSeen
  <2>5. ASSUME NEW o, Finished(s, then, e, o) PROVE o \in {LenTo(lines, b), NoNumber}
    <3>1. Finished(s, runs, e, o) \/ HasSeen(then[w], "ending", e, o)
      BY <1>8, <2>5, SeenThen DEF Finished
    <3> QED
      BY <1>6, <1>7, <1>11, <2>3, <3>1 DEF HasSeen
  <2>6. ~ Runs(then, e)
    <3> SUFFICES ASSUME NEW v \in Workers, then[v] # NoExample, then[v].is # "ending", then[v].example = e
                 PROVE  FALSE
      BY DEF Runs
    <3>1. v # w
      BY <1>6, <1>7
    <3> QED
      BY <1>1, <1>3, <1>7, <1>10, <3>1 DEF NoneShared
  <2>7. Span(lines, s, then, e, a, b)
    BY <2>3, <2>4, <2>5, <2>6, Zenon DEF Span
  <2> QED
    BY <1>9, <2>7, Zenon DEF SpanOk
<1>14. \A d \in Examples : SpanOk(lines, s, then, d)
  BY <1>10, <1>12, <1>13, SpanStays
<1>15. \A d \in todo : Unseen(lines, s, then, d)
  <2>1. e \notin todo
    BY <1>1, <1>3, <1>10 DEF Unseen, Has
  <2> QED
    BY <1>10, <1>12, <2>1, SpanStays
<1>16. \A v \in Workers : then[v] # NoExample => runs[v] # NoExample /\ then[v].example = runs[v].example
  BY <1>1, <1>3, <1>6, <1>7
<1>17. NoneShared(then)
  BY <1>10, <1>16 DEF NoneShared
<1>18. PlacedOk(s, then, placed)
  <2>1. ASSUME NEW v \in Workers, then[v] # NoExample, then[v].placed
        PROVE  PlacedRun(s, then[v]) /\ \A u \in Workers : then[u] # NoExample => u = v
    <3>1. runs[v] # NoExample /\ runs[v].placed
      BY <1>1, <1>3, <1>6, <1>7, <2>1
    <3>2. PlacedRun(s, runs[v]) /\ \A u \in Workers : runs[u] # NoExample => u = v
      BY <1>10, <3>1, Zenon DEF PlacedOk
    <3>3. v = w
      BY <1>1, <1>3, <3>2
    <3>4. PlacedRun(s, q)
      BY <1>1, <1>3, <1>6, <1>7, <2>1, <3>2, <3>3 DEF PlacedRun
    <3> QED
      BY <1>7, <1>16, <3>2, <3>3, <3>4
  <2>2. \A d \in Examples : d.id \in placed => \E k \in 1..Len(s) : s[k].id = d.id /\ PlacedEnd(s, k)
    BY <1>10, Zenon DEF PlacedOk
  <2> QED
    BY <2>1, <2>2, Zenon DEF PlacedOk
<1>19. EventsOk(lines, s, then, todo, placed)
  BY <1>10, <1>14, <1>15, <1>17, <1>18, Zenon DEF EventsOk
<1>20. /\ DOMAIN out' = Streams /\ out'.log = out.log
       /\ running' \in [Workers -> {NoExample} \cup Run] /\ todo' \subseteq Examples
       /\ block' \in [Workers -> Block] /\ \A v \in Workers : block'[v] # NoRequest => block'[v] = block[v]
       /\ EventsOk(out.log, out'.events, running', todo', placed')
  BY <1>1, <1>3, <1>7, <1>9, <1>19, WorldIs, NoRequestIs
<1> QED
  BY <1>20, WorldThen

\* What the listener saw when an example started is written.
LEMMA StartWorld ==
  ASSUME WorldInv, NEW w \in Workers, StartExample(w)
  PROVE  WorldInv'
<1>1. /\ running[w] # NoExample /\ running[w].is = "starting"
      /\ running' = [running EXCEPT ![w].is = "running"] /\ UNCHANGED <<todo, block, placed>>
  BY DEF StartExample, IsAt
<1>2. PICK x : x = [is |-> "example_started", id |-> running[w].example.id,
                    offset |-> running[w].offset, text |-> ""]
  OBVIOUS
<1>3. out' = [out EXCEPT !["events"] = @ \o <<x>>]
  BY <1>2 DEF StartExample, Writes
<1>4. PICK runs, then, r, e : runs = running /\ then = running' /\ r = running[w] /\ e = r.example
  OBVIOUS
<1>5. r \in Run /\ e \in Examples
  BY <1>1, <1>4, RunIs DEF Run
<1>6. x.is = "example_started" /\ x.id = e.id /\ x.offset = r.offset
  BY <1>2, <1>4
<1>7. PICK q : q = [r EXCEPT !.is = "running"]
  OBVIOUS
<1>8. q \in Run /\ q.example = e /\ q.is = "running" /\ (q.placed => r.placed)
  BY <1>4, <1>5, <1>7 DEF Run
<1>9. /\ then[w] = q /\ \A v \in Workers : v # w => then[v] = runs[v]
      /\ then \in [Workers -> {NoExample} \cup Run]
  BY <1>1, <1>4, <1>7, <1>8, WorldIs
<1>10. Others(runs, then, w)
  BY <1>9 DEF Others
<1>11. PICK s, u, lines : s = out.events /\ u = s \o <<x>> /\ lines = out.log
  OBVIOUS
<1>12. Grown(s, u, x)
  BY <1>11, WorldIs, Grows
<1>13. out'.log = out.log /\ out'.events = u /\ DOMAIN out' = Streams
  BY <1>3, <1>11, WorldIs
<1>14. /\ \A k \in 1..Len(s) : EventOk(s[k])
       /\ NoneShared(runs) /\ PlacedOk(s, runs, placed)
       /\ \A d \in Examples : SpanOk(lines, s, runs, d)
       /\ \A d \in todo : Unseen(lines, s, runs, d)
  BY <1>4, <1>11, WorldIs, Zenon DEF EventsOk
<1>15. ASSUME NEW d \in Examples PROVE NoMore(s, runs, u, then, d)
  <2>1. /\ runs[w] # NoExample /\ runs[w].example \in Examples
        /\ x.id = runs[w].example.id /\ x.offset = runs[w].offset
        /\ runs[w].is = "starting" /\ then[w].is = "running" /\ then[w].example = runs[w].example
    BY <1>1, <1>4, <1>5, <1>6, <1>8, <1>9
  <2> QED
    BY <1>6, <1>10, <1>12, <2>1, WrittenStays
<1>16. \A d \in Examples : SpanOk(lines, u, then, d)
  BY <1>14, <1>15, SpanStays
<1>17. \A d \in todo : Unseen(lines, u, then, d)
  BY <1>14, <1>15, SpanStays, WorldIs
<1>18. IsSeq(u) /\ \A k \in 1..Len(u) : EventOk(u[k])
  <2>1. EventOk(x)
    BY <1>5, <1>6 DEF EventOk
  <2> QED
    BY <1>12, <1>14, <2>1, EventsGrown
<1>19. \A v \in Workers : then[v] # NoExample => runs[v] # NoExample /\ then[v].example = runs[v].example
  BY <1>1, <1>4, <1>8, <1>9
<1>20. NoneShared(then)
  BY <1>14, <1>19 DEF NoneShared
<1>21. PlacedOk(u, then, placed)
  <2>1. ASSUME NEW v \in Workers, then[v] # NoExample, then[v].placed
        PROVE  PlacedRun(u, then[v]) /\ \A z \in Workers : then[z] # NoExample => z = v
    <3>1. runs[v] # NoExample /\ runs[v].placed
      BY <1>1, <1>4, <1>8, <1>9, <2>1
    <3>2. PlacedRun(s, runs[v]) /\ \A z \in Workers : runs[z] # NoExample => z = v
      BY <1>14, <3>1, Zenon DEF PlacedOk
    <3>3. v = w
      BY <1>1, <1>4, <3>2
    <3>4. /\ r.offset # NoNumber
          /\ \A j \in 1..Len(s) : Places(s[j]) => s[j].offset <= r.offset
      BY <1>1, <1>4, <3>2, <3>3 DEF PlacedRun
    <3>5. PICK m : m = Len(s) /\ m \in Nat /\ Len(u) = m + 1 /\ u[m + 1] = x /\ \A i \in 1..m : u[i] = s[i]
      BY <1>12 DEF Grown
    <3>6. Places(u[m + 1]) /\ u[m + 1].offset = r.offset
      BY <1>6, <3>4, <3>5 DEF Places
    <3>7. \A j \in 1..((m + 1) - 1) : Places(u[j]) => u[j].offset <= r.offset
      BY <3>4, <3>5
    <3>8. Clear(u, m + 1)
      BY <3>6, <3>7, Zenon DEF Clear
    <3>9. PlacedRun(u, q)
      BY <1>6, <1>8, <3>5, <3>8 DEF PlacedRun
    <3> QED
      BY <1>9, <1>19, <3>2, <3>3, <3>9
  <2>2. \A d \in Examples : d.id \in placed => \E k \in 1..Len(u) : u[k].id = d.id /\ PlacedEnd(u, k)
    BY <1>12, <1>14, DoneStays
  <2> QED
    BY <2>1, <2>2, Zenon DEF PlacedOk
<1>22. EventsOk(lines, u, then, todo, placed)
  BY <1>16, <1>17, <1>18, <1>20, <1>21, Zenon DEF EventsOk
<1>23. block \in [Workers -> Block] /\ todo \subseteq Examples
  BY WorldIs
<1>24. /\ running' \in [Workers -> {NoExample} \cup Run] /\ todo' \subseteq Examples
       /\ block' \in [Workers -> Block] /\ \A v \in Workers : block'[v] # NoRequest => block'[v] = block[v]
       /\ EventsOk(out.log, out'.events, running', todo', placed')
  BY <1>1, <1>4, <1>9, <1>11, <1>13, <1>22, <1>23
<1> QED
  BY <1>13, <1>24, WorldThen

\* What is known of an example's end is what the example is known by.
LEMMA IdentityIs ==
  ASSUME NEW e \in Examples, NEW x, x.id = e.id, x.file_path = e.file_path, x.group = e.group,
         x.unnamed = e.unnamed, ~ e.unnamed => x.description = e.group
  PROVE  Identity(x) = Ident(e)
BY SuiteAssumption DEF Identity, Ident, spec_file

\* What the listener saw when an example ended is written.
LEMMA EndWorld ==
  ASSUME WorldInv, NEW w \in Workers, NEW failed \in BOOLEAN, EndExample(w, failed)
  PROVE  WorldInv'
<1>1. /\ running[w] # NoExample /\ running[w].is = "ending"
      /\ running' = [running EXCEPT ![w] = NoExample] /\ UNCHANGED <<todo, block>>
  BY DEF EndExample, IsAt
<1>2. PICK runs, then, r, e : runs = running /\ then = running' /\ r = running[w] /\ e = r.example
  OBVIOUS
<1>3. r \in Run /\ e \in Examples
  BY <1>1, <1>2, RunIs DEF Run
<1>4. PICK status : status = IF failed THEN "failed" ELSE "passed"
  OBVIOUS
<1>5. PICK x : x = [is |-> "example", id |-> e.id, file_path |-> e.file_path, group |-> e.group,
                    unnamed |-> e.unnamed, status |-> status, offset |-> r.offset,
                    description |-> IF e.unnamed THEN status ELSE e.group,
                    exception |-> IF failed THEN "Error" ELSE NoExample, text |-> ""]
  OBVIOUS
<1>6. out' = [out EXCEPT !["events"] = @ \o <<x>>]
  BY <1>2, <1>4, <1>5 DEF EndExample, Writes
<1>7. placed' = IF r.placed THEN placed \cup {e.id} ELSE placed
  BY <1>2 DEF EndExample
<1>8. /\ x.is = "example" /\ x.id = e.id /\ x.offset = r.offset
      /\ x.file_path = e.file_path /\ x.group = e.group /\ x.unnamed = e.unnamed
      /\ ~ e.unnamed => x.description = e.group
  BY <1>5
<1>9. /\ then[w] = NoExample /\ \A v \in Workers : v # w => then[v] = runs[v]
      /\ then \in [Workers -> {NoExample} \cup Run]
  BY <1>1, <1>2, WorldIs
<1>10. Others(runs, then, w)
  BY <1>9 DEF Others
<1>11. PICK s, u, lines : s = out.events /\ u = s \o <<x>> /\ lines = out.log
  OBVIOUS
<1>12. Grown(s, u, x)
  BY <1>11, WorldIs, Grows
<1>13. out'.log = out.log /\ out'.events = u /\ DOMAIN out' = Streams
  BY <1>6, <1>11, WorldIs
<1>14. /\ \A k \in 1..Len(s) : EventOk(s[k])
       /\ NoneShared(runs) /\ PlacedOk(s, runs, placed)
       /\ \A d \in Examples : SpanOk(lines, s, runs, d)
       /\ \A d \in todo : Unseen(lines, s, runs, d)
  BY <1>2, <1>11, WorldIs, Zenon DEF EventsOk
<1>15. ASSUME NEW d \in Examples PROVE NoMore(s, runs, u, then, d)
  <2>1. /\ runs[w] # NoExample /\ runs[w].example \in Examples
        /\ x.id = runs[w].example.id /\ x.offset = runs[w].offset /\ runs[w].is = "ending"
    BY <1>1, <1>2, <1>3, <1>8
  <2> QED
    BY <1>8, <1>9, <1>10, <1>12, <2>1, WrittenStays
<1>16. \A d \in Examples : SpanOk(lines, u, then, d)
  BY <1>14, <1>15, SpanStays
<1>17. \A d \in todo : Unseen(lines, u, then, d)
  BY <1>14, <1>15, SpanStays, WorldIs
<1>18. IsSeq(u) /\ \A k \in 1..Len(u) : EventOk(u[k])
  <2>1. Identity(x) = Ident(e)
    BY <1>3, <1>8, IdentityIs
  <2>2. EventOk(x)
    BY <1>3, <1>8, <2>1 DEF EventOk
  <2> QED
    BY <1>12, <1>14, <2>2, EventsGrown
<1>19. NoneShared(then)
  BY <1>9, <1>14 DEF NoneShared
<1>20. PlacedOk(u, then, placed')
  <2>1. ASSUME NEW v \in Workers, then[v] # NoExample, then[v].placed
        PROVE  FALSE
    <3>1. v # w /\ runs[v] # NoExample /\ runs[v].placed
      BY <1>9, <2>1
    <3>2. \A z \in Workers : runs[z] # NoExample => z = v
      BY <1>14, <3>1, Zenon DEF PlacedOk
    <3> QED
      BY <1>1, <1>2, <3>1, <3>2
  <2>2. ASSUME NEW d \in Examples, d.id \in placed'
        PROVE  \E k \in 1..Len(u) : u[k].id = d.id /\ PlacedEnd(u, k)
    <3>1. CASE d.id \in placed
      BY <1>12, <1>14, <3>1, DoneStays
    <3>2. CASE d.id = e.id /\ r.placed
      <4>1. PlacedRun(s, r)
        BY <1>1, <1>2, <1>14, <3>2, Zenon DEF PlacedOk
      <4>2. PICK m : m = Len(s) /\ m \in Nat /\ Len(u) = m + 1 /\ u[m + 1] = x
        BY <1>12 DEF Grown
      <4>3. /\ m > 0 /\ Clear(s, m) /\ s[m].is = "example_started" /\ s[m].id = e.id
            /\ r.offset # NoNumber
        BY <1>1, <1>2, <4>1, <4>2 DEF PlacedRun
      <4>4. u[m] = s[m] /\ Clear(u, m)
        BY <1>12, <4>2, <4>3, ClearGrown
      <4>5. (m + 1) - 1 = m /\ m + 1 > 1 /\ m + 1 \in 1..Len(u)
        BY <4>2, <4>3
      <4>6. Places(u[m + 1])
        BY <1>8, <4>2, <4>3 DEF Places
      <4>7. PlacedEnd(u, m + 1)
        BY <1>8, <4>2, <4>3, <4>4, <4>5, <4>6 DEF PlacedEnd
      <4> QED
        BY <1>8, <3>2, <4>2, <4>5, <4>7
    <3> QED
      BY <1>7, <2>2, <3>1, <3>2
  <2> QED
    BY <2>1, <2>2, Zenon DEF PlacedOk
<1>21. EventsOk(lines, u, then, todo, placed')
  BY <1>16, <1>17, <1>18, <1>19, <1>20, Zenon DEF EventsOk
<1>22. block \in [Workers -> Block] /\ todo \subseteq Examples
  BY WorldIs
<1>23. /\ running' \in [Workers -> {NoExample} \cup Run] /\ todo' \subseteq Examples
       /\ block' \in [Workers -> Block] /\ \A v \in Workers : block'[v] # NoRequest => block'[v] = block[v]
       /\ EventsOk(out.log, out'.events, running', todo', placed')
  BY <1>1, <1>2, <1>9, <1>11, <1>13, <1>21, <1>22
<1> QED
  BY <1>13, <1>23, WorldThen

\* At first nothing was written or seen.
LEMMA InitWorld == Init => WorldInv
<1> SUFFICES ASSUME Init PROVE WorldInv
  OBVIOUS
<1>1. /\ out = [s \in Streams |-> <<>>] /\ todo \in {{}, Examples}
      /\ running = [w \in Workers |-> NoExample] /\ block = [w \in Workers |-> NoRequest]
      /\ placed = {}
  BY DEF Init
<1>2. DOMAIN out = Streams /\ out.log = <<>> /\ out.events = <<>>
  BY <1>1 DEF Streams
<1>3. /\ running \in [Workers -> {NoExample} \cup Run] /\ block \in [Workers -> Block]
      /\ todo \subseteq Examples
      /\ \A w \in Workers : block[w] = NoRequest /\ running[w] = NoExample
  BY <1>1, NoRequestIs
<1>4. PICK s : s = <<>>
  OBVIOUS
<1>5. IsSeq(s) /\ Len(s) = 0 /\ LenTo(s, 0) = 0
  <2>1. IsSeq(s) /\ Len(s) = 0
    BY <1>4, Single
  <2> QED
    BY <2>1, LenToNext
<1>6. 0..Len(s) = {0} /\ 1..Len(s) = {}
  BY <1>5
<1>7. LogOk(s)
  <2>1. \A n \in 0..Len(s) : LenTo(s, n) \in Nat
    BY <1>5, <1>6
  <2>2. \A j, n \in 0..Len(s) : j < n => LenTo(s, j) < LenTo(s, n)
    BY <1>6
  <2> QED
    BY <1>5, <1>6, <2>1, <2>2, Zenon DEF LogOk
<1>8. BlocksOk(s, block)
  BY <1>3, <1>6 DEF BlocksOk
<1>9. ASSUME NEW e
      PROVE  /\ ~ Has(running, e) /\ ~ Runs(running, e)
             /\ \A o : ~ Began(s, running, e, o) /\ ~ Finished(s, running, e, o)
  BY <1>3, <1>6 DEF Has, Runs, Began, Finished, Seen, HasSeen
<1>10. \A e \in Examples : SpanOk(s, s, running, e)
  <2> SUFFICES ASSUME NEW e \in Examples PROVE SpanOk(s, s, running, e)
    OBVIOUS
  <2>0. 0 <= 0 /\ \A n \in 1..Len(s) : e \in s[n].during <=> 0 < n /\ n <= 0
    BY <1>6
  <2>1. Span(s, s, running, e, 0, 0)
    BY <1>9, <2>0, Zenon DEF Span
  <2> QED
    BY <1>6, <2>1, Zenon DEF SpanOk
<1>11. \A e \in todo : Unseen(s, s, running, e)
  BY <1>6, <1>9, Zenon DEF Unseen
<1>12. NoneShared(running) /\ PlacedOk(s, running, placed)
  BY <1>1, <1>3 DEF NoneShared, PlacedOk
<1>13. EventsOk(s, s, running, todo, placed)
  BY <1>5, <1>6, <1>10, <1>11, <1>12, Zenon DEF EventsOk
<1>14. /\ LogOk(out.log) /\ BlocksOk(out.log, block)
       /\ EventsOk(out.log, out.events, running, todo, placed)
  BY <1>2, <1>4, <1>7, <1>8, <1>13
<1> QED
  BY <1>2, <1>3, <1>14 DEF WorldInv

\* What the world leaves as it was, is.
LEMMA SameWorld ==
  ASSUME WorldInv, DOMAIN out' = Streams, out'.log = out.log, out'.events = out.events,
         UNCHANGED <<todo, running, block, placed>>
  PROVE  WorldInv'
<1>1. /\ running' \in [Workers -> {NoExample} \cup Run] /\ todo' \subseteq Examples
      /\ block' \in [Workers -> Block] /\ \A v \in Workers : block'[v] # NoRequest => block'[v] = block[v]
      /\ EventsOk(out.log, out'.events, running', todo', placed')
  BY WorldIs
<1> QED
  BY <1>1, WorldThen

\* Output is neither events nor log.
LEMMA PrintsWorld ==
  ASSUME WorldInv, NEW stream \in {"stdout", "stderr"}, NEW lines, Prints(stream, lines)
  PROVE  WorldInv'
<1>1. out' = [out EXCEPT ![stream] = @ \o lines] /\ UNCHANGED <<todo, running, block, placed>>
  BY DEF Prints, Writes
<1>2. DOMAIN out' = Streams /\ out'.log = out.log /\ out'.events = out.events
  BY <1>1, WorldIs
<1> QED
  BY <1>1, <1>2, SameWorld

\* Cargo writes to neither events nor log.
LEMMA CargoWorld ==
  ASSUME WorldInv, Cargo
  PROVE  WorldInv'
<1>1. ASSUME NEW name, NEW status, Test(name, status) PROVE WorldInv'
  BY <1>1, PrintsWorld DEF Test
<1>2. CASE TestPrints
  BY <1>2, PrintsWorld DEF TestPrints
<1>3. CASE TestResult
  BY <1>3, PrintsWorld DEF TestResult
<1>4. CASE Failed
  BY <1>4, PrintsWorld DEF Failed
<1> QED
  BY <1>1, <1>2, <1>3, <1>4 DEF Cargo

\* Whatever RSpec, its listener and the application do.
LEMMA RspecWorld ==
  ASSUME WorldInv, Rspec
  PROVE  WorldInv'
<1>1. CASE StartSuite
  <2>1. PICK n : Writes("events", <<[is |-> "start", expected |-> n, defined |-> n, text |-> ""]>>)
    BY <1>1 DEF StartSuite
  <2>2. PICK x : x = [is |-> "start", expected |-> n, defined |-> n, text |-> ""]
    OBVIOUS
  <2>3. out' = [out EXCEPT !["events"] = @ \o <<x>>] /\ x.is = "start"
    BY <2>1, <2>2 DEF Writes
  <2>4. out.events = <<>> /\ UNCHANGED <<todo, running, block, placed>>
    BY <1>1 DEF StartSuite
  <2> QED
    BY <2>3, <2>4, OtherWorld
<1>2. CASE OtherEvent
  <2>1. out.events = <<>> /\ UNCHANGED <<todo, running, block, placed>>
    BY <1>2 DEF OtherEvent
  <2>2. PICK x : /\ x.is \notin {"example_started", "example"}
                 /\ Writes("events", <<x>>)
    <3>1. ASSUME NEW is \in {"other", "garbage"}, Writes("events", <<[is |-> is, text |-> "a"]>>)
          PROVE  \E x : x.is \notin {"example_started", "example"} /\ Writes("events", <<x>>)
      <4>1. PICK x : x = [is |-> is, text |-> "a"]
        OBVIOUS
      <4>2. x.is \notin {"example_started", "example"}
        BY <4>1
      <4> QED
        BY <3>1, <4>1, <4>2
    <3>2. ASSUME NEW outside \in Outside,
                 Writes("events", <<Filled([is |-> "error_outside_examples", text |-> ""], outside)>>)
          PROVE  \E x : x.is \notin {"example_started", "example"} /\ Writes("events", <<x>>)
      <4>1. PICK g, x : g = [is |-> "error_outside_examples", text |-> ""] /\ x = Filled(g, outside)
        OBVIOUS
      <4>2. "is" \in DOMAIN g /\ g["is"] = "error_outside_examples"
        BY <4>1
      <4>3. x["is"] = "error_outside_examples"
        BY <4>1, <4>2 DEF Filled
      <4> QED
        BY <3>2, <4>1, <4>3
    <3> QED
      BY <1>2, <3>1, <3>2, Zenon DEF OtherEvent
  <2>3. out' = [out EXCEPT !["events"] = @ \o <<x>>]
    BY <2>2 DEF Writes
  <2> QED
    BY <2>1, <2>2, <2>3, OtherWorld
<1>3. CASE EndSuite
  <2>1. PICK x : /\ x = [is |-> "summary",
                         examples |-> Len(SelectSeq(out.events, LAMBDA l : l.is = "example")),
                         failures |-> tally.failed, pending |-> 0, errors |-> 0, text |-> ""]
                 /\ Writes("events", <<x>>)
    BY <1>3, Zenon DEF EndSuite
  <2>2. x.is = "summary"
    BY <2>1
  <2>3. out' = [out EXCEPT !["events"] = @ \o <<x>>]
    BY <2>1 DEF Writes
  <2>4. (\A w \in Workers : running[w] = NoExample) /\ UNCHANGED <<todo, running, block, placed>>
    BY <1>3 DEF EndSuite
  <2> QED
    BY <2>2, <2>3, <2>4, OtherWorld
<1>4. ASSUME NEW w \in Workers, Logging(w) PROVE WorldInv'
  <2>1. block \in [Workers -> Block] /\ (running[w] # NoExample => running[w].example \in Examples)
    BY WorldIs, RunIs DEF Run
  <2>2. PICK l : OneLogged(w, l)
    BY <1>4, <2>1, LoggingIs
  <2> QED
    BY <2>2, LoggedWorld
<1>5. ASSUME NEW w \in Workers, NEW e \in Examples, NoteStart(w, e) PROVE WorldInv'
  BY <1>5, NoteStartWorld
<1>6. ASSUME NEW w \in Workers, StartExample(w) \/ NoteEnd(w) PROVE WorldInv'
  BY <1>6, StartWorld, NoteEndWorld
<1>7. ASSUME NEW w \in Workers, NEW failed \in BOOLEAN, EndExample(w, failed) PROVE WorldInv'
  BY <1>7, EndWorld
<1> QED
  BY <1>1, <1>2, <1>3, <1>4, <1>5, <1>6, <1>7, Zenon DEF Rspec, Logging

\* Every step keeps what the streams say.
LEMMA NextWorld == WorldInv /\ [Next]_vars => WorldInv'
<1> SUFFICES ASSUME WorldInv, [Next]_vars PROVE WorldInv'
  OBVIOUS
<1>1. CASE UNCHANGED world
  <2>1. UNCHANGED <<out, todo, running, block, placed>>
    BY <1>1 DEF world
  <2> QED
    BY <2>1, WorldIs, SameWorld
<1>2. CASE EndCargo \/ Kill \/ record_resources
  <2>1. UNCHANGED <<out, todo, running, block, placed>>
    BY <1>2 DEF EndCargo, Kill, record_resources
  <2> QED
    BY <2>1, WorldIs, SameWorld
<1>3. CASE UNCHANGED vars \/ \E s \in Streams : Observe(s)
  <2>1. UNCHANGED world
    BY <1>3, Zenon DEF vars, Observe
  <2> QED
    BY <1>1, <2>1
<1> QED
  BY <1>2, <1>3, RspecWorld, CargoWorld DEF Next


-----------------------------------------------------------------------------
(* What siftr makes of the streams.                                         *)

\* Ranges in their order.
Ordered(scopes) ==
  /\ IsSeq(scopes)
  /\ \A i \in 1..Len(scopes) :
       /\ scopes[i].from \in Nat /\ scopes[i].to \in Nat
       /\ scopes[i].from <= scopes[i].to
  /\ \A i, j \in 1..Len(scopes) : i < j => scopes[i].to <= scopes[j].from

\* The start and the end of an example, which say where the log was.
Ranged(events, j, k) ==
  /\ events[j].is = "example_started" /\ events[k].is = "example"
  /\ events[j].id = events[k].id /\ Places(events[j]) /\ Places(events[k])

\* The range that they say.
RangeOf(events, j, k) ==
  [from |-> events[j].offset, to |-> events[k].offset, example |-> Identity(events[k])]

\* The ranges of the first n events are of examples, and those of the placed ones are there.
ScopesOk(scopes, events, n) ==
  /\ Ordered(scopes)
  /\ \A i \in 1..Len(scopes) : \E j, k \in 1..n :
       Ranged(events, j, k) /\ scopes[i] = RangeOf(events, j, k)
  /\ \A k \in 1..n : PlacedEnd(events, k) =>
       \E i \in 1..Len(scopes) : scopes[i] = RangeOf(events, k - 1, k)

\* Which example the interpreter saw start last is in the first k events.
StartedOk(started, events, k) ==
  /\ started.offset # NoNumber => \E j \in 1..k :
       /\ events[j].is = "example_started"
       /\ started.id = events[j].id /\ started.offset = events[j].offset
  /\ k > 0 /\ events[k].is = "example_started" =>
       started = [id |-> events[k].id, offset |-> events[k].offset]

\* What a line's scope may be.
ScopeOk(scope, l, done, D) ==
  /\ scope # NoScope /\ scope.kind = "test.example" => \E e \in l.during : scope = Ident(e)
  /\ l.by # NoExample /\ l.by.id \in done =>
       scope # NoScope /\ scope = Ident(l.by) /\ scope \in D

\* The line that started a request last.
LastStart(lines, n, s) ==
  s \in 1..n /\ lines[s].is = "started" /\ \A m \in (s + 1)..n : lines[m].is # "started"

\* What started the interpreter's request is the last line that started one, and
\* gave it its scope.
RequestFrom(request, lines, n, done, D) ==
  request # NoRequest =>
    \E s : LastStart(lines, n, s) /\ ScopeOk(request.scope, lines[s], done, D)

\* The endpoints of requests since when none was completed, of a log's lines.
UncompletedIn(lines, n) ==
  {Endpoint([lines[m].block EXCEPT !.action = lines[m].action]) :
     m \in {k \in 1..n - 1 : /\ lines[k].is = "processing"
                            /\ \A j \in k + 1..n - 1 : lines[j].is # "completed"}}

\* The interpreter is in no endpoint but of a request since when none was completed.
RequestLeft(request, lines, n) ==
  /\ request # NoRequest => request.method = "GET"
  /\ Endpoint(request) # NoScope => Endpoint(request) \in UncompletedIn(lines, n + 1)
  /\ request.scope # NoScope /\ request.scope.kind = "http.request" =>
       request.scope \in UncompletedIn(lines, n + 1)

\* A request is another, but for its scope.
SameRequest(request, other) ==
  other # NoRequest =>
    /\ request # NoRequest
    /\ request.method = other.method /\ request.action = other.action
    /\ request.queries = other.queries

\* The request the interpreter is in after n lines is that of the worker.
RequestOk(request, lines, n) == n > 0 => SameRequest(request, NextBlock(lines[n]))

\* An event of the log's n-th line, as to its scope.
ScopedLine(e, lines, n, done, D) ==
  /\ e.behavior.kind # "http.request" => ScopeOk(e.scope, lines[n], done, D)
  /\ e.behavior.kind = "http.request" =>
       \E s : LastStart(lines, n, s) /\ ScopeOk(e.scope, lines[s], done, D)

\* And as to its request, with one worker.
RequestLine(e, lines, n) ==
  LET l == lines[n]
  IN /\ Unphased(e.scope) =>
          \/ e.scope = Endpoint(l.block)
          \/ /\ l.block = NoRequest \/ l.is = "completed"
             /\ e.scope \in UncompletedIn(lines, n)
     /\ e.behavior.kind = "http.request" =>
          /\ l.is = "completed" /\ l.block.action # NoExample
          /\ e.behavior.template = <<l.block.method, l.block.action, l.class>>
          /\ e.measures = <<Measure("queries", IF l.queries = NoNumber THEN l.block.queries ELSE l.queries)>>

FromLine(e, lines, n, done, D) ==
  ScopedLine(e, lines, n, done, D) /\ (OneWorker => RequestLine(e, lines, n))

\* A line that completes a request which got to its action.
Finishes(l) == OneWorker /\ l.is = "completed" /\ l.block.action # NoExample

\* What was emitted of the first n lines of the log.
EmittedOk(em, lines, n, done, D) ==
  /\ \A i \in DOMAIN em : InLog(em[i]) =>
       /\ em[i].source.seq \in 1..n /\ FromLine(em[i], lines, em[i].source.seq, done, D)
       /\ \A j \in DOMAIN em : em[i].source = em[j].source => i = j
  /\ \A m \in 1..n : Finishes(lines[m]) =>
       \E i \in DOMAIN em : /\ em[i].source = [stream |-> "log", seq |-> m]
                            /\ em[i].behavior.kind = "http.request"

\* What the chain of interpreters is after k events and n lines of the log.
ChainOk(c, lines, n, events, k, done, D) ==
  /\ StartedOk(c.started, events, k)
  /\ ScopesOk(c.scopes, events, k)
  /\ \A j \in 1..k : events[j].is = "example" => Identity(events[j]) \in D
  /\ c.log_offset = LenTo(lines, n)
  /\ DOMAIN c = DOMAIN NewChain /\ DOMAIN c.request = DOMAIN NoRequest
  /\ RequestFrom(c.request, lines, n, done, D) /\ RequestLeft(c.request, lines, n)
  /\ OneWorker => RequestOk(c.request, lines, n)

ReadInv ==
  /\ fed \in [Streams -> Nat]
  /\ fed.log <= Len(out.log) /\ fed.events <= Len(out.events)
  /\ suite \notin {"ended", "charged"} =>
       fed = [s \in Streams |-> 0] /\ chain = NewChain /\ emitted = <<>>
  /\ fed.log > 0 => fed.events = Len(out.events)
  /\ ChainOk(chain, out.log, fed.log, out.events, fed.events, placed, DOMAIN agg.behaviors)
  /\ EmittedOk(emitted, out.log, fed.log, placed, DOMAIN agg.behaviors)


-----------------------------------------------------------------------------
(* Where in the log a line is.                                              *)

Holds(scopes, i, offset) == scopes[i].from <= offset /\ scopes[i].to > offset

\* A place is in the one range that holds it, if there is one.
LEMMA AtIs ==
  ASSUME NEW scopes, Ordered(scopes), NEW offset \in Nat
  PROVE  /\ \A i \in 1..Len(scopes) : Holds(scopes, i, offset) =>
              At(scopes, offset) = InExample(scopes[i].example)
         /\ \/ \E i \in 1..Len(scopes) : Holds(scopes, i, offset)
            \/ At(scopes, offset) \in {Phase("setup"), Phase("teardown"), Phase("between")}
<1>1. PICK n : n = Len(scopes) /\ n \in Nat /\ DOMAIN scopes = 1..n
  BY LenProperties DEF Ordered, IsSeq
<1> DEFINE after == {i \in DOMAIN scopes : scopes[i].to > offset}
           other == CASE after = DOMAIN scopes -> "setup"
                  [] after = {} /\ scopes # <<>> -> "teardown"
                  [] OTHER -> "between"
<1>4. At(scopes, offset) =
        IF after # {} /\ scopes[Min(after)].from <= offset
        THEN InExample(scopes[Min(after)].example) ELSE Phase(other)
  BY Zenon DEF At
<1>2. after = {i \in DOMAIN scopes : scopes[i].to > offset}
  OBVIOUS
<1>3. other = CASE after = DOMAIN scopes -> "setup"
                  [] after = {} /\ scopes # <<>> -> "teardown"
                  [] OTHER -> "between"
  OBVIOUS
<1> HIDE DEF after, other
<1>5. other \in {"setup", "teardown", "between"}
  <2>1. CASE after = DOMAIN scopes
    <3>1. ~ (after = {} /\ scopes # <<>>)
      <4> SUFFICES ASSUME DOMAIN scopes = {} PROVE scopes = <<>>
        BY <2>1
      <4>1. n = 0
        BY <1>1
      <4>2. PICK S : S = Range(scopes) /\ scopes \in Seq(S)
        BY DEF Ordered, IsSeq
      <4>3. Len(scopes) = 0
        BY <1>1, <4>1
      <4> QED
        BY <4>2, <4>3, EmptySeq
    <3> QED
      BY <1>3, <2>1, <3>1, Zenon
  <2>2. CASE after = {} /\ scopes # <<>> /\ after # DOMAIN scopes
    BY <1>3, <2>2, Zenon
  <2>3. CASE after # DOMAIN scopes /\ ~ (after = {} /\ scopes # <<>>)
    BY <1>3, <2>3, Zenon
  <2> QED
    BY <2>1, <2>2, <2>3
<1>6. \A i \in after : i \in 1..n /\ scopes[i].to > offset
  BY <1>1, <1>2
<1>7. \A i \in 1..n : scopes[i].to > offset => i \in after
  BY <1>1, <1>2
<1>8. after # {} => Min(after) \in after /\ \A i \in after : Min(after) <= i
  <2> SUFFICES ASSUME after # {} PROVE Min(after) \in after /\ \A i \in after : Min(after) <= i
    OBVIOUS
  <2>1. after \in SUBSET Nat
    BY <1>6
  <2>2. PICK i \in after : TRUE
    OBVIOUS
  <2>3. \E s \in after : \A p \in after : s <= p
    BY <2>1, <2>2, Least
  <2> QED
    BY <2>3, Zenon DEF Min
<1>9. ASSUME NEW i \in 1..n, Holds(scopes, i, offset)
      PROVE  At(scopes, offset) = InExample(scopes[i].example)
  <2>1. i \in after /\ scopes[i].from <= offset
    BY <1>7, <1>9 DEF Holds
  <2>2. PICK j : j = Min(after) /\ j \in after /\ j <= i
    BY <1>8, <2>1
  <2>3. j \in 1..n /\ scopes[j].to > offset
    BY <1>6, <2>2
  <2>4. ~ (j < i)
    <3>1. j < i => scopes[j].to <= scopes[i].from
      BY <1>1, <2>3 DEF Ordered
    <3>2. scopes[j].to \in Nat /\ scopes[i].from \in Nat
      BY <1>1, <2>3 DEF Ordered
    <3> QED
      BY <2>1, <2>3, <3>1, <3>2
  <2>5. j = i
    BY <2>2, <2>3, <2>4
  <2> QED
    BY <1>4, <2>1, <2>2, <2>5
<1>10. \/ \E i \in 1..n : Holds(scopes, i, offset)
       \/ At(scopes, offset) \in {Phase("setup"), Phase("teardown"), Phase("between")}
  <2>1. CASE after # {} /\ scopes[Min(after)].from <= offset
    BY <1>6, <1>8, <2>1 DEF Holds
  <2>2. CASE ~ (after # {} /\ scopes[Min(after)].from <= offset)
    BY <1>4, <1>5, <2>2
  <2> QED
    BY <2>1, <2>2
<1> QED
  BY <1>1, <1>9, <1>10

\* What the phases are kept by.
LEMMA ScopeIds ==
  /\ scope_id(Phase("setup")) = NoScope
  /\ scope_id(Phase("teardown")).kind = "test.summary"
  /\ scope_id(Phase("between")).kind = "test.summary"
  /\ \A id : scope_id(InExample(id)) = id
BY DEF scope_id, Phase, InExample, TEARDOWN, BETWEEN, Behavior

\* What was seen of an example's start and end is where the log was when it ran.
LEMMA RangeIs ==
  ASSUME NEW lines, LogOk(lines), NEW events, NEW runs, NEW left, NEW done,
         EventsOk(lines, events, runs, left, done),
         NEW j \in 1..Len(events), NEW k \in 1..Len(events), Ranged(events, j, k)
  PROVE  \E e \in Examples, a, b \in 0..Len(lines) :
           /\ events[k].id = e.id /\ Identity(events[k]) = Ident(e) /\ a <= b
           /\ events[j].offset = LenTo(lines, a) /\ events[k].offset = LenTo(lines, b)
           /\ \A n \in 1..Len(lines) : e \in lines[n].during <=> a < n /\ n <= b
<1>1. /\ events[j].is = "example_started" /\ events[k].is = "example"
      /\ events[j].id = events[k].id
      /\ events[j].offset # NoNumber /\ events[k].offset # NoNumber
  BY DEF Ranged, Places
<1>2. PICK e \in Examples : events[k].id = e.id /\ Identity(events[k]) = Ident(e)
  BY <1>1, Zenon DEF EventsOk, EventOk
<1>3. PICK o, p : o = events[j].offset /\ p = events[k].offset
  OBVIOUS
<1>4. Began(events, runs, e, o) /\ Finished(events, runs, e, p)
  <2>1. events[j].id = e.id
    BY <1>1, <1>2
  <2> QED
    BY <1>1, <1>2, <1>3, <2>1, Zenon DEF Began, Finished, Seen
<1>5. PICK a \in 0..Len(lines), b \in 0..Len(lines) : Span(lines, events, runs, e, a, b)
  BY Zenon DEF EventsOk, SpanOk
<1>6. /\ o \in {LenTo(lines, a), NoNumber} /\ p \in {LenTo(lines, b), NoNumber} /\ a <= b
      /\ \A n \in 1..Len(lines) : e \in lines[n].during <=> a < n /\ n <= b
  BY <1>4, <1>5, Zenon DEF Span
<1>7. o = LenTo(lines, a) /\ p = LenTo(lines, b)
  BY <1>1, <1>3, <1>6
<1> QED
  BY <1>2, <1>3, <1>6, <1>7

\* Which ends where says which line is between.
LEMMA Between ==
  ASSUME NEW lines, LogOk(lines), NEW a \in 0..Len(lines), NEW b \in 0..Len(lines),
         NEW n \in Nat, n + 1 \in 1..Len(lines)
  PROVE  LenTo(lines, a) <= LenTo(lines, n) /\ LenTo(lines, b) > LenTo(lines, n)
           <=> a < n + 1 /\ n + 1 <= b
<1>1. Len(lines) \in Nat
  BY LenProperties, Zenon DEF LogOk, IsSeq
<1>2. /\ \A i \in 0..Len(lines) : LenTo(lines, i) \in Nat
      /\ \A i, j \in 0..Len(lines) : i < j => LenTo(lines, i) < LenTo(lines, j)
  BY Zenon DEF LogOk
<1>3. n \in 0..Len(lines)
  BY <1>1
<1>4. PICK x, y, z : x = LenTo(lines, a) /\ y = LenTo(lines, n) /\ z = LenTo(lines, b)
  OBVIOUS
<1>5. x \in Nat /\ y \in Nat /\ z \in Nat
  BY <1>2, <1>3, <1>4
<1>6. /\ a < n => x < y
      /\ n < a => y < x
      /\ b < n => z < y
      /\ n < b => y < z
      /\ (a = n => x = y) /\ (b = n => z = y)
  BY <1>2, <1>3, <1>4
<1>7. x <= y /\ z > y <=> a < n + 1 /\ n + 1 <= b
  BY <1>1, <1>5, <1>6
<1> QED
  BY <1>4, <1>7

\* Only one example has an id.
LEMMA SameExample == \A d, e \in Examples : d.id = e.id => d = e
BY SuiteAssumption

\* What a line's place is inside of, if anything, is an example that ran when it was
\* written; and it is the example that wrote it, if that was placed.
LEMMA ScopeFound ==
  ASSUME NEW lines, LogOk(lines), NEW events, NEW runs, NEW left, NEW done,
         EventsOk(lines, events, runs, left, done), NEW scopes,
         ScopesOk(scopes, events, Len(events)), NEW D,
         \A j \in 1..Len(events) : events[j].is = "example" => Identity(events[j]) \in D,
         NEW n \in Nat, n + 1 \in 1..Len(lines),
         NEW scope, scope = scope_id(At(scopes, LenTo(lines, n)))
  PROVE  /\ ScopeOk(scope, lines[n + 1], done, D)
         /\ scope = NoScope \/ scope.kind # "http.request"
<1>1. PICK l, o, at : l = lines[n + 1] /\ o = LenTo(lines, n) /\ at = At(scopes, o)
  OBVIOUS
<1>2. Len(lines) \in Nat /\ Len(events) \in Nat
  BY LenProperties, Zenon DEF EventsOk, LogOk, IsSeq
<1>3. o \in Nat
  <2>1. n \in 0..Len(lines)
    BY <1>2
  <2> QED
    BY <1>1, <2>1, Zenon DEF LogOk
<1>4. /\ Ordered(scopes)
      /\ \A i \in 1..Len(scopes) : \E j, k \in 1..Len(events) :
           Ranged(events, j, k) /\ scopes[i] = RangeOf(events, j, k)
      /\ \A k \in 1..Len(events) : PlacedEnd(events, k) =>
           \E i \in 1..Len(scopes) : scopes[i] = RangeOf(events, k - 1, k)
  BY Zenon DEF ScopesOk
<1>5. /\ \A i \in 1..Len(scopes) : Holds(scopes, i, o) => at = InExample(scopes[i].example)
      /\ \/ \E i \in 1..Len(scopes) : Holds(scopes, i, o)
         \/ at \in {Phase("setup"), Phase("teardown"), Phase("between")}
  BY <1>1, <1>3, <1>4, AtIs
<1>6. \A i \in 1..Len(scopes) : Holds(scopes, i, o) => scope = scopes[i].example
  BY <1>1, <1>5, ScopeIds
<1>7. \A e \in Examples : Ident(e) # NoScope /\ Ident(e).kind = "test.example"
  BY SuiteAssumption DEF Ident, Behavior
<1>8. ASSUME NEW i \in 1..Len(scopes), Holds(scopes, i, o)
      PROVE  \E e \in Examples : e \in l.during /\ scope = Ident(e)
  <2>1. PICK j \in 1..Len(events), k \in 1..Len(events) :
          Ranged(events, j, k) /\ scopes[i] = RangeOf(events, j, k)
    BY <1>4
  <2>2. PICK e \in Examples, a \in 0..Len(lines), b \in 0..Len(lines) :
           /\ Identity(events[k]) = Ident(e)
           /\ events[j].offset = LenTo(lines, a) /\ events[k].offset = LenTo(lines, b)
           /\ \A m \in 1..Len(lines) : e \in lines[m].during <=> a < m /\ m <= b
    BY <2>1, RangeIs
  <2>3. /\ scopes[i].from = LenTo(lines, a) /\ scopes[i].to = LenTo(lines, b)
        /\ scopes[i].example = Ident(e)
    BY <2>1, <2>2 DEF RangeOf
  <2>4. LenTo(lines, a) <= LenTo(lines, n) /\ LenTo(lines, b) > LenTo(lines, n)
    BY <1>1, <1>8, <2>3 DEF Holds
  <2>5. a < n + 1 /\ n + 1 <= b
    BY <2>4, Between
  <2>6. e \in l.during
    BY <1>1, <2>2, <2>5
  <2> QED
    BY <1>6, <1>8, <2>3, <2>6
<1>9. ASSUME l.by # NoExample, l.by.id \in done
      PROVE  scope # NoScope /\ scope = Ident(l.by) /\ scope \in D
  <2>1. l.by \in Examples /\ l.by \in l.during
    BY <1>1, <1>9, Zenon DEF LogOk, LogLine
  <2>2. PICK k \in 1..Len(events) : events[k].id = l.by.id /\ PlacedEnd(events, k)
    BY <1>9, <2>1, Zenon DEF EventsOk, PlacedOk
  <2>3. /\ k > 1 /\ events[k - 1].is = "example_started" /\ events[k].is = "example"
        /\ events[k - 1].id = events[k].id /\ Places(events[k - 1]) /\ Places(events[k])
    BY <2>2, Zenon DEF PlacedEnd, Clear
  <2>4. PICK j : j = k - 1
    OBVIOUS
  <2>5. j \in 1..Len(events) /\ Ranged(events, j, k)
    BY <1>2, <2>3, <2>4 DEF Ranged
  <2>6. PICK e \in Examples, a \in 0..Len(lines), b \in 0..Len(lines) :
           /\ events[k].id = e.id /\ Identity(events[k]) = Ident(e)
           /\ events[j].offset = LenTo(lines, a) /\ events[k].offset = LenTo(lines, b)
           /\ \A m \in 1..Len(lines) : e \in lines[m].during <=> a < m /\ m <= b
    BY <2>5, RangeIs
  <2>7. e = l.by
    BY <2>1, <2>2, <2>6, SameExample
  <2>8. a < n + 1 /\ n + 1 <= b
    BY <1>1, <2>1, <2>6, <2>7
  <2>9. LenTo(lines, a) <= LenTo(lines, n) /\ LenTo(lines, b) > LenTo(lines, n)
    BY <2>8, Between
  <2>10. PICK i \in 1..Len(scopes) : scopes[i] = RangeOf(events, j, k)
    BY <1>4, <2>2, <2>4
  <2>11. /\ scopes[i].from = LenTo(lines, a) /\ scopes[i].to = LenTo(lines, b)
         /\ scopes[i].example = Ident(l.by)
    BY <2>6, <2>7, <2>10 DEF RangeOf
  <2>12. Holds(scopes, i, o)
    BY <1>1, <2>9, <2>11 DEF Holds
  <2>13. Identity(events[k]) \in D
    BY <2>3
  <2> QED
    BY <1>6, <1>7, <2>1, <2>6, <2>7, <2>11, <2>12, <2>13
<1>10. scope # NoScope /\ scope.kind = "test.example" => \E e \in l.during : scope = Ident(e)
  <2>1. CASE \E i \in 1..Len(scopes) : Holds(scopes, i, o)
    BY <1>8, <2>1
  <2>2. CASE at \in {Phase("setup"), Phase("teardown"), Phase("between")}
    BY <1>1, <2>2, ScopeIds
  <2> QED
    BY <1>5, <2>1, <2>2
<1>11. scope = NoScope \/ scope.kind # "http.request"
  <2>1. CASE \E i \in 1..Len(scopes) : Holds(scopes, i, o)
    BY <1>7, <1>8, <2>1
  <2>2. CASE at \in {Phase("setup"), Phase("teardown"), Phase("between")}
    BY <1>1, <2>2, ScopeIds
  <2> QED
    BY <1>5, <2>1, <2>2
<1>12. ScopeOk(scope, l, done, D)
  BY <1>9, <1>10, Zenon DEF ScopeOk
<1> QED
  BY <1>1, <1>11, <1>12

-----------------------------------------------------------------------------
(* What an event of the suite makes of the chain.                           *)

\* An event more after which no range is there, if no placed example ended.
LEMMA NoRange ==
  ASSUME NEW scopes, NEW events, NEW k \in Nat, ScopesOk(scopes, events, k),
         ~ PlacedEnd(events, k + 1)
  PROVE  ScopesOk(scopes, events, k + 1)
<1>1. /\ Ordered(scopes)
      /\ \A i \in 1..Len(scopes) : \E j, m \in 1..k :
           Ranged(events, j, m) /\ scopes[i] = RangeOf(events, j, m)
      /\ \A m \in 1..k : PlacedEnd(events, m) =>
           \E i \in 1..Len(scopes) : scopes[i] = RangeOf(events, m - 1, m)
  BY Zenon DEF ScopesOk
<1>2. \A j \in 1..k : j \in 1..(k + 1)
  OBVIOUS
<1>3. \A j \in 1..(k + 1) : j = k + 1 \/ j \in 1..k
  OBVIOUS
<1>4. \A i \in 1..Len(scopes) : \E j, m \in 1..(k + 1) :
        Ranged(events, j, m) /\ scopes[i] = RangeOf(events, j, m)
  BY <1>1, <1>2, Zenon
<1>5. \A m \in 1..(k + 1) : PlacedEnd(events, m) =>
        \E i \in 1..Len(scopes) : scopes[i] = RangeOf(events, m - 1, m)
  BY <1>1, <1>3, Zenon
<1> QED
  BY <1>1, <1>4, <1>5, Zenon DEF ScopesOk

\* A range that is not before the last one goes in after it.
LEMMA OrderedMore ==
  ASSUME NEW scopes, Ordered(scopes), NEW from \in Nat, NEW to \in Nat, NEW id, from <= to,
         scopes = <<>> \/ Last(scopes).to <= from
  PROVE  \E u : /\ u = Pushed(scopes, from, to, id) /\ Ordered(u)
                /\ Grown(scopes, u, [from |-> from, to |-> to, example |-> id])
<1>1. PICK new : new = [from |-> from, to |-> to, example |-> id]
  OBVIOUS
<1>2. PICK m : m = Len(scopes) /\ m \in Nat /\ DOMAIN scopes = 1..m
  BY LenProperties, Zenon DEF Ordered, IsSeq
<1>3. /\ IsSeq(scopes)
      /\ \A i \in 1..m : /\ scopes[i].from \in Nat /\ scopes[i].to \in Nat
                         /\ scopes[i].from <= scopes[i].to
      /\ \A i, j \in 1..m : i < j => scopes[i].to <= scopes[j].from
  BY <1>2, Zenon DEF Ordered
<1>4. Pushed(scopes, from, to, id) = Append(scopes, new)
  BY <1>1, Zenon DEF Pushed
<1>5. PICK u : u = scopes \o <<new>>
  OBVIOUS
<1>6. Append(scopes, new) = u
  <2>1. PICK S : S = Range(scopes) \cup {new}
    OBVIOUS
  <2>2. scopes \in Seq(S) /\ new \in S
    BY <1>3, <2>1, SeqMonotonic DEF IsSeq
  <2> QED
    BY <1>5, <2>2, AppendIsConcat
<1>7. Grown(scopes, u, new)
  BY <1>3, <1>5, Grows
<1>8. IsSeq(u) /\ Len(u) = m + 1 /\ (\A i \in 1..m : u[i] = scopes[i]) /\ u[m + 1] = new
  BY <1>2, <1>7, Zenon DEF Grown
<1>9. m > 0 => scopes[m].to <= from
  <2> SUFFICES ASSUME m > 0 PROVE scopes[m].to <= from
    OBVIOUS
  <2>1. scopes # <<>>
    <3>1. Len(<<>>) = 0
      BY Single, Zenon
    <3> QED
      BY <1>2, <3>1
  <2>2. Last(scopes) = scopes[m]
    BY <1>2 DEF Last
  <2> QED
    BY <2>1, <2>2
<1>10. ASSUME NEW i \in 1..m PROVE scopes[i].to <= from
  <2>1. m > 0 /\ m \in 1..m /\ scopes[m].to <= from
    BY <1>2, <1>9
  <2>2. CASE i = m
    BY <2>1, <2>2
  <2>3. CASE i # m
    <3>1. scopes[i].to <= scopes[m].from /\ scopes[m].from <= scopes[m].to
      BY <1>2, <1>3, <2>1, <2>3
    <3> QED
      BY <1>3, <2>1, <3>1
  <2> QED
    BY <2>2, <2>3
<1>11. \A i \in 1..(m + 1) : i \in 1..m \/ i = m + 1
  BY <1>2
<1>12. new.from = from /\ new.to = to
  BY <1>1
<1>13. \A i \in 1..(m + 1) : /\ u[i].from \in Nat /\ u[i].to \in Nat
                             /\ u[i].from <= u[i].to
  BY <1>3, <1>8, <1>11, <1>12
<1>14. ASSUME NEW i \in 1..(m + 1), NEW j \in 1..(m + 1), i < j
       PROVE  u[i].to <= u[j].from
  <2>1. i \in 1..m /\ u[i] = scopes[i]
    BY <1>2, <1>8, <1>14
  <2>2. CASE j \in 1..m
    BY <1>3, <1>8, <1>14, <2>1, <2>2
  <2>3. CASE j = m + 1
    BY <1>8, <1>10, <1>12, <2>1, <2>3
  <2> QED
    BY <1>11, <2>2, <2>3
<1>15. Ordered(u)
  BY <1>8, <1>13, <1>14, Zenon DEF Ordered
<1> QED
  BY <1>1, <1>4, <1>6, <1>7, <1>15

\* An end of an example adds its range, or none; and it adds that of a placed one.
LEMMA RangePushed ==
  ASSUME NEW lines, LogOk(lines), NEW events, NEW runs, NEW left, NEW done,
         EventsOk(lines, events, runs, left, done), NEW scopes, NEW k \in Nat,
         NEW p, p = k + 1, p \in 1..Len(events), ScopesOk(scopes, events, k),
         NEW j \in 1..k, Ranged(events, j, p), PlacedEnd(events, p) => j = k,
         NEW u, u = Pushed(scopes, events[j].offset, events[p].offset, Identity(events[p]))
  PROVE  ScopesOk(u, events, p)
<1>1. PICK m : m = Len(scopes) /\ m \in Nat /\ DOMAIN scopes = 1..m
  BY LenProperties, Zenon DEF ScopesOk, Ordered, IsSeq
<1>2. Len(events) \in Nat /\ j \in 1..Len(events)
  <2>1. Len(events) \in Nat
    BY LenProperties, Zenon DEF EventsOk, IsSeq
  <2> QED
    BY <2>1
<1>3. /\ Ordered(scopes)
      /\ \A i \in 1..m : \E i1, i2 \in 1..k :
           Ranged(events, i1, i2) /\ scopes[i] = RangeOf(events, i1, i2)
      /\ \A i \in 1..k : PlacedEnd(events, i) =>
           \E i1 \in 1..m : scopes[i1] = RangeOf(events, i - 1, i)
  BY <1>1, Zenon DEF ScopesOk
<1>4. PICK from, to, id : from = events[j].offset /\ to = events[p].offset /\ id = Identity(events[p])
  OBVIOUS
<1>5. from \in Nat /\ to \in Nat /\ from <= to
  <2>1. PICK e \in Examples, a \in 0..Len(lines), b \in 0..Len(lines) :
          a <= b /\ events[j].offset = LenTo(lines, a) /\ events[p].offset = LenTo(lines, b)
    BY <1>2, RangeIs
  <2>2. /\ LenTo(lines, a) \in Nat /\ LenTo(lines, b) \in Nat
        /\ a < b => LenTo(lines, a) < LenTo(lines, b)
    BY Zenon DEF LogOk
  <2>3. Len(lines) \in Nat
    BY LenProperties, Zenon DEF LogOk, IsSeq
  <2>4. a = b \/ a < b
    BY <2>1, <2>3
  <2> QED
    BY <1>4, <2>1, <2>2, <2>4
<1>6. u = Pushed(scopes, from, to, id)
  BY <1>4
<1>7. CASE scopes = <<>> \/ Last(scopes).to <= from
  <2>1. PICK new : new = [from |-> from, to |-> to, example |-> id]
    OBVIOUS
  <2>2. Ordered(u) /\ Grown(scopes, u, new)
    BY <1>3, <1>5, <1>6, <1>7, <2>1, OrderedMore
  <2>3. Len(u) = m + 1 /\ (\A i \in 1..m : u[i] = scopes[i]) /\ u[m + 1] = new
    BY <1>1, <2>2, Zenon DEF Grown
  <2>4. new = RangeOf(events, j, p)
    BY <1>4, <2>1 DEF RangeOf
  <2>5. /\ \A i \in 1..(m + 1) : i \in 1..m \/ i = m + 1
        /\ \A i \in 1..m : i \in 1..(m + 1)
        /\ m + 1 \in 1..(m + 1)
    BY <1>1
  <2>6. (\A i \in 1..k : i \in 1..p) /\ p \in 1..p /\ \A i \in 1..p : i \in 1..k \/ i = p
    OBVIOUS
  <2>7. \A i \in 1..(m + 1) : \E i1, i2 \in 1..p :
          Ranged(events, i1, i2) /\ u[i] = RangeOf(events, i1, i2)
    <3> SUFFICES ASSUME NEW i \in 1..(m + 1)
                 PROVE  \E i1, i2 \in 1..p : Ranged(events, i1, i2) /\ u[i] = RangeOf(events, i1, i2)
      OBVIOUS
    <3>1. CASE i \in 1..m
      <4>1. PICK i1 \in 1..k, i2 \in 1..k : Ranged(events, i1, i2) /\ scopes[i] = RangeOf(events, i1, i2)
        BY <1>3, <3>1
      <4> QED
        BY <2>3, <2>6, <3>1, <4>1
    <3>2. CASE i = m + 1
      BY <2>3, <2>4, <2>6, <3>2
    <3> QED
      BY <2>5, <3>1, <3>2
  <2>8. \A i \in 1..p : PlacedEnd(events, i) =>
          \E i1 \in 1..(m + 1) : u[i1] = RangeOf(events, i - 1, i)
    <3> SUFFICES ASSUME NEW i \in 1..p, PlacedEnd(events, i)
                 PROVE  \E i1 \in 1..(m + 1) : u[i1] = RangeOf(events, i - 1, i)
      OBVIOUS
    <3>1. CASE i \in 1..k
      <4>1. PICK i1 \in 1..m : scopes[i1] = RangeOf(events, i - 1, i)
        BY <1>3, <3>1
      <4> QED
        BY <2>3, <2>5, <4>1
    <3>2. CASE i = p
      <4>1. j = i - 1
        BY <3>2
      <4> QED
        BY <2>3, <2>4, <2>5, <3>2, <4>1
    <3> QED
      BY <2>6, <3>1, <3>2
  <2>9. /\ \A i \in 1..Len(u) : \E i1, i2 \in 1..p :
             Ranged(events, i1, i2) /\ u[i] = RangeOf(events, i1, i2)
        /\ \A i \in 1..p : PlacedEnd(events, i) =>
             \E i1 \in 1..Len(u) : u[i1] = RangeOf(events, i - 1, i)
    BY <2>3, <2>7, <2>8
  <2> QED
    BY <2>2, <2>9, Zenon DEF ScopesOk
<1>8. CASE ~ (scopes = <<>> \/ Last(scopes).to <= from)
  <2>1. u = scopes
    BY <1>6, <1>8, Zenon DEF Pushed
  <2>2. ~ PlacedEnd(events, p)
    <3> SUFFICES ASSUME PlacedEnd(events, p) PROVE FALSE
      OBVIOUS
    <3>1. j = k /\ Clear(events, p - 1) /\ p - 1 = k /\ events[p - 1].is = "example_started"
      BY DEF PlacedEnd
    <3>2. /\ events[k].is = "example_started"
          /\ \A i \in 1..(k - 1) : Places(events[i]) => events[i].offset <= events[k].offset
      BY <3>1 DEF Clear
    <3>3. m \in 1..m /\ Last(scopes) = scopes[m]
      <4>1. PICK S : scopes \in Seq(S)
        BY <1>3 DEF Ordered, IsSeq
      <4>2. m # 0
        BY <1>1, <1>8, <4>1, EmptySeq
      <4> QED
        BY <1>1, <4>2 DEF Last
    <3>4. PICK i1 \in 1..k, i2 \in 1..k : Ranged(events, i1, i2) /\ scopes[m] = RangeOf(events, i1, i2)
      BY <1>3, <3>3
    <3>5. events[i2].is = "example" /\ Places(events[i2]) /\ scopes[m].to = events[i2].offset
      BY <3>4 DEF Ranged, RangeOf
    <3>6. i2 \in 1..(k - 1)
      BY <3>2, <3>5
    <3>7. scopes[m].to <= from
      BY <1>4, <3>1, <3>2, <3>5, <3>6
    <3> QED
      BY <1>8, <3>3, <3>7
  <2>3. ScopesOk(scopes, events, k + 1)
    BY <2>2, NoRange
  <2> QED
    BY <2>1, <2>3
<1> QED
  BY <1>7, <1>8

\* The fields of a chain of interpreters.
LEMMA ChainIs ==
  DOMAIN NewChain = {"scopes", "started", "start", "request", "log_offset", "listing"}
BY DEF NewChain

\* What the interpreter made of the log is what it would be with more behaviors.
LEMMA ScopeMore ==
  ASSUME NEW scope, NEW l, NEW done, NEW D, NEW D2, D \subseteq D2, ScopeOk(scope, l, done, D)
  PROVE  ScopeOk(scope, l, done, D2)
BY DEF ScopeOk

LEMMA RequestMore ==
  ASSUME NEW request, NEW lines, NEW n, NEW done, NEW D, NEW D2, D \subseteq D2,
         RequestFrom(request, lines, n, done, D)
  PROVE  RequestFrom(request, lines, n, done, D2)
BY ScopeMore, Zenon DEF RequestFrom

\* And so the chain.
LEMMA ChainMore ==
  ASSUME NEW c, NEW lines, NEW n, NEW events, NEW k, NEW done, NEW D, NEW D2, D \subseteq D2,
         ChainOk(c, lines, n, events, k, done, D)
  PROVE  ChainOk(c, lines, n, events, k, done, D2)
<1>1. /\ StartedOk(c.started, events, k)
      /\ ScopesOk(c.scopes, events, k)
      /\ \A j \in 1..k : events[j].is = "example" => Identity(events[j]) \in D
      /\ c.log_offset = LenTo(lines, n)
      /\ DOMAIN c = DOMAIN NewChain /\ DOMAIN c.request = DOMAIN NoRequest
      /\ RequestFrom(c.request, lines, n, done, D) /\ RequestLeft(c.request, lines, n)
      /\ OneWorker => RequestOk(c.request, lines, n)
  BY Zenon DEF ChainOk
<1>2. RequestFrom(c.request, lines, n, done, D2)
  BY <1>1, RequestMore
<1>3. \A j \in 1..k : events[j].is = "example" => Identity(events[j]) \in D2
  BY <1>1
<1> QED
  BY <1>1, <1>2, <1>3, Zenon DEF ChainOk

\* After an event the chain is what the events so far say.
LEMMA RspecStays ==
  ASSUME NEW lines, LogOk(lines), NEW events, NEW runs, NEW left, NEW done, NEW D, NEW D2,
         EventsOk(lines, events, runs, left, done), NEW k \in Nat, k + 1 \in 1..Len(events),
         NEW c, ChainOk(c, lines, 0, events, k, done, D), D \subseteq D2,
         events[k + 1].is = "example" => Identity(events[k + 1]) \in D2
  PROVE  ChainOk(RspecAfter(c, events[k + 1]), lines, 0, events, k + 1, done, D2)
<1>1. PICK x, p : x = events[p] /\ p = k + 1 /\ p - 1 = k
  OBVIOUS
<1>2. PICK next : next = RspecAfter(c, x)
  OBVIOUS
<1>3. ChainOk(c, lines, 0, events, k, done, D2)
  BY ChainMore
<1>4. /\ StartedOk(c.started, events, k)
      /\ ScopesOk(c.scopes, events, k)
      /\ \A j \in 1..k : events[j].is = "example" => Identity(events[j]) \in D2
      /\ c.log_offset = LenTo(lines, 0)
      /\ DOMAIN c = DOMAIN NewChain /\ DOMAIN c.request = DOMAIN NoRequest
      /\ RequestFrom(c.request, lines, 0, done, D2) /\ RequestLeft(c.request, lines, 0)
      /\ OneWorker => RequestOk(c.request, lines, 0)
  BY <1>3, Zenon DEF ChainOk
<1>5. /\ DOMAIN next = DOMAIN c /\ next.log_offset = c.log_offset /\ next.request = c.request
      /\ next.scopes = IF Closes(c, x)
                       THEN Pushed(c.scopes, c.started.offset, x.offset, Identity(x)) ELSE c.scopes
      /\ next.started = CASE x.is = "example_started" -> [id |-> x.id, offset |-> x.offset]
                          [] x.is = "example" -> [id |-> NoExample, offset |-> NoNumber]
                          [] OTHER -> c.started
  <2>1. PICK start, scopes, started :
          /\ scopes = IF Closes(c, x)
                       THEN Pushed(c.scopes, c.started.offset, x.offset, Identity(x)) ELSE c.scopes
          /\ started = CASE x.is = "example_started" -> [id |-> x.id, offset |-> x.offset]
                          [] x.is = "example" -> [id |-> NoExample, offset |-> NoNumber]
                          [] OTHER -> c.started
          /\ start = CASE x.is = "start"   -> [expected |-> x.expected, defined |-> x.defined]
                       [] x.is = "summary" -> NoStart
                       [] OTHER               -> c.start
    OBVIOUS
  <2>2. next = [c EXCEPT !.start = start, !.scopes = scopes, !.started = started]
    BY <1>2, <2>1, Zenon DEF RspecAfter
  <2>3. /\ DOMAIN next = DOMAIN c /\ next.log_offset = c.log_offset /\ next.request = c.request
        /\ next.scopes = scopes /\ next.started = started
    BY <1>4, <2>2, ChainIs
  <2> QED
    BY <2>1, <2>3
<1>6. /\ c.started.offset # NoNumber => \E j \in 1..k :
           /\ events[j].is = "example_started"
           /\ c.started.id = events[j].id /\ c.started.offset = events[j].offset
      /\ k > 0 /\ events[k].is = "example_started" =>
           c.started = [id |-> events[k].id, offset |-> events[k].offset]
  BY <1>4, Zenon DEF StartedOk
<1>7. StartedOk(next.started, events, p)
  <2>1. CASE x.is = "example_started"
    <3>1. next.started = [id |-> x.id, offset |-> x.offset]
      BY <1>5, <2>1
    <3>2. p \in 1..p
      BY <1>1
    <3> QED
      BY <1>1, <2>1, <3>1, <3>2 DEF StartedOk
  <2>2. CASE x.is = "example"
    <3>1. next.started = [id |-> NoExample, offset |-> NoNumber]
      BY <1>5, <2>2
    <3> QED
      BY <1>1, <2>2, <3>1 DEF StartedOk
  <2>3. CASE x.is \notin {"example_started", "example"}
    <3>1. next.started = c.started
      BY <1>5, <2>3, Zenon
    <3>2. \A j \in 1..k : j \in 1..p
      BY <1>1
    <3>3. next.started.offset # NoNumber => \E j \in 1..p :
           /\ events[j].is = "example_started"
           /\ next.started.id = events[j].id /\ next.started.offset = events[j].offset
      BY <1>6, <3>1, <3>2
    <3> QED
      BY <1>1, <2>3, <3>3 DEF StartedOk
  <2> QED
    BY <2>1, <2>2, <2>3
<1>8. PlacedEnd(events, p) =>
        /\ k > 0 /\ events[k].is = "example_started" /\ events[k].id = events[p].id
        /\ Places(events[k]) /\ Places(events[p]) /\ events[p].is = "example"
  BY <1>1 DEF PlacedEnd, Clear
<1>9. ScopesOk(next.scopes, events, p)
  <2>1. CASE Closes(c, x)
    <3>1. /\ x.is = "example" /\ c.started.id = x.id /\ c.started.offset # NoNumber
          /\ x.offset # NoNumber
      BY <2>1 DEF Closes
    <3>2. \E j \in 1..k : /\ Ranged(events, j, p) /\ c.started.offset = events[j].offset
                          /\ PlacedEnd(events, p) => j = k
      <4>1. CASE PlacedEnd(events, p)
        <5>1. k \in 1..k /\ c.started = [id |-> events[k].id, offset |-> events[k].offset]
          BY <1>6, <1>8, <4>1
        <5>2. Ranged(events, k, p)
          BY <1>8, <4>1 DEF Ranged
        <5> QED
          BY <5>1, <5>2
      <4>2. CASE ~ PlacedEnd(events, p)
        <5>1. PICK j \in 1..k : /\ events[j].is = "example_started"
                                /\ c.started.id = events[j].id /\ c.started.offset = events[j].offset
          BY <1>6, <3>1
        <5>2. Ranged(events, j, p)
          BY <1>1, <3>1, <5>1 DEF Ranged, Places
        <5> QED
          BY <4>2, <5>1, <5>2
      <4> QED
        BY <4>1, <4>2
    <3>3. PICK j \in 1..k : /\ Ranged(events, j, p) /\ c.started.offset = events[j].offset
                            /\ PlacedEnd(events, p) => j = k
      BY <3>2
    <3>4. next.scopes = Pushed(c.scopes, events[j].offset, events[p].offset, Identity(events[p]))
      BY <1>1, <1>5, <2>1, <3>3
    <3>5. p \in 1..Len(events)
      BY <1>1
    <3> QED
      BY <1>1, <1>4, <3>3, <3>4, <3>5, RangePushed
  <2>2. CASE ~ Closes(c, x)
    <3>1. next.scopes = c.scopes
      BY <1>5, <2>2
    <3>2. ~ PlacedEnd(events, k + 1)
      <4> SUFFICES ASSUME PlacedEnd(events, p) PROVE Closes(c, x)
        BY <1>1, <2>2
      <4>1. c.started = [id |-> events[k].id, offset |-> events[k].offset]
        BY <1>6, <1>8
      <4> QED
        BY <1>1, <1>8, <4>1 DEF Closes, Places
    <3> QED
      BY <1>1, <1>4, <3>1, <3>2, NoRange
  <2> QED
    BY <2>1, <2>2
<1>10. \A j \in 1..p : events[j].is = "example" => Identity(events[j]) \in D2
  <2>1. \A j \in 1..p : j \in 1..k \/ j = p
    BY <1>1
  <2> QED
    BY <1>1, <1>4, <2>1
<1>11. /\ RequestFrom(next.request, lines, 0, done, D2) /\ RequestLeft(next.request, lines, 0)
       /\ OneWorker => RequestOk(next.request, lines, 0)
  BY <1>4, <1>5
<1>12. ChainOk(next, lines, 0, events, p, done, D2)
  BY <1>4, <1>5, <1>7, <1>9, <1>10, <1>11, Zenon DEF ChainOk
<1> QED
  BY <1>1, <1>2, <1>12

-----------------------------------------------------------------------------
(* What a line of the log makes of a request.                               *)

\* The interpreter before a line, and the scope of the line's place.
InStep(lines, n, l, request, done, D, scope) ==
  /\ n \in Nat /\ l = lines[n + 1] /\ LogLine(l) /\ DOMAIN request = DOMAIN NoRequest
  /\ RequestFrom(request, lines, n, done, D) /\ RequestLeft(request, lines, n)
  /\ ScopeOk(scope, l, done, D) /\ (scope = NoScope \/ scope.kind # "http.request")
  /\ OneWorker => SameRequest(request, l.block)

\* A request's endpoint is none, or a request's.
LEMMA EndpointKind ==
  /\ \A request : Endpoint(request) = NoScope \/ Endpoint(request).kind = "http.request"
  /\ Endpoint(NoRequest) = NoScope /\ NoRequest.scope = NoScope /\ NoRequest.action = NoExample
  /\ DOMAIN NoRequest = {"method", "action", "scope", "queries"} /\ NoRequest.method = NoExample
  /\ NoRequest.queries = 0
BY DEF Endpoint, Behavior, NoRequest

\* A line that is in no example may be the request's, which is no example.
LEMMA LineScopeOk ==
  ASSUME NEW lines, NEW n, NEW l, NEW request, NEW done, NEW D, NEW scope,
         InStep(lines, n, l, request, done, D, scope), NEW own, own = LineScope(request, scope)
  PROVE  /\ ScopeOk(own, l, done, D)
         /\ Unphased(own) => own = Endpoint(request)
         /\ own # NoScope /\ own.kind = "http.request" => own \in UncompletedIn(lines, n + 1)
<1>1. /\ LogLine(l) /\ ScopeOk(scope, l, done, D) /\ (scope = NoScope \/ scope.kind # "http.request")
      /\ RequestLeft(request, lines, n)
  BY DEF InStep
<1>2. own = IF scope # NoScope THEN scope ELSE Endpoint(request)
  BY DEF LineScope
<1>3. CASE scope # NoScope
  BY <1>1, <1>2, <1>3 DEF Unphased
<1>4. CASE scope = NoScope
  <2>1. own = Endpoint(request)
    BY <1>2, <1>4
  <2>2. ~ (l.by # NoExample /\ l.by.id \in done)
    BY <1>1, <1>4 DEF ScopeOk
  <2>3. own = NoScope \/ own.kind = "http.request"
    BY <2>1, EndpointKind
  <2>4. own # NoScope => own \in UncompletedIn(lines, n + 1)
    BY <1>1, <2>1 DEF RequestLeft
  <2> QED
    BY <2>1, <2>2, <2>3, <2>4 DEF ScopeOk
<1> QED
  BY <1>3, <1>4

\* A request goes on, is started or is completed.
GoesOn(request, l, after) ==
  /\ l.is \notin {"started", "completed"}
  /\ after # NoRequest => request # NoRequest
  /\ after.method = request.method /\ after.scope = request.scope
  /\ \/ after.action = request.action
     \/ l.is = "processing" /\ request # NoRequest /\ after.action = l.action

LEMMA AfterIs ==
  ASSUME NEW l, LogLine(l), NEW request, DOMAIN request = DOMAIN NoRequest, NEW own,
         NEW after, after = RequestAfter(request, l, own)
  PROVE  /\ DOMAIN after = DOMAIN NoRequest
         /\ \/ GoesOn(request, l, after)
            \/ /\ l.is = "started" /\ after.method = "GET" /\ after.action = NoExample
               /\ after.scope = own /\ after.queries = 0
            \/ l.is = "completed" /\ after = NoRequest
<1>1. DOMAIN request = {"method", "action", "scope", "queries"}
  BY EndpointKind
<1>2. CASE l.is = "query" /\ request # NoRequest /\ counts(l)
  <2>1. after = [request EXCEPT !.queries = @ + 1]
    BY <1>2, Zenon DEF RequestAfter
  <2>2. /\ after.method = request.method /\ after.action = request.action
        /\ after.scope = request.scope /\ DOMAIN after = DOMAIN request
    BY <1>1, <2>1
  <2> QED
    BY <1>2, <2>2 DEF GoesOn
<1>3. CASE l.is = "started"
  <2>1. after = [method |-> l.method, action |-> NoExample, scope |-> own, queries |-> 0]
    BY <1>3, Zenon DEF RequestAfter
  <2>2. l.method = "GET"
    BY <1>3, Zenon DEF LogLine
  <2> QED
    BY <1>3, <2>1, <2>2, EndpointKind
<1>4. CASE l.is = "processing" /\ request # NoRequest
  <2>1. after = [request EXCEPT !.action = l.action]
    BY <1>4, Zenon DEF RequestAfter
  <2>2. /\ after.method = request.method /\ after.action = l.action
        /\ after.scope = request.scope /\ DOMAIN after = DOMAIN request
    BY <1>1, <2>1
  <2> QED
    BY <1>4, <2>2 DEF GoesOn
<1>5. CASE l.is = "completed"
  <2>1. after = NoRequest
    BY <1>5, Zenon DEF RequestAfter
  <2> QED
    BY <1>5, <2>1
<1>6. CASE /\ ~ (l.is = "query" /\ request # NoRequest /\ counts(l))
           /\ l.is # "started" /\ l.is # "completed"
           /\ ~ (l.is = "processing" /\ request # NoRequest)
  <2>1. after = request
    BY <1>6, Zenon DEF RequestAfter
  <2> QED
    BY <1>6, <2>1 DEF GoesOn
<1> QED
  BY <1>2, <1>3, <1>4, <1>5, <1>6

\* The line that started a request last.
LEMMA StartStays ==
  ASSUME NEW lines, NEW n \in Nat
  PROVE  /\ lines[n + 1].is = "started" => LastStart(lines, n + 1, n + 1)
         /\ \A s : LastStart(lines, n, s) /\ lines[n + 1].is # "started" =>
              LastStart(lines, n + 1, s)
<1>1. n + 1 \in 1..(n + 1) /\ ((n + 1) + 1)..(n + 1) = {}
  OBVIOUS
<1>2. ASSUME NEW s, LastStart(lines, n, s), lines[n + 1].is # "started"
      PROVE  LastStart(lines, n + 1, s)
  <2>1. s \in 1..n /\ lines[s].is = "started" /\ \A m \in (s + 1)..n : lines[m].is # "started"
    BY <1>2 DEF LastStart
  <2>2. s \in 1..(n + 1) /\ \A m \in (s + 1)..(n + 1) : m \in (s + 1)..n \/ m = n + 1
    BY <2>1
  <2> QED
    BY <1>2, <2>1, <2>2 DEF LastStart
<1> QED
  BY <1>1, <1>2 DEF LastStart

\* After a line the interpreter's request is of the last line that started one.
LEMMA FromStays ==
  ASSUME NEW lines, NEW n, NEW l, NEW request, NEW done, NEW D, NEW scope,
         InStep(lines, n, l, request, done, D, scope), NEW own, own = LineScope(request, scope),
         NEW after, after = RequestAfter(request, l, own)
  PROVE  RequestFrom(after, lines, n + 1, done, D) /\ DOMAIN after = DOMAIN NoRequest
<1>1. /\ n \in Nat /\ l = lines[n + 1] /\ LogLine(l) /\ DOMAIN request = DOMAIN NoRequest
      /\ RequestFrom(request, lines, n, done, D)
  BY DEF InStep
<1>2. /\ DOMAIN after = DOMAIN NoRequest
      /\ \/ GoesOn(request, l, after)
         \/ l.is = "started" /\ after.scope = own
         \/ after = NoRequest
  BY <1>1, AfterIs
<1>3. CASE GoesOn(request, l, after) /\ after # NoRequest
  <2>1. request # NoRequest /\ l.is # "started" /\ after.scope = request.scope
    BY <1>3 DEF GoesOn
  <2>2. PICK s : LastStart(lines, n, s) /\ ScopeOk(request.scope, lines[s], done, D)
    BY <1>1, <2>1 DEF RequestFrom
  <2>3. LastStart(lines, n + 1, s)
    BY <1>1, <2>1, <2>2, StartStays
  <2> QED
    BY <1>2, <2>1, <2>2, <2>3 DEF RequestFrom
<1>4. CASE l.is = "started" /\ after.scope = own
  <2>1. ScopeOk(own, l, done, D)
    BY LineScopeOk
  <2>2. LastStart(lines, n + 1, n + 1)
    BY <1>1, <1>4, StartStays
  <2> QED
    BY <1>1, <1>2, <1>4, <2>1, <2>2 DEF RequestFrom
<1>5. CASE after = NoRequest
  BY <1>2, <1>5 DEF RequestFrom
<1> QED
  BY <1>2, <1>3, <1>4, <1>5

\* Requests that were not completed so far.
LEMMA UncompletedStays ==
  ASSUME NEW lines, NEW n \in Nat, lines[n + 1].is # "completed"
  PROVE  /\ UncompletedIn(lines, n + 1) \subseteq UncompletedIn(lines, (n + 1) + 1)
         /\ lines[n + 1].is = "processing" =>
              Endpoint([lines[n + 1].block EXCEPT !.action = lines[n + 1].action])
                \in UncompletedIn(lines, (n + 1) + 1)
<1>1. PICK S, T : /\ S = {k \in 1..(n + 1) - 1 : /\ lines[k].is = "processing"
                                                /\ \A j \in k + 1..(n + 1) - 1 : lines[j].is # "completed"}
                  /\ T = {k \in 1..((n + 1) + 1) - 1 : /\ lines[k].is = "processing"
                                                /\ \A j \in k + 1..((n + 1) + 1) - 1 : lines[j].is # "completed"}
  OBVIOUS
<1>2. (n + 1) - 1 = n /\ ((n + 1) + 1) - 1 = n + 1
  OBVIOUS
<1>3. S \subseteq T
  <2> SUFFICES ASSUME NEW k \in S PROVE k \in T
    OBVIOUS
  <2>1. k \in 1..n /\ lines[k].is = "processing" /\ \A j \in k + 1..n : lines[j].is # "completed"
    BY <1>1, <1>2
  <2>2. k \in 1..(n + 1) /\ \A j \in k + 1..(n + 1) : j \in k + 1..n \/ j = n + 1
    BY <2>1
  <2>3. \A j \in k + 1..(n + 1) : lines[j].is # "completed"
    BY <2>1, <2>2
  <2> QED
    BY <1>1, <1>2, <2>1, <2>2, <2>3
<1>4. lines[n + 1].is = "processing" => n + 1 \in T
  <2>1. n + 1 \in 1..(n + 1) /\ (n + 1) + 1..(n + 1) = {}
    OBVIOUS
  <2> QED
    BY <1>1, <1>2, <2>1
<1>5. /\ UncompletedIn(lines, n + 1) =
           {Endpoint([lines[m].block EXCEPT !.action = lines[m].action]) : m \in S}
      /\ UncompletedIn(lines, (n + 1) + 1) =
           {Endpoint([lines[m].block EXCEPT !.action = lines[m].action]) : m \in T}
  BY <1>1, Zenon DEF UncompletedIn
<1> QED
  BY <1>3, <1>4, <1>5

\* After a line the interpreter is in no endpoint of one that was completed.
LEMMA LeftStays ==
  ASSUME NEW lines, NEW n, NEW l, NEW request, NEW done, NEW D, NEW scope,
         InStep(lines, n, l, request, done, D, scope), NEW own, own = LineScope(request, scope),
         NEW after, after = RequestAfter(request, l, own)
  PROVE  RequestLeft(after, lines, n + 1)
<1>1. /\ n \in Nat /\ l = lines[n + 1] /\ LogLine(l) /\ DOMAIN request = DOMAIN NoRequest
      /\ RequestLeft(request, lines, n)
  BY DEF InStep
<1>2. /\ request # NoRequest => request.method = "GET"
      /\ Endpoint(request) # NoScope => Endpoint(request) \in UncompletedIn(lines, n + 1)
      /\ request.scope # NoScope /\ request.scope.kind = "http.request" =>
           request.scope \in UncompletedIn(lines, n + 1)
  BY <1>1 DEF RequestLeft
<1>3. \/ GoesOn(request, l, after)
      \/ /\ l.is = "started" /\ after.method = "GET" /\ after.action = NoExample
         /\ after.scope = own
      \/ after = NoRequest
  BY <1>1, AfterIs
<1>4. PICK U, U2 : U = UncompletedIn(lines, n + 1) /\ U2 = UncompletedIn(lines, (n + 1) + 1)
  OBVIOUS
<1>5. l.is # "completed" =>
        /\ U \subseteq U2
        /\ l.is = "processing" => Endpoint([l.block EXCEPT !.action = l.action]) \in U2
  BY <1>1, <1>4, UncompletedStays
<1>6. CASE GoesOn(request, l, after)
  <2>1. /\ l.is # "completed" /\ (after # NoRequest => request # NoRequest)
        /\ after.method = request.method /\ after.scope = request.scope
        /\ \/ after.action = request.action
           \/ l.is = "processing" /\ request # NoRequest /\ after.action = l.action
    BY <1>6 DEF GoesOn
  <2>2. Endpoint(after) # NoScope => Endpoint(after) \in U2
    <3>1. CASE after.action = request.action
      <4>1. Endpoint(after) = Endpoint(request)
        BY <2>1, <3>1 DEF Endpoint
      <4> QED
        BY <1>2, <1>4, <1>5, <2>1, <4>1
    <3>2. CASE l.is = "processing" /\ request # NoRequest /\ after.action = l.action
      <4>1. l.block \in Block /\ l.block # NoRequest
        BY <1>1, <3>2, Zenon DEF LogLine
      <4>2. PICK b : b = [l.block EXCEPT !.action = l.action]
        OBVIOUS
      <4>3. b.method = "GET" /\ b.action = l.action
        BY <4>1, <4>2 DEF Block
      <4>4. Endpoint(after) = Endpoint(b)
        BY <1>2, <2>1, <3>2, <4>3 DEF Endpoint
      <4> QED
        BY <1>5, <2>1, <3>2, <4>2, <4>4
    <3> QED
      BY <2>1, <3>1, <3>2
  <2> QED
    BY <1>2, <1>4, <1>5, <2>1, <2>2 DEF RequestLeft
<1>7. CASE /\ l.is = "started" /\ after.method = "GET" /\ after.action = NoExample
           /\ after.scope = own
  <2>1. own # NoScope /\ own.kind = "http.request" => own \in U
    BY <1>4, LineScopeOk
  <2>2. Endpoint(after) = NoScope
    BY <1>7 DEF Endpoint
  <2> QED
    BY <1>4, <1>5, <1>7, <2>1, <2>2 DEF RequestLeft
<1>8. CASE after = NoRequest
  BY <1>8, EndpointKind DEF RequestLeft
<1> QED
  BY <1>3, <1>6, <1>7, <1>8

\* With one worker the interpreter's request after a line is that of the worker.
LEMMA SameStays ==
  ASSUME OneWorker, NEW lines, NEW n, NEW l, NEW request, NEW done, NEW D, NEW scope,
         InStep(lines, n, l, request, done, D, scope), NEW own, NEW after,
         after = RequestAfter(request, l, own)
  PROVE  RequestOk(after, lines, n + 1)
<1>1. /\ n \in Nat /\ l = lines[n + 1] /\ LogLine(l) /\ DOMAIN request = DOMAIN NoRequest
      /\ RequestLeft(request, lines, n) /\ SameRequest(request, l.block)
  BY DEF InStep
<1>2. PICK next : next = NextBlock(l)
  OBVIOUS
<1>3. DOMAIN request = {"method", "action", "scope", "queries"} /\ NoRequest.method = NoExample
      /\ NoRequest.action = NoExample /\ NoRequest.queries = 0
  BY <1>1, EndpointKind
<1>4. l.block # NoRequest =>
        l.block \in [method : {"GET"}, action : Actions \cup {NoExample}, scope : {NoScope}, queries : Nat]
  BY <1>1, Zenon DEF LogLine, Block
<1>5. l.block # NoRequest =>
        /\ request # NoRequest /\ request.method = l.block.method /\ request.method = "GET"
        /\ request.action = l.block.action /\ request.queries = l.block.queries
  BY <1>1, <1>4 DEF SameRequest
<1>6. CASE l.is = "query" /\ l.block # NoRequest /\ counts(l)
  <2>1. after = [request EXCEPT !.queries = @ + 1]
    BY <1>5, <1>6, Zenon DEF RequestAfter
  <2>2. next = [l.block EXCEPT !.queries = @ + 1]
    BY <1>2, <1>6, Zenon DEF NextBlock
  <2>3. /\ after.method = request.method /\ after.action = request.action
        /\ after.queries = request.queries + 1
    BY <1>3, <2>1
  <2>4. /\ next.method = l.block.method /\ next.action = l.block.action
        /\ next.queries = l.block.queries + 1
    BY <1>4, <1>6, <2>2
  <2>5. after # NoRequest
    BY <1>3, <1>5, <1>6, <2>3, SuiteAssumption
  <2>6. SameRequest(after, next)
    BY <1>5, <1>6, <2>3, <2>4, <2>5 DEF SameRequest
  <2> QED
    BY <1>1, <1>2, <2>6 DEF RequestOk
<1>7. CASE l.is = "query" /\ ~ (l.block # NoRequest /\ counts(l))
  <2>1. next = l.block
    BY <1>2, <1>7, Zenon DEF NextBlock
  <2>2. l.block # NoRequest => after = request
    <3> SUFFICES ASSUME l.block # NoRequest PROVE after = request
      OBVIOUS
    <3>1. ~ counts(l)
      BY <1>7
    <3> QED
      BY <1>7, <3>1, Zenon DEF RequestAfter
  <2>3. SameRequest(after, next)
    BY <1>1, <2>1, <2>2 DEF SameRequest
  <2> QED
    BY <1>1, <1>2, <2>3 DEF RequestOk
<1>8. CASE l.is = "text"
  <2>1. after = request /\ next = l.block
    BY <1>2, <1>8, Zenon DEF RequestAfter, NextBlock
  <2> QED
    BY <1>1, <1>2, <2>1 DEF RequestOk
<1>9. CASE l.is = "started"
  <2>1. after = [method |-> l.method, action |-> NoExample, scope |-> own, queries |-> 0]
    BY <1>9, Zenon DEF RequestAfter
  <2>2. next = [NoRequest EXCEPT !.method = "GET"]
    BY <1>2, <1>9, Zenon DEF NextBlock
  <2>3. l.method = "GET"
    BY <1>1, <1>9, Zenon DEF LogLine
  <2>4. /\ after.method = "GET" /\ after.action = NoExample /\ after.queries = 0
    BY <2>1, <2>3
  <2>5. next.method = "GET" /\ next.action = NoExample /\ next.queries = 0
    BY <2>2 DEF NoRequest
  <2>6. SameRequest(after, next)
    BY <1>3, <2>4, <2>5, SuiteAssumption DEF SameRequest
  <2> QED
    BY <1>1, <1>2, <2>6 DEF RequestOk
<1>10. CASE l.is = "processing"
  <2>1. l.block # NoRequest /\ l.action \in Actions
    BY <1>1, <1>10, Zenon DEF LogLine
  <2>2. after = [request EXCEPT !.action = l.action]
    BY <1>5, <1>10, <2>1, Zenon DEF RequestAfter
  <2>3. next = [l.block EXCEPT !.action = l.action]
    BY <1>2, <1>10, Zenon DEF NextBlock
  <2>4. /\ after.method = request.method /\ after.action = l.action
        /\ after.queries = request.queries
    BY <1>3, <2>2
  <2>5. next.method = l.block.method /\ next.action = l.action /\ next.queries = l.block.queries
    BY <1>4, <2>1, <2>3
  <2>6. after # NoRequest
    BY <1>3, <1>5, <2>1, <2>4, SuiteAssumption
  <2>7. SameRequest(after, next)
    BY <1>5, <2>1, <2>4, <2>5, <2>6 DEF SameRequest
  <2> QED
    BY <1>1, <1>2, <2>7 DEF RequestOk
<1>11. CASE l.is = "completed"
  <2>1. next = NoRequest
    BY <1>2, <1>11, Zenon DEF NextBlock
  <2>2. SameRequest(after, next)
    BY <2>1 DEF SameRequest
  <2> QED
    BY <1>1, <1>2, <2>2 DEF RequestOk
<1>12. l.is \in {"text", "query", "started", "processing", "completed"}
  BY <1>1 DEF LogLine
<1> QED
  BY <1>6, <1>7, <1>8, <1>9, <1>10, <1>11, <1>12

-----------------------------------------------------------------------------
(* What a line of the log makes.                                            *)

\* The events of a line of the log: none, or one that is its own.
MadeOf(made, lines, m, done, D) ==
  \/ made = <<>> /\ ~ Finishes(lines[m])
  \/ \E e : /\ made = <<e>> /\ e.source = [stream |-> "log", seq |-> m]
            /\ FromLine(e, lines, m, done, D)
            /\ Finishes(lines[m]) => e.behavior.kind = "http.request"

\* With one worker the endpoint is that of the line's request, or is left over.
LEMMA EndpointOfLine ==
  ASSUME OneWorker, NEW lines, NEW n, NEW l, NEW request, NEW done, NEW D, NEW scope,
         InStep(lines, n, l, request, done, D, scope)
  PROVE  \/ Endpoint(request) = Endpoint(l.block)
         \/ l.block = NoRequest /\ Endpoint(request) \in UncompletedIn(lines, n + 1)
<1>1. SameRequest(request, l.block) /\ RequestLeft(request, lines, n)
  BY DEF InStep
<1>2. CASE l.block # NoRequest
  <2>1. request.method = l.block.method /\ request.action = l.block.action
    BY <1>1, <1>2 DEF SameRequest
  <2> QED
    BY <2>1 DEF Endpoint
<1>3. CASE l.block = NoRequest
  <2>1. Endpoint(l.block) = NoScope
    BY <1>3, EndpointKind
  <2>2. Endpoint(request) # NoScope => Endpoint(request) \in UncompletedIn(lines, n + 1)
    BY <1>1 DEF RequestLeft
  <2> QED
    BY <1>3, <2>1, <2>2
<1> QED
  BY <1>2, <1>3

\* An event of a line, which is no request's own.
LEMMA PlainLine ==
  ASSUME NEW lines, NEW n, NEW l, NEW request, NEW done, NEW D, NEW scope,
         InStep(lines, n, l, request, done, D, scope),
         NEW e, e.scope = LineScope(request, scope), e.behavior.kind # "http.request"
  PROVE  FromLine(e, lines, n + 1, done, D)
<1>1. PICK own : own = LineScope(request, scope)
  OBVIOUS
<1>2. ScopeOk(own, l, done, D) /\ (Unphased(own) => own = Endpoint(request))
  BY <1>1, LineScopeOk
<1>3. l = lines[n + 1]
  BY DEF InStep
<1>4. ScopedLine(e, lines, n + 1, done, D)
  BY <1>1, <1>2, <1>3 DEF ScopedLine
<1>5. ASSUME OneWorker PROVE RequestLine(e, lines, n + 1)
  <2>1. Unphased(e.scope) =>
          \/ e.scope = Endpoint(l.block)
          \/ l.block = NoRequest /\ e.scope \in UncompletedIn(lines, n + 1)
    BY <1>1, <1>2, <1>5, EndpointOfLine
  <2> QED
    BY <1>3, <2>1 DEF RequestLine
<1> QED
  BY <1>4, <1>5 DEF FromLine

\* The event of a request that is completed.
LEMMA CompletedLine ==
  ASSUME NEW lines, NEW n, NEW l, NEW request, NEW done, NEW D, NEW scope,
         InStep(lines, n, l, request, done, D, scope),
         l.is = "completed", request.action # NoExample,
         NEW obs, obs.line = l, NEW e, e = CompletedEvent(obs, request)
  PROVE  /\ e.source = [stream |-> obs.stream, seq |-> obs.seq]
         /\ e.behavior.kind = "http.request"
         /\ FromLine(e, lines, n + 1, done, D)
<1>1. /\ n \in Nat /\ l = lines[n + 1] /\ LogLine(l)
      /\ RequestFrom(request, lines, n, done, D) /\ RequestLeft(request, lines, n)
      /\ OneWorker => SameRequest(request, l.block)
  BY DEF InStep
<1>2. PICK e_scope, measures :
        /\ e_scope = IF request.scope # NoScope THEN request.scope ELSE Endpoint(request)
        /\ measures = <<Measure("queries", IF l.queries = NoNumber THEN request.queries
                                           ELSE l.queries)>>
  OBVIOUS
<1>3. /\ e.source = [stream |-> obs.stream, seq |-> obs.seq] /\ e.scope = e_scope
      /\ e.behavior.kind = "http.request" /\ e.measures = measures
      /\ e.behavior.template = <<request.method, request.action, l.class>>
  BY <1>2 DEF CompletedEvent, Event, Behavior
<1>4. ScopedLine(e, lines, n + 1, done, D)
  <2>1. request # NoRequest
    BY EndpointKind
  <2>2. PICK s : LastStart(lines, n, s) /\ ScopeOk(request.scope, lines[s], done, D)
    BY <1>1, <2>1 DEF RequestFrom
  <2>3. LastStart(lines, n + 1, s)
    BY <1>1, <2>2, StartStays
  <2>4. ScopeOk(e_scope, lines[s], done, D)
    <3>1. CASE request.scope # NoScope
      BY <1>2, <2>2, <3>1
    <3>2. CASE request.scope = NoScope
      <4>1. e_scope = NoScope \/ e_scope.kind = "http.request"
        BY <1>2, <3>2, EndpointKind
      <4>2. PICK by : by = lines[s].by
        OBVIOUS
      <4>3. ~ (by # NoExample /\ by.id \in done)
        BY <2>2, <3>2, <4>2 DEF ScopeOk
      <4> QED
        BY <4>1, <4>2, <4>3 DEF ScopeOk
    <3> QED
      BY <3>1, <3>2
  <2> QED
    BY <1>3, <2>3, <2>4 DEF ScopedLine
<1>5. ASSUME OneWorker PROVE RequestLine(e, lines, n + 1)
  <2>1. l.block # NoRequest
    BY <1>1 DEF LogLine
  <2>2. /\ request.method = l.block.method /\ request.action = l.block.action
        /\ request.queries = l.block.queries
    BY <1>1, <1>5, <2>1 DEF SameRequest
  <2>3. Unphased(e_scope) => e_scope = Endpoint(l.block) \/ e_scope \in UncompletedIn(lines, n + 1)
    <3>1. CASE request.scope # NoScope
      BY <1>1, <1>2, <3>1 DEF Unphased, RequestLeft
    <3>2. CASE request.scope = NoScope
      <4>1. Endpoint(request) = Endpoint(l.block)
        BY <2>2 DEF Endpoint
      <4> QED
        BY <1>2, <3>2, <4>1
    <3> QED
      BY <3>1, <3>2
  <2>4. e.behavior.template = <<l.block.method, l.block.action, l.class>>
    BY <1>3, <2>2
  <2>5. e.measures = <<Measure("queries", IF l.queries = NoNumber THEN l.block.queries ELSE l.queries)>>
    BY <1>2, <1>3, <2>2
  <2> QED
    BY <1>1, <1>3, <2>2, <2>3, <2>4, <2>5 DEF RequestLine
<1> QED
  BY <1>3, <1>4, <1>5 DEF FromLine

\* What a line makes: nothing, or an event of its own.
LEMMA EventsOfLine ==
  ASSUME NEW lines, NEW n, NEW l, NEW request, NEW done, NEW D, NEW scope,
         InStep(lines, n, l, request, done, D, scope),
         NEW obs, obs.line = l, obs.stream = "log", obs.seq = n + 1,
         NEW made, made = RailsEvents(request, obs, scope)
  PROVE  MadeOf(made, lines, n + 1, done, D)
<1>1. l = lines[n + 1] /\ LogLine(l) /\ (OneWorker => SameRequest(request, l.block))
  BY DEF InStep
<1>2. PICK own : own = LineScope(request, scope)
  OBVIOUS
<1>3. Finishes(l) => l.is = "completed" /\ request.action # NoExample
  <2> SUFFICES ASSUME Finishes(l) PROVE l.is = "completed" /\ request.action # NoExample
    OBVIOUS
  <2>1. OneWorker /\ l.is = "completed" /\ l.block.action # NoExample
    BY DEF Finishes
  <2>2. l.block # NoRequest
    BY <2>1, EndpointKind
  <2> QED
    BY <1>1, <2>1, <2>2 DEF SameRequest
<1>4. ASSUME NEW e, NEW kind, NEW template, NEW failure, NEW measures,
             e = Event(obs, Behavior(kind, template), failure, own, measures),
             kind # "http.request", made = <<e>>, ~ Finishes(l)
      PROVE  MadeOf(made, lines, n + 1, done, D)
  <2>1. /\ e.source = [stream |-> "log", seq |-> n + 1] /\ e.scope = own
        /\ e.behavior.kind # "http.request"
    BY <1>4 DEF Event, Behavior
  <2>2. FromLine(e, lines, n + 1, done, D)
    BY <1>2, <2>1, PlainLine
  <2> QED
    BY <1>1, <1>4, <2>1, <2>2, Zenon DEF MadeOf
<1>5. CASE l.is = "query"
  <2>1. PICK e : e = Event(obs, Behavior("db.query", <<l.name, collapse_placeholders(l.sql)>>), FALSE,
                           own, <<>>)
    OBVIOUS
  <2>2. made = <<e>>
    BY <1>2, <1>5, <2>1, Zenon DEF RailsEvents
  <2>3. PICK kind, template, failure, measures :
          /\ kind = "db.query" /\ template = <<l.name, collapse_placeholders(l.sql)>>
          /\ failure = FALSE /\ measures = <<>>
    OBVIOUS
  <2>4. e = Event(obs, Behavior(kind, template), failure, own, measures)
    BY <2>1, <2>3
  <2>5. kind # "http.request" /\ ~ Finishes(l)
    BY <1>3, <1>5, <2>3
  <2> QED
    BY <1>4, <2>2, <2>4, <2>5
<1>6. CASE l.is = "completed" /\ request.action # NoExample
  <2>1. PICK e : e = CompletedEvent(obs, request)
    OBVIOUS
  <2>2. made = <<e>>
    BY <1>6, <2>1, Zenon DEF RailsEvents
  <2>3. /\ e.source = [stream |-> "log", seq |-> n + 1] /\ e.behavior.kind = "http.request"
        /\ FromLine(e, lines, n + 1, done, D)
    BY <1>6, <2>1, CompletedLine
  <2> QED
    BY <2>2, <2>3, Zenon DEF MadeOf
<1>7. CASE l.is = "started" \/ (l.is = "processing" /\ request # NoRequest)
  <2>1. made = <<>>
    <3>1. CASE l.is = "started"
      BY <3>1, Zenon DEF RailsEvents
    <3>2. CASE l.is = "processing" /\ request # NoRequest
      BY <3>2, Zenon DEF RailsEvents
    <3> QED
      BY <1>7, <3>1, <3>2
  <2>2. ~ Finishes(l)
    BY <1>3, <1>7
  <2> QED
    BY <1>1, <2>1, <2>2, Zenon DEF MadeOf
<1>8. CASE /\ l.is \notin {"query", "started"} /\ ~ (l.is = "processing" /\ request # NoRequest)
           /\ ~ (l.is = "completed" /\ request.action # NoExample)
  <2>1. PICK e : e = log(obs, own)
    OBVIOUS
  <2>2. made = <<e>>
    BY <1>2, <1>8, <2>1, Zenon DEF RailsEvents
  <2>3. ~ Finishes(l)
    BY <1>3, <1>8
  <2>4. PICK kind, template, failure, measures :
          /\ kind = "log" /\ template = <<obs.line.is, obs.line.text>>
          /\ failure = has_error_level(obs.line) /\ measures = <<>>
    OBVIOUS
  <2>5. e = Event(obs, Behavior(kind, template), failure, own, measures)
    BY <2>1, <2>4 DEF log
  <2>6. kind # "http.request"
    BY <2>4
  <2> QED
    BY <1>4, <2>2, <2>3, <2>5, <2>6
<1> QED
  BY <1>5, <1>6, <1>7, <1>8

\* A line of the log leaves the chain in step, and makes at most an event, that is the line's own.
LEMMA LogStays ==
  ASSUME NEW lines, NEW events, NEW runs, NEW left, NEW done, NEW D, LogOk(lines),
         NEW requests, OneWorker => BlocksOk(lines, requests),
         EventsOk(lines, events, runs, left, done), NEW n \in Nat, n + 1 \in 1..Len(lines),
         NEW k, k = Len(events), NEW c, ChainOk(c, lines, n, events, k, done, D),
         NEW obs, obs.line = lines[n + 1], obs.stream = "log", obs.seq = n + 1
  PROVE  /\ ChainOk(RailsAfter(c, obs), lines, n + 1, events, k, done, D)
         /\ MadeOf(RailsEvents(c.request, obs, scope_id(At(c.scopes, c.log_offset))),
                   lines, n + 1, done, D)
<1>1. PICK l, scope, made, r :
        /\ l = lines[n + 1] /\ scope = scope_id(At(c.scopes, c.log_offset)) /\ r = c.request
        /\ made = RailsEvents(r, obs, scope)
  OBVIOUS
<1>2. /\ StartedOk(c.started, events, k)
      /\ ScopesOk(c.scopes, events, k)
      /\ \A j \in 1..k : events[j].is = "example" => Identity(events[j]) \in D
      /\ c.log_offset = LenTo(lines, n)
      /\ DOMAIN c = DOMAIN NewChain /\ DOMAIN r = DOMAIN NoRequest
      /\ RequestFrom(r, lines, n, done, D) /\ RequestLeft(r, lines, n)
      /\ OneWorker => RequestOk(r, lines, n)
  BY <1>1, Zenon DEF ChainOk
<1>3. ScopeOk(scope, l, done, D) /\ (scope = NoScope \/ scope.kind # "http.request")
  <2>1. ScopesOk(c.scopes, events, Len(events))
        /\ \A j \in 1..Len(events) : events[j].is = "example" => Identity(events[j]) \in D
    BY <1>2
  <2>2. scope = scope_id(At(c.scopes, LenTo(lines, n)))
    BY <1>1, <1>2
  <2> QED
    BY <1>1, <2>1, <2>2, ScopeFound
<1>4. LogLine(l)
  BY <1>1, Zenon DEF LogOk
<1>5. ASSUME OneWorker PROVE SameRequest(r, l.block)
  <2>1. l.block # NoRequest => n + 1 > 1 /\ l.block = NextBlock(lines[(n + 1) - 1])
    BY <1>1, <1>5, Zenon DEF BlocksOk
  <2>2. l.block # NoRequest => n > 0 /\ l.block = NextBlock(lines[n])
    BY <2>1
  <2>3. RequestOk(r, lines, n)
    BY <1>2, <1>5
  <2> QED
    BY <2>2, <2>3 DEF RequestOk, SameRequest
<1>6. InStep(lines, n, l, r, done, D, scope)
  BY <1>1, <1>2, <1>3, <1>4, <1>5 DEF InStep
<1>7. PICK own, after : own = LineScope(r, scope) /\ after = RequestAfter(r, l, own)
  OBVIOUS
<1>8. /\ RequestFrom(after, lines, n + 1, done, D) /\ DOMAIN after = DOMAIN NoRequest
      /\ RequestLeft(after, lines, n + 1)
      /\ OneWorker => RequestOk(after, lines, n + 1)
  BY <1>6, <1>7, FromStays, LeftStays, SameStays
<1>9. PICK next : next = RailsAfter(c, obs)
  OBVIOUS
<1>10. /\ DOMAIN next = DOMAIN c /\ next.scopes = c.scopes /\ next.started = c.started
       /\ next.log_offset = c.log_offset + l.len /\ next.request = after
  <2>1. next = [c EXCEPT !.log_offset = @ + l.len, !.request = after]
    BY <1>1, <1>7, <1>9 DEF RailsAfter
  <2> QED
    BY <1>2, <2>1, ChainIs
<1>11. next.log_offset = LenTo(lines, n + 1)
  <2>1. IsSeq(lines)
    BY Zenon DEF LogOk
  <2>2. LenTo(lines, n + 1) = LenTo(lines, (n + 1) - 1) + l.len /\ (n + 1) - 1 = n
    BY <1>1, <2>1, LenToNext
  <2> QED
    BY <1>2, <1>10, <2>2
<1>12. ChainOk(next, lines, n + 1, events, k, done, D)
  BY <1>2, <1>8, <1>10, <1>11, Zenon DEF ChainOk
<1>13. MadeOf(made, lines, n + 1, done, D)
  BY <1>1, <1>6, EventsOfLine
<1> QED
  BY <1>1, <1>9, <1>12, <1>13

-----------------------------------------------------------------------------
(* What is recorded stays, and an example always is.                        *)

\* Recording an event keeps every behavior, and an example's is its own.
LEMMA RecordDomain ==
  ASSUME NEW a, NEW e
  PROVE  /\ DOMAIN Record(a, e).behaviors = DOMAIN a.behaviors \cup {IdOf(a, e)}
         /\ e.behavior.kind = "test.example" => IdOf(a, e) = e.behavior
<1> DEFINE admitted == Admitted(a, e.behavior)
           id       == IdOf(a, e)
           acc      == AccFor(a, e)
           counted  == [acc EXCEPT !.count = acc.count + 1,
                                   !.errors = acc.errors + IF e.failure THEN 1 ELSE 0]
           kept     == KeepExemplar(counted, e.source, IF Draws(acc) THEN Head(a.rng) ELSE 0)
           measured == [kept EXCEPT !.measures = RecordMeasures(kept.measures, e.measures)]
           final    == IF admitted THEN RecordScope(a, measured, e) ELSE kept
           after    == Record(a, e)
<1>1. after = [behaviors |-> Put(a.behaviors, id, final),
               cells     |-> a.cells + Cardinality(DOMAIN final.scopes)
                                     - Cardinality(DOMAIN acc.scopes),
               fresh     |-> IF id \notin DOMAIN a.behaviors THEN Append(a.fresh, id) ELSE a.fresh,
               rng       |-> IF Draws(acc) THEN Tail(a.rng) ELSE a.rng]
  BY Zenon DEF Record, AccFor, AccOf, IdOf
<1>2. e.behavior.kind = "test.example" => id = e.behavior
  BY DEF IdOf, Admitted, capped
<1> HIDE DEF after, final, acc, id
<1>3. after.behaviors = Put(a.behaviors, id, final)
  BY <1>1
<1>4. DOMAIN after.behaviors = DOMAIN a.behaviors \cup {id}
  BY <1>3 DEF Put
<1> QED
  BY <1>2, <1>4 DEF after, id

\* So does recording the events of an observation.
LEMMA RecordedDomain ==
  ASSUME NEW a, NEW events, NEW obs, Few(events, obs)
  PROVE  /\ IsSeq(events)
         /\ \A i \in 1..Len(events) :
              events[i].source = [stream |-> obs.stream, seq |-> obs.seq]
         /\ DOMAIN a.behaviors \subseteq DOMAIN RecordAll(a, events).behaviors
         /\ 1 \in 1..Len(events) /\ events[1].behavior.kind = "test.example" =>
              events[1].behavior \in DOMAIN RecordAll(a, events).behaviors
<1>1. CASE events = <<>>
  <2>1. IsSeq(events) /\ Len(events) = 0
    BY <1>1, Single
  <2>2. RecordAll(a, events) = a
    BY <1>1, Folds
  <2> QED
    BY <2>1, <2>2
<1>2. ASSUME NEW e, Real(e, obs), events = <<e>>
      PROVE  /\ IsSeq(events)
             /\ \A i \in 1..Len(events) :
                  events[i].source = [stream |-> obs.stream, seq |-> obs.seq]
             /\ DOMAIN a.behaviors \subseteq DOMAIN RecordAll(a, events).behaviors
             /\ 1 \in 1..Len(events) /\ events[1].behavior.kind = "test.example" =>
                  events[1].behavior \in DOMAIN RecordAll(a, events).behaviors
  <2>1. IsSeq(events) /\ Len(events) = 1 /\ events[1] = e
    BY <1>2, Single
  <2>2. RecordAll(a, events) = Record(a, e)
    BY <1>2, Folds
  <2>3. \A i \in 1..Len(events) : i = 1
    BY <2>1
  <2> QED
    BY <1>2, <2>1, <2>2, <2>3, RecordDomain DEF Real
<1>3. ASSUME NEW e1, NEW e2, Real(e1, obs), Real(e2, obs), events = <<e1, e2>>
      PROVE  /\ IsSeq(events)
             /\ \A i \in 1..Len(events) :
                  events[i].source = [stream |-> obs.stream, seq |-> obs.seq]
             /\ DOMAIN a.behaviors \subseteq DOMAIN RecordAll(a, events).behaviors
             /\ 1 \in 1..Len(events) /\ events[1].behavior.kind = "test.example" =>
                  events[1].behavior \in DOMAIN RecordAll(a, events).behaviors
  <2>1. IsSeq(events) /\ Len(events) = 2 /\ events[1] = e1 /\ events[2] = e2
    BY <1>3, Single
  <2>2. PICK b, c : b = Record(a, e1) /\ c = Record(b, e2)
    OBVIOUS
  <2>3. RecordAll(a, events) = c
    BY <1>3, <2>2, FoldTwo
  <2>4. DOMAIN b.behaviors = DOMAIN a.behaviors \cup {IdOf(a, e1)}
    BY <2>2, RecordDomain
  <2>5. DOMAIN c.behaviors = DOMAIN b.behaviors \cup {IdOf(b, e2)}
    BY <2>2, RecordDomain
  <2>6. e1.behavior.kind = "test.example" => IdOf(a, e1) = e1.behavior
    BY RecordDomain
  <2>7. \A i \in 1..Len(events) : i = 1 \/ i = 2
    BY <2>1
  <2> QED
    BY <1>3, <2>1, <2>3, <2>4, <2>5, <2>6, <2>7 DEF Real
<1> QED
  BY <1>1, <1>2, <1>3 DEF Few

-----------------------------------------------------------------------------
(* What was emitted, and what is emitted then.                              *)

\* More behaviors change nothing an event says.
LEMMA FromMore ==
  ASSUME NEW e, NEW lines, NEW n, NEW done, NEW D, NEW D2, D \subseteq D2,
         FromLine(e, lines, n, done, D)
  PROVE  FromLine(e, lines, n, done, D2)
<1>1. ScopedLine(e, lines, n, done, D) /\ (OneWorker => RequestLine(e, lines, n))
  BY Zenon DEF FromLine
<1>2. ScopedLine(e, lines, n, done, D2)
  BY <1>1, ScopeMore, Zenon DEF ScopedLine
<1> QED
  BY <1>1, <1>2, Zenon DEF FromLine

\* The events of the lines after n are added to those up to it.
LEMMA EmittedGrows ==
  ASSUME NEW em, NEW events, IsSeq(em), IsSeq(events), NEW lines, NEW n \in Nat, NEW n2 \in Nat,
         n <= n2, NEW done, NEW D, NEW D2, D \subseteq D2, EmittedOk(em, lines, n, done, D),
         \A i \in 1..Len(events) : InLog(events[i]) =>
           /\ Len(events) = 1 /\ events[i].source.seq \in (n + 1)..n2
           /\ FromLine(events[i], lines, events[i].source.seq, done, D2),
         \A m \in (n + 1)..n2 : Finishes(lines[m]) =>
           \E i \in 1..Len(events) : /\ events[i].source = [stream |-> "log", seq |-> m]
                                     /\ events[i].behavior.kind = "http.request"
  PROVE  EmittedOk(em \o events, lines, n2, done, D2)
<1>1. PICK em2, p, q : em2 = em \o events /\ p = Len(em) /\ q = Len(events)
  OBVIOUS
<1>2. Joins(em, events, em2) /\ p \in Nat /\ q \in Nat /\ DOMAIN em = 1..p
  <2>1. Joins(em, events, em2)
    BY <1>1, Joined
  <2> QED
    BY <1>1, <2>1, LenProperties DEF IsSeq
<1>3. /\ DOMAIN em2 = 1..(p + q) /\ \A i \in 1..p : em2[i] = em[i]
      /\ \A i \in 1..q : em2[p + i] = events[i]
  BY <1>1, <1>2, Zenon DEF Joins
<1>4. ASSUME NEW i \in DOMAIN em2
      PROVE  \/ i \in 1..p /\ em2[i] = em[i]
             \/ \E k \in 1..q : i = p + k /\ em2[i] = events[k]
  <2>1. CASE i \in 1..p
    BY <1>3, <2>1
  <2>2. CASE i \notin 1..p
    <3>1. PICK k : k = i - p /\ k \in 1..q /\ i = p + k
      BY <1>2, <1>3, <2>2
    <3> QED
      BY <1>3, <3>1
  <2> QED
    BY <2>1, <2>2
<1>5. \A i \in 1..p : InLog(em[i]) =>
        /\ em[i].source.seq \in 1..n /\ FromLine(em[i], lines, em[i].source.seq, done, D)
        /\ \A j \in 1..p : em[i].source = em[j].source => i = j
  BY <1>2, Zenon DEF EmittedOk
<1>6. \A i \in 1..q : InLog(events[i]) =>
        /\ q = 1 /\ events[i].source.seq \in (n + 1)..n2
        /\ FromLine(events[i], lines, events[i].source.seq, done, D2)
  BY <1>1
<1>7. ASSUME NEW i \in DOMAIN em2, InLog(em2[i])
      PROVE  /\ em2[i].source.seq \in 1..n2
             /\ FromLine(em2[i], lines, em2[i].source.seq, done, D2)
             /\ \A j \in DOMAIN em2 : em2[i].source = em2[j].source => i = j
  <2>1. ASSUME NEW j \in DOMAIN em2, em2[i].source = em2[j].source
        PROVE  i = j
    <3>1. InLog(em2[j])
      BY <1>7, <2>1 DEF InLog
    <3>2. CASE i \in 1..p /\ em2[i] = em[i] /\ j \in 1..p /\ em2[j] = em[j]
      BY <1>5, <1>7, <2>1, <3>2
    <3>3. CASE \E k \in 1..q : \E l \in 1..q : i = p + k /\ em2[i] = events[k] /\ j = p + l /\ em2[j] = events[l]
      <4>1. PICK k \in 1..q, l \in 1..q : i = p + k /\ em2[i] = events[k] /\ j = p + l
        BY <3>3
      <4>2. q = 1
        BY <1>6, <1>7, <4>1
      <4>3. k = 1 /\ l = 1
        BY <4>1, <4>2
      <4> QED
        BY <4>1, <4>3
    <3>4. CASE i \in 1..p /\ em2[i] = em[i] /\ \E l \in 1..q : j = p + l /\ em2[j] = events[l]
      <4>1. em2[i].source.seq \in 1..n
        BY <1>5, <1>7, <3>4
      <4>2. em2[j].source.seq \in (n + 1)..n2
        BY <1>6, <3>1, <3>4
      <4>3. em2[j].source.seq \in 1..n
        BY <2>1, <4>1
      <4> QED
        BY <4>2, <4>3
    <3>5. CASE j \in 1..p /\ em2[j] = em[j] /\ \E k \in 1..q : i = p + k /\ em2[i] = events[k]
      <4>1. em2[j].source.seq \in 1..n
        BY <1>5, <3>1, <3>5
      <4>2. em2[i].source.seq \in (n + 1)..n2
        BY <1>6, <1>7, <3>5
      <4>3. em2[j].source.seq \in (n + 1)..n2
        BY <2>1, <4>2
      <4> QED
        BY <4>1, <4>3
    <3> QED
      BY <1>4, <3>2, <3>3, <3>4, <3>5, Zenon
  <2>2. em2[i].source.seq \in 1..n2 /\ FromLine(em2[i], lines, em2[i].source.seq, done, D2)
    <3>1. CASE i \in 1..p /\ em2[i] = em[i]
      <4>1. em[i].source.seq \in 1..n /\ FromLine(em[i], lines, em[i].source.seq, done, D)
        BY <1>5, <1>7, <3>1
      <4>2. FromLine(em[i], lines, em[i].source.seq, done, D2)
        BY <4>1, FromMore
      <4>3. em[i].source.seq \in 1..n2
        BY <4>1
      <4> QED
        BY <3>1, <4>2, <4>3
    <3>2. CASE \E k \in 1..q : i = p + k /\ em2[i] = events[k]
      <4>1. em2[i].source.seq \in (n + 1)..n2 /\ FromLine(em2[i], lines, em2[i].source.seq, done, D2)
        BY <1>6, <1>7, <3>2
      <4>2. em2[i].source.seq \in 1..n2
        BY <4>1
      <4> QED
        BY <4>1, <4>2
    <3> QED
      BY <1>4, <3>1, <3>2
  <2> QED
    BY <2>1, <2>2
<1>8. ASSUME NEW m \in 1..n2, Finishes(lines[m])
      PROVE  \E i \in DOMAIN em2 : /\ em2[i].source = [stream |-> "log", seq |-> m]
                                   /\ em2[i].behavior.kind = "http.request"
  <2>1. CASE m \in 1..n
    <3>a. PICK i \in DOMAIN em : /\ em[i].source = [stream |-> "log", seq |-> m]
                                 /\ em[i].behavior.kind = "http.request"
      BY <1>8, <2>1, Zenon DEF EmittedOk
    <3>1. i \in 1..p
      BY <1>2
    <3>2. i \in 1..(p + q) /\ em2[i] = em[i]
      BY <1>2, <1>3
    <3> QED
      BY <1>3, <3>a, <3>2
  <2>2. CASE m \in (n + 1)..n2
    <3>1. PICK k \in 1..q : /\ events[k].source = [stream |-> "log", seq |-> m]
                            /\ events[k].behavior.kind = "http.request"
      BY <1>1, <1>8, <2>2
    <3>2. p + k \in 1..(p + q) /\ em2[p + k] = events[k]
      BY <1>2, <1>3
    <3> QED
      BY <1>3, <3>1, <3>2
  <2> QED
    BY <2>1, <2>2
<1>9. EmittedOk(em2, lines, n2, done, D2)
  BY <1>7, <1>8, Zenon DEF EmittedOk
<1> QED
  BY <1>1, <1>9

-----------------------------------------------------------------------------
(* Every state of a run that is read.                                       *)

\* Nothing was read.
LEMMA NoneRead ==
  ASSUME NEW lines, NEW events, NEW done, NEW D, LogOk(lines), IsSeq(events)
  PROVE  /\ ChainOk(NewChain, lines, 0, events, 0, done, D) /\ EmittedOk(<<>>, lines, 0, done, D)
         /\ 0 <= Len(lines) /\ 0 <= Len(events)
<1>1. Len(lines) \in Nat /\ Len(events) \in Nat /\ IsSeq(lines)
  BY LenProperties DEF IsSeq, LogOk
<1>2. ChainOk(NewChain, lines, 0, events, 0, done, D)
  <2>1. LenTo(lines, 0) = 0
    BY <1>1, LenToNext
  <2>2. NewChain.scopes = <<>> /\ NewChain.log_offset = 0 /\ NewChain.request = NoRequest
    BY DEF NewChain
  <2>3. ScopesOk(<<>>, events, 0)
    <3>a. IsSeq(<<>>) /\ Len(<<>>) = 0
      BY Single, Zenon
    <3>b. \A i : i \notin 1..0
      OBVIOUS
    <3>1. IsSeq(<<>>) /\ (\A i : i \notin 1..Len(<<>>)) /\ (\A i : i \notin 1..0)
      BY <3>a, <3>b
    <3> QED
      BY <3>1, Zenon DEF ScopesOk, Ordered
  <2>4. /\ RequestOk(NoRequest, lines, 0)
        /\ RequestFrom(NoRequest, lines, 0, done, D) /\ RequestLeft(NoRequest, lines, 0)
    BY EndpointKind DEF RequestOk, RequestFrom, RequestLeft
  <2>5. StartedOk(NewChain.started, events, 0)
    BY DEF StartedOk, NewChain
  <2>6. 1..0 = {}
    OBVIOUS
  <2> QED
    BY <2>1, <2>2, <2>3, <2>4, <2>5, <2>6, Zenon DEF ChainOk
<1>3. EmittedOk(<<>>, lines, 0, done, D)
  <2>1. DOMAIN <<>> = {} /\ 1..0 = {}
    OBVIOUS
  <2> QED
    BY <2>1, Zenon DEF EmittedOk
<1> QED
  BY <1>1, <1>2, <1>3

\* A line more was read.
LEMMA ReadMore ==
  ASSUME WorldInv, CountsInv, ReadInv, NEW s \in Streams, Observe(s)
  PROVE  ReadInv'
<1>1. PICK obs : obs = Observation(s, fed[s] + 1, out[s][fed[s] + 1])
  OBVIOUS
<1>2. PICK events : events = EventsOf(chain, obs)
  OBVIOUS
<1>3. /\ emitted' = emitted \o events /\ agg' = RecordAll(agg, events)
      /\ chain' = After(chain, obs) /\ fed' = [fed EXCEPT ![s] = @ + 1]
      /\ suite = "ended" /\ suite' = suite /\ out' = out /\ placed' = placed
      /\ fed[s] < Len(out[s]) /\ AllRead(Before(s))
  BY <1>1, <1>2 DEF Observe, Recorded, RecordAll, world
<1>4. Few(events, obs)
  BY <1>2, FewEvents
<1>5. PICK D, D2 : D = DOMAIN agg.behaviors /\ D2 = DOMAIN agg'.behaviors
  OBVIOUS
<1>6. /\ IsSeq(events) /\ D \subseteq D2
      /\ \A i \in 1..Len(events) : events[i].source = [stream |-> obs.stream, seq |-> obs.seq]
      /\ 1 \in 1..Len(events) /\ events[1].behavior.kind = "test.example" =>
           events[1].behavior \in D2
  BY <1>3, <1>4, <1>5, RecordedDomain
<1>7. obs.stream = s /\ obs.seq = fed[s] + 1 /\ obs.line = out[s][fed[s] + 1]
  BY <1>1 DEF Observation
<1>8. PICK lines, said, n, k, done, c, em :
        /\ lines = out.log /\ said = out.events /\ n = fed.log /\ k = fed.events
        /\ done = placed /\ c = chain /\ em = emitted
  OBVIOUS
<1>9. /\ LogOk(lines) /\ EventsOk(lines, said, running, todo, done)
      /\ IsSeq(lines) /\ IsSeq(said) /\ IsSeq(em)
      /\ OneWorker => BlocksOk(lines, block)
  BY <1>8, WorldIs DEF CountsInv
<1>10. Len(lines) \in Nat /\ Len(said) \in Nat
  BY <1>9, LenProperties DEF IsSeq
<1>11. /\ fed \in [Streams -> Nat] /\ n \in Nat /\ k \in Nat
       /\ n <= Len(lines) /\ k <= Len(said) /\ (n > 0 => k = Len(said))
       /\ ChainOk(c, lines, n, said, k, done, D) /\ EmittedOk(em, lines, n, done, D)
  BY <1>5, <1>8 DEF ReadInv, Streams
<1>12. fed' \in [Streams -> Nat]
  BY <1>3, <1>11
<1>13. ChainOk(c, lines, n, said, k, done, D2)
  BY <1>6, <1>11, ChainMore
<1>14. ASSUME NEW n2, NEW k2, fed'.log = n2, fed'.events = k2, n2 <= Len(lines), k2 <= Len(said),
              n2 > 0 => k2 = Len(said), ChainOk(chain', lines, n2, said, k2, done, D2),
              EmittedOk(emitted', lines, n2, done, D2)
       PROVE  ReadInv'
  <2>1. /\ ChainOk(chain', out'.log, fed'.log, out'.events, fed'.events, placed', DOMAIN agg'.behaviors)
        /\ EmittedOk(emitted', out'.log, fed'.log, placed', DOMAIN agg'.behaviors)
        /\ fed'.log <= Len(out'.log) /\ fed'.events <= Len(out'.events)
        /\ fed'.log > 0 => fed'.events = Len(out'.events)
    BY <1>3, <1>5, <1>8, <1>14
  <2> QED
    BY <1>3, <1>12, <2>1 DEF ReadInv
<1>15. ASSUME s # "log"
       PROVE  EmittedOk(emitted', lines, n, done, D2)
  <2>1. \A i \in 1..Len(events) : ~ InLog(events[i])
    BY <1>6, <1>7, <1>15 DEF InLog
  <2>2. n <= n /\ (n + 1)..n = {}
    BY <1>11
  <2>3. EmittedOk(em \o events, lines, n, done, D2)
    BY <1>6, <1>9, <1>11, <2>1, <2>2, EmittedGrows
  <2> QED
    BY <1>3, <1>8, <2>3
<1>16. CASE s \in {"stdout", "stderr"}
  <2>1. fed'.log = n /\ fed'.events = k
    BY <1>3, <1>8, <1>11, <1>16 DEF Streams
  <2>2. PICK listing : chain' = [chain EXCEPT !.listing = listing]
    <3>1. obs.stream # "events" /\ obs.stream # "log"
      BY <1>7, <1>16
    <3>2. After(chain, obs) = [chain EXCEPT !.listing = Listing(@, obs)]
      BY <3>1, Zenon DEF After
    <3> QED
      BY <1>3, <3>2
  <2>3. ChainOk(chain', lines, n, said, k, done, D2)
    <3>1. DOMAIN c = DOMAIN NewChain
      BY <1>13, Zenon DEF ChainOk
    <3>2. PICK next : next = chain'
      OBVIOUS
    <3>3. /\ DOMAIN next = DOMAIN c /\ next.scopes = c.scopes /\ next.started = c.started
          /\ next.log_offset = c.log_offset /\ next.request = c.request
      BY <1>8, <2>2, <3>1, <3>2, ChainIs
    <3>4. ChainOk(next, lines, n, said, k, done, D2)
      BY <1>13, <3>3, Zenon DEF ChainOk
    <3> QED
      BY <3>2, <3>4
  <2> QED
    BY <1>11, <1>14, <1>15, <1>16, <2>1, <2>3
<1>17. CASE s = "events"
  <2>1. k < Len(said) /\ k + 1 \in 1..Len(said) /\ obs.line = said[k + 1]
    BY <1>3, <1>7, <1>8, <1>10, <1>11, <1>17
  <2>2. n = 0
    BY <1>11, <2>1
  <2>3. fed'.log = n /\ fed'.events = k + 1
    BY <1>3, <1>8, <1>11, <1>17 DEF Streams
  <2>4. chain' = RspecAfter(c, said[k + 1])
    BY <1>3, <1>7, <1>8, <1>17, <2>1 DEF After
  <2>5. said[k + 1].is = "example" => Identity(said[k + 1]) \in D2
    <3> SUFFICES ASSUME said[k + 1].is = "example" PROVE Identity(said[k + 1]) \in D2
      OBVIOUS
    <3>1. events = ExampleEvents(obs)
      <4>0. obs.stream = "events"
        BY <1>7, <1>17
      <4>1. /\ obs.stream = "events" /\ obs.stream # "log" /\ obs.stream # "stdout"
            /\ ~ Notice(chain.listing, obs)
        BY <4>0 DEF Notice
      <4>2. EventsOf(chain, obs) = RspecEvents(chain.start, obs)
        BY <4>1, Zenon DEF EventsOf
      <4> QED
        BY <1>2, <2>1, <4>2, Zenon DEF RspecEvents
    <3>2. PICK id, e1, e2 :
            /\ id = Identity(obs.line)
            /\ e1 = Event(obs, id, obs.line.status = "failed", NoScope, <<>>)
            /\ e2 = Event(obs, Behavior("exception", <<obs.line.exception>>), TRUE, id, <<>>)
      OBVIOUS
    <3>3. events = <<e1>> \o IF obs.line.exception = NoExample THEN <<>> ELSE <<e2>>
      BY <3>1, <3>2 DEF ExampleEvents
    <3>4. events = <<e1>> \/ events = <<e1, e2>>
      <4>1. <<e1>> \o <<>> = <<e1>> /\ <<e1>> \o <<e2>> = <<e1, e2>>
        BY Single
      <4> QED
        BY <3>3, <4>1
    <3>5. 1 \in 1..Len(events) /\ events[1] = e1
      BY <3>4, Single
    <3>6. e1.behavior = id /\ id.kind = "test.example"
      BY <3>2 DEF Event, Identity, Behavior
    <3> QED
      BY <1>6, <2>1, <3>2, <3>5, <3>6
  <2>6. ChainOk(c, lines, 0, said, k, done, D)
    BY <1>11, <2>2
  <2>7. ChainOk(RspecAfter(c, said[k + 1]), lines, 0, said, k + 1, done, D2)
    BY <1>6, <1>9, <1>11, <2>1, <2>5, <2>6, RspecStays
  <2>8. ChainOk(chain', lines, n, said, k + 1, done, D2)
    BY <2>2, <2>4, <2>7
  <2>9. EmittedOk(emitted', lines, n, done, D2)
    BY <1>15, <1>17
  <2>10. n <= Len(lines) /\ k + 1 <= Len(said) /\ ~ (n > 0)
    BY <1>11, <2>1, <2>2
  <2> QED
    BY <1>14, <2>3, <2>8, <2>9, <2>10
<1>18. CASE s = "log"
  <2>1. n + 1 \in 1..Len(lines) /\ obs.line = lines[n + 1] /\ obs.stream = "log" /\ obs.seq = n + 1
    BY <1>3, <1>7, <1>8, <1>10, <1>11, <1>18
  <2>2. k = Len(said)
    BY <1>3, <1>8, <1>18 DEF AllRead, Before
  <2>3. fed'.log = n + 1 /\ fed'.events = k
    BY <1>3, <1>8, <1>11, <1>18 DEF Streams
  <2>4. chain' = RailsAfter(c, obs)
    BY <1>3, <1>7, <1>8, <1>18 DEF After
  <2>5. events = RailsEvents(c.request, obs, scope_id(At(c.scopes, c.log_offset)))
    <3>1. /\ obs.stream = "log" /\ obs.stream # "events" /\ obs.stream # "stdout"
          /\ ~ Notice(chain.listing, obs)
      BY <2>1 DEF Notice
    <3>2. EventsOf(chain, obs) = RailsEvents(chain.request, obs, scope_id(At(chain.scopes, chain.log_offset)))
      BY <3>1, Zenon DEF EventsOf
    <3> QED
      BY <1>2, <1>8, <3>2
  <2>6. /\ ChainOk(RailsAfter(c, obs), lines, n + 1, said, k, done, D2)
        /\ MadeOf(RailsEvents(c.request, obs, scope_id(At(c.scopes, c.log_offset))),
                  lines, n + 1, done, D2)
    BY <1>9, <1>11, <1>13, <2>1, <2>2, LogStays
  <2>7. \/ /\ events = <<>>
           /\ ~ Finishes(lines[n + 1])
        \/ \E e : /\ events = <<e>> /\ e.source = [stream |-> "log", seq |-> n + 1]
                  /\ FromLine(e, lines, n + 1, done, D2)
                  /\ Finishes(lines[n + 1]) =>
                       e.behavior.kind = "http.request"
    <3>1. MadeOf(events, lines, n + 1, done, D2)
      BY <2>5, <2>6
    <3> QED
      BY <3>1, Zenon DEF MadeOf
  <2>8. /\ \A i \in 1..Len(events) : InLog(events[i]) =>
             /\ Len(events) = 1 /\ events[i].source.seq \in (n + 1)..(n + 1)
             /\ FromLine(events[i], lines, events[i].source.seq, done, D2)
        /\ \A m \in (n + 1)..(n + 1) :
             Finishes(lines[m]) =>
               \E i \in 1..Len(events) : /\ events[i].source = [stream |-> "log", seq |-> m]
                                         /\ events[i].behavior.kind = "http.request"
    <3>1. PICK m : m = n + 1
      OBVIOUS
    <3>2. m..m = {m} /\ m \in m..m
      BY <1>11, <3>1
    <3>3. CASE events = <<>> /\ ~ Finishes(lines[m])
      <4>1. \A i : i \notin 1..Len(events)
        BY <3>3, Single
      <4> QED
        BY <3>1, <3>2, <3>3, <4>1, Zenon
    <3>4. CASE \E e : /\ events = <<e>> /\ e.source = [stream |-> "log", seq |-> m]
                      /\ FromLine(e, lines, m, done, D2)
                      /\ Finishes(lines[m]) =>
                           e.behavior.kind = "http.request"
      <4>1. PICK e : /\ events = <<e>> /\ e.source = [stream |-> "log", seq |-> m]
                     /\ FromLine(e, lines, m, done, D2)
                     /\ Finishes(lines[m]) =>
                          e.behavior.kind = "http.request"
        BY <3>4
      <4>2. Len(events) = 1 /\ events[1] = e
        BY <4>1, Single
      <4>3. 1..Len(events) = {1} /\ 1 \in 1..Len(events)
        BY <4>2
      <4>4. e.source.seq = m
        BY <4>1
      <4> QED
        BY <3>1, <3>2, <4>1, <4>2, <4>3, <4>4, Zenon
    <3> QED
      BY <2>7, <3>1, <3>3, <3>4
  <2>9. EmittedOk(em \o events, lines, n + 1, done, D2)
    <3>1. n + 1 \in Nat /\ n <= n + 1
      BY <1>11
    <3> QED
      BY <1>6, <1>9, <1>11, <2>8, <3>1, EmittedGrows
  <2>10. ChainOk(chain', lines, n + 1, said, k, done, D2) /\ EmittedOk(emitted', lines, n + 1, done, D2)
    BY <1>3, <1>8, <2>4, <2>6, <2>9
  <2>11. n + 1 <= Len(lines) /\ k <= Len(said)
    BY <1>11, <2>1
  <2> QED
    BY <1>14, <2>2, <2>3, <2>10, <2>11
<1> QED
  BY <1>16, <1>17, <1>18 DEF Streams

\* Nothing is read before the suite has ended.
LEMMA InitRead == Init => ReadInv
<1> SUFFICES ASSUME Init PROVE ReadInv
  OBVIOUS
<1>1. WorldInv
  BY InitWorld
<1>2. LogOk(out.log) /\ IsSeq(out.events)
  BY <1>1, WorldIs
<1>3. fed = [s \in Streams |-> 0] /\ chain = NewChain /\ emitted = <<>>
  BY DEF Init
<1>4. fed \in [Streams -> Nat] /\ fed.log = 0 /\ fed.events = 0
  BY <1>3 DEF Streams
<1>5. /\ ChainOk(chain, out.log, 0, out.events, 0, placed, DOMAIN agg.behaviors)
      /\ EmittedOk(emitted, out.log, 0, placed, DOMAIN agg.behaviors)
      /\ 0 <= Len(out.log) /\ 0 <= Len(out.events)
  BY <1>2, <1>3, NoneRead
<1>6. ~ (0 > 0)
  OBVIOUS
<1> QED
  BY <1>3, <1>4, <1>5, <1>6, Zenon DEF ReadInv

\* The suite goes on.
LEMMA GoesOnRead ==
  ASSUME WorldInv', ReadInv, suite \in {"rspec", "cargo"}, UNCHANGED siftr
  PROVE  ReadInv'
<1>1. LogOk(out'.log) /\ IsSeq(out'.events)
  BY DEF WorldInv, EventsOk
<1>2. fed = [s \in Streams |-> 0] /\ chain = NewChain /\ emitted = <<>>
  BY DEF ReadInv
<1>3. fed' = [s \in Streams |-> 0] /\ chain' = NewChain /\ emitted' = <<>>
  BY <1>2 DEF siftr
<1>4. fed' \in [Streams -> Nat] /\ fed'.log = 0 /\ fed'.events = 0
  BY <1>3 DEF Streams
<1>5. PICK lines, events, done, D :
        lines = out'.log /\ events = out'.events /\ done = placed' /\ D = DOMAIN agg'.behaviors
  OBVIOUS
<1>6. /\ ChainOk(NewChain, lines, 0, events, 0, done, D) /\ EmittedOk(<<>>, lines, 0, done, D)
      /\ 0 <= Len(lines) /\ 0 <= Len(events)
  BY <1>1, <1>5, NoneRead
<1>7. /\ ChainOk(chain', out'.log, fed'.log, out'.events, fed'.events, placed', DOMAIN agg'.behaviors)
      /\ EmittedOk(emitted', out'.log, fed'.log, placed', DOMAIN agg'.behaviors)
      /\ fed'.log <= Len(out'.log) /\ fed'.events <= Len(out'.events)
  BY <1>3, <1>4, <1>5, <1>6
<1>8. ~ (fed'.log > 0)
  BY <1>4
<1> QED
  BY <1>3, <1>4, <1>7, <1>8, Zenon DEF ReadInv

\* The run's resources are charged.
LEMMA ChargedRead ==
  ASSUME WorldInv, CountsInv, ReadInv, record_resources
  PROVE  ReadInv'
<1>1. PICK events : events = <<ResourcesEvent(1)>>
  OBVIOUS
<1>2. /\ emitted' = emitted \o events /\ agg' = RecordAll(agg, events) /\ suite' = "charged"
      /\ UNCHANGED <<out, placed, fed, chain>>
  BY <1>1 DEF record_resources, Recorded, RecordAll
<1>3. Few(events, RUsage)
  BY <1>1, RealResources DEF Few
<1>4. PICK D, D2 : D = DOMAIN agg.behaviors /\ D2 = DOMAIN agg'.behaviors
  OBVIOUS
<1>5. /\ IsSeq(events) /\ D \subseteq D2
      /\ \A i \in 1..Len(events) : events[i].source = [stream |-> RUsage.stream, seq |-> RUsage.seq]
  BY <1>2, <1>3, <1>4, RecordedDomain
<1>6. \A i \in 1..Len(events) : ~ InLog(events[i])
  <2>1. RUsage.stream # "log"
    BY DEF RUsage, Observation
  <2> QED
    BY <1>5, <2>1 DEF InLog
<1>7. PICK lines, said, n, k, done, c, em :
        /\ lines = out.log /\ said = out.events /\ n = fed.log /\ k = fed.events
        /\ done = placed /\ c = chain /\ em = emitted
  OBVIOUS
<1>8. /\ fed \in [Streams -> Nat] /\ n \in Nat /\ IsSeq(em)
      /\ n <= Len(lines) /\ k <= Len(said) /\ (n > 0 => k = Len(said))
      /\ ChainOk(c, lines, n, said, k, done, D) /\ EmittedOk(em, lines, n, done, D)
  BY <1>4, <1>7 DEF ReadInv, Streams, CountsInv
<1>9. ChainOk(c, lines, n, said, k, done, D2)
  BY <1>5, <1>8, ChainMore
<1>10. EmittedOk(em \o events, lines, n, done, D2)
  <2>1. n <= n /\ (n + 1)..n = {}
    BY <1>8
  <2> QED
    BY <1>5, <1>6, <1>8, <2>1, EmittedGrows
<1>11. /\ ChainOk(chain', out'.log, fed'.log, out'.events, fed'.events, placed', DOMAIN agg'.behaviors)
       /\ EmittedOk(emitted', out'.log, fed'.log, placed', DOMAIN agg'.behaviors)
       /\ fed'.log <= Len(out'.log) /\ fed'.events <= Len(out'.events)
       /\ (fed'.log > 0 => fed'.events = Len(out'.events))
  BY <1>2, <1>4, <1>7, <1>8, <1>9, <1>10
<1> QED
  BY <1>2, <1>8, <1>11 DEF ReadInv

\* Every step keeps what was read.
LEMMA NextRead == WorldInv /\ WorldInv' /\ CountsInv /\ ReadInv /\ [Next]_vars => ReadInv'
<1> SUFFICES ASSUME WorldInv, WorldInv', CountsInv, ReadInv, [Next]_vars PROVE ReadInv'
  OBVIOUS
<1>1. CASE Rspec \/ Cargo \/ EndCargo \/ Kill
  <2>1. suite \in {"rspec", "cargo"} /\ UNCHANGED siftr
    BY <1>1 DEF Rspec, StartSuite, OtherEvent, EndSuite, NoteStart, StartExample, NoteEnd, EndExample,
                LogText, Logs,
                LogQuery, LogStarted, LogProcessing, LogCompleted, Cargo, Test, Prints, TestPrints,
                TestResult, Failed, EndCargo, Kill, MayWrite
  <2> QED
    BY <2>1, GoesOnRead
<1>2. CASE \E s \in Streams : Observe(s)
  BY <1>2, ReadMore
<1>3. CASE record_resources
  BY <1>3, ChargedRead
<1>4. CASE UNCHANGED vars
  BY <1>4 DEF vars, world, siftr, ReadInv
<1> QED
  BY <1>1, <1>2, <1>3, <1>4 DEF Next

-----------------------------------------------------------------------------
(* What siftr says of a run.                                                *)

\* Where an event of the log is from.
LEMMA FromLog ==
  ASSUME ReadInv, NEW i \in DOMAIN emitted, InLog(emitted[i])
  PROVE  /\ LineOf(emitted[i]) = out.log[emitted[i].source.seq]
         /\ emitted[i].source.seq \in 1..fed.log
         /\ FromLine(emitted[i], out.log, emitted[i].source.seq, placed, DOMAIN agg.behaviors)
         /\ \A j \in DOMAIN emitted : emitted[i].source = emitted[j].source => i = j
<1>1. EmittedOk(emitted, out.log, fed.log, placed, DOMAIN agg.behaviors)
  BY DEF ReadInv
<1>2. /\ emitted[i].source.seq \in 1..fed.log
      /\ FromLine(emitted[i], out.log, emitted[i].source.seq, placed, DOMAIN agg.behaviors)
      /\ \A j \in DOMAIN emitted : emitted[i].source = emitted[j].source => i = j
  BY <1>1, Zenon DEF EmittedOk
<1>3. emitted[i].source.stream = "log"
  BY DEF InLog
<1> QED
  BY <1>2, <1>3 DEF LineOf

\* The phases by a scope.
LEMMA PhaseIs ==
  ASSUME NEW a, NEW scope
  PROVE  /\ of_scope(a, scope).is = "example" =>
              /\ scope # NoScope /\ scope.kind = "test.example"
              /\ of_scope(a, scope).id = scope
         /\ of_scope(a, scope).is = "setup" => scope = NoScope
         /\ scope # NoScope /\ scope.kind = "test.example" /\ scope \in DOMAIN a.behaviors =>
              of_scope(a, scope) = InExample(scope)
<1>1. BETWEEN.kind = "test.summary" /\ TEARDOWN.kind = "test.summary" /\ BETWEEN # TEARDOWN
  BY DEF BETWEEN, TEARDOWN, Behavior
<1>2. NoScope # BETWEEN /\ NoScope # TEARDOWN
  BY SuiteAssumption
<1>3. /\ Phase("setup").is = "setup" /\ Phase("between").is = "between"
      /\ Phase("teardown").is = "teardown"
      /\ InExample(scope).is = "example" /\ InExample(scope).id = scope
      /\ InRequest(scope).is = "request"
  BY DEF Phase, InExample, InRequest
<1>4. CASE scope = NoScope
  <2>1. of_scope(a, scope) = Phase("setup")
    BY <1>2, <1>4, Zenon DEF of_scope
  <2> QED
    BY <1>3, <1>4, <2>1
<1>5. CASE scope = BETWEEN
  <2>1. of_scope(a, scope) = Phase("between")
    BY <1>1, <1>2, <1>5, Zenon DEF of_scope
  <2> QED
    BY <1>1, <1>3, <1>5, <2>1
<1>6. CASE scope = TEARDOWN
  <2>1. of_scope(a, scope) = Phase("teardown")
    BY <1>1, <1>2, <1>6, Zenon DEF of_scope
  <2> QED
    BY <1>1, <1>3, <1>6, <2>1
<1>7. CASE scope \notin {NoScope, BETWEEN, TEARDOWN}
  <2>1. of_scope(a, scope) = IF scope \in DOMAIN a.behaviors /\ scope.kind = "test.example"
                             THEN InExample(scope) ELSE InRequest(scope)
    BY <1>7, Zenon DEF of_scope
  <2>2. scope # NoScope
    BY <1>7
  <2> QED
    BY <1>3, <2>1, <2>2
<1> QED
  BY <1>4, <1>5, <1>6, <1>7

\* The line that started a request last is the last of those that started one.
LEMMA LastIsMax ==
  ASSUME NEW lines, NEW n \in Nat, NEW s, LastStart(lines, n, s)
  PROVE  Max({m \in 1..n : lines[m].is = "started"}) = s
<1>1. PICK T : T = {m \in 1..n : lines[m].is = "started"}
  OBVIOUS
<1>2. s \in T /\ \A m \in T : m <= s
  BY <1>1 DEF LastStart
<1>3. T \in SUBSET (1..n) /\ T # {}
  BY <1>1, <1>2
<1>4. PICK t : t = Max(T) /\ t \in T /\ \A y \in T : t >= y
  BY <1>3, MaxIs
<1>5. t \in Nat /\ s \in Nat /\ t <= s /\ t >= s
  BY <1>2, <1>3, <1>4
<1> QED
  BY <1>1, <1>4, <1>5

\* The scopes are right when the events are of their lines.
LEMMA ScopesFollow == ReadInv => RightScope
<1> SUFFICES ASSUME ReadInv, NEW i \in DOMAIN emitted, InLog(emitted[i])
             PROVE  LET line  == Origin(emitted[i])
                        phase == of_scope(agg, emitted[i].scope)
                    IN /\ phase.is = "example" => \E e \in line.during : phase.id = Ident(e)
                       /\ line.by # NoExample /\ line.by.id \in placed => phase = InExample(Ident(line.by))
  BY DEF RightScope
<1>0. PICK line, phase : line = Origin(emitted[i]) /\ phase = of_scope(agg, emitted[i].scope)
  OBVIOUS
<1>1. PICK e, lines, n, D :
        e = emitted[i] /\ lines = out.log /\ n = emitted[i].source.seq /\ D = DOMAIN agg.behaviors
  OBVIOUS
<1>2. FromLine(e, lines, n, placed, D) /\ n \in Nat
  <2>1. FromLine(e, lines, n, placed, D) /\ n \in 1..fed.log
    BY <1>1, FromLog
  <2> QED
    BY <2>1
<1>3. ScopedLine(e, lines, n, placed, D)
  BY <1>2, Zenon DEF FromLine
<1>4. ScopeOk(e.scope, line, placed, D)
  <2>1. CASE e.behavior.kind # "http.request"
    <3>1. line = lines[n]
      BY <1>0, <1>1, <2>1 DEF Origin
    <3> QED
      BY <1>3, <2>1, <3>1 DEF ScopedLine
  <2>2. CASE e.behavior.kind = "http.request"
    <3>1. PICK s : LastStart(lines, n, s) /\ ScopeOk(e.scope, lines[s], placed, D)
      BY <1>3, <2>2 DEF ScopedLine
    <3>2. Max({m \in 1..n : lines[m].is = "started"}) = s
      BY <1>2, <3>1, LastIsMax
    <3>3. line = lines[s]
      BY <1>0, <1>1, <2>2, <3>2 DEF Origin
    <3> QED
      BY <3>1, <3>3
  <2> QED
    BY <2>1, <2>2
<1>5. PICK scope : scope = e.scope
  OBVIOUS
<1>6. /\ scope # NoScope /\ scope.kind = "test.example" => \E x \in line.during : scope = Ident(x)
      /\ line.by # NoExample /\ line.by.id \in placed =>
           scope # NoScope /\ scope = Ident(line.by) /\ scope \in D
  BY <1>4, <1>5, Zenon DEF ScopeOk
<1>7. /\ phase.is = "example" =>
           scope # NoScope /\ scope.kind = "test.example" /\ phase.id = scope
      /\ scope # NoScope /\ scope.kind = "test.example" /\ scope \in D => phase = InExample(scope)
  BY <1>0, <1>1, <1>5, PhaseIs
<1>8. \A x : Ident(x).kind = "test.example"
  BY DEF Ident, Behavior
<1>9. ASSUME line.by # NoExample, line.by.id \in placed
      PROVE  phase = InExample(Ident(line.by))
  <2>1. scope # NoScope /\ scope = Ident(line.by) /\ scope \in D
    BY <1>6, <1>9
  <2>2. scope.kind = "test.example"
    BY <1>8, <2>1
  <2>3. phase = InExample(scope)
    BY <1>7, <2>1, <2>2
  <2> QED
    BY <2>1, <2>3
<1>10. phase.is = "example" => \E x \in line.during : phase.id = Ident(x)
  BY <1>6, <1>7
<1> QED
  BY <1>0, <1>9, <1>10

\* So are the requests, with one worker.
LEMMA RequestsFollow == OneWorker /\ ReadInv => RequestsWhole
<1> SUFFICES ASSUME OneWorker, ReadInv PROVE RequestsWhole
  OBVIOUS
<1>1. ASSUME NEW i \in DOMAIN emitted, InLog(emitted[i]), NEW n, n = emitted[i].source.seq,
             NEW line, line = out.log[n]
      PROVE  RequestLine(emitted[i], out.log, n) /\ LineOf(emitted[i]) = line
  <2>1. FromLine(emitted[i], out.log, n, placed, DOMAIN agg.behaviors) /\ LineOf(emitted[i]) = line
    BY <1>1, FromLog
  <2> QED
    BY <2>1, Zenon DEF FromLine
<1>2. ASSUME NEW n \in 1..fed["log"] PROVE CompletedOnce(n)
  <2>1. PICK line, requests :
          /\ line = out["log"][n]
          /\ requests = {i \in DOMAIN emitted :
                           /\ emitted[i].source = [stream |-> "log", seq |-> n]
                           /\ emitted[i].behavior.kind = "http.request"}
    OBVIOUS
  <2>2. ASSUME NEW i \in requests
        PROVE  /\ i \in DOMAIN emitted /\ line.is = "completed" /\ line.block.action # NoExample
               /\ emitted[i].behavior.template = <<line.block.method, line.block.action, line.class>>
               /\ emitted[i].measures =
                    <<Measure("queries", IF line.queries = NoNumber THEN line.block.queries
                                         ELSE line.queries)>>
               /\ \A j \in requests : i = j
    <3>1. /\ i \in DOMAIN emitted /\ emitted[i].source = [stream |-> "log", seq |-> n]
          /\ emitted[i].behavior.kind = "http.request"
      BY <2>1
    <3>2. InLog(emitted[i]) /\ emitted[i].source.seq = n
      BY <3>1 DEF InLog
    <3>3. RequestLine(emitted[i], out.log, n)
      BY <1>1, <3>1, <3>2
    <3>4. \A j \in DOMAIN emitted : emitted[i].source = emitted[j].source => i = j
      BY <3>1, <3>2, FromLog
    <3>5. \A j \in requests : i = j
      BY <2>1, <3>1, <3>4
    <3> QED
      BY <2>1, <3>1, <3>3, <3>5, Zenon DEF RequestLine
  <2>3. ASSUME line.is = "completed", line.block.action # NoExample
        PROVE  \E i \in requests : requests = {i}
    <3>1. EmittedOk(emitted, out.log, fed.log, placed, DOMAIN agg.behaviors)
      BY DEF ReadInv
    <3>2. Finishes(out.log[n])
      BY <2>1, <2>3 DEF Finishes
    <3>3. PICK i \in DOMAIN emitted : /\ emitted[i].source = [stream |-> "log", seq |-> n]
                                      /\ emitted[i].behavior.kind = "http.request"
      BY <3>1, <3>2, Zenon DEF EmittedOk
    <3>4. i \in requests
      BY <2>1, <3>3
    <3> QED
      BY <2>2, <3>4
  <2>4. IF line.is # "completed" \/ line.block.action = NoExample THEN requests = {}
        ELSE \E i \in requests :
               /\ requests = {i}
               /\ emitted[i].behavior.template = <<line.block.method, line.block.action, line.class>>
               /\ emitted[i].measures =
                    <<Measure("queries", IF line.queries = NoNumber THEN line.block.queries
                                         ELSE line.queries)>>
    BY <2>2, <2>3
  <2> QED
    BY <2>1, <2>4, Zenon DEF CompletedOnce
<1>3. ASSUME NEW i \in DOMAIN emitted, InLog(emitted[i]), Unphased(emitted[i].scope),
             NEW line, line = LineOf(emitted[i])
      PROVE  \/ emitted[i].scope = Endpoint(line.block)
             \/ /\ line.block = NoRequest \/ line.is = "completed"
                /\ emitted[i].scope \in Uncompleted(emitted[i].source.seq)
  <2>1. PICK n : n = emitted[i].source.seq
    OBVIOUS
  <2>2. RequestLine(emitted[i], out.log, n) /\ line = out.log[n]
    BY <1>1, <1>3, <2>1
  <2>3. UncompletedIn(out.log, n) = Uncompleted(n)
    BY Zenon DEF UncompletedIn, Uncompleted
  <2> QED
    BY <1>3, <2>1, <2>2, <2>3 DEF RequestLine
<1> QED
  BY <1>2, <1>3, Zenon DEF RequestsWhole

-----------------------------------------------------------------------------

\* The streams say where lines were written, and what was read agrees.
LEMMA ReadInvariant == Spec => [](WorldInv /\ CountsInv /\ ReadInv)
<1>1. Init => WorldInv /\ CountsInv /\ ReadInv
  BY InitWorld, InitCounts, InitRead
<1>2. WorldInv /\ CountsInv /\ ReadInv /\ [Next]_vars => (WorldInv /\ CountsInv /\ ReadInv)'
  BY NextWorld, NextCounts, NextRead
<1> QED
  BY <1>1, <1>2, PTL DEF Spec

\* However many workers run examples beside one another, however many lines they write
\* between a look at the log and the event that says it, whichever offsets could not be
\* placed and whenever the suite is killed: what the scope of a line reads back as is an
\* example only if that was running when the line was written, and it is the example that
\* wrote the line if that was placed and ran alone.
THEOREM ScopesAreRight == Spec => []RightScope
BY ReadInvariant, ScopesFollow, PTL

\* With one worker, whatever is logged in between and whatever is never completed: a request
\* that is completed makes one event, with its own method, action, status and queries, and a
\* line that no example claims is in its own request's endpoint or, outside of requests and
\* for a request's own event, in that of one that was never completed.
THEOREM RequestsAreWhole == ASSUME OneWorker PROVE Spec => []RequestsWhole
<1>1. OneWorker
  OBVIOUS
<1>2. ReadInv => RequestsWhole
  BY <1>1, RequestsFollow
<1> QED
  BY <1>2, ReadInvariant, PTL
=============================================================================
