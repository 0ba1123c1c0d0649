-------------------------- MODULE RemindersProofs --------------------------
(***************************************************************************)
(* Theorems about Reminders, for any suite, codes, limits and bounds.      *)
(* Stats say enough of the code they are of (Sound), a change that is      *)
(* reported survived what partial runs explain (ArrivalsKept), and so it   *)
(* is one of the code.                                                     *)
(***************************************************************************)
EXTENDS Reminders, FiniteSetTheorems, WellFoundedInduction, TLAPS

-----------------------------------------------------------------------------
(* What is in a run's changes. *)

\* A run is incomplete for a reason, which its INCOMPLETE has for measure.
LEMMA WhyIsMeasure ==
  ASSUME NEW now, NEW was, NEW ids
  PROVE  Incomplete(now, was, ids) \in Measures \cup {"none"}
BY DEF Incomplete, Measures

\* INCOMPLETE names the summary or an error outside examples.
LEMMA EvidenceNamed ==
  ASSUME NEW now, NEW was, NEW ids, NEW why
  PROVE  Evidence(now, was, ids, why) \subseteq Others \cup {Summary}
BY DEF Evidence, OutsideErrors

\* A change is a kind, a behavior and a measure and nothing else.
LEMMA ChangesNamed ==
  ASSUME NEW now, NEW was, NEW ids
  PROVE  Changes(now, was, ids) \subseteq Name
<1> DEFINE why == Incomplete(now, was, ids)
<1>1. Arrived(now, was, ids) \subseteq Name
  <2>1. Arrived(now, was, ids) \subseteq
          [kind : {"new", "disappeared"}, behavior : Examples \cup Others, measure : {"count"}]
    BY Zenon DEF Arrived
  <2> QED
    BY <2>1 DEF Name, Measures
<1>2. Moved(now, was, ids) \subseteq Name
  <2>1. Moved(now, was, ids) \subseteq
          [kind : {"frequency"}, behavior : Examples \cup Others, measure : {"count", "queries"}]
    BY Zenon DEF Moved
  <2> QED
    BY <2>1 DEF Name, Measures
<1>3. Broke(now, was, ids) \subseteq Name
  BY DEF Broke, Name, Measures
<1>4. why # "none" => IncompleteSignals(now, was, ids, why) \subseteq Name
  <2>1. ASSUME NEW b \in Others \cup {Summary}, why # "none"
        PROVE  IncompleteSignal(b, why) \in Name
    <3>1. why \in Measures
      BY <2>1, WhyIsMeasure
    <3> QED
      BY <3>1 DEF IncompleteSignal, Name
  <2> QED
    BY <2>1, EvidenceNamed DEF IncompleteSignals
<1>5. Truncated(now, ids) \subseteq Name
  BY DEF Truncated, IncompleteSignal, Name, Measures
<1> HIDE DEF why
<1>6. Changes(now, was, ids) \subseteq
        Arrived(now, was, ids) \cup Moved(now, was, ids) \cup Broke(now, was, ids)
          \cup Truncated(now, ids)
          \cup (IF why = "none" THEN {} ELSE IncompleteSignals(now, was, ids, why))
  BY DEF Changes, why
<1> QED
  BY <1>1, <1>2, <1>3, <1>4, <1>5, <1>6

\* A NEW or DISAPPEARED that is reported was found by its rule, and nothing
\* that partial runs explain took it back.
LEMMA ArrivalsKept ==
  ASSUME NEW now, NEW was, NEW ids,
         NEW s \in Changes(now, was, ids), s.kind \in {"new", "disappeared"}
  PROVE  /\ ids # {}
         /\ s \in Arrived(now, was, ids)
         /\ Incomplete(now, was, ids) # "none" => ~ PartialRunExplains(now, was, ids, s)
         /\ Partial(was, ids) => ~ PartialBaselineExplains(now, was, ids, s)
<1> DEFINE why == Incomplete(now, was, ids)
           found == Arrived(now, was, ids) \cup Moved(now, was, ids) \cup Broke(now, was, ids)
<1>1. s \notin Moved(now, was, ids) /\ s \notin Broke(now, was, ids)
  <2>1. \A m \in Moved(now, was, ids) : m.kind = "frequency"
    BY DEF Moved
  <2>2. \A m \in Broke(now, was, ids) : m.kind = "error"
    BY DEF Broke
  <2> QED
    BY <2>1, <2>2
<1>2. s \notin IncompleteSignals(now, was, ids, why) /\ s \notin Truncated(now, ids)
  BY DEF IncompleteSignals, IncompleteSignal, Truncated
<1>3. s \in found
  BY <1>2 DEF Changes
<1>4. why # "none" => ~ PartialRunExplains(now, was, ids, s)
  BY <1>2 DEF Changes
<1> QED
  BY <1>1, <1>3, <1>4 DEF Changes

\* A run's signals are its changes, each with its group and the kind of its headline.
LEMMA SignalsAreChanges ==
  ASSUME NEW now, NEW was, NEW ids, NEW x \in Detect(now, was, ids)
  PROVE  NameOf(x) \in Changes(now, was, ids)
<1> DEFINE all == Changes(now, was, ids)
<1>1. PICK s \in all :
         x = [kind |-> s.kind, behavior |-> s.behavior, measure |-> s.measure,
              group |-> Group(now, was, ids, all, s), head |-> HeadKind(now, was, ids, all, s)]
  BY DEF Detect
<1>2. s = [kind |-> s.kind, behavior |-> s.behavior, measure |-> s.measure]
  BY ChangesNamed DEF Name
<1>3. NameOf(x) = s
  BY <1>1, <1>2, Zenon DEF NameOf
<1> QED
  BY <1>3

\* No two signals of a run have one name.
LEMMA NamesDiffer ==
  ASSUME NEW now, NEW was, NEW ids,
         NEW x \in Detect(now, was, ids), NEW y \in Detect(now, was, ids),
         NameOf(x) = NameOf(y)
  PROVE  x = y
<1> DEFINE all == Changes(now, was, ids)
           signal(s) == [kind |-> s.kind, behavior |-> s.behavior, measure |-> s.measure,
                         group |-> Group(now, was, ids, all, s),
                         head |-> HeadKind(now, was, ids, all, s)]
<1>1. PICK s \in all : x = signal(s)
  BY DEF Detect
<1>2. PICK t \in all : y = signal(t)
  BY DEF Detect
<1>3. s = [kind |-> s.kind, behavior |-> s.behavior, measure |-> s.measure]
      /\ t = [kind |-> t.kind, behavior |-> t.behavior, measure |-> t.measure]
  BY ChangesNamed DEF Name
<1>4. s = NameOf(x) /\ t = NameOf(y)
  BY <1>1, <1>2, <1>3, Zenon DEF NameOf
<1> QED
  BY <1>1, <1>2, <1>4, Zenon

-----------------------------------------------------------------------------
(* The baseline, and what it takes for a run to be whole. *)

\* A baseline is made of candidates, and one of a summarized run of summarized runs.
LEMMA BaselineFrom ==
  ASSUME NEW now, NEW was, NEW ids
  PROVE  /\ BaselineIds(now, was, ids) \subseteq ids
         /\ Summarized(now) => \A i \in BaselineIds(now, was, ids) : Summarized(was[i])
BY DEF BaselineIds, Recent, Comparable

\* Of what was loaded and selected everything ran, if no smaller count says otherwise.
LEMMA CountsTell ==
  ASSUME NEW S, IsFiniteSet(S), NEW T \in SUBSET S, ~ (Cardinality(T) < Cardinality(S))
  PROVE  T = S
BY FS_Subset, FS_CardinalityType

\* What stats say of the code they are of: a summarized run that shows no sign of
\* having skipped any ran all examples written, and a query it heard of
\* was counted as often as each example that ran made it.
Sound(code, stats) ==
  /\ stats.ran \subseteq code.written
  /\ Summarized(stats) /\ ~ SkippedExisting(stats) => stats.ran = code.written
  /\ \A b \in Others : ClassOf[b] = "sql" =>
       /\ b \notin stats.unread => \A e \in stats.ran : stats.within[b][e] = code.makes[b][e]
       /\ b \in stats.unread => ~ Present(stats, b)

\* A cut leaves a part of the whole.
LEMMA PartOf ==
  ASSUME NEW cut, NEW whole, NEW part \in Part(cut, whole)
  PROVE  part \subseteq whole
BY DEF Part

\* However a run was cut short, its stats are sound.
LEMMA StatsAreSound ==
  ASSUME NEW code \in Codes,
         NEW loads \in Part("load", code.written), NEW picks \in Part("filter", loads),
         NEW ran \in Part("stop", picks),
         NEW outside \in IF loads = code.written THEN Cuttable("raise", 0, 1) ELSE {1},
         NEW summarized \in Cuttable("kill", TRUE, FALSE), NEW past, NEW unread
  PROVE  Sound(code, StatsOf(code, loads, picks, ran, outside, summarized, past, unread))
<1> DEFINE stats == StatsOf(code, loads, picks, ran, outside, summarized, past, unread)
<1>1. code.written \subseteq Examples
  BY RemindersAssumption DEF Code
<1>2. ran \subseteq picks /\ picks \subseteq loads /\ loads \subseteq code.written
  BY PartOf
<1>3. IsFiniteSet(loads) /\ IsFiniteSet(picks) /\ IsFiniteSet(ran)
  BY <1>1, <1>2, SignalsAssumption, FS_Subset
<1>4. outside \in {0, 1} /\ (outside = 0 => loads = code.written)
  BY DEF Cuttable
<1>5. stats.ran = ran
  BY DEF StatsOf
<1>6. ASSUME Summarized(stats), ~ SkippedExisting(stats)
      PROVE  ran = code.written
  <2>1. stats.tests = [summary |-> TRUE, loaded |-> Cardinality(picks),
                       defined |-> Cardinality(loads), outside |-> outside]
    BY <1>6 DEF StatsOf, Summarized, NoSummary
  <2>2. /\ stats.tests.loaded = Cardinality(picks) /\ stats.tests.defined = Cardinality(loads)
        /\ stats.tests.outside = outside
    BY <2>1
  <2>3. outside = 0
    BY <1>4, <1>6, <2>2 DEF SkippedExisting
  <2>4. picks = loads
    <3>1. Cardinality(picks) \in Nat /\ Cardinality(loads) \in Nat
      BY <1>3, FS_CardinalityType
    <3>2. ~ (Cardinality(picks) < Cardinality(loads))
      BY <1>6, <2>2, <3>1 DEF SkippedExisting, Filtered, Unknown
    <3> QED
      BY <1>2, <1>3, <3>2, CountsTell
  <2>5. ran = picks
    <3>1. ~ (Cardinality(ran) < Cardinality(picks))
      BY <1>5, <1>6, <2>2 DEF SkippedExisting, Stopped
    <3> QED
      BY <1>2, <1>3, <3>1, CountsTell
  <2> QED
    BY <1>4, <2>3, <2>4, <2>5
<1>7. ASSUME NEW b \in Others, ClassOf[b] = "sql"
      PROVE  /\ b \notin stats.unread =>
                  \A e \in stats.ran : stats.within[b][e] = code.makes[b][e]
             /\ b \in stats.unread => ~ Present(stats, b)
  <2>1. \A s \in Scopes : stats.within[b][s] =
          IF b \in unread \/ s \in Examples \ ran THEN 0
          ELSE IF b \in OutsideErrors THEN (IF s = Setup THEN outside ELSE 0)
          ELSE code.makes[b][s]
    BY DEF StatsOf
  <2>2. b \notin Examples /\ b \notin OutsideErrors /\ stats.unread = unread
    BY <1>7, SignalsAssumption DEF OutsideErrors, StatsOf
  <2>3. b \in unread => ~ Present(stats, b)
    BY <2>1, <2>2 DEF Present
  <2>4. \A e \in ran : e \in Scopes
    BY <1>1, <1>2 DEF Scopes
  <2> QED
    BY <1>5, <2>1, <2>2, <2>3, <2>4
<1> QED
  BY <1>2, <1>5, <1>6, <1>7 DEF Sound

\* Stats of a run count no error outside examples, or one.
LEMMA OutsideCounted ==
  ASSUME NEW code, NEW loads, NEW picks, NEW ran,
         NEW outside \in IF loads = code.written THEN Cuttable("raise", 0, 1) ELSE {1},
         NEW summarized \in Cuttable("kill", TRUE, FALSE), NEW past, NEW unread
  PROVE  StatsOf(code, loads, picks, ran, outside, summarized, past, unread).tests.outside
           \in {0, 1}
<1> DEFINE stats == StatsOf(code, loads, picks, ran, outside, summarized, past, unread)
<1>1. outside \in {0, 1}
  BY DEF Cuttable
<1>2. stats.tests.outside \in {outside, 0}
  <2>1. CASE summarized
    <3>1. stats.tests = [summary |-> TRUE, loaded |-> Cardinality(picks),
                         defined |-> Cardinality(loads), outside |-> outside]
      BY <2>1 DEF StatsOf
    <3> QED
      BY <3>1
  <2>2. CASE ~ summarized
    <3>1. stats.tests = NoSummary
      BY <2>2 DEF StatsOf
    <3> QED
      BY <3>1 DEF NoSummary
  <2> QED
    BY <2>1, <2>2
<1> QED
  BY <1>1, <1>2

-----------------------------------------------------------------------------
(* What a run says arrived or left, of sound stats of codes. *)

\* A run that loaded everything, is not incomplete and lacks an example some
\* baseline run ran, ran all that is written.
LEMMA LacksNothing ==
  ASSUME NEW code, NEW now, NEW was, NEW ids, Sound(code, now), Loaded(now),
         Incomplete(now, was, ids) = "none",
         NEW i \in ids, NEW e \in was[i].ran, e \notin now.ran
  PROVE  now.ran = code.written
<1>1. ~ Stopped(now) /\ ~ Filtered(now)
  BY DEF Incomplete, Loaded
<1>2. ~ SkippedExisting(now)
  BY <1>1 DEF SkippedExisting, Loaded
<1> QED
  BY <1>2 DEF Sound, Loaded

\* A run that loaded everything calls only gone what is.
LEMMA OnlyTheGone ==
  ASSUME NEW code \in Codes, NEW now, NEW was, NEW ids, NEW codes,
         Sound(code, now), Loaded(now), \A i \in ids : Sound(codes[i], was[i]),
         \A i \in ids : codes[i] \in Codes,
         NEW x \in Changes(now, was, ids), x.kind = "disappeared"
  PROVE  IF x.behavior \in Examples THEN x.behavior \notin code.written
         ELSE ClassOf[x.behavior] = "sql" =>
                \A i \in ids : \A e \in MadeBy(codes[i], x.behavior) :
                  e \in was[i].ran => e \notin MadeBy(code, x.behavior)
<1> DEFINE b == x.behavior
<1>1. /\ ids # {} /\ x \in Arrived(now, was, ids)
      /\ Incomplete(now, was, ids) # "none" => ~ PartialRunExplains(now, was, ids, x)
  BY ArrivalsKept
<1>2. /\ b \in Examples \cup Others
      /\ ~ Present(now, b) /\ (\A i \in ids : Present(was[i], b))
      /\ ~ ConfigurationExplains(now, was, ids, b, "disappeared")
  BY <1>1 DEF Arrived, IsGone
<1>3. Incomplete(now, was, ids) # "none" => WithinExamples(now, was, ids, b, now.ran)
  BY <1>1 DEF PartialRunExplains
<1>4. CASE b \in Examples
  <2>1. b \notin now.ran /\ \A i \in ids : b \in was[i].ran
    BY <1>2, <1>4 DEF Present
  <2>2. Incomplete(now, was, ids) = "none"
    BY <1>3, <1>4, <2>1 DEF WithinExamples
  <2>3. now.ran = code.written
    BY <1>1, <2>1, <2>2, LacksNothing
  <2> QED
    BY <1>4, <2>1, <2>3
<1>5. ASSUME b \notin Examples, ClassOf[b] = "sql", NEW i \in ids,
             NEW e \in MadeBy(codes[i], b), e \in was[i].ran, e \in MadeBy(code, b)
      PROVE  FALSE
  <2>1. b \in Others
    BY <1>2, <1>5
  <2>2. /\ codes[i].written \subseteq Examples /\ e \in Examples /\ e \in Scopes
        /\ codes[i].makes[b][e] > 0 /\ code.makes[b][e] > 0 /\ e \in code.written
    BY <1>5, RemindersAssumption DEF MadeBy, Code, Scopes
  <2>3. was[i].within[b][e] > 0
    BY <1>2, <1>5, <2>1, <2>2 DEF Sound
  <2>4. e \in now.ran
    <3>1. CASE Incomplete(now, was, ids) = "none"
      <4>1. ASSUME e \notin now.ran PROVE now.ran = code.written
        BY <1>5, <3>1, <4>1, LacksNothing
      <4> QED
        BY <2>2, <4>1
    <3>2. CASE Incomplete(now, was, ids) # "none"
      BY <1>3, <1>5, <2>2, <2>3, <3>2 DEF WithinExamples
    <3> QED
      BY <3>1, <3>2
  <2>5. now.within[b][e] = code.makes[b][e]
    BY <1>2, <1>5, <2>1, <2>4 DEF ConfigurationExplains, Sound
  <2>6. ~ (now.within[b][e] > 0)
    BY <1>2, <1>5, <2>2 DEF Present
  <2> QED
    BY <2>2, <2>5, <2>6
<1> QED
  BY <1>2, <1>4, <1>5

\* An example that every baseline run's code had is not called new.
LEMMA OnlyTheNew ==
  ASSUME NEW now, NEW was, NEW ids, NEW codes, Summarized(now),
         \A i \in ids : Sound(codes[i], was[i]) /\ Summarized(was[i]),
         NEW x \in Changes(now, was, ids), x.kind = "new", x.behavior \in Examples
  PROVE  \E i \in ids : x.behavior \notin codes[i].written
<1> DEFINE b == x.behavior
<1>1. /\ ids # {} /\ x \in Arrived(now, was, ids)
      /\ Partial(was, ids) => ~ PartialBaselineExplains(now, was, ids, x)
  BY ArrivalsKept
<1>2. \A i \in ids : b \notin was[i].ran
  BY <1>1 DEF Arrived, IsNew, Present
<1>3. ~ Partial(was, ids)
  <2>1. b \in UnrunBefore(was, ids)
    BY <1>2 DEF UnrunBefore
  <2>2. PartialBaselineExplains(now, was, ids, x)
    BY <2>1 DEF PartialBaselineExplains, WithinExamples
  <2> QED
    BY <1>1, <2>2
<1>4. PICK i \in ids : ~ SkippedExisting(was[i])
  BY <1>1, <1>3 DEF Partial
<1>5. was[i].ran = codes[i].written
  BY <1>4 DEF Sound
<1> QED
  BY <1>2, <1>5

-----------------------------------------------------------------------------
(* The invariant. *)

\* Every run's stats are sound for its code, and no two of its signals have one name.
RowsSound ==
  \A r \in Ids :
    /\ runs[r].code \in Codes
    /\ Sound(runs[r].code, runs[r].stats)
    /\ \A x, y \in runs[r].signals : NameOf(x) = NameOf(y) => x = y

IsSequence == \E S : runs \in Seq(S)

RunsInv == IsSequence /\ RowsSound /\ TypeOK

\* What Record appends: a run of some code with sound stats, interrupted or compared.
Recordable(row) ==
  /\ row.code \in Codes /\ Sound(row.code, row.stats) /\ row.stats.ran \subseteq Examples
  /\ row.stats.tests.outside \in {0, 1}
  /\ row \in {Recorded(row.code, row.stats), Interrupted(row.code, row.stats)}

LEMMA RecordAppends ==
  ASSUME Record
  PROVE  \E row : Recordable(row) /\ runs' = Append(runs, row) /\ UNCHANGED <<acks, pruned>>
<1>1. SUFFICES ASSUME NEW code \in Codes,
                      NEW loads \in Part("load", code.written),
                      NEW picks \in Part("filter", loads), NEW ran \in Part("stop", picks),
                      NEW outside \in IF loads = code.written THEN Cuttable("raise", 0, 1)
                                      ELSE {1},
                      NEW summarized \in Cuttable("kill", TRUE, FALSE),
                      NEW past \in Cuttable("cap", 0, 1), NEW heard \in Part("switch", Others),
                      End(code, StatsOf(code, loads, picks, ran, outside, summarized, past,
                                        Others \ heard))
               PROVE  \E row : Recordable(row) /\ runs' = Append(runs, row)
                                /\ UNCHANGED <<acks, pruned>>
  BY ZenonT(60) DEF Record
<1> DEFINE stats == StatsOf(code, loads, picks, ran, outside, summarized, past, Others \ heard)
<1>2. Sound(code, stats)
  BY StatsAreSound
<1>3. stats.ran \subseteq Examples /\ stats.tests.outside \in {0, 1}
  BY <1>2, RemindersAssumption, OutsideCounted DEF Sound, Code
<1> HIDE DEF stats
<1>4. /\ Recorded(code, stats).code = code /\ Recorded(code, stats).stats = stats
      /\ Interrupted(code, stats).code = code /\ Interrupted(code, stats).stats = stats
  BY DEF Recorded, Interrupted
<1>5. Recordable(Recorded(code, stats)) /\ Recordable(Interrupted(code, stats))
  BY <1>2, <1>3, <1>4 DEF Recordable
<1>6. End(code, stats)
  BY <1>1 DEF stats
<1> QED
  BY <1>5, <1>6 DEF End

\* What a row that is recorded says of its baseline and of its signals.
LEMMA RowRecorded ==
  ASSUME NEW row, Recordable(row)
  PROVE  /\ row.status \in {"finished", "interrupted", "uncompared"}
         /\ row.baseline \subseteq Candidates
         /\ row.baseline \in {{}, BaselineIds(row.stats, of, Candidates)}
         /\ Summarized(row.stats) => \A i \in row.baseline : Summarized(of[i])
         /\ row.signals # {} =>
              /\ row.status = "finished" /\ row.baseline # {}
              /\ row.signals = Detect(row.stats, of, row.baseline)
<1>1. CASE row = Interrupted(row.code, row.stats)
  <2>1. ASSUME NEW code, NEW stats
        PROVE  LET i == Interrupted(code, stats)
               IN  i.status = "interrupted" /\ i.baseline = {} /\ i.signals = {}
    BY DEF Interrupted
  <2> QED
    BY <1>1, <2>1
<1>2. CASE row = Recorded(row.code, row.stats)
  <2> DEFINE ids == BaselineIds(row.stats, of, Candidates)
             signals == Detect(row.stats, of, ids)
  <2>1. /\ row.baseline = ids
        /\ \/ row.status = "uncompared" /\ row.signals = {}
           \/ row.status = "finished" /\ row.signals = signals
    <3> DEFINE now == [code |-> row.code, stats |-> row.stats, status |-> "finished",
                       baseline |-> ids, signals |-> {}]
    <3>1. Recorded(row.code, row.stats) =
            IF Cardinality(signals) > MAX_SIGNALS
            THEN [now EXCEPT !.status = "uncompared"]
            ELSE [now EXCEPT !.signals = signals]
      BY DEF Recorded
    <3> HIDE DEF ids, signals
    <3> QED
      BY <1>2, <3>1
  <2>2. signals # {} => ids # {}
    <3>1. ids = {} => Changes(row.stats, of, ids) = {}
      BY DEF Changes
    <3> QED
      BY <3>1 DEF Detect
  <2> QED
    BY <2>1, <2>2, BaselineFrom
<1> QED
  BY <1>1, <1>2 DEF Recordable

\* Appending leaves the rows there are.
LEMMA Appended ==
  ASSUME IsSequence, NEW row, runs' = Append(runs, row)
  PROVE  /\ Len(runs) \in Nat /\ Len(runs') = Len(runs) + 1 /\ IsSequence'
         /\ Len(runs') \in Nat
         /\ \A r \in Ids : runs'[r] = runs[r]
         /\ runs'[Len(runs')] = row
         /\ \A r \in Ids' : r \in Ids \/ r = Len(runs')
<1>1. PICK S : runs \in Seq(S)
  BY DEF IsSequence
<1>2. Append(runs, row) \in Seq(S \cup {row})
  BY <1>1
<1> QED
  BY <1>1, <1>2 DEF IsSequence, Ids

LEMMA RecordKeeps ==
  ASSUME RunsInv, Record
  PROVE  RunsInv'
<1>1. PICK row : Recordable(row) /\ runs' = Append(runs, row) /\ UNCHANGED <<acks, pruned>>
  BY RecordAppends
<1> DEFINE n == Len(runs')
<1>2. /\ Len(runs) \in Nat /\ n = Len(runs) + 1 /\ IsSequence'
      /\ (\A r \in Ids : runs'[r] = runs[r]) /\ runs'[n] = row
      /\ \A r \in Ids' : r \in Ids \/ r = n
  BY <1>1, Appended DEF RunsInv
<1> HIDE DEF n
<1>3. \A i \in Candidates : i \in 1..(n - 1) /\ runs'[i].status # "interrupted"
  BY <1>2 DEF Candidates, Ids
<1>4. \A x \in row.signals : NameOf(x) \in Name
  BY <1>1, RowRecorded, SignalsAreChanges, ChangesNamed
<1>5. \A x, y \in row.signals : NameOf(x) = NameOf(y) => x = y
  BY <1>1, RowRecorded, NamesDiffer
<1>6. RowsSound'
  <2>1. ASSUME NEW r \in Ids
        PROVE  /\ runs'[r].code \in Codes /\ Sound(runs'[r].code, runs'[r].stats)
               /\ \A x, y \in runs'[r].signals : NameOf(x) = NameOf(y) => x = y
    BY <1>2 DEF RunsInv, RowsSound
  <2>2. /\ row.code \in Codes /\ Sound(row.code, row.stats)
    BY <1>1 DEF Recordable
  <2> QED
    BY <1>2, <1>5, <2>1, <2>2 DEF RowsSound
<1>7. TypeOK'
  <2>1. ASSUME NEW r \in Ids'
        PROVE  /\ runs'[r].code \in Codes
               /\ runs'[r].status \in {"finished", "interrupted", "uncompared"}
               /\ runs'[r].baseline \subseteq {i \in 1..(r - 1) : runs'[i].status # "interrupted"}
               /\ runs'[r].signals # {} =>
                    runs'[r].status = "finished" /\ runs'[r].baseline # {}
               /\ runs'[r].stats.ran \subseteq Examples
               /\ \A s \in runs'[r].signals : NameOf(s) \in Name
    <3>1. CASE r \in Ids
      <4>1. /\ runs'[r] = runs[r] /\ \A i \in 1..(r - 1) : runs'[i] = runs[i]
        BY <1>2, <3>1 DEF Ids
      <4> QED
        BY <3>1, <4>1 DEF RunsInv, TypeOK
    <3>2. CASE r = n
      BY <1>1, <1>2, <1>3, <1>4, <3>2, RowRecorded DEF Recordable
    <3> QED
      BY <1>2, <2>1, <3>1, <3>2
  <2>2. ASSUME NEW a \in acks
        PROVE  a.run \in Ids' /\ a.name \in Names(a.run)' /\ a.at \in a.run..n
    <3>1. a.run \in Ids /\ a.name \in Names(a.run) /\ a.at \in a.run..Len(runs)
      BY DEF RunsInv, TypeOK
    <3>2. Names(a.run)' = Names(a.run) /\ a.run \in Ids'
      BY <1>2, <3>1 DEF Names, Ids, n
    <3> QED
      BY <1>2, <3>1, <3>2 DEF Ids
  <2>3. pruned' \in 0..n
    BY <1>1, <1>2 DEF RunsInv, TypeOK
  <2> QED
    BY <1>1, <2>1, <2>2, <2>3 DEF TypeOK, n
<1> QED
  BY <1>2, <1>6, <1>7 DEF RunsInv

\* A prune and an answer leave the runs alone.
LEMMA OthersKeep ==
  ASSUME RunsInv, Prune \/ Ack \/ UNCHANGED vars
  PROVE  RunsInv' /\ runs' = runs
<1>1. runs' = runs
  BY DEF Prune, Ack, vars
<1>2. IsSequence' /\ RowsSound' /\ Ids' = Ids /\ Len(runs) \in Nat
  BY <1>1 DEF RunsInv, IsSequence, RowsSound, Ids
<1>3. pruned' \in 0..Len(runs)
  <2>1. CASE Prune
    <3>1. PICK upto \in (pruned + 1)..(Len(runs) - KEEP_RUNS) : pruned' = upto
      BY <2>1 DEF Prune
    <3> QED
      BY <1>2, <3>1, RemindersAssumption DEF RunsInv, TypeOK
  <2>2. CASE Ack \/ UNCHANGED vars
    BY <2>2 DEF Ack, vars, RunsInv, TypeOK
  <2> QED
    BY <2>1, <2>2
<1>4. ASSUME NEW a \in acks'
      PROVE  a.run \in Ids /\ a.name \in Names(a.run) /\ a.at \in a.run..Len(runs)
  <2>1. CASE a \in acks
    BY <2>1 DEF RunsInv, TypeOK
  <2>2. CASE a \notin acks
    <3>1. Ack
      BY <1>4, <2>2 DEF Prune, vars
    <3>2. PICK r \in Ids : \E name \in Names(r) :
            acks' = acks \cup {[run |-> r, name |-> name, at |-> Len(runs)]}
      BY <3>1 DEF Ack, on_signal
    <3>3. PICK name \in Names(r) : a = [run |-> r, name |-> name, at |-> Len(runs)]
      BY <2>2, <3>2
    <3> QED
      BY <1>2, <3>3 DEF Ids
  <2> QED
    BY <2>1, <2>2
<1>5. TypeOK'
  <2>1. ASSUME NEW a \in acks' PROVE a.name \in Names(a.run)'
    BY <1>1, <1>4 DEF Names
  <2> QED
    BY <1>1, <1>2, <1>3, <1>4, <2>1 DEF RunsInv, TypeOK
<1> QED
  BY <1>1, <1>2, <1>5 DEF RunsInv

LEMMA RunsInvariant == Spec => []RunsInv
<1>1. Init => RunsInv
  <2> SUFFICES ASSUME Init PROVE RunsInv
    OBVIOUS
  <2>1. runs = <<>> /\ acks = {} /\ pruned = 0
    BY DEF Init
  <2>2. runs \in Seq({}) /\ Len(runs) = 0 /\ Ids = {}
    BY <2>1 DEF Ids
  <2> QED
    BY <2>1, <2>2 DEF RunsInv, IsSequence, RowsSound, TypeOK
<1>2. RunsInv /\ [Next]_vars => RunsInv'
  BY RecordKeeps, OthersKeep DEF Next
<1> QED
  BY <1>1, <1>2, PTL DEF Spec

\* Every run and every answer has its type: a run's baseline are earlier runs that
\* were not interrupted, and only a run that was compared with some has signals.
THEOREM TypeCorrect == Spec => []TypeOK
<1>1. RunsInv => TypeOK
  BY DEF RunsInv
<1> QED
  BY <1>1, RunsInvariant, PTL

-----------------------------------------------------------------------------
(* What the latest run claims was right when it was recorded, and no step    *)
(* but recording changes which run is latest.                                *)

LEMMA RecordGone ==
  ASSUME RunsInv, Record
  PROVE  GoneForGood'
<1>1. PICK row : Recordable(row) /\ runs' = Append(runs, row)
  BY RecordAppends
<1>2. /\ Len(runs') \in Nat /\ (\A r \in Ids : runs'[r] = runs[r]) /\ runs'[Len(runs')] = row
  BY <1>1, Appended, Zenon DEF RunsInv
<1>3. SUFFICES ASSUME Loaded(row.stats), NEW x \in row.signals, x.kind = "disappeared"
               PROVE  IF x.behavior \in Examples THEN x.behavior \notin row.code.written
                      ELSE ClassOf[x.behavior] = "sql" =>
                             \A i \in row.baseline : \A e \in MadeBy(runs'[i].code, x.behavior) :
                               e \in runs'[i].stats.ran => e \notin MadeBy(row.code, x.behavior)
  BY <1>2 DEF GoneForGood, SaysGone, Gone, Last
<1> DEFINE codes == [i \in Ids |-> runs[i].code]
<1>4. /\ row.baseline \subseteq Ids /\ NameOf(x) \in Changes(row.stats, of, row.baseline)
  BY <1>1, <1>3, RowRecorded, SignalsAreChanges DEF Candidates
<1>5. \A i \in row.baseline : /\ codes[i] = runs[i].code /\ of[i] = runs[i].stats
                             /\ codes[i] \in Codes /\ Sound(codes[i], of[i])
  BY <1>4 DEF of, RunsInv, RowsSound
<1>6. row.code \in Codes /\ Sound(row.code, row.stats)
  BY <1>1 DEF Recordable
<1>7. NameOf(x).kind = "disappeared" /\ NameOf(x).behavior = x.behavior
  BY <1>3 DEF NameOf
<1> HIDE DEF codes
<1>8. IF x.behavior \in Examples THEN x.behavior \notin row.code.written
      ELSE ClassOf[x.behavior] = "sql" =>
             \A i \in row.baseline : \A e \in MadeBy(codes[i], x.behavior) :
               e \in of[i].ran => e \notin MadeBy(row.code, x.behavior)
  BY <1>3, <1>4, <1>5, <1>6, <1>7, OnlyTheGone
<1>9. \A i \in row.baseline : runs'[i].code = codes[i] /\ runs'[i].stats = of[i]
  BY <1>2, <1>4, <1>5
<1> QED
  BY <1>8, <1>9

LEMMA RecordNew ==
  ASSUME RunsInv, Record
  PROVE  NewSinceBaseline'
<1>1. PICK row : Recordable(row) /\ runs' = Append(runs, row)
  BY RecordAppends
<1>2. /\ Len(runs') \in Nat /\ (\A r \in Ids : runs'[r] = runs[r]) /\ runs'[Len(runs')] = row
  BY <1>1, Appended, Zenon DEF RunsInv
<1>3. SUFFICES ASSUME NEW x \in row.signals, x.kind = "new", x.behavior \in Examples,
                      Summarized(row.stats)
               PROVE  \E i \in row.baseline : x.behavior \notin runs'[i].code.written
  BY <1>2 DEF NewSinceBaseline, Last
<1> DEFINE codes == [i \in Ids |-> runs[i].code]
<1>4. /\ row.baseline \subseteq Ids /\ NameOf(x) \in Changes(row.stats, of, row.baseline)
      /\ \A i \in row.baseline : Summarized(of[i])
  BY <1>1, <1>3, RowRecorded, SignalsAreChanges DEF Candidates
<1>5. \A i \in row.baseline : codes[i] = runs[i].code /\ Sound(codes[i], of[i])
  BY <1>4 DEF of, RunsInv, RowsSound
<1>6. NameOf(x).kind = "new" /\ NameOf(x).behavior = x.behavior
  BY <1>3 DEF NameOf
<1> HIDE DEF codes
<1>7. PICK i \in row.baseline : x.behavior \notin codes[i].written
  BY <1>3, <1>4, <1>5, <1>6, OnlyTheNew
<1> QED
  BY <1>2, <1>4, <1>5, <1>7

\* What a run that loaded every spec file says disappeared is not written any more:
\* what it only did not select or reach is never called gone.
THEOREM GoneIsGone == Spec => []GoneForGood
<1>1. Init => GoneForGood
  BY DEF Init, GoneForGood
<1>2. RunsInv /\ GoneForGood /\ [Next]_vars => GoneForGood'
  <2> SUFFICES ASSUME RunsInv, GoneForGood, [Next]_vars PROVE GoneForGood'
    OBVIOUS
  <2>1. CASE Record
    BY <2>1, RecordGone
  <2>2. CASE Prune \/ Ack \/ UNCHANGED vars
    BY <2>2, OthersKeep DEF GoneForGood, SaysGone, Gone, Last
  <2> QED
    BY <2>1, <2>2 DEF Next
<1> QED
  BY <1>1, <1>2, RunsInvariant, PTL DEF Spec

\* An example a summarized run calls new was not written in some run it was compared with:
\* one they all skipped is not taken for new.
THEOREM NewIsNew == Spec => []NewSinceBaseline
<1>1. Init => NewSinceBaseline
  BY DEF Init, NewSinceBaseline
<1>2. RunsInv /\ NewSinceBaseline /\ [Next]_vars => NewSinceBaseline'
  <2> SUFFICES ASSUME RunsInv, NewSinceBaseline, [Next]_vars PROVE NewSinceBaseline'
    OBVIOUS
  <2>1. CASE Record
    BY <2>1, RecordNew
  <2>2. CASE Prune \/ Ack \/ UNCHANGED vars
    BY <2>2, OthersKeep DEF NewSinceBaseline, Last
  <2> QED
    BY <2>1, <2>2 DEF Next
<1> QED
  BY <1>1, <1>2, RunsInvariant, PTL DEF Spec

-----------------------------------------------------------------------------
\* An answer to any signal of a change ends the reminders of that report of it.
THEOREM AnswersAreKept == Spec => []AnswersHold
<1>1. RunsInv => AnswersHold
  <2> SUFFICES ASSUME RunsInv, NEW a \in acks, NEW m \in StillOpen(Last), a.run = m.run,
                      NEW x \in runs[a.run].signals, NEW z \in runs[a.run].signals,
                      NameOf(x) = a.name, NameOf(z) = m.name, x.group = z.group
               PROVE  FALSE
    BY DEF AnswersHold
  <2>1. a.run \in Ids /\ a.at \in a.run..Len(runs)
    BY DEF RunsInv, TypeOK
  <2>2. PICK s \in 1..(Last - 1) : \E y \in runs[s].signals :
          /\ Reminds(s, Last, y) /\ m = [run |-> s, name |-> NameOf(y)]
    BY DEF StillOpen
  <2>3. PICK y \in runs[s].signals :
          Reminds(s, Last, y) /\ m = [run |-> s, name |-> NameOf(y)]
    BY <2>2
  <2>4. s = a.run /\ NameOf(y) = NameOf(z)
    BY <2>3
  <2>5. y = z
    BY <2>1, <2>3, <2>4 DEF RunsInv, RowsSound
  <2>6. ~ Answered(a.run, Last, a.name)
    BY <2>3, <2>4, <2>5 DEF Reminds, AnsweredGroup
  <2>7. Answered(a.run, Last, a.name)
    BY <2>1 DEF Answered, Ids
  <2> QED
    BY <2>6, <2>7
<1> QED
  BY <1>1, RunsInvariant, PTL

-----------------------------------------------------------------------------
(* A reported failure, and the runs that can judge what became of it. *)

\* What a run says failed did, and not as in any run of its baseline; a baseline
\* is no longer than it may be; and a summary counts no error outside examples or one.
Reported(stats, baseline, signals) ==
  /\ \A z \in signals : z.kind = "error" =>
       /\ z.measure = "failed" /\ z.behavior \in Examples
       /\ Failed(stats, z.behavior)
       /\ \A i \in baseline :
            Failed(runs[i].stats, z.behavior) =>
              runs[i].stats.fate[z.behavior] # stats.fate[z.behavior]
  /\ \A i \in baseline : Cardinality({j \in baseline : j > i}) < MAX_RUNS
  /\ stats.tests.outside \in {0, 1}

FailuresReal ==
  \A r \in Ids : Reported(runs[r].stats, runs[r].baseline, runs[r].signals)

\* An ERROR was found by its rule.
LEMMA ErrorsBroke ==
  ASSUME NEW now, NEW was, NEW ids, NEW z \in Changes(now, was, ids), z.kind = "error"
  PROVE  z \in Broke(now, was, ids)
<1> DEFINE why == Incomplete(now, was, ids)
<1>1. z \notin Arrived(now, was, ids) /\ z \notin Moved(now, was, ids)
  <2>1. \A m \in Arrived(now, was, ids) : m.kind \in {"new", "disappeared"}
    BY DEF Arrived
  <2>2. \A m \in Moved(now, was, ids) : m.kind = "frequency"
    BY DEF Moved
  <2> QED
    BY <2>1, <2>2
<1>2. z \notin IncompleteSignals(now, was, ids, why) /\ z \notin Truncated(now, ids)
  BY DEF IncompleteSignals, IncompleteSignal, Truncated
<1> QED
  BY <1>1, <1>2 DEF Changes

\* Where nothing is incomplete, what its rule finds failed is reported.
LEMMA BrokeIsReported ==
  ASSUME NEW now, NEW was, NEW ids, ids # {}, Incomplete(now, was, ids) = "none",
         NEW z \in Broke(now, was, ids)
  PROVE  z \in Changes(now, was, ids)
<1>1. z.kind = "error"
  BY DEF Broke
<1>2. ~ PartialBaselineExplains(now, was, ids, z)
  BY <1>1 DEF PartialBaselineExplains
<1> QED
  BY <1>2 DEF Changes

\* A baseline is as short as what it is chosen from.
LEMMA BaselineShort ==
  ASSUME NEW now, NEW was, NEW ids, NEW n \in Nat, ids \subseteq 1..n,
         NEW i \in BaselineIds(now, was, ids)
  PROVE  Cardinality({j \in BaselineIds(now, was, ids) : j > i}) < MAX_RUNS
<1> DEFINE all == {j \in ids : j > i}
           some == {j \in BaselineIds(now, was, ids) : j > i}
<1>1. IsFiniteSet(all)
  <2>1. IsFiniteSet(1..n)
    BY FS_Interval
  <2>2. all \subseteq 1..n
    OBVIOUS
  <2> HIDE DEF all
  <2> QED
    BY <2>1, <2>2, FS_Subset
<1>2. some \subseteq all /\ Cardinality(all) < MAX_RUNS
  BY DEF BaselineIds, Recent
<1>3. /\ IsFiniteSet(some) /\ Cardinality(some) <= Cardinality(all)
      /\ Cardinality(some) \in Nat /\ Cardinality(all) \in Nat
  <2> HIDE DEF all, some
  <2> QED
    BY <1>1, <1>2, FS_Subset, FS_CardinalityType
<1> QED
  BY <1>2, <1>3, SignalsAssumption

\* What is recorded reports failures as they were.
LEMMA RowReports ==
  ASSUME RunsInv, NEW row, Recordable(row)
  PROVE  Reported(row.stats, row.baseline, row.signals)
<1>1. Len(runs) \in Nat /\ Candidates \subseteq 1..Len(runs)
  BY DEF RunsInv, IsSequence, Candidates, Ids
<1>2. ASSUME NEW z \in row.signals, z.kind = "error"
      PROVE  /\ z.measure = "failed" /\ z.behavior \in Examples
             /\ Failed(row.stats, z.behavior)
             /\ \A i \in row.baseline :
                  Failed(runs[i].stats, z.behavior) =>
                    runs[i].stats.fate[z.behavior] # row.stats.fate[z.behavior]
  <2>1. row.signals = Detect(row.stats, of, row.baseline) /\ row.baseline \subseteq Candidates
    BY <1>2, RowRecorded
  <2>2. NameOf(z) \in Changes(row.stats, of, row.baseline)
    BY <2>1, SignalsAreChanges
  <2>3. NameOf(z) \in Broke(row.stats, of, row.baseline)
    BY <1>2, <2>2, ErrorsBroke DEF NameOf
  <2>4. /\ z.measure = "failed" /\ z.behavior \in Examples
        /\ IsError(row.stats, of, row.baseline, z.behavior)
    BY <2>3 DEF Broke, NameOf
  <2>5. \A i \in row.baseline : of[i] = runs[i].stats
    BY <2>1 DEF of, Candidates
  <2> QED
    BY <2>4, <2>5 DEF IsError
<1>3. ASSUME NEW i \in row.baseline
      PROVE  Cardinality({j \in row.baseline : j > i}) < MAX_RUNS
  <2>1. row.baseline = BaselineIds(row.stats, of, Candidates)
    BY <1>3, RowRecorded
  <2>2. PICK n \in Nat : Candidates \subseteq 1..n
    BY <1>1
  <2>3. \A j \in BaselineIds(row.stats, of, Candidates) :
          Cardinality({k \in BaselineIds(row.stats, of, Candidates) : k > j}) < MAX_RUNS
    BY <2>2, BaselineShort, Zenon
  <2> QED
    BY <1>3, <2>1, <2>3, Zenon
<1> QED
  BY <1>2, <1>3 DEF Reported, Recordable

LEMMA FailuresStayReal ==
  ASSUME RunsInv, FailuresReal, [Next]_vars
  PROVE  FailuresReal'
<1>1. CASE Record
  <2>1. PICK row : Recordable(row) /\ runs' = Append(runs, row)
    BY <1>1, RecordAppends
  <2> DEFINE n == Len(runs')
  <2>2. /\ (\A r \in Ids : runs'[r] = runs[r]) /\ runs'[n] = row
        /\ \A r \in Ids' : r \in Ids \/ r = n
    BY <2>1, Appended, Zenon DEF RunsInv
  <2> HIDE DEF n
  <2>3. \A r \in Ids : runs[r].baseline \subseteq Ids
    BY DEF RunsInv, TypeOK, Ids
  <2>4. row.baseline \subseteq Ids
    BY <2>1, RowRecorded DEF Candidates
  <2>5. ASSUME NEW r \in Ids'
        PROVE  Reported(runs[r].stats, runs[r].baseline, runs[r].signals)'
    <3>1. CASE r \in Ids
      <4>1. Reported(runs[r].stats, runs[r].baseline, runs[r].signals)
        BY <3>1 DEF FailuresReal
      <4> QED
        BY <2>2, <2>3, <3>1, <4>1 DEF Reported
    <3>2. CASE r = n
      <4>1. Reported(row.stats, row.baseline, row.signals)
        BY <2>1, RowReports
      <4> QED
        BY <2>2, <2>4, <3>2, <4>1 DEF Reported
    <3> QED
      BY <2>2, <3>1, <3>2
  <2> QED
    BY <2>5 DEF FailuresReal
<1>2. CASE Prune \/ Ack \/ UNCHANGED vars
  BY <1>2, OthersKeep DEF FailuresReal, Reported, Ids
<1> QED
  BY <1>1, <1>2 DEF Next

LEMMA FailuresInvariant == Spec => []FailuresReal
<1>1. Init => FailuresReal
  BY DEF Init, FailuresReal, Ids
<1> QED
  BY <1>1, FailuresStayReal, RunsInvariant, PTL DEF Spec

\* A run that ran all that a baseline's runs ran is not incomplete against them, and is
\* compared with each of them that ran everything there was.
LEMMA NothingMissed ==
  ASSUME RunsInv, FailuresReal, NEW s \in Ids, NEW t \in Ids, Covers(s, t),
         NEW i \in runs[s].baseline, Summarized(runs[i].stats), RanAll(runs[i].stats)
  PROVE  i \in Against(s, t) /\ Speaks(s, t)
<1> DEFINE now == runs[t].stats
           ids == Against(s, t)
<1>1. /\ runs[s].baseline \subseteq Ids
      /\ \A j \in runs[s].baseline : of[j] = runs[j].stats /\ runs[j].stats.tests.outside \in {0, 1}
  BY DEF RunsInv, TypeOK, Ids, of, FailuresReal, Reported
<1>2. now.tests.outside \in {0, 1} /\ Summarized(now) /\ now.past = 0
  BY DEF FailuresReal, Reported, Covers
<1>3. ids \subseteq runs[s].baseline
  BY BaselineFrom DEF Against
<1>4. i \in ids
  <2>1. Recent(runs[s].baseline) = runs[s].baseline
    BY DEF Recent, FailuresReal, Reported
  <2>2. Comparable(now, of[i], Existed(now, of, runs[s].baseline))
    BY <1>1 DEF Comparable
  <2> QED
    BY <2>1, <2>2 DEF Against, BaselineIds
<1>5. Incomplete(now, of, ids) = "none"
  <2>1. CASE \A j \in runs[s].baseline : runs[j].stats.ran \subseteq now.ran
    BY <1>1, <1>2, <1>3, <2>1 DEF Incomplete
  <2>2. CASE ~ SkippedExisting(now)
    <3>1. now.tests.outside = 0 /\ ~ Stopped(now) /\ ~ Filtered(now)
      BY <1>2, <2>2 DEF SkippedExisting
    <3>2. ~ RaisedOutside(now, of, ids)
      <4> DEFINE f == [j \in ids |-> IF Summarized(of[j]) THEN of[j].tests.outside ELSE 0]
      <4>1. \A j \in ids : f[j] \in {0, 1}
        BY <1>1, <1>3
      <4> HIDE DEF f
      <4> HIDE DEF ids
      <4>2. \E m \in {f[j] : j \in ids} : \A j \in ids : f[j] <= m
        <5>1. CASE \E j \in ids : f[j] = 1
          BY <4>1, <5>1
        <5>2. CASE \A j \in ids : f[j] = 0
          BY <1>4, <5>2
        <5> QED
          BY <4>1, <5>1, <5>2
      <4>3. Most(f, ids) \in {f[j] : j \in ids}
        BY <4>2 DEF Most
      <4>4. Most(f, ids) \in {0, 1}
        BY <4>1, <4>3
      <4>5. ~ (now.tests.outside > Most(f, ids))
        BY <3>1, <4>4
      <4> QED
        BY <4>5 DEF RaisedOutside, f
    <3> QED
      BY <1>2, <3>1, <3>2 DEF Incomplete
  <2> QED
    BY <2>1, <2>2 DEF Covers
<1> QED
  BY <1>2, <1>4, <1>5 DEF Speaks

\* A failure s reported, that such a run has in the same way, is found in it again;
\* one that passed in it is not.
LEMMA FoundAgain ==
  ASSUME RunsInv, FailuresReal, NEW s \in Ids, NEW t \in Ids, Covers(s, t),
         NEW i \in runs[s].baseline, Summarized(runs[i].stats), RanAll(runs[i].stats),
         NEW z \in runs[s].signals, z.kind = "error", z.behavior \in runs[i].stats.ran
  PROVE  /\ StillFails(z.behavior, s, t) => NameOf(z) \in Fires(s, t)
         /\ ~ Failed(runs[t].stats, z.behavior) => NameOf(z) \notin Fires(s, t)
<1> DEFINE now == runs[t].stats
           ids == Against(s, t)
           e == z.behavior
<1>1. /\ z.measure = "failed" /\ e \in Examples /\ Failed(runs[s].stats, e)
      /\ \A j \in runs[s].baseline :
           Failed(runs[j].stats, e) => runs[j].stats.fate[e] # runs[s].stats.fate[e]
  BY DEF FailuresReal, Reported
<1>2. NameOf(z) = [kind |-> "error", behavior |-> e, measure |-> "failed"]
  BY <1>1 DEF NameOf
<1>3. /\ ids \subseteq runs[s].baseline
      /\ \A j \in runs[s].baseline : of[j] = runs[j].stats
  BY BaselineFrom DEF Against, RunsInv, TypeOK, Ids, of
<1>4. i \in ids /\ Incomplete(now, of, ids) = "none"
  BY NothingMissed DEF Speaks
<1>5. \A c \in Changes(now, of, ids) : NameOf(c) = c
  <2>1. \A c \in Name : c = [kind |-> c.kind, behavior |-> c.behavior, measure |-> c.measure]
    BY DEF Name
  <2> QED
    BY <2>1, ChangesNamed, Zenon DEF NameOf
<1>6. ASSUME StillFails(e, s, t)
      PROVE  NameOf(z) \in Fires(s, t)
  <2>1. IsError(now, of, ids, e)
    BY <1>1, <1>3, <1>4, <1>6 DEF IsError, StillFails, Failed
  <2>2. NameOf(z) \in Broke(now, of, ids)
    BY <1>1, <1>2, <2>1 DEF Broke
  <2>3. NameOf(z) \in Changes(now, of, ids)
    BY <1>4, <2>2, BrokeIsReported
  <2> QED
    BY <1>5, <2>3 DEF Fires
<1>7. ASSUME NameOf(z) \in Fires(s, t)
      PROVE  Failed(now, e)
  <2>1. NameOf(z) \in Changes(now, of, ids)
    BY <1>5, <1>7 DEF Fires
  <2>2. NameOf(z) \in Broke(now, of, ids)
    BY <1>2, <2>1, ErrorsBroke
  <2>3. PICK c \in {x \in Examples : IsError(now, of, ids, x)} :
          NameOf(z) = [kind |-> "error", behavior |-> c, measure |-> "failed"]
    BY <2>2 DEF Broke
  <2>4. c = e
    BY <1>2, <2>3
  <2> QED
    BY <2>3, <2>4 DEF IsError
<1> QED
  BY <1>6, <1>7

\* Of the runs that remind of something, one is the oldest.
LEMMA Oldest ==
  ASSUME NEW S \in SUBSET Nat, NEW s \in S
  PROVE  \E o \in S : \A p \in S : o <= p
<1> DEFINE R == OpToRel(<, Nat)
<1>1. R = {d \in Nat \X Nat : d[1] < d[2]}
  BY DEF OpToRel
<1> HIDE DEF R
<1>2. IsWellFoundedOn(R, Nat)
  BY NatLessThanWellFounded DEF R
<1>3. PICK o \in S : \A p \in S : <<p, o>> \notin R
  <2>1. S \subseteq Nat /\ S # {}
    OBVIOUS
  <2>2. \E o \in S : \A p \in S : ~ (<<p, o>> \in R)
    BY <1>2, <2>1, WFMin, Zenon
  <2> QED
    BY <2>2
<1>4. ASSUME NEW p \in S, p < o PROVE FALSE
  <2>1. PICK d : d = <<p, o>>
    OBVIOUS
  <2>2. d \in Nat \X Nat /\ d[1] < d[2]
    BY <1>4, <2>1
  <2> QED
    BY <1>1, <1>3, <2>1, <2>2
<1> QED
  BY <1>4

\* A run that passed over an example which a baseline run ran has counts, or lacks a
\* summary, that say so.
LEMMA PassedOverIsSilent ==
  ASSUME RunsInv, FailuresReal
  PROVE  SkippedHasNoVote
<1> SUFFICES ASSUME NEW s \in 1..(Last - 1), PassedOver(s, Last)
             PROVE  Last \notin Later(s, Last)
  BY DEF SkippedHasNoVote
<1> DEFINE row == runs[Last]
           now == row.stats
           ids == Against(s, Last)
<1>1. s \in Ids /\ Last \in Ids
  BY DEF RunsInv, IsSequence, Last, Ids
<1>2. PICK i \in runs[s].baseline :
        /\ Summarized(runs[i].stats) /\ RanAll(runs[i].stats)
        /\ runs[i].stats.ran \cap (row.code.written \ now.ran) # {}
  BY DEF PassedOver
<1>3. PICK e \in runs[i].stats.ran : e \in row.code.written /\ e \notin now.ran
  BY <1>2
<1>4. \A j \in runs[s].baseline : of[j] = runs[j].stats
  BY <1>1 DEF RunsInv, TypeOK, Ids, of
<1>5. i \in ids
  <2>1. Recent(runs[s].baseline) = runs[s].baseline
    BY <1>1, <1>2 DEF Recent, FailuresReal, Reported
  <2>2. Comparable(now, of[i], Existed(now, of, runs[s].baseline))
    BY <1>2, <1>4 DEF Comparable
  <2> QED
    BY <2>1, <2>2 DEF Against, BaselineIds
<1>6. ids \subseteq runs[s].baseline
  BY BaselineFrom DEF Against
<1>7. Incomplete(now, of, ids) # "none"
  <2>1. CASE Loaded(now)
    BY <1>1, <1>3, <1>4, <1>5, <2>1, LacksNothing DEF RunsInv, RowsSound
  <2>2. CASE ~ Summarized(now) /\ \A j \in runs[s].baseline : Summarized(runs[j].stats)
    BY <1>4, <1>5, <1>6, <2>2 DEF Incomplete
  <2> QED
    BY <2>1, <2>2 DEF PassedOver
<1> QED
  BY <1>7 DEF Later, Speaks

\* A failure that is still, or again, there is shown: it is reported or reminded of by every
\* run that compares and ran enough to judge it, as long as its first report is in the
\* baseline, and for ever once it was fixed and came back. And a run that passed over what
\* is still written takes nothing for fixed.
THEOREM RegressionsAreShown == Spec => []RegressionShown
<1>1. RunsInv /\ FailuresReal => StillShown
  <2> SUFFICES ASSUME RunsInv, FailuresReal, ~ Silent(Last),
                      NEW s \in 1..(Last - 1), NEW z \in runs[s].signals,
                      z.kind = "error", z.head # "disappeared",
                      StillFails(z.behavior, s, Last), Covers(s, Last),
                      NEW i \in runs[s].baseline, Summarized(runs[i].stats),
                      RanAll(runs[i].stats), z.behavior \in runs[i].stats.ran,
                      s \in runs[Last].baseline \/ Fixed(z.behavior, s, Last),
                      ~ Unjudgeable(s), s > Last - KEEP_RUNS,
                      \A a \in acks, c \in runs[s].signals :
                        c.group = z.group => a.name.behavior # c.behavior,
                      NameOf(z) \notin Names(Last)
               PROVE  \E m \in StillOpen(Last) : m.name = NameOf(z)
    BY DEF StillShown, Shown
  <2> DEFINE r == Last
             name == NameOf(z)
             kept == {o \in 1..(r - 1) : o > Len(runs) - KEEP_RUNS}
             reminders == UNION {{[run |-> o, name |-> NameOf(x)] :
                                    x \in {y \in runs[o].signals : Reminds(o, r, y)}} : o \in kept}
  <2>1. Last \in Nat /\ s \in Ids /\ Last \in Ids /\ s < Last /\ s \in kept
    BY DEF RunsInv, IsSequence, Last, Ids
  <2>2. r \in Later(s, r) /\ name \in Fires(s, r)
    BY <2>1, NothingMissed, FoundAgain DEF Later, Covers
  <2>3. r \notin Quiet(s, r, name)
    BY <2>2 DEF Quiet
  <2>4. PresentAt(s, r, name)
    BY <2>2, <2>3 DEF PresentAt
  <2>5. ~ Settled(s, r, name)
    <3>1. CASE s \in runs[r].baseline
      BY <3>1 DEF Settled
    <3>2. CASE Fixed(z.behavior, s, r)
      <4>1. PICK t \in (s + 1)..(r - 1) : Covers(s, t) /\ ~ Failed(runs[t].stats, z.behavior)
        BY <3>2 DEF Fixed
      <4>2. t \in Ids /\ t < r /\ t \in (s + 1)..r
        BY <2>1, <4>1 DEF Ids, Last
      <4>3. t \in Later(s, r) /\ name \notin Fires(s, t)
        BY <2>1, <4>1, <4>2, NothingMissed, FoundAgain DEF Later, Covers
      <4>4. t \in Quiet(s, r, name) /\ r \in Later(s, r) \ Quiet(s, r, name)
        BY <2>2, <2>3, <4>3 DEF Quiet
      <4>5. Recurred(s, r, name)
        BY <4>2, <4>4 DEF Recurred
      <4> QED
        BY <4>5 DEF Settled
    <3> QED
      BY <3>1, <3>2
  <2>6. ~ AnsweredGroup(s, r, z.group)
    BY DEF AnsweredGroup, Answered, NameOf
  <2>7. Reminds(s, r, z)
    BY <2>4, <2>5, <2>6 DEF Reminds
  <2>8. [run |-> s, name |-> name] \in reminders
    BY <2>1, <2>7
  <2> DEFINE S == {o \in kept : [run |-> o, name |-> name] \in reminders}
  <2>9. S \subseteq Nat /\ s \in S
    BY <2>1, <2>8
  <2>10. PICK o \in S : \A p \in S : o <= p
    <3> HIDE DEF S
    <3> QED
      BY <2>9, Oldest
  <2>11. ASSUME NEW p \in reminders, p.name = name
         PROVE  p.run >= o
    <3>1. PICK q \in kept : \E x \in runs[q].signals : p = [run |-> q, name |-> NameOf(x)]
      OBVIOUS
    <3>2. p.run = q /\ p = [run |-> q, name |-> name]
      BY <2>11, <3>1
    <3>3. p.run \in S
      BY <2>11, <3>1, <3>2
    <3> QED
      BY <2>1, <2>10, <3>3
  <2> DEFINE m == [run |-> o, name |-> name]
  <2>12. m \in reminders /\ m.name = name /\ m.run = o
    BY <2>10
  <2>13. StillOpen(r) = {k \in reminders : /\ k.name \notin Names(r)
                                           /\ \A p \in reminders : p.name = k.name => p.run >= k.run}
    BY DEF StillOpen
  <2> HIDE DEF reminders, m
  <2>14. m \in StillOpen(r)
    BY <2>11, <2>12, <2>13
  <2> QED
    BY <2>12, <2>14
<1>2. RunsInv /\ FailuresReal => SkippedHasNoVote
  BY PassedOverIsSilent
<1> QED
  BY <1>1, <1>2, RunsInvariant, FailuresInvariant, PTL DEF RegressionShown
=============================================================================
