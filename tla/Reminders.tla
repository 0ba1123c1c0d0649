------------------------------ MODULE Reminders ------------------------------
(***************************************************************************)
(* One context's runs over the life of a project: what each reports        *)
(* against its baseline (record.rs, Signals), what became of each signal   *)
(* and which are still open (cmd/history.rs), and what `siftr ack` answers *)
(* (cmd/feedback.rs).  The suite is external: each run tests some code and *)
(* may not load, select or run all of it.  The code a run tested is        *)
(* history: siftr sees only the stats.                                     *)
(***************************************************************************)
EXTENDS Signals, Sequences

CONSTANTS
  Codes,         \* what the runs may find written: a set of Code
  Cuts,          \* what may keep a run from running, or siftr from reading, it all
  MAX_SIGNALS,   \* signals past which a run is not compared
  KEEP_RUNS,     \* SIFTR_KEEP_RUNS
  MaxRuns,       \* bound: runs of the context
  MaxCut,        \* bound: those of them that did not run, or did not record, it all
  MaxAcks        \* bound: answers

Code ==
  [written : SUBSET Examples,                  \* the examples the spec files define
   fault   : [Examples -> Fates],              \* how each ends when it runs
   makes   : [Others -> [Scopes -> Nat]]]      \* what each does, and what is done outside them

ASSUME RemindersAssumption ==
  /\ Codes \subseteq Code
  /\ Cuts \subseteq {"load", "filter", "stop", "raise", "kill", "interrupt", "cap", "switch"}
  /\ {MAX_SIGNALS, KEEP_RUNS, MaxRuns, MaxCut, MaxAcks} \subseteq Nat

VARIABLES
  runs,          \* the runs' rows and stats, by id, with the code each ran
  acks,          \* the feedback rows `ack` wrote
  pruned         \* the runs up to this one are without stats

vars == <<runs, acks, pruned>>

Ids == 1..Len(runs)

of == [i \in Ids |-> runs[i].stats]

Measures == {"count", "queries", "failed", "events_past_cap",
             "no_test_summary", "errors_outside_examples", "stopped", "subset"}

Name == [kind : {"incomplete", "error", "new", "disappeared", "frequency"},
         behavior : Examples \cup Others \cup {Summary, Overflow}, measure : Measures]

NameOf(s) == [kind |-> s.kind, behavior |-> s.behavior, measure |-> s.measure]

Names(r) == {NameOf(s) : s \in runs[r].signals}

TypeOK ==
  /\ \A r \in Ids :
       /\ runs[r].code \in Codes
       /\ runs[r].status \in {"finished", "interrupted", "uncompared"}
       /\ runs[r].baseline \subseteq {i \in 1..(r - 1) : runs[i].status # "interrupted"}
       /\ runs[r].signals # {} => runs[r].status = "finished" /\ runs[r].baseline # {}
       /\ runs[r].stats.ran \subseteq Examples
       /\ \A s \in runs[r].signals : NameOf(s) \in Name
  /\ \A a \in acks : a.run \in Ids /\ a.name \in Names(a.run) /\ a.at \in a.run..Len(runs)
  /\ pruned \in 0..Len(runs)

Init == runs = <<>> /\ acks = {} /\ pruned = 0

-----------------------------------------------------------------------------
(* A run. *)

\* What siftr keeps of a run of code that loaded, selected and ran these examples.
StatsOf(code, loads, picks, ran, outside, summarized, past, unread) ==
  [ran    |-> ran,
   fate   |-> [e \in Examples |-> IF e \in ran THEN code.fault[e] ELSE "passed"],
   tests  |-> IF summarized
              THEN [summary |-> TRUE, loaded |-> Cardinality(picks),
                    defined |-> Cardinality(loads), outside |-> outside]
              ELSE NoSummary,
   within |-> [b \in Others |-> [s \in Scopes |->
                 IF b \in unread \/ s \in Examples \ ran THEN 0
                 ELSE IF b \in OutsideErrors THEN (IF s = Setup THEN outside ELSE 0)
                 ELSE code.makes[b][s]]],
   past   |-> past,
   unread |-> unread]

\* The finished, uninterrupted runs that still have their stats.
Candidates == {i \in Ids : i > pruned /\ runs[i].status # "interrupted"}

Recorded(code, stats) ==
  LET now == [code |-> code, stats |-> stats, status |-> "finished",
              baseline |-> BaselineIds(stats, of, Candidates), signals |-> {}]
      signals == Detect(stats, of, now.baseline)
  IN  IF Cardinality(signals) > MAX_SIGNALS
      THEN [now EXCEPT !.status = "uncompared"]
      ELSE [now EXCEPT !.signals = signals]

Interrupted(code, stats) ==
  [code |-> code, stats |-> stats, status |-> "interrupted", baseline |-> {}, signals |-> {}]

\* Some of it if that cut may happen, else all of it.
Part(cut, whole) == IF cut \in Cuts THEN SUBSET whole ELSE {whole}
Cuttable(cut, usual, other) == IF cut \in Cuts THEN {usual, other} ELSE {usual}

\* The run ran all that was written, and siftr read all of it.
Whole(code, stats) ==
  Summarized(stats) /\ stats.ran = code.written /\ stats.past = 0 /\ stats.unread = {}

WholeRuns ==
  {i \in Ids : runs[i].status # "interrupted" /\ Whole(runs[i].code, runs[i].stats)}

MayCut == Cardinality(Ids \ WholeRuns) < MaxCut

\* A run of code ends with these stats.
End(code, stats) ==
  /\ Len(runs) < MaxRuns
  /\ Whole(code, stats) \/ MayCut
  /\ \/ runs' = Append(runs, Recorded(code, stats))
     \/ "interrupt" \in Cuts /\ MayCut /\ runs' = Append(runs, Interrupted(code, stats))
  /\ UNCHANGED <<acks, pruned>>

Record ==
  \E code \in Codes : \E loads \in Part("load", code.written) :
  \E picks \in Part("filter", loads) : \E ran \in Part("stop", picks),
     outside \in IF loads = code.written THEN Cuttable("raise", 0, 1) ELSE {1},
     summarized \in Cuttable("kill", TRUE, FALSE), past \in Cuttable("cap", 0, 1),
     heard \in Part("switch", Others) :
    End(code, StatsOf(code, loads, picks, ran, outside, summarized, past, Others \ heard))

\* Retention takes the stats of runs past the newest KEEP_RUNS, the oldest first;
\* how many of them it keeps for the latest run to compare with is its own rule.
Prune ==
  \E upto \in (pruned + 1)..(Len(runs) - KEEP_RUNS) :
    /\ pruned' = upto
    /\ UNCHANGED <<runs, acks>>

\* An answer to a signal, as the user saw it now.
on_signal(r, name) == [run |-> r, name |-> name, at |-> Len(runs)]

\* `siftr ack` answers a signal of any run.
Ack ==
  \E r \in Ids : \E name \in Names(r) :
    /\ Cardinality(acks) < MaxAcks
    /\ acks' = acks \cup {on_signal(r, name)}
    /\ UNCHANGED <<runs, pruned>>

-----------------------------------------------------------------------------
(* What became of the signals of run s by run r: its own rule, against the *)
(* baseline it was judged against, on each later run.                      *)

Against(s, t) == BaselineIds(runs[t].stats, of, runs[s].baseline)

Fires(s, t) == {NameOf(c) : c \in Changes(runs[t].stats, of, Against(s, t))}

\* Mutant: only the cap on behaviors keeps a run from voting.
Speaks_Partly(s, t) == runs[t].stats.past = 0

Speaks(s, t) ==
  /\ Incomplete(runs[t].stats, of, Against(s, t)) = "none"
  /\ runs[t].stats.past = 0

Later(s, r) == {t \in (s + 1)..r : runs[t].status = "finished" /\ Speaks(s, t)}

Unjudgeable(s) == \E i \in runs[s].baseline \cup {s} : i <= pruned

Quiet(s, r, name) == {t \in Later(s, r) : name \notin Fires(s, t)}

\* Mutant: what was resolved once stays resolved.
PresentAt_Once(s, r, name) ==
  ~ Unjudgeable(s) /\ Quiet(s, r, name) = {} /\ name \in Fires(s, s)

\* Never resolved, or back again by r's own verdict.
PresentAt(s, r, name) ==
  LET quiet == Quiet(s, r, name) IN
  /\ ~ Unjudgeable(s)
  /\ \/ quiet = {} /\ name \in Fires(s, s)
     \/ r \in Later(s, r) \ quiet

Recurred(s, r, name) ==
  \E t \in Quiet(s, r, name), u \in Later(s, r) \ Quiet(s, r, name) : t < u

\* It has become what the context does.
Settled(s, r, name) == ~ Recurred(s, r, name) /\ s \notin runs[r].baseline

\* Mutant: an answer, like an investigation, counts only until the fix.
Answered_UntilFixed(s, r, name) ==
  \E a \in acks :
    /\ a.name.behavior = name.behavior /\ a.at >= s
    /\ \A t \in Quiet(s, r, name) : a.at < t

\* Answered before it resolved, or answered by its own name at any time.
Answered(s, r, name) ==
  \E a \in acks :
    /\ a.name.behavior = name.behavior /\ a.at >= s
    /\ \/ \A t \in Quiet(s, r, name) : a.at < t
       \/ a.run = s /\ a.name = name

AnsweredGroup(s, r, g) ==
  \E x \in runs[s].signals : x.group = g /\ Answered(s, r, NameOf(x))

Silent(r) ==
  \/ runs[r].status # "finished"
  \/ \E x \in runs[r].signals : x.kind = "incomplete"

Reminds(s, r, x) ==
  /\ x.head # "disappeared" /\ x.kind # "incomplete"
  /\ PresentAt(s, r, NameOf(x))
  /\ ~ Settled(s, r, NameOf(x))
  /\ ~ AnsweredGroup(s, r, x.group)

\* The earlier signals still open at run r, the oldest of each name.
StillOpen(r) ==
  LET kept == {s \in 1..(r - 1) : s > Len(runs) - KEEP_RUNS}
      reminders == UNION {{[run |-> s, name |-> NameOf(x)] :
                             x \in {y \in runs[s].signals : Reminds(s, r, y)}} : s \in kept}
  IN  IF Silent(r) THEN {}
      ELSE {m \in reminders : /\ m.name \notin Names(r)
                              /\ \A o \in reminders : o.name = m.name => o.run >= m.run}

Next == Record \/ Prune \/ Ack

Spec == Init /\ [][Next]_vars

-----------------------------------------------------------------------------
Last == Len(runs)

\* The examples in which a run's code makes b occur.
MadeBy(code, b) == {e \in code.written : code.makes[b][e] > 0}

\* What x says is gone is not written any more: an example, or a query that no
\* example which made it in a baseline run and is still written makes.
Gone(r, x) ==
  LET b == x.behavior  code == runs[r].code IN
  IF b \in Examples THEN b \notin code.written
  ELSE ClassOf[b] = "sql" =>
         \A i \in runs[r].baseline : \A e \in MadeBy(runs[i].code, b) :
           e \in runs[i].stats.ran => e \notin MadeBy(code, b)

SaysGone(r) == {x \in runs[r].signals : x.kind = "disappeared"}

\* Summarized, and every spec file loaded.
Loaded(stats) == Summarized(stats) /\ stats.tests.outside = 0

\* What a summarized run without errors outside examples did not run, filtered
\* out or not reached, is never called gone: only what is no longer written is.
GoneForGood ==
  runs # <<>> /\ Loaded(runs[Last].stats) =>
    \A x \in SaysGone(Last) : Gone(Last, x)

\* It calls an example new only if some baseline run's code did not have it.
NewSinceBaseline ==
  \A x \in IF runs = <<>> THEN {} ELSE runs[Last].signals :
    x.kind = "new" /\ x.behavior \in Examples /\ Summarized(runs[Last].stats) =>
      \E i \in runs[Last].baseline : x.behavior \notin runs[i].code.written

Shown(r) == Names(r) \cup {m.name : m \in StillOpen(r)}

\* The example failed in s as s reported it, and fails the same way in r.
StillFails(e, s, r) ==
  e \in runs[r].stats.ran /\ runs[r].stats.fate[e] = runs[s].stats.fate[e]

\* Run r compares, and ran all that the runs s was judged against ran: as its own
\* counts show, or for being no narrower than they were.
Covers(s, r) ==
  LET stats == runs[r].stats IN
  /\ runs[r].status = "finished" /\ Summarized(stats) /\ stats.past = 0
  /\ \/ ~ SkippedExisting(stats)
     \/ \A i \in runs[s].baseline : runs[i].stats.ran \subseteq stats.ran

\* A run between them, as complete, in which it passed.
Fixed(e, s, r) ==
  \E t \in (s + 1)..(r - 1) :
    Covers(s, t) /\ e \in runs[t].stats.ran /\ ~ Failed(runs[t].stats, e)

\* A reported failure that is still, or again, there, and that whose change nobody
\* answered, is reported or reminded of by every run that compares and ran enough to
\* judge it: for as long as its first report is in the baseline, and for ever once it was
\* fixed and came back (if a run it was first judged against ran everything, it included).
StillShown ==
  runs # <<>> /\ ~ Silent(Last) =>
    \A s \in 1..(Last - 1) : \A z \in runs[s].signals :
      /\ z.kind = "error" /\ z.head # "disappeared"
      /\ StillFails(z.behavior, s, Last) /\ Covers(s, Last)
      /\ \E i \in runs[s].baseline :
           /\ Summarized(runs[i].stats) /\ RanAll(runs[i].stats)
           /\ z.behavior \in runs[i].stats.ran
      /\ s \in runs[Last].baseline \/ Fixed(z.behavior, s, Last)
      /\ ~ Unjudgeable(s) /\ s > Last - KEEP_RUNS
      /\ \A a \in acks, c \in runs[s].signals :
           c.group = z.group => a.name.behavior # c.behavior
      => NameOf(z) \in Shown(Last)

\* Run r passed over an example that a run s was judged against ran, one that ran
\* everything: it is still written, and all spec files loaded, or siftr cannot know.
PassedOver(s, r) ==
  /\ \E i \in runs[s].baseline :
       /\ Summarized(runs[i].stats) /\ RanAll(runs[i].stats)
       /\ runs[i].stats.ran \cap (runs[r].code.written \ runs[r].stats.ran) # {}
  /\ \/ Loaded(runs[r].stats)
     \/ /\ ~ Summarized(runs[r].stats)
        /\ \A i \in runs[s].baseline : Summarized(runs[i].stats)

\* Such a run gets no vote on what became of the changes s reported: what it is silent
\* about is not fixed, nor has anything come back because it found it.
SkippedHasNoVote ==
  \A s \in 1..(Last - 1) : PassedOver(s, Last) => Last \notin Later(s, Last)

\* What is still there is shown, and a run that cannot tell takes nothing for fixed.
RegressionShown == StillShown /\ SkippedHasNoVote

\* An answered signal is never reminded of again, whatever became of it later,
\* nor is any other signal of the same change.
AnswersHold ==
  runs # <<>> => \A a \in acks, m \in StillOpen(Last) :
    a.run = m.run =>
      \A x, z \in runs[a.run].signals :
        NameOf(x) = a.name /\ NameOf(z) = m.name => x.group # z.group
=============================================================================
