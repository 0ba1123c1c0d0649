------------------------------ MODULE Retention ------------------------------
(***************************************************************************)
(* What a prune would remove from the store now (store/retention.rs).      *)
(*                                                                         *)
(* The module declares the part of the store a prune reads: the runs table *)
(* and the run dirs on disk, the recording locks the operating system      *)
(* holds, and the clock. Plan is computed from them afresh by every prune. *)
(* Rows are abstracted to what retention and the baselines tell apart: the *)
(* rows of the five stats tables are one flag, as are the exemplars.       *)
(***************************************************************************)
EXTENDS Integers, FiniteSets, FiniteSetsExt

CONSTANTS
  Contexts,             \* the (project, context) pairs runs are grouped by
  MAX_RUNS,             \* baseline runs a run is compared with, at most
  SIFTR_KEEP_RUNS,      \* the three settings, as the user gave them
  SIFTR_KEEP_EVIDENCE,
  SIFTR_KEEP_DAYS,
  MaxRuns,              \* bound: runs begun
  MaxDay                \* bound: days that pass

ASSUME RetentionAssumption ==
  /\ MAX_RUNS \in Nat \ {0}
  /\ SIFTR_KEEP_RUNS \in Nat
  /\ SIFTR_KEEP_EVIDENCE \in Nat
  /\ SIFTR_KEEP_DAYS \in Nat
  /\ MaxRuns \in Nat \ {0}
  /\ MaxDay \in Nat
  /\ Contexts # {}

VARIABLES
  row,      \* the runs table, one row per id, with what hangs off it
  files,    \* what is in each run's dir
  locks,    \* the runs whose recording lock some live siftr holds
  today     \* the clock, in days

RunId == 1..MaxRuns
Day   == 0..MaxDay

-----------------------------------------------------------------------------
(* Settings. A limit outside its floor or ceiling is adjusted, not refused. *)

LIVE_STATS == 2 * MAX_RUNS + 1

AtLeast(given, min) == IF given < min THEN min ELSE given
AtMost(given, max)  == IF given > max THEN max ELSE given

KeepRuns     == AtLeast(SIFTR_KEEP_RUNS, LIVE_STATS)
KeepEvidence == AtMost(AtLeast(SIFTR_KEEP_EVIDENCE, 2), KeepRuns)
KeepDays     == AtLeast(SIFTR_KEEP_DAYS, 1)

\* An unfinished run with no lock file counts as recording for a day.
LIVE_DAYS == 1

-----------------------------------------------------------------------------
(* Rows. *)

ByRuns     == "SIFTR_KEEP_RUNS"
ByEvidence == "SIFTR_KEEP_EVIDENCE"
ByDays     == "SIFTR_KEEP_DAYS"
Kept       == "kept"     \* a NULL stats_pruned_by or evidence_pruned_by

Row == [context        : Contexts,
        status         : {"absent", "unfinished", "finished", "interrupted"},
        started        : Day,
        ended          : Day,
        baseline       : SUBSET RunId,
        stats          : BOOLEAN,    \* rows in the aggregates tables
        exemplars      : BOOLEAN,    \* rows in the exemplars table
        statsPruned    : {Kept, ByRuns, ByDays},
        evidencePruned : {Kept, ByRuns, ByEvidence, ByDays}]

Began(r)  == row[r].status # "absent"
Usable(r) == row[r].status = "finished"

\* SELECT ... WHERE stats_pruned_by IS NULL, one context's chunk.
WithStats(c) ==
  {r \in RunId : Began(r) /\ row[r].context = c /\ row[r].statsPruned = Kept}

UsableWithStats(c) == {r \in WithStats(c) : Usable(r)}

-----------------------------------------------------------------------------
(* What is still read, and what is still being recorded. *)

Recording(r) ==
  IF "lock" \in files[r] THEN r \in locks
                         ELSE today - row[r].started < LIVE_DAYS

\* The oldest runs whose stats, and whose evidence, answers about l read.
StatsFrom(l) ==
  LET B == row[l].baseline
  IN  Min({l} \cup B \cup UNION {row[b].baseline : b \in B})

EvidenceFrom(l) ==
  LET B      == row[l].baseline
      Judged == {b \in B : row[b].baseline # {}}
  IN  Min({l} \cup B \cup {Max(row[b].baseline) : b \in Judged})

\* Run r of context c is not older than what the latest usable run reads.
\* Without a usable run the code's bound is i64::MAX: nothing is read.
ReadForStats(c, r) ==
  UsableWithStats(c) # {} /\ r >= StatsFrom(Max(UsableWithStats(c)))

\* Mutant: the bound itself is not protected.
ReadForEvidence_Strict(c, r) ==
  UsableWithStats(c) # {} /\ r > EvidenceFrom(Max(UsableWithStats(c)))

ReadForEvidence(c, r) ==
  UsableWithStats(c) # {} /\ r >= EvidenceFrom(Max(UsableWithStats(c)))

-----------------------------------------------------------------------------
(* The plan. *)

Idle(c) == today - row[Max(WithStats(c))].started > KeepDays

\* Mutant: positions from one.
Position_OffByOne(c, r) == Cardinality({s \in WithStats(c) : s >= r})

Position(c, r)   == Cardinality({s \in WithStats(c) : s > r})
UsableRank(c, r) == Cardinality({s \in UsableWithStats(c) : s >= r})

DueByRuns(c, r) ==
  /\ Position(c, r) >= KeepRuns
  /\ ~ ReadForStats(c, r)
  /\ ~ (Usable(r) /\ UsableRank(c, r) <= LIVE_STATS)

DueByEvidence(c, r) ==
  /\ Position(c, r) >= KeepEvidence
  /\ row[r].evidencePruned = Kept
  /\ ~ ReadForEvidence(c, r)

Step == [run : RunId, by : {ByRuns, ByEvidence, ByDays}]

StepFor(c, r) ==
  [run |-> r,
   by  |-> IF Idle(c) THEN ByDays
           ELSE IF DueByRuns(c, r) THEN ByRuns
           ELSE ByEvidence]

\* Mutant: a prune does not ask whether an unfinished run is recording.
Due_Unasked(c) ==
  {r \in WithStats(c) : Idle(c) \/ DueByRuns(c, r) \/ DueByEvidence(c, r)}

Due(c) ==
  {r \in WithStats(c) :
     /\ row[r].status = "unfinished" => ~ Recording(r)
     /\ Idle(c) \/ DueByRuns(c, r) \/ DueByEvidence(c, r)}

Plan == UNION {{StepFor(c, r) : r \in Due(c)} : c \in Contexts}

Pruned_KeepsExemplars(r, by) ==
  IF by = ByEvidence
  THEN [row[r] EXCEPT !.evidencePruned = by]
  ELSE [row[r] EXCEPT !.stats = FALSE, !.statsPruned = by, !.evidencePruned = by]

\* The row a step leaves: the deletes, then pruned_by with its COALESCE.
Pruned(r, by) ==
  IF by = ByEvidence
  THEN [row[r] EXCEPT !.exemplars = FALSE, !.evidencePruned = by]
  ELSE [row[r] EXCEPT !.stats = FALSE, !.exemplars = FALSE,
                      !.statsPruned = by,
                      !.evidencePruned = IF @ = Kept THEN by ELSE @]

\* Mutant: only the captures of finished runs are looked for.
Orphans_Usable ==
  {r \in RunId : /\ Usable(r)
                 /\ "dir" \in files[r]
                 /\ row[r].evidencePruned # Kept}

\* Capture dirs whose run's evidence is pruned. A dir with no run is left.
Orphans ==
  {r \in RunId : /\ Began(r)
                 /\ "dir" \in files[r]
                 /\ row[r].evidencePruned # Kept}

=============================================================================
