----------------------------- MODULE StoreProofs -----------------------------
(***************************************************************************)
(* What holds of Store for every value of its constants.                   *)
(***************************************************************************)
EXTENDS Store, FiniteSetTheorems, TLAPS

-----------------------------------------------------------------------------
(* The least and the greatest of a set of runs. *)

\* Sets of runs are finite, and smaller sets have fewer elements.
LEMMA RunsFinite ==
  ASSUME NEW S \in SUBSET RunId
  PROVE  IsFiniteSet(S) /\ Cardinality(S) \in Nat
<1>1. IsFiniteSet(RunId)
  BY RetentionAssumption, FS_Interval DEF RunId
<1>2. IsFiniteSet(S)
  BY <1>1, FS_Subset
<1>3. QED
  BY <1>2, FS_CardinalityType

LEMMA FewerRuns ==
  ASSUME NEW S \in SUBSET RunId, NEW T \in SUBSET S
  PROVE  Cardinality(T) <= Cardinality(S)
  BY RunsFinite, FS_Subset

\* Min and Max of the library, for the nonempty sets of runs the code takes
\* them of: they are there, and nothing is less, or greater.
LEMMA MinOfRuns ==
  ASSUME NEW S \in SUBSET RunId, S # {}
  PROVE  /\ Min(S) \in S
         /\ \A s \in S : Min(S) <= s
<1> DEFINE Less(x) == {y \in S : y < x}
           R == StrictSubsetOrdering(S)
           T == {Less(x) : x \in S}
<1>1. \A x \in S : x \in Int
  BY RetentionAssumption DEF RunId
<1>2. IsWellFoundedOn(R, SUBSET S)
  BY RunsFinite, FS_StrictSubsetOrderingWellFounded, FS_FiniteSubsetsOfFinite
<1>3. \E Z \in T : \A Y \in T : <<Y, Z>> \notin R
  <2>1. T \subseteq SUBSET S /\ T # {}
    OBVIOUS
  <2> HIDE DEF R, T
  <2> QED
    BY <1>2, <2>1, WFMin
<1>4. PICK x \in S : \A y \in S : <<Less(y), Less(x)>> \notin R
  BY <1>3
<1>5. \A y \in S : x <= y
  <2> SUFFICES ASSUME NEW y \in S, y < x
               PROVE  FALSE
    BY <1>1
  <2>1. Less(y) \subseteq Less(x) /\ y \in Less(x) /\ y \notin Less(y)
    BY <1>1
  <2>2. <<Less(y), Less(x)>> \in R
    BY <2>1 DEF StrictSubsetOrdering
  <2> QED
    BY <1>4, <2>2
<1>6. QED
  BY <1>5 DEF Min

LEMMA MaxOfRuns ==
  ASSUME NEW S \in SUBSET RunId, S # {}
  PROVE  /\ Max(S) \in S
         /\ \A s \in S : s <= Max(S)
<1> DEFINE More(x) == {y \in S : x < y}
           R == StrictSubsetOrdering(S)
           T == {More(x) : x \in S}
<1>1. \A x \in S : x \in Int
  BY RetentionAssumption DEF RunId
<1>2. IsWellFoundedOn(R, SUBSET S)
  BY RunsFinite, FS_StrictSubsetOrderingWellFounded, FS_FiniteSubsetsOfFinite
<1>3. \E Z \in T : \A Y \in T : <<Y, Z>> \notin R
  <2>1. T \subseteq SUBSET S /\ T # {}
    OBVIOUS
  <2> HIDE DEF R, T
  <2> QED
    BY <1>2, <2>1, WFMin
<1>4. PICK x \in S : \A y \in S : <<More(y), More(x)>> \notin R
  BY <1>3
<1>5. \A y \in S : y <= x
  <2> SUFFICES ASSUME NEW y \in S, x < y
               PROVE  FALSE
    BY <1>1
  <2>1. More(y) \subseteq More(x) /\ y \in More(x) /\ y \notin More(y)
    BY <1>1
  <2>2. <<More(y), More(x)>> \in R
    BY <2>1 DEF StrictSubsetOrdering
  <2> QED
    BY <1>4, <2>2
<1>6. QED
  BY <1>1, <1>5 DEF Max

-----------------------------------------------------------------------------
(* Type correctness. *)

\* A recorder has a run until it has let go of its lock, and run_stats reads
\* a candidate only while there is one left to read.
Busy ==
  \A p \in Procs : /\ pc[p] \in Live \cup {"unlocking"} => cur[p] \in RunId
                   /\ pc[p] = "reading" => unread[p] # {}

TypeInv == TypeOK /\ Busy

\* A prune's plan is a set of steps, and a step leaves a row of the table.
LEMMA PlanType == Plan \subseteq Step
  BY DEF Plan, StepFor, Step, Due, WithStats

LEMMA PrunedType ==
  ASSUME NEW r \in RunId, row[r] \in Row, NEW by \in {ByRuns, ByEvidence, ByDays}
  PROVE  Pruned(r, by) \in Row
<1>1. CASE by = ByEvidence
  BY <1>1 DEF Pruned, Row, Kept, ByRuns, ByEvidence, ByDays
<1>2. CASE by \in {ByRuns, ByDays}
  BY <1>2 DEF Pruned, Row, Kept, ByRuns, ByEvidence, ByDays
<1>3. QED
  BY <1>1, <1>2

LEMMA FinishedType ==
  ASSUME NEW r \in RunId, row[r] \in Row, today \in Day,
         NEW status \in {"finished", "interrupted"}, NEW B \in SUBSET RunId
  PROVE  FinishedRow(r, status, B) \in Row
  BY DEF FinishedRow, Row

LEMMA AbsentType == Absent \in Row
  BY RetentionAssumption DEF Absent, Row, Day, Kept

LEMMA TypeInit == Init => TypeInv
  BY AbsentType, RetentionAssumption, ProcsAssumption
  DEF Init, TypeInv, TypeOK, Busy, PC, Live, Day, NoRun

\* What leaves a process without work of its own leaves the types as they are.
LEMMA ExitType ==
  ASSUME TypeInv, NEW p \in Procs, Exit(p), crashes' \in 0..MaxCrashes
  PROVE  TypeInv'
  BY DEF Exit, TypeInv, TypeOK, Busy, PC, Live, NoRun

LEMMA TypeStep == TypeInv /\ [Next]_vars => TypeInv'
<1> SUFFICES ASSUME TypeInv, [Next]_vars
             PROVE  TypeInv'
  OBVIOUS
<1> USE DEF TypeInv, TypeOK, Busy
<1>1. ASSUME NEW p \in Procs, NEW c \in Contexts, InsertRun(p, c)
      PROVE  TypeInv'
  <2>1. PICK r \in RunId :
          row' = [row EXCEPT ![r] = [Absent EXCEPT !.context = c,
                                                   !.status = "unfinished",
                                                   !.started = today]]
          /\ cur' = [cur EXCEPT ![p] = r]
    BY <1>1 DEF InsertRun
  <2>2. [Absent EXCEPT !.context = c, !.status = "unfinished", !.started = today] \in Row
    BY AbsentType DEF Row
  <2>3. QED
    BY <1>1, <2>1, <2>2 DEF InsertRun, Goto, PC, Live
<1>2. ASSUME NEW p \in Procs, CreateLock(p)
      PROVE  TypeInv'
  BY <1>2 DEF CreateLock, Goto, PC, Live
<1>3. ASSUME NEW p \in Procs, TakeLock(p)
      PROVE  TypeInv'
  <2>1. PICK capture \in SUBSET {{"dir", "capture"}} :
          files' = [files EXCEPT ![cur[p]] = @ \cup UNION capture]
    BY <1>3 DEF TakeLock
  <2>2. UNION capture \subseteq {"dir", "capture"}
    OBVIOUS
  <2>3. files' \in [RunId -> SUBSET {"dir", "lock", "capture"}]
    BY <2>1, <2>2
  <2>4. QED
    BY <1>3, <2>3 DEF TakeLock, Goto, PC, Live
<1>4. ASSUME NEW p \in Procs, ReadCandidates(p)
      PROVE  TypeInv'
  BY <1>4 DEF ReadCandidates, Candidates, UsableWithStats, WithStats, Goto, PC, Live, disk
<1>5. ASSUME NEW p \in Procs, Require(p)
      PROVE  TypeInv'
  BY <1>5 DEF Require, Goto, PC, Live, disk
<1>6. ASSUME NEW p \in Procs, ReadStats(p)
      PROVE  TypeInv'
  <2>1. unread[p] \subseteq RunId /\ unread[p] # {}
    BY <1>6 DEF ReadStats, Goto
  <2>2. Max(unread[p]) \in RunId
    BY <2>1, MaxOfRuns
  <2>3. QED
    BY <1>6, <2>2 DEF ReadStats, Goto, PC, Live, disk
<1>7. ASSUME NEW p \in Procs, FinishRun(p)
      PROVE  TypeInv'
  <2>1. PICK B \in SUBSET seen[p] :
          row' = [row EXCEPT ![cur[p]] = FinishedRow(cur[p], "finished", B)]
    BY <1>7 DEF FinishRun
  <2>2. FinishedRow(cur[p], "finished", B) \in Row
    BY <1>7, FinishedType DEF FinishRun, Goto, Live
  <2>3. QED
    BY <1>7, <2>1, <2>2 DEF FinishRun, Goto, PC, Live, disk
<1>8. ASSUME NEW p \in Procs, FinishInterruptedRun(p)
      PROVE  TypeInv'
  <2>1. FinishedRow(cur[p], "interrupted", {}) \in Row
    BY <1>8, FinishedType DEF FinishInterruptedRun, Goto, Live
  <2>2. QED
    BY <1>8, <2>1 DEF FinishInterruptedRun, Goto, PC, Live, disk
<1>9. ASSUME NEW p \in Procs, StopRecording(p)
      PROVE  TypeInv'
  BY <1>9 DEF StopRecording, Goto, PC, Live
<1>10. ASSUME NEW p \in Procs, StartGc(p)
       PROVE  TypeInv'
  BY <1>10 DEF StartGc, Goto, PC, Live, disk
<1>11. ASSUME NEW p \in Procs, PlanPrune(p)
       PROVE  TypeInv'
  <2>1. raced' \in SUBSET RunId
    BY <1>11, PlanType DEF PlanPrune, LiveRuns, Step
  <2>2. QED
    BY <1>11, <2>1, PlanType DEF PlanPrune, PC, Live, disk
<1>12. ASSUME NEW p \in Procs, PruneBatch(p)
       PROVE  TypeInv'
  <2>1. PICK done \in SUBSET due[p] :
          /\ row' = [r \in RunId |->
                       IF \E s \in done : s.run = r
                       THEN Pruned(r, (CHOOSE s \in done : s.run = r).by)
                       ELSE row[r]]
          /\ doomed' = [doomed EXCEPT ![p] = Removals(p, done)]
          /\ again' = [again EXCEPT ![p] = /\ cur[p] = NoRun
                                            /\ Progressed(done)
                                            /\ Plan' # {}]
    BY <1>12 DEF PruneBatch
  <2>2. \A s \in done : s.run \in RunId /\ s.by \in {ByRuns, ByEvidence, ByDays}
    BY DEF Step
  <2>3. row' \in [RunId -> Row]
    BY <2>1, <2>2, PrunedType
  <2>4. Removals(p, done) \subseteq RunId
    BY <2>2 DEF Removals
  <2>5. QED
    BY <1>12, <2>1, <2>3, <2>4 DEF PruneBatch, Goto, PC, Live, disk
<1>13. ASSUME NEW p \in Procs, RemoveCapture(p)
       PROVE  TypeInv'
  BY <1>13 DEF RemoveCapture
<1>14. ASSUME NEW p \in Procs, NextBatch(p)
       PROVE  TypeInv'
  BY <1>14 DEF NextBatch, Goto, PC, Live, disk
<1>15. ASSUME NEW p \in Procs, SweepOrphans(p)
       PROVE  TypeInv'
  BY <1>15 DEF SweepOrphans, Orphans, Goto, PC, Live, disk
<1>16. ASSUME NEW p \in Procs, Vacuum(p)
       PROVE  TypeInv'
  BY <1>16 DEF Vacuum, Goto, PC, Live, disk
<1>17. ASSUME NEW p \in Procs, Leave(p)
       PROVE  TypeInv'
  BY <1>17, ExitType DEF Leave, Done, GiveUp, FailPruned
<1>18. ASSUME NEW p \in Procs, Crash(p)
       PROVE  TypeInv'
  <2>1. crashes' \in 0..MaxCrashes
    BY <1>18, ProcsAssumption DEF Crash
  <2>2. QED
    BY <1>18, <2>1, ExitType DEF Crash
<1>19. CASE Tick
  BY <1>19, RetentionAssumption DEF Tick, Day, disk
<1>20. CASE UNCHANGED vars
  BY <1>20 DEF vars
<1>21. QED
  BY <1>1, <1>2, <1>3, <1>4, <1>5, <1>6, <1>7, <1>8, <1>9, <1>10, <1>11,
     <1>12, <1>13, <1>14, <1>15, <1>16, <1>17, <1>18, <1>19, <1>20
  DEF Next, Begin, Finish, Prune, Rest, Procs

LEMMA TypeInvariant == Spec => []TypeInv
  BY TypeInit, TypeStep, PTL DEF Spec

\* The variables keep their types (store/schema.rs runs, the recorder's and
\* the pruner's states), whatever the settings and however many processes.
THEOREM TypeCorrect == Spec => []TypeOK
<1>1. TypeInv => TypeOK
  BY DEF TypeInv
<1>2. QED
  BY <1>1, TypeInvariant, PTL

-----------------------------------------------------------------------------
(* Who records what. *)

\* A run being recorded is unfinished and has one recorder, and a process
\* that carries out a plan holds SQLite's write lock.
RecorderInv ==
  /\ \A p \in Procs : pc[p] \in Live => row[cur[p]].status = "unfinished"
  /\ \A p, q \in Procs : pc[p] \in Live /\ pc[q] \in Live /\ cur[p] = cur[q] => p = q
  /\ \A p \in Procs : pc[p] = "pruning" => writer = p

\* A prune changes what is kept of a run, not what it was.
LEMMA PrunedKeeps ==
  ASSUME NEW r \in RunId, row[r] \in Row, NEW by
  PROVE  /\ Pruned(r, by).context = row[r].context
         /\ Pruned(r, by).status = row[r].status
         /\ Pruned(r, by).baseline = row[r].baseline
<1>1. CASE by = ByEvidence
  BY <1>1 DEF Pruned, Row
<1>2. CASE by # ByEvidence
  BY <1>2 DEF Pruned, Row
<1>3. QED
  BY <1>1, <1>2

LEMMA BatchKeeps ==
  ASSUME TypeInv, NEW p \in Procs, PruneBatch(p), NEW r \in RunId
  PROVE  /\ row'[r].context = row[r].context
         /\ row'[r].status = row[r].status
         /\ row'[r].baseline = row[r].baseline
<1>1. row'[r] = row[r] \/ \E by : row'[r] = Pruned(r, by)
  BY DEF PruneBatch
<1>2. row[r] \in Row
  BY DEF TypeInv, TypeOK
<1>3. QED
  BY <1>1, <1>2, PrunedKeeps

LEMMA FinishedKeeps ==
  ASSUME NEW r \in RunId, row[r] \in Row, NEW status, NEW B
  PROVE  /\ FinishedRow(r, status, B).context = row[r].context
         /\ FinishedRow(r, status, B).status = status
         /\ FinishedRow(r, status, B).baseline = B
         /\ FinishedRow(r, status, B).statsPruned = row[r].statsPruned
         /\ FinishedRow(r, status, B).evidencePruned = row[r].evidencePruned
  BY DEF FinishedRow, Row

LEMMA AbsentBegun ==
  ASSUME NEW c, NEW A, A = [Absent EXCEPT !.context = c, !.status = "unfinished",
                                          !.started = today]
  PROVE  /\ A.context = c /\ A.status = "unfinished" /\ A.baseline = {}
         /\ A.statsPruned = Kept /\ A.evidencePruned = Kept
         /\ A.stats = FALSE /\ A.exemplars = FALSE
  BY DEF Absent

LEMMA BegunRow ==
  ASSUME TypeInv, NEW p \in Procs, NEW c, InsertRun(p, c)
  PROVE  \E s \in RunId :
           /\ ~ Began(s)
           /\ cur' = [cur EXCEPT ![p] = s]
           /\ \A r \in RunId \ {s} : row'[r] = row[r]
           /\ row'[s].status = "unfinished" /\ row'[s].baseline = {}
           /\ row'[s].statsPruned = Kept /\ row'[s].evidencePruned = Kept
           /\ row'[s].stats = FALSE
<1>1. PICK s \in RunId :
        /\ ~ Began(s)
        /\ cur' = [cur EXCEPT ![p] = s]
        /\ row' = [row EXCEPT ![s] = [Absent EXCEPT !.context = c,
                                                    !.status = "unfinished",
                                                    !.started = today]]
  BY DEF InsertRun, NextId
<1>2. DEFINE A == [Absent EXCEPT !.context = c, !.status = "unfinished",
                                 !.started = today]
<1>3. row'[s] = A /\ \A r \in RunId \ {s} : row'[r] = row[r]
  BY <1>1 DEF TypeInv, TypeOK
<1>4. /\ A.status = "unfinished" /\ A.baseline = {} /\ A.stats = FALSE
      /\ A.statsPruned = Kept /\ A.evidencePruned = Kept
  BY AbsentBegun
<1> HIDE DEF A
<1>5. QED
  BY <1>1, <1>3, <1>4

LEMMA RecorderStep == TypeInv /\ RecorderInv /\ [Next]_vars => RecorderInv'
<1> SUFFICES ASSUME TypeInv, RecorderInv, [Next]_vars
             PROVE  RecorderInv'
  OBVIOUS
<1> USE DEF RecorderInv, TypeInv, TypeOK
<1>1. ASSUME NEW p \in Procs, NEW c \in Contexts, InsertRun(p, c)
      PROVE  RecorderInv'
  <2>1. PICK s \in RunId : 
           /\ ~ Began(s)
           /\ cur' = [cur EXCEPT ![p] = s]
           /\ row'[s].status = "unfinished"
           /\ \A r \in RunId \ {s} : row'[r] = row[r]
    BY <1>1, BegunRow
  <2>2. \A q \in Procs \ {p} : pc[q] \in Live => cur[q] \in RunId /\ cur[q] # s
    BY <2>1 DEF Busy, Began
  <2>3. QED
    BY <1>1, <2>1, <2>2 DEF InsertRun, Goto, Live, Busy
<1>2. ASSUME NEW p \in Procs, CreateLock(p) \/ TakeLock(p) \/ StopRecording(p)
      PROVE  RecorderInv'
  BY <1>2 DEF CreateLock, TakeLock, StopRecording, Goto, Live
<1>3. ASSUME NEW p \in Procs, ReadCandidates(p) \/ Require(p) \/ ReadStats(p)
      PROVE  RecorderInv'
  BY <1>3 DEF ReadCandidates, Require, ReadStats, Goto, Live, disk
<1>4. ASSUME NEW p \in Procs, FinishRun(p) \/ FinishInterruptedRun(p)
      PROVE  RecorderInv'
  <2>1. PICK new : row' = [row EXCEPT ![cur[p]] = new]
    BY <1>4 DEF FinishRun, FinishInterruptedRun
  <2>2. pc[p] \in Live /\ pc' = [pc EXCEPT ![p] = "unlocking"] /\ UNCHANGED <<cur, writer>>
    BY <1>4 DEF FinishRun, FinishInterruptedRun, Goto, Live
  <2>3. \A q \in Procs \ {p} : pc[q] \in Live => row'[cur[q]] = row[cur[q]]
    BY <2>1, <2>2 DEF Busy
  <2>4. QED
    BY <2>2, <2>3 DEF Live
<1>5. ASSUME NEW p \in Procs, PlanPrune(p)
      PROVE  RecorderInv'
  BY <1>5, ProcsAssumption DEF PlanPrune, Live, disk
<1>6. ASSUME NEW p \in Procs, PruneBatch(p)
      PROVE  RecorderInv'
  <2>1. \A r \in RunId : row'[r].status = row[r].status
    BY <1>6, BatchKeeps
  <2>2. pc[p] = "pruning" /\ pc' = [pc EXCEPT ![p] = "removing"] /\ UNCHANGED cur
    BY <1>6 DEF PruneBatch, Goto
  <2>3. QED
    BY <2>1, <2>2 DEF Live, Busy
<1>7. ASSUME NEW p \in Procs, StartGc(p) \/ RemoveCapture(p) \/ NextBatch(p) \/ SweepOrphans(p)
      PROVE  RecorderInv'
  BY <1>7 DEF StartGc, RemoveCapture, NextBatch, SweepOrphans, Goto, Live, disk
<1>8. ASSUME NEW p \in Procs, Vacuum(p)
      PROVE  RecorderInv'
  BY <1>8, ProcsAssumption DEF Vacuum, Goto, Live, disk
<1>9. ASSUME NEW p \in Procs, Leave(p) \/ Crash(p)
      PROVE  RecorderInv'
  BY <1>9 DEF Leave, Done, GiveUp, FailPruned, Crash, Exit, Live
<1>10. CASE Tick \/ UNCHANGED vars
  BY <1>10 DEF Tick, vars, disk
<1>11. QED
  BY <1>1, <1>2, <1>3, <1>4, <1>5, <1>6, <1>7, <1>8, <1>9, <1>10
  DEF Next, Begin, Finish, Prune, Rest, Procs

LEMMA RecorderInvariant == Spec => []RecorderInv
<1>1. Init => RecorderInv
  BY DEF Init, RecorderInv, Live
<1>2. QED
  BY <1>1, TypeInvariant, RecorderStep, PTL DEF Spec

-----------------------------------------------------------------------------
(* What a run is compared with. *)

\* The candidates of a comparison under way, read and unread.
Compared(p) == unread[p] \cup seen[p]

\* run r may be judged against every run of S.
Judges(r, S) ==
  /\ Cardinality(S) <= MAX_RUNS
  /\ \A s \in S : s < r /\ Usable(s) /\ row[s].context = row[r].context

BaselineInv ==
  /\ \A p \in Procs :
       IF pc[p] \in {"comparing", "reading"} THEN Judges(cur[p], Compared(p))
                                             ELSE Compared(p) = {}
  /\ BaselineSound

\* The window's LIMIT: of a set of runs, those with fewer than n newer ones
\* are at most n.
LEMMA NewestBound ==
  ASSUME NEW S \in SUBSET RunId, NEW n \in Nat
  PROVE  Cardinality({s \in S : Cardinality({t \in S : t > s}) < n}) <= n
<1> DEFINE N == {s \in S : Cardinality({t \in S : t > s}) < n}
<1> SUFFICES Cardinality(N) <= n
  OBVIOUS
<1>1. N \subseteq S
  OBVIOUS
<1>2. \A s \in N : Cardinality({t \in S : t > s}) < n
  OBVIOUS
<1> HIDE DEF N
<1>3. N \subseteq RunId /\ \A s \in S : s \in Int
  BY <1>1, RetentionAssumption DEF RunId
<1>4. CASE N = {}
  BY <1>4, FS_EmptySet
<1>5. CASE N # {}
  <2>1. PICK m \in N : \A s \in N : m <= s
    BY <1>3, <1>5, MinOfRuns
  <2> DEFINE T == {t \in S : t > m}
  <2>2. N \ {m} \subseteq T
    BY <1>3, <1>1, <2>1
  <2>3. Cardinality(T) < n
    BY <1>2, <2>1
  <2>4. T \in SUBSET RunId
    OBVIOUS
  <2> HIDE DEF T
  <2>5. Cardinality(N \ {m}) <= Cardinality(T)
    BY <2>2, <2>4, FewerRuns
  <2>6. Cardinality(N \ {m}) = Cardinality(N) - 1
    BY <1>3, <2>1, RunsFinite, FS_RemoveElement
  <2>7. Cardinality(N) \in Nat /\ Cardinality(T) \in Nat
    BY <1>3, <2>4, RunsFinite
  <2>8. QED
    BY <2>3, <2>5, <2>6, <2>7
<1>6. QED
  BY <1>4, <1>5

LEMMA CandidatesSound ==
  ASSUME NEW r \in RunId
  PROVE  Judges(r, Candidates(r))
<1> DEFINE Earlier == {s \in UsableWithStats(row[r].context) : s < r}
<1>1. Earlier \subseteq RunId
  BY DEF UsableWithStats, WithStats
<1>2. Candidates(r) = {s \in Earlier : Cardinality({t \in Earlier : t > s}) < MAX_RUNS}
  BY DEF Candidates
<1>3. Cardinality(Candidates(r)) <= MAX_RUNS
  <2> HIDE DEF Earlier
  <2>1. QED
    BY <1>1, <1>2, NewestBound, RetentionAssumption
<1>4. QED
  BY <1>2, <1>3 DEF Judges, UsableWithStats, WithStats

\* Nothing a step does to the rows makes a comparison unsound: usable runs
\* stay usable and in their context, and so does the run compared with them.
LEMMA JudgesKept ==
  ASSUME NEW r \in RunId, NEW S \in SUBSET RunId, Judges(r, S),
         row'[r].context = row[r].context,
         \A s \in S : row'[s].context = row[s].context /\ row'[s].status = row[s].status
  PROVE  Judges(r, S)'
  BY DEF Judges, Usable

LEMMA SmallerJudged ==
  ASSUME NEW r \in RunId, NEW S \in SUBSET RunId, Judges(r, S), NEW T \in SUBSET S
  PROVE  Judges(r, T)
  BY RunsFinite, FewerRuns, RetentionAssumption DEF Judges

LEMMA NothingJudged == \A r : Judges(r, {})
  BY FS_EmptySet, RetentionAssumption DEF Judges

LEMMA BaselineInit == Init => BaselineInv
<1> SUFFICES ASSUME Init
             PROVE  BaselineInv
  OBVIOUS
<1>1. \A p \in Procs : pc[p] = "idle" /\ Compared(p) = {}
  BY DEF Init, Compared
<1>2. \A r \in RunId : row[r].baseline = {}
  BY DEF Init, Absent
<1>3. QED
  BY <1>1, <1>2, FS_EmptySet, RetentionAssumption DEF BaselineInv, BaselineSound

\* A step that leaves rows as they were, but for what pruning takes, and the
\* comparisons under way, keeps the invariant.
LEMMA BaselineFrame ==
  ASSUME TypeInv, TypeInv', BaselineInv,
         \A r \in RunId : /\ row'[r].context = row[r].context
                          /\ row'[r].status = row[r].status
                          /\ row'[r].baseline = row[r].baseline,
         \A p \in Procs :
           \/ pc'[p] \notin {"comparing", "reading"} /\ Compared(p)' = {}
           \/ /\ pc[p] \in {"comparing", "reading"} /\ pc'[p] \in {"comparing", "reading"}
              /\ Compared(p)' = Compared(p) /\ cur'[p] = cur[p]
  PROVE  BaselineInv'
<1>1. ASSUME NEW p \in Procs, pc'[p] \in {"comparing", "reading"}
      PROVE  Judges(cur[p], Compared(p))' 
  <2>1. cur[p] \in RunId /\ Compared(p) \in SUBSET RunId
    BY <1>1 DEF TypeInv, TypeOK, Busy, Live, Compared
  <2>2. Judges(cur[p], Compared(p)) /\ Compared(p)' = Compared(p) /\ cur'[p] = cur[p]
    BY <1>1 DEF BaselineInv
  <2>3. QED
    BY <2>1, <2>2 DEF Judges, Usable
<1>2. BaselineSound'
  BY DEF BaselineInv, BaselineSound, Usable, TypeInv, TypeOK, Row
<1>3. QED
  BY <1>1, <1>2 DEF BaselineInv

\* The commit of a finish, with a baseline its run may be judged against.
LEMMA FinishStep ==
  ASSUME TypeInv, TypeInv', BaselineInv, NEW p \in Procs,
         pc[p] \in {"comparing", "recording"}, cur[p] \in RunId,
         row[cur[p]].status = "unfinished",
         NEW status \in {"finished", "interrupted"}, NEW B \in SUBSET RunId,
         Judges(cur[p], B),
         row' = [row EXCEPT ![cur[p]] = FinishedRow(cur[p], status, B)],
         \A q \in Procs : /\ pc'[q] = IF q = p THEN "unlocking" ELSE pc[q]
                          /\ cur'[q] = cur[q]
                          /\ Compared(q)' = IF q = p THEN {} ELSE Compared(q)
  PROVE  BaselineInv'
<1> DEFINE f == cur[p]
<1>1. /\ row'[f].context = row[f].context
      /\ row'[f].status = status
      /\ row'[f].baseline = B
      /\ \A r \in RunId \ {f} : row'[r] = row[r]
  BY FinishedKeeps DEF TypeInv, TypeOK
<1>2. \A r \in RunId : row'[r].context = row[r].context
  BY <1>1
<1>3. \A r \in RunId : Usable(r) => Usable(r)'
  BY <1>1 DEF Usable
<1>4. ASSUME NEW r \in RunId, NEW S \in SUBSET RunId, Judges(r, S)
      PROVE  /\ Cardinality(S) <= MAX_RUNS
             /\ \A s \in S : s < r /\ Usable(s)' /\ row'[s].context = row'[r].context
  BY <1>2, <1>3, <1>4 DEF Judges
<1>5. BaselineSound'
  <2>1. ASSUME NEW r \in RunId
        PROVE  /\ Cardinality(row'[r].baseline) <= MAX_RUNS
               /\ \A b \in row'[r].baseline :
                    b < r /\ Usable(b)' /\ row'[b].context = row'[r].context
    <3>1. Judges(r, row'[r].baseline) /\ row'[r].baseline \in SUBSET RunId
      BY <1>1 DEF BaselineInv, BaselineSound, Judges, TypeInv, TypeOK, Row
    <3>2. QED
      BY <1>4, <3>1
  <2>2. QED
    BY <2>1 DEF BaselineSound
<1>6. ASSUME NEW q \in Procs, pc'[q] \in {"comparing", "reading"}
      PROVE  Judges(cur[q], Compared(q))'
  <2>1. q # p /\ pc[q] \in {"comparing", "reading"} /\ Compared(q)' = Compared(q)
        /\ cur'[q] = cur[q]
    BY <1>6
  <2>2. Judges(cur[q], Compared(q)) /\ cur[q] \in RunId /\ Compared(q) \in SUBSET RunId
    BY <2>1 DEF BaselineInv, TypeInv, TypeOK, Busy, Live, Compared
  <2>3. QED
    BY <1>4, <2>1, <2>2 DEF Judges
<1>7. ASSUME NEW q \in Procs, pc'[q] \notin {"comparing", "reading"}
      PROVE  Compared(q)' = {}
  BY <1>7 DEF BaselineInv
<1>8. QED
  BY <1>5, <1>6, <1>7 DEF BaselineInv

LEMMA BaselineStep ==
  TypeInv /\ TypeInv' /\ RecorderInv /\ BaselineInv /\ [Next]_vars => BaselineInv'
<1> SUFFICES ASSUME TypeInv, TypeInv', RecorderInv, BaselineInv, [Next]_vars
             PROVE  BaselineInv'
  OBVIOUS
<1>1. ASSUME NEW p \in Procs, NEW c \in Contexts, InsertRun(p, c)
      PROVE  BaselineInv'
  <2>1. PICK s \in RunId :
           /\ ~ Began(s)
           /\ cur' = [cur EXCEPT ![p] = s]
           /\ row'[s].status = "unfinished" /\ row'[s].baseline = {}
           /\ row'[s].stats = FALSE
           /\ \A r \in RunId \ {s} : row'[r] = row[r]
    BY <1>1, BegunRow DEF BaselineInv
  <2>2. /\ row'[s].baseline = {}
        /\ \A r \in RunId \ {s} : row'[r] = row[r]
        /\ ~ Usable(s)
    BY <2>1 DEF Usable, Began
  <2>3. /\ pc' = [pc EXCEPT ![p] = "inserted"] /\ pc[p] = "idle"
        /\ \A q \in Procs : Compared(q)' = Compared(q)
    BY <1>1 DEF InsertRun, Goto, Compared
  <2>4. ASSUME NEW q \in Procs, pc'[q] \in {"comparing", "reading"}
        PROVE  Judges(cur[q], Compared(q))'
    <3>1. pc[q] \in {"comparing", "reading"} /\ cur'[q] = cur[q] /\ q # p
      BY <2>1, <2>3, <2>4 DEF TypeInv, TypeOK
    <3>2. cur[q] \in RunId /\ Judges(cur[q], Compared(q)) /\ Compared(q) \subseteq RunId
      BY <3>1 DEF BaselineInv, TypeInv, TypeOK, Busy, Live, Compared
    <3>3. row[cur[q]].status = "unfinished"
      BY <3>1 DEF RecorderInv, Live
    <3>4. cur[q] # s /\ s \notin Compared(q)
      BY <2>1, <2>2, <3>2, <3>3 DEF Judges, Began
    <3>5. QED
      BY <2>2, <2>3, <3>1, <3>2, <3>4 DEF Judges, Usable
  <2>5. ASSUME NEW q \in Procs, pc'[q] \notin {"comparing", "reading"}
        PROVE  Compared(q)' = {}
    BY <2>3, <2>5 DEF BaselineInv, TypeInv, TypeOK
  <2>6. BaselineSound'
    <3>1. ASSUME NEW r \in RunId
          PROVE  /\ Cardinality(row'[r].baseline) <= MAX_RUNS
                 /\ \A b \in row'[r].baseline :
                      b < r /\ Usable(b)' /\ row'[b].context = row'[r].context
      <4>1. CASE r = s
        BY <2>2, <4>1, FS_EmptySet, RetentionAssumption
      <4>2. CASE r # s
        <5>1. row'[r] = row[r] /\ row[r].baseline \subseteq RunId
          BY <2>2, <4>2 DEF TypeInv, TypeOK, Row
        <5>2. QED
          BY <2>2, <5>1 DEF BaselineInv, BaselineSound, Usable
      <4>3. QED
        BY <4>1, <4>2
    <3>2. QED
      BY <3>1 DEF BaselineSound
  <2>7. QED
    BY <2>4, <2>5, <2>6 DEF BaselineInv
<1>2. ASSUME NEW p \in Procs, CreateLock(p) \/ TakeLock(p) \/ StopRecording(p)
      PROVE  BaselineInv'
  <2>1. /\ UNCHANGED <<row, cur, unread, seen>>
        /\ \A q \in Procs \ {p} : pc'[q] = pc[q]
        /\ {pc[p], pc'[p]} \cap {"comparing", "reading"} = {}
    BY <1>2 DEF CreateLock, TakeLock, StopRecording, Goto, TypeInv, TypeOK
  <2>2. QED
    BY <2>1, BaselineFrame DEF Compared, BaselineInv
<1>3. ASSUME NEW p \in Procs, ReadCandidates(p)
      PROVE  BaselineInv'
  <2>1. /\ pc[p] = "recording" /\ pc' = [pc EXCEPT ![p] = "comparing"]
        /\ unread' = [unread EXCEPT ![p] = Candidates(cur[p])]
        /\ UNCHANGED <<row, cur, seen>>
    BY <1>3 DEF ReadCandidates, Goto
  <2>2. cur[p] \in RunId /\ Judges(cur[p], Candidates(cur[p]))
    BY <2>1, CandidatesSound DEF TypeInv, Busy, Live
  <2>3. seen[p] = {}
    BY <2>1 DEF BaselineInv, Compared
  <2>4. Compared(p)' = Candidates(cur[p]) /\ \A q \in Procs \ {p} : Compared(q)' = Compared(q)
    BY <2>1, <2>3 DEF Compared, TypeInv, TypeOK
  <2>5. \A q \in Procs : pc'[q] = IF q = p THEN "comparing" ELSE pc[q]
    BY <2>1 DEF TypeInv, TypeOK
  <2>6. QED
    BY <2>1, <2>2, <2>4, <2>5 DEF BaselineInv, BaselineSound, Judges, Usable
<1>4. ASSUME NEW p \in Procs, Require(p)
      PROVE  BaselineInv'
  <2>1. /\ UNCHANGED <<row, cur, unread, seen>>
        /\ \A q \in Procs \ {p} : pc'[q] = pc[q]
        /\ {pc[p], pc'[p]} \subseteq {"comparing", "reading"}
    BY <1>4 DEF Require, Goto, TypeInv, TypeOK, disk
  <2>2. QED
    BY <2>1, BaselineFrame DEF Compared, BaselineInv
<1>5. ASSUME NEW p \in Procs, ReadStats(p)
      PROVE  BaselineInv'
  <2>1. /\ UNCHANGED <<row, cur>>
        /\ \A q \in Procs \ {p} : /\ pc'[q] = pc[q]
                                  /\ unread'[q] = unread[q] /\ seen'[q] = seen[q]
        /\ {pc[p], pc'[p]} \subseteq {"comparing", "reading"}
        /\ unread'[p] = unread[p] \ {Max(unread[p])}
        /\ seen'[p] = seen[p] \cup {Max(unread[p])}
    BY <1>5 DEF ReadStats, Goto, TypeInv, TypeOK, disk
  <2>2. Max(unread[p]) \in unread[p]
    BY <1>5, MaxOfRuns DEF ReadStats, Goto, TypeInv, TypeOK, Busy
  <2>3. \A q \in Procs : Compared(q)' = Compared(q)
    BY <2>1, <2>2 DEF Compared
  <2>4. QED
    BY <2>1, <2>3, BaselineFrame DEF BaselineInv
<1>6. ASSUME NEW p \in Procs, FinishRun(p)
      PROVE  BaselineInv'
  <2>1. PICK B \in SUBSET seen[p] :
          row' = [row EXCEPT ![cur[p]] = FinishedRow(cur[p], "finished", B)]
    BY <1>6 DEF FinishRun
  <2>2. /\ pc[p] = "comparing" /\ unread[p] = {}
        /\ \A q \in Procs : /\ pc'[q] = IF q = p THEN "unlocking" ELSE pc[q]
                            /\ unread'[q] = unread[q]
                            /\ seen'[q] = IF q = p THEN {} ELSE seen[q]
                            /\ cur'[q] = cur[q]
    BY <1>6 DEF FinishRun, Goto, TypeInv, TypeOK
  <2>3. cur[p] \in RunId /\ Judges(cur[p], seen[p]) /\ seen[p] \subseteq RunId
    BY <2>2 DEF BaselineInv, Compared, TypeInv, TypeOK, Busy, Live
  <2>4. Judges(cur[p], B)
    BY <2>3, SmallerJudged
  <2>5. row[cur[p]].status = "unfinished"
    BY <2>2 DEF RecorderInv, Live
  <2>6. \A q \in Procs : Compared(q)' = IF q = p THEN {} ELSE Compared(q)
    BY <2>2 DEF Compared
  <2>7. B \in SUBSET RunId
    BY <2>3
  <2>8. QED
    BY <2>1, <2>2, <2>3, <2>4, <2>5, <2>6, <2>7, FinishStep
<1>7. ASSUME NEW p \in Procs, FinishInterruptedRun(p)
      PROVE  BaselineInv'
  <2>1. row' = [row EXCEPT ![cur[p]] = FinishedRow(cur[p], "interrupted", {})]
    BY <1>7 DEF FinishInterruptedRun
  <2>2. /\ pc[p] = "recording"
        /\ \A q \in Procs : /\ pc'[q] = IF q = p THEN "unlocking" ELSE pc[q]
                            /\ unread'[q] = unread[q]
                            /\ seen'[q] = seen[q]
                            /\ cur'[q] = cur[q]
    BY <1>7 DEF FinishInterruptedRun, Goto, TypeInv, TypeOK, disk
  <2>3. cur[p] \in RunId /\ Compared(p) = {}
    BY <2>2 DEF BaselineInv, TypeInv, TypeOK, Busy, Live
  <2>4. row[cur[p]].status = "unfinished"
    BY <2>2 DEF RecorderInv, Live
  <2>5. \A q \in Procs : Compared(q)' = IF q = p THEN {} ELSE Compared(q)
    BY <2>2, <2>3 DEF Compared
  <2>6. QED
    BY <2>1, <2>2, <2>3, <2>4, <2>5, NothingJudged, FinishStep
<1>8. ASSUME NEW p \in Procs, PruneBatch(p)
      PROVE  BaselineInv'
  <2>1. \A r \in RunId : /\ row'[r].context = row[r].context
                         /\ row'[r].status = row[r].status
                         /\ row'[r].baseline = row[r].baseline
    BY <1>8, BatchKeeps
  <2>2. /\ UNCHANGED <<cur, unread, seen>>
        /\ \A q \in Procs \ {p} : pc'[q] = pc[q]
        /\ {pc[p], pc'[p]} \cap {"comparing", "reading"} = {}
    BY <1>8 DEF PruneBatch, Goto, TypeInv, TypeOK
  <2>3. QED
    BY <2>1, <2>2, BaselineFrame DEF Compared, BaselineInv
<1>9. ASSUME NEW p \in Procs, StartGc(p) \/ PlanPrune(p) \/ RemoveCapture(p)
                              \/ NextBatch(p) \/ SweepOrphans(p) \/ Vacuum(p)
      PROVE  BaselineInv'
  <2>1. /\ UNCHANGED <<row, cur, unread, seen>>
        /\ \A q \in Procs \ {p} : pc'[q] = pc[q]
        /\ {pc[p], pc'[p]} \cap {"comparing", "reading"} = {}
    BY <1>9 DEF StartGc, PlanPrune, RemoveCapture, NextBatch, SweepOrphans,
                Vacuum, Goto, TypeInv, TypeOK, disk
  <2>2. QED
    BY <2>1, BaselineFrame DEF Compared, BaselineInv
<1>10. ASSUME NEW p \in Procs, Leave(p) \/ Crash(p)
       PROVE  BaselineInv'
  <2>1. /\ UNCHANGED row
        /\ pc'[p] = "idle" /\ unread'[p] = {} /\ seen'[p] = {}
        /\ \A q \in Procs \ {p} : /\ pc'[q] = pc[q] /\ cur'[q] = cur[q]
                                  /\ unread'[q] = unread[q] /\ seen'[q] = seen[q]
    BY <1>10 DEF Leave, Done, GiveUp, FailPruned, Crash, Exit, TypeInv, TypeOK
  <2>2. QED
    BY <2>1, BaselineFrame DEF Compared, BaselineInv
<1>11. CASE Tick \/ UNCHANGED vars
  BY <1>11, BaselineFrame DEF Tick, vars, disk, Compared, BaselineInv
<1>12. QED
  BY <1>1, <1>2, <1>3, <1>4, <1>5, <1>6, <1>7, <1>8, <1>9, <1>10, <1>11
  DEF Next, Begin, Finish, Prune, Rest, Procs

LEMMA BaselineInvariant == Spec => []BaselineInv
  BY BaselineInit, BaselineStep, TypeInvariant, RecorderInvariant, PTL DEF Spec

\* A run is judged against at most MAX_RUNS earlier usable runs of its own
\* context, whatever was recorded, finished and pruned beside it (read.rs
\* baseline_runs, record.rs finish).
THEOREM BaselinesSound == Spec => []BaselineSound
<1>1. BaselineInv => BaselineSound
  BY DEF BaselineInv
<1>2. QED
  BY <1>1, BaselineInvariant, PTL

-----------------------------------------------------------------------------
(* What pruning may never do: the limits keep what they promise, nothing is *)
(* left where no later prune looks, and the rows implement RunHistory.      *)

-----------------------------------------------------------------------------
(* What a step may do to a row. *)

Born(r) ==
  /\ ~ Began(r)
  /\ row'[r].status = "unfinished" /\ row'[r].baseline = {}
  /\ row'[r].statsPruned = Kept /\ row'[r].evidencePruned = Kept

Closed(r) ==
  /\ \E p \in Procs : pc[p] \in Live /\ pc'[p] \notin Live /\ cur[p] = r
  /\ row'[r].status \in {"finished", "interrupted"}
  /\ row'[r].context = row[r].context
  /\ row'[r].statsPruned = row[r].statsPruned
  /\ row'[r].evidencePruned = row[r].evidencePruned

Taken(r) ==
  \E p \in Procs : pc[p] = "pruning" /\ \E s \in due[p] : s.run = r /\ row'[r] = Pruned(r, s.by)

RowFate(r) == row'[r] = row[r] \/ Born(r) \/ Closed(r) \/ Taken(r)

LEMMA RowFates ==
  ASSUME TypeInv, [Next]_vars, NEW r \in RunId
  PROVE  RowFate(r)
<1> USE DEF TypeInv, TypeOK, RowFate
<1>1. ASSUME NEW p \in Procs, NEW c \in Contexts, InsertRun(p, c)
      PROVE  RowFate(r)
  <2>1. PICK s \in RunId :
           /\ ~ Began(s)
           /\ row'[s].status = "unfinished" /\ row'[s].baseline = {}
           /\ row'[s].statsPruned = Kept /\ row'[s].evidencePruned = Kept
           /\ \A q \in RunId \ {s} : row'[q] = row[q]
    BY <1>1, BegunRow
  <2>2. CASE r = s
    BY <2>1, <2>2 DEF Born
  <2>3. CASE r # s
    BY <2>1, <2>3
  <2>4. QED
    BY <2>2, <2>3
<1>2. ASSUME NEW p \in Procs, FinishRun(p) \/ FinishInterruptedRun(p)
      PROVE  RowFate(r)
  <2>1. PICK status \in {"finished", "interrupted"}, B \in SUBSET seen[p] :
          row' = [row EXCEPT ![cur[p]] = FinishedRow(cur[p], status, B)]
    BY <1>2 DEF FinishRun, FinishInterruptedRun
  <2>2. pc[p] \in Live /\ pc'[p] \notin Live
    BY <1>2 DEF FinishRun, FinishInterruptedRun, Goto, Live
  <2>3. CASE r = cur[p]
    BY <2>1, <2>2, <2>3, FinishedKeeps DEF Closed
  <2>4. CASE r # cur[p]
    BY <2>1, <2>4
  <2>5. QED
    BY <2>3, <2>4
<1>3. ASSUME NEW p \in Procs, PruneBatch(p)
      PROVE  RowFate(r)
  <2>1. PICK done \in SUBSET due[p] :
          row' = [q \in RunId |->
                    IF \E s \in done : s.run = q
                    THEN Pruned(q, (CHOOSE s \in done : s.run = q).by)
                    ELSE row[q]]
    BY <1>3 DEF PruneBatch
  <2>2. pc[p] = "pruning"
    BY <1>3 DEF PruneBatch, Goto
  <2>3. CASE \E s \in done : s.run = r
    BY <2>1, <2>2, <2>3 DEF Taken
  <2>4. CASE ~ \E s \in done : s.run = r
    BY <2>1, <2>4
  <2>5. QED
    BY <2>3, <2>4
<1>4. ASSUME NEW p \in Procs,
             \/ CreateLock(p) \/ TakeLock(p) \/ StopRecording(p) \/ ReadCandidates(p)
             \/ Require(p) \/ ReadStats(p) \/ StartGc(p) \/ PlanPrune(p)
             \/ RemoveCapture(p) \/ NextBatch(p) \/ SweepOrphans(p) \/ Vacuum(p)
             \/ Leave(p) \/ Crash(p)
      PROVE  row' = row
  BY <1>4 DEF CreateLock, TakeLock, StopRecording, ReadCandidates, Require,
              ReadStats, StartGc, PlanPrune, RemoveCapture, NextBatch,
              SweepOrphans, Vacuum, Leave, Done, GiveUp, FailPruned, Crash, Exit
<1>5. CASE Tick \/ UNCHANGED vars
  BY <1>5 DEF Tick, vars
<1>6. QED
  BY <1>1, <1>2, <1>3, <1>4, <1>5 DEF Next, Begin, Finish, Prune, Rest, Procs

\* Runs stay begun, in their context, and usable; so there are only ever more
\* runs newer than a given one.
LEMMA RowsGrow ==
  ASSUME TypeInv, RecorderInv, [Next]_vars
  PROVE  \A r \in RunId : /\ Began(r) => Began(r)' /\ row'[r].context = row[r].context
                          /\ Usable(r) => Usable(r)'
<1> SUFFICES ASSUME NEW r \in RunId
             PROVE  /\ Began(r) => Began(r)' /\ row'[r].context = row[r].context
                    /\ Usable(r) => Usable(r)'
  OBVIOUS
<1>1. row[r] \in Row /\ RowFate(r)
  BY RowFates DEF TypeInv, TypeOK
<1>2. CASE row'[r] = row[r]
  BY <1>2 DEF Began, Usable
<1>3. CASE Born(r)
  BY <1>3 DEF Born, Began, Usable
<1>4. CASE Closed(r)
  BY <1>4 DEF Closed, Began, Usable, RecorderInv
<1>5. CASE Taken(r)
  BY <1>1, <1>5, PrunedKeeps DEF Taken, Began, Usable
<1>6. QED
  BY <1>1, <1>2, <1>3, <1>4, <1>5 DEF RowFate

\* Some usable run of the context came after r.
Outdone(r) == \E t \in RunId : t > r /\ Usable(t) /\ row[t].context = row[r].context

LEMMA NewerGrows ==
  ASSUME TypeInv, RecorderInv, [Next]_vars, NEW r \in RunId, Began(r)
  PROVE  /\ Cardinality(Newer(r)) <= Cardinality(Newer(r)')
         /\ Outdone(r) => Outdone(r)'
<1>1. Newer(r) \subseteq Newer(r)' /\ Newer(r)' \subseteq RunId
  BY RowsGrow DEF Newer
<1>2. Cardinality(Newer(r)) <= Cardinality(Newer(r)')
  BY <1>1, FewerRuns
<1>3. Outdone(r) => Outdone(r)'
  BY RowsGrow DEF Outdone, Usable, Began
<1>4. QED
  BY <1>2, <1>3

-----------------------------------------------------------------------------
(* What a plan takes. *)

\* The evidence limit is never above the runs limit.
LEMMA LimitsOrdered ==
  /\ KeepRuns \in Nat /\ KeepEvidence \in Nat
  /\ KeepEvidence <= KeepRuns
<1>1. LIVE_STATS \in Nat
  BY RetentionAssumption DEF LIVE_STATS
<1>2. KeepRuns \in Nat
  BY <1>1, RetentionAssumption DEF KeepRuns, AtLeast
<1>3. AtLeast(SIFTR_KEEP_EVIDENCE, 2) \in Nat
  BY RetentionAssumption DEF AtLeast
<1>4. KeepEvidence \in Nat /\ KeepEvidence <= KeepRuns
  BY <1>2, <1>3 DEF KeepEvidence, AtMost
<1>5. QED
  BY <1>2, <1>4

\* Answers about l read no run after l.
LEMMA ReadsNoLater ==
  ASSUME TypeInv, NEW l \in RunId
  PROVE  StatsFrom(l) <= l /\ EvidenceFrom(l) <= l
<1> DEFINE B == row[l].baseline
           Judged == {b \in B : row[b].baseline # {}}
           S == {l} \cup B \cup UNION {row[b].baseline : b \in B}
           E == {l} \cup B \cup {Max(row[b].baseline) : b \in Judged}
<1>1. \A r \in RunId : row[r].baseline \in SUBSET RunId
  BY DEF TypeInv, TypeOK, Row
<1>2. S \in SUBSET RunId
  BY <1>1
<1>3. E \in SUBSET RunId
  BY <1>1, MaxOfRuns
<1>4. StatsFrom(l) = Min(S) /\ EvidenceFrom(l) = Min(E)
  BY DEF StatsFrom, EvidenceFrom
<1>5. l \in S /\ l \in E
  OBVIOUS
<1> HIDE DEF S, E
<1>6. QED
  BY <1>2, <1>3, <1>4, <1>5, MinOfRuns

\* A usable run that is due by a limit has a later usable run in its context:
\* the latest one is always read.
LEMMA LatestRead ==
  ASSUME TypeInv, NEW c, NEW r \in UsableWithStats(c),
         ~ ReadForStats(c, r) \/ ~ ReadForEvidence(c, r)
  PROVE  Outdone(r)
<1> DEFINE l == Max(UsableWithStats(c))
<1>1. UsableWithStats(c) \in SUBSET RunId /\ UsableWithStats(c) # {}
  BY DEF UsableWithStats, WithStats
<1>2. l \in UsableWithStats(c) /\ r <= l /\ l \in RunId /\ r \in RunId
  BY <1>1, MaxOfRuns
<1>3. l # r
  <2>1. StatsFrom(l) <= l /\ EvidenceFrom(l) <= l
    BY <1>2, ReadsNoLater
  <2>2. ~ (r >= StatsFrom(l)) \/ ~ (r >= EvidenceFrom(l))
    BY <1>1 DEF ReadForStats, ReadForEvidence
  <2>3. QED
    BY <1>2, <2>1, <2>2
<1>4. l > r
  BY <1>2, <1>3, RetentionAssumption DEF RunId
<1>5. QED
  BY <1>2, <1>4 DEF Outdone, UsableWithStats, WithStats

\* What holds of a step from the moment it is planned until it is carried out.
StepSound(s) ==
  /\ s.run \in RunId /\ Began(s.run)
  /\ s.by \in {ByRuns, ByEvidence, ByDays}
  /\ s.by = ByRuns => Cardinality(Newer(s.run)) >= KeepRuns
  /\ s.by = ByEvidence => Cardinality(Newer(s.run)) >= KeepEvidence
  /\ s.by # ByDays /\ Usable(s.run) => Outdone(s.run)

LEMMA PlanSound ==
  ASSUME TypeInv, NEW s \in Plan
  PROVE  StepSound(s)
<1>1. PICK c \in Contexts : \E r \in Due(c) : s = StepFor(c, r)
  BY DEF Plan
<1>2. PICK r \in Due(c) : s = StepFor(c, r)
  BY <1>1
<1>3. s.run = r /\ r \in WithStats(c) /\ r \in RunId /\ Began(r) /\ row[r].context = c
  BY <1>2 DEF StepFor, Due, WithStats
<1>4. s.by \in {ByRuns, ByEvidence, ByDays}
  BY <1>2 DEF StepFor
<1>5. ByDays # ByRuns /\ ByDays # ByEvidence /\ ByRuns # ByEvidence
  BY DEF ByDays, ByRuns, ByEvidence
<1>6. /\ s.by = ByRuns => DueByRuns(c, r)
      /\ s.by = ByEvidence => DueByEvidence(c, r)
  BY <1>2, <1>5 DEF StepFor, Due
<1>7. Position(c, r) <= Cardinality(Newer(r)) 
  <2>1. {t \in WithStats(c) : t > r} \subseteq Newer(r) /\ Newer(r) \subseteq RunId
    BY <1>3 DEF WithStats, Newer
  <2>2. QED
    BY <2>1, FewerRuns DEF Position
<1>8. Position(c, r) \in Nat /\ Cardinality(Newer(r)) \in Nat
  BY RunsFinite DEF Position, WithStats, Newer
<1>9. s.by = ByRuns => Cardinality(Newer(r)) >= KeepRuns
  BY <1>6, <1>7, <1>8, LimitsOrdered DEF DueByRuns
<1>10. s.by = ByEvidence => Cardinality(Newer(r)) >= KeepEvidence
  BY <1>6, <1>7, <1>8, LimitsOrdered DEF DueByEvidence
<1>11. s.by # ByDays /\ Usable(r) => Outdone(r)
  BY <1>3, <1>4, <1>6, LatestRead DEF DueByRuns, DueByEvidence, UsableWithStats
<1>12. QED
  BY <1>3, <1>4, <1>9, <1>10, <1>11 DEF StepSound

LEMMA StepStaysSound ==
  ASSUME TypeInv, RecorderInv, [Next]_vars, NEW s, StepSound(s),
         row'[s.run].status # row[s.run].status => ~ Usable(s.run)'
  PROVE  StepSound(s)'
<1>1. /\ Began(s.run)' 
      /\ Cardinality(Newer(s.run)) <= Cardinality(Newer(s.run)')
      /\ Outdone(s.run) => Outdone(s.run)'
  BY NewerGrows, RowsGrow DEF StepSound
<1>2. Cardinality(Newer(s.run)) \in Nat /\ Cardinality(Newer(s.run)') \in Nat
  BY RunsFinite DEF Newer
<1>3. Usable(s.run)' => Usable(s.run)
  BY DEF Usable
<1>4. QED
  BY <1>1, <1>2, <1>3, LimitsOrdered DEF StepSound

-----------------------------------------------------------------------------
(* The plan being carried out. *)

\* A recorder holds its run's lock from TakeLock to its finish, and unless a
\* plan took the run before that, the lock file is there for prunes to try.
LockInv ==
  /\ \A p \in Procs : pc[p] \in Live =>
       /\ cur[p] \in locks <=> pc[p] \notin {"inserted", "created"}
       /\ pc[p] # "inserted" /\ cur[p] \notin raced => "lock" \in files[cur[p]]
  /\ \A p \in Procs : pc[p] \notin Live /\ cur[p] \in RunId =>
       row[cur[p]].status \in {"finished", "interrupted"}
  /\ \A r \in locks : Began(r)

\* Until it is carried out a plan stays right: its process holds the write
\* lock, so no run finishes; what it takes from live recorders is raced, since
\* a run whose recorder holds its lock is not due.
DueInv ==
  \A p \in Procs : pc[p] = "pruning" =>
    \A s \in due[p] : /\ StepSound(s)
                      /\ \A q \in Procs : pc[q] \in Live /\ cur[q] = s.run => s.run \in raced

\* While a process is pruning nobody else changes a row or begins a run.
LEMMA Holding ==
  ASSUME TypeInv, RecorderInv, [Next]_vars, NEW p \in Procs, pc'[p] = "pruning"
  PROVE  \/ PlanPrune(p)
         \/ /\ pc[p] = "pruning" /\ due'[p] = due[p] /\ row' = row
            /\ raced \subseteq raced'
            /\ \A q \in Procs : pc'[q] \in Live => pc[q] \in Live /\ cur'[q] = cur[q]
<1> DEFINE Held ==
             /\ pc[p] = "pruning" /\ due'[p] = due[p] /\ row' = row
             /\ raced \subseteq raced'
             /\ \A q \in Procs : pc'[q] \in Live => pc[q] \in Live /\ cur'[q] = cur[q]
<1> USE DEF TypeInv, TypeOK, Procs
<1>1. pc[p] = "pruning" => writer = p /\ writer # NoProc
  BY ProcsAssumption DEF RecorderInv
<1>2. ASSUME NEW q \in Procs, NEW c \in Contexts, InsertRun(q, c)
      PROVE  FALSE
  BY <1>1, <1>2 DEF InsertRun, Goto
<1>3. ASSUME NEW q \in Procs, FinishRun(q) \/ FinishInterruptedRun(q) \/ Vacuum(q)
      PROVE  FALSE
  BY <1>1, <1>3 DEF FinishRun, FinishInterruptedRun, Vacuum, Goto
<1>4. ASSUME NEW q \in Procs, PruneBatch(q)
      PROVE  FALSE
  BY <1>1, <1>4 DEF PruneBatch, Goto, RecorderInv
<1>5. ASSUME NEW q \in Procs, PlanPrune(q)
      PROVE  PlanPrune(p)
  BY <1>1, <1>5 DEF PlanPrune
<1>6. ASSUME NEW q \in Procs, CreateLock(q) \/ TakeLock(q) \/ StopRecording(q)
      PROVE  Held
  BY <1>6 DEF CreateLock, TakeLock, StopRecording, Goto, Live
<1>7. ASSUME NEW q \in Procs, ReadCandidates(q) \/ Require(q) \/ ReadStats(q)
      PROVE  Held
  BY <1>7 DEF ReadCandidates, Require, ReadStats, Goto, Live
<1>8. ASSUME NEW q \in Procs, StartGc(q) \/ RemoveCapture(q) \/ NextBatch(q) \/ SweepOrphans(q)
      PROVE  Held
  BY <1>8 DEF StartGc, RemoveCapture, NextBatch, SweepOrphans, Goto, Live
<1>9. ASSUME NEW q \in Procs, Leave(q) \/ Crash(q)
      PROVE  Held
  BY <1>9 DEF Leave, Done, GiveUp, FailPruned, Crash, Exit, Live
<1>10. CASE Tick \/ UNCHANGED vars
  BY <1>10 DEF Tick, vars
<1>11. QED
  BY <1>2, <1>3, <1>4, <1>5, <1>6, <1>7, <1>8, <1>9, <1>10
  DEF Next, Begin, Finish, Prune, Rest

LEMMA LockedNotDue ==
  ASSUME TypeInv, RecorderInv, LockInv, NEW q \in Procs, pc[q] \in Live,
         cur[q] \notin raced, cur[q] \in locks, NEW s \in Plan
  PROVE  s.run # cur[q]
<1>1. cur[q] \in RunId /\ row[cur[q]].status = "unfinished"
  BY DEF TypeInv, Busy, RecorderInv
<1>2. "lock" \in files[cur[q]]
  BY DEF LockInv
<1>3. Recording(cur[q])
  BY <1>2 DEF Recording
<1>4. PICK c \in Contexts : \E r \in Due(c) : s = StepFor(c, r)
  BY DEF Plan
<1>5. PICK r \in Due(c) : s = StepFor(c, r)
  BY <1>4
<1>6. s.run = r /\ (row[r].status = "unfinished" => ~ Recording(r))
  BY <1>5 DEF StepFor, Due
<1>7. QED
  BY <1>1, <1>3, <1>6

LEMMA DueStep ==
  ASSUME TypeInv, RecorderInv, LockInv, DueInv, [Next]_vars
  PROVE  DueInv'
<1> SUFFICES ASSUME NEW p \in Procs, pc'[p] = "pruning", NEW s \in due'[p]
             PROVE  /\ StepSound(s)'
                    /\ \A q \in Procs : pc'[q] \in Live /\ cur'[q] = s.run => s.run \in raced'
  BY DEF DueInv
<1>1. CASE PlanPrune(p)
  <2>1. s \in Plan /\ row' = row
    BY <1>1 DEF PlanPrune, TypeInv, TypeOK
  <2>2. StepSound(s)'
    BY <2>1, PlanSound, StepStaysSound
  <2>3. \A q \in Procs : pc'[q] \in Live => pc[q] \in Live /\ cur'[q] = cur[q]
    BY <1>1 DEF PlanPrune, TypeInv, TypeOK, Live
  <2>4. raced' = raced \cup {r \in LiveRuns \ locks : \E t \in Plan : t.run = r}
    BY <1>1 DEF PlanPrune
  <2>5. ASSUME NEW q \in Procs, pc'[q] \in Live, cur'[q] = s.run
        PROVE  s.run \in raced'
    <3>1. pc[q] \in Live /\ cur[q] = s.run
      BY <2>3, <2>5
    <3>2. s.run \in raced \/ s.run \notin locks
      BY <2>1, <3>1, LockedNotDue
    <3>3. QED
      BY <2>1, <2>4, <3>1, <3>2 DEF LiveRuns
  <2>6. QED
    BY <2>2, <2>5
<1>2. CASE /\ pc[p] = "pruning" /\ due'[p] = due[p] /\ row' = row
           /\ raced \subseteq raced'
           /\ \A q \in Procs : pc'[q] \in Live => pc[q] \in Live /\ cur'[q] = cur[q]
  <2>1. StepSound(s)'
    BY <1>2, StepStaysSound DEF DueInv
  <2>2. QED
    BY <1>2, <2>1 DEF DueInv
<1>3. QED
  BY <1>1, <1>2, Holding

-----------------------------------------------------------------------------
(* What is kept. *)

\* A run nobody took from its recorder is whole until it finishes.
LiveWhole ==
  \A p \in Procs : pc[p] \in Live /\ cur[p] \notin raced =>
    row[cur[p]].statsPruned = Kept /\ row[cur[p]].evidencePruned = Kept

\* Only what was recorded is pruned, and evidence first.
TiersNested ==
  \A r \in RunId :
    /\ row[r].evidencePruned = Kept => row[r].statsPruned = Kept
    /\ ~ Began(r) => row[r].evidencePruned = Kept

\* LatestUsableKept, of every run with no later usable run in its context.
LatestWhole ==
  \A r \in RunId :
    Usable(r) /\ r \notin raced /\ ~ Outdone(r) =>
      row[r].statsPruned \in {Kept, ByDays} /\ row[r].evidencePruned \in {Kept, ByDays}

KeptInv == LiveWhole /\ TiersNested /\ NoLeakedRows /\ LastRunsKept /\ LatestWhole

\* What a step of a prune takes from a row, and what it leaves as it was.
Lost(r, by) ==
  /\ ~ row'[r].exemplars
  /\ row'[r].status = row[r].status
  /\ by = ByEvidence =>
       /\ row'[r].stats = row[r].stats
       /\ row'[r].statsPruned = row[r].statsPruned
       /\ row'[r].evidencePruned = by
  /\ by # ByEvidence =>
       /\ ~ row'[r].stats
       /\ row'[r].statsPruned = by
       /\ row[r].evidencePruned = Kept => row'[r].evidencePruned = by
       /\ row[r].evidencePruned # Kept => row'[r].evidencePruned = row[r].evidencePruned

LEMMA PrunedTiers ==
  ASSUME NEW r \in RunId, row[r] \in Row, NEW by, row'[r] = Pruned(r, by)
  PROVE  Lost(r, by)
<1>1. CASE by = ByEvidence
  BY <1>1 DEF Pruned, Row, Lost
<1>2. CASE by # ByEvidence
  <2>1. CASE row[r].evidencePruned = Kept
    BY <1>2, <2>1 DEF Pruned, Row, Lost
  <2>2. CASE row[r].evidencePruned # Kept
    BY <1>2, <2>2 DEF Pruned, Row, Lost
  <2>3. QED
    BY <2>1, <2>2
<1>3. QED
  BY <1>1, <1>2

LEMMA RacedGrows == TypeInv /\ [Next]_vars => raced \subseteq raced'
  BY Zenon DEF Next, vars, Begin, Finish, Prune, Leave, Rest, InsertRun, CreateLock,
         TakeLock, ReadCandidates, Require, ReadStats, FinishRun,
         FinishInterruptedRun, StopRecording, StartGc, PlanPrune, PruneBatch,
         RemoveCapture, NextBatch, SweepOrphans, Vacuum, Done, GiveUp,
         FailPruned, Crash, Exit, Tick

\* A recorder records what it recorded, or has just begun it.
LEMMA LiveFates ==
  ASSUME TypeInv, [Next]_vars, NEW p \in Procs, pc'[p] \in Live
  PROVE  \/ pc[p] \in Live /\ cur'[p] = cur[p]
         \/ Born(cur'[p])
<1> USE DEF TypeInv, TypeOK, Live
<1>1. ASSUME NEW q \in Procs, NEW c \in Contexts, InsertRun(q, c)
      PROVE  (pc[p] \in Live /\ cur'[p] = cur[p]) \/ Born(cur'[p])
  <2>1. PICK s \in RunId :
           /\ ~ Began(s)
           /\ cur' = [cur EXCEPT ![q] = s]
           /\ row'[s].status = "unfinished" /\ row'[s].baseline = {}
           /\ row'[s].statsPruned = Kept /\ row'[s].evidencePruned = Kept
    BY <1>1, BegunRow
  <2>2. Born(s)
    BY <2>1 DEF Born
  <2>3. CASE p = q
    BY <2>1, <2>2, <2>3
  <2>4. CASE p # q
    BY <1>1, <2>1, <2>4 DEF InsertRun, Goto
  <2>5. QED
    BY <2>3, <2>4
<1>2. ASSUME NEW q \in Procs, CreateLock(q) \/ TakeLock(q) \/ StopRecording(q)
      PROVE  pc[p] \in Live /\ cur'[p] = cur[p]
  BY <1>2 DEF CreateLock, TakeLock, StopRecording, Goto
<1>3. ASSUME NEW q \in Procs, \/ ReadCandidates(q) \/ Require(q) \/ ReadStats(q)
                              \/ FinishRun(q) \/ FinishInterruptedRun(q)
      PROVE  pc[p] \in Live /\ cur'[p] = cur[p]
  BY <1>3 DEF ReadCandidates, Require, ReadStats, FinishRun, FinishInterruptedRun, Goto
<1>4. ASSUME NEW q \in Procs, \/ StartGc(q) \/ PlanPrune(q) \/ PruneBatch(q) \/ RemoveCapture(q)
                              \/ NextBatch(q) \/ SweepOrphans(q) \/ Vacuum(q)
      PROVE  pc[p] \in Live /\ cur'[p] = cur[p]
  BY <1>4 DEF StartGc, PlanPrune, PruneBatch, RemoveCapture, NextBatch,
              SweepOrphans, Vacuum, Goto
<1>5. ASSUME NEW q \in Procs, Leave(q) \/ Crash(q)
      PROVE  pc[p] \in Live /\ cur'[p] = cur[p]
  BY <1>5 DEF Leave, Done, GiveUp, FailPruned, Crash, Exit
<1>6. CASE Tick \/ UNCHANGED vars
  BY <1>6 DEF Tick, vars
<1>7. QED
  BY <1>1, <1>2, <1>3, <1>4, <1>5, <1>6 DEF Next, Begin, Finish, Prune, Rest, Procs

LEMMA KeptInit == Init => KeptInv
  BY DEF Init, KeptInv, LiveWhole, TiersNested, NoLeakedRows, LastRunsKept,
         LatestWhole, Absent, Live, Usable, Began, Kept, ByRuns, ByEvidence, ByDays

LEMMA KeptStep ==
  ASSUME TypeInv, RecorderInv, DueInv, KeptInv, [Next]_vars
  PROVE  KeptInv'
<1> USE DEF KeptInv
<1>1. \A r \in RunId : row[r] \in Row /\ RowFate(r)
  BY RowFates DEF TypeInv, TypeOK
<1>2. raced \subseteq raced'
  BY RacedGrows
<1>3. Kept # ByRuns /\ Kept # ByEvidence /\ Kept # ByDays
      /\ ByRuns # ByEvidence /\ ByRuns # ByDays /\ ByEvidence # ByDays
  BY DEF Kept, ByRuns, ByEvidence, ByDays
<1>4. ASSUME NEW r \in RunId, Taken(r)
      PROVE  \E s : /\ StepSound(s) /\ s.run = r /\ Lost(r, s.by)
                    /\ \A q \in Procs : pc[q] \in Live /\ cur[q] = r => r \in raced
  <2>1. PICK s : /\ StepSound(s) /\ s.run = r /\ row'[r] = Pruned(r, s.by)
                 /\ \A q \in Procs : pc[q] \in Live /\ cur[q] = r => r \in raced
    BY <1>4 DEF Taken, DueInv
  <2>2. row[r] \in Row
    BY <1>1
  <2>3. Lost(r, s.by)
    BY <2>1, <2>2, PrunedTiers
  <2>4. QED
    BY <2>1, <2>3
<1>5. ASSUME NEW r \in RunId, Closed(r), r \notin raced
      PROVE  row[r].statsPruned = Kept /\ row[r].evidencePruned = Kept
  BY <1>5 DEF Closed, LiveWhole
<1>6. LiveWhole'
  <2>1. SUFFICES ASSUME NEW p \in Procs, pc'[p] \in Live, cur'[p] \notin raced'
                 PROVE  row'[cur'[p]].statsPruned = Kept /\ row'[cur'[p]].evidencePruned = Kept
    BY DEF LiveWhole
  <2>2. CASE Born(cur'[p])
    BY <2>2 DEF Born
  <2>3. CASE pc[p] \in Live /\ cur'[p] = cur[p]
    <3> DEFINE r == cur[p]
    <3>1. r \in RunId /\ r \notin raced /\ row[r].status = "unfinished"
      BY <1>2, <2>1, <2>3 DEF TypeInv, Busy, RecorderInv
    <3>2. row[r].statsPruned = Kept /\ row[r].evidencePruned = Kept
      BY <2>3, <3>1 DEF LiveWhole
    <3>3. ~ Born(r) /\ ~ Closed(r) /\ ~ Taken(r)
      BY <1>4, <2>1, <2>3, <3>1 DEF Born, Closed, Began, RecorderInv
    <3>4. QED
      BY <1>1, <2>3, <3>1, <3>2, <3>3 DEF RowFate
  <2>4. QED
    BY <2>1, <2>2, <2>3, LiveFates
<1>7. TiersNested'
  <2>1. SUFFICES ASSUME NEW r \in RunId
                 PROVE  /\ row'[r].evidencePruned = Kept => row'[r].statsPruned = Kept
                        /\ ~ Began(r)' => row'[r].evidencePruned = Kept
    BY DEF TiersNested
  <2>2. CASE row'[r] = row[r] \/ Born(r) \/ Closed(r)
    BY <2>2 DEF TiersNested, Born, Closed, Began
  <2>3. CASE Taken(r)
    <3>1. PICK s : StepSound(s) /\ s.run = r /\ Lost(r, s.by)
      BY <1>4, <2>3
    <3>2. row'[r].evidencePruned # Kept
      BY <1>3, <3>1 DEF StepSound, Lost
    <3>3. Began(r)'
      BY <3>1 DEF StepSound, Began, Lost
    <3>4. QED
      BY <3>2, <3>3
  <2>4. QED
    BY <1>1, <2>2, <2>3 DEF RowFate
<1>8. NoLeakedRows'
  <2>1. SUFFICES ASSUME NEW r \in RunId, r \notin raced'
                 PROVE  /\ row'[r].statsPruned # Kept => ~ row'[r].stats
                        /\ row'[r].evidencePruned # Kept => ~ row'[r].exemplars
    BY DEF NoLeakedRows
  <2>2. /\ row[r].statsPruned # Kept => ~ row[r].stats
        /\ row[r].evidencePruned # Kept => ~ row[r].exemplars
    BY <1>2, <2>1 DEF NoLeakedRows
  <2>3. CASE row'[r] = row[r] \/ Born(r)
    BY <2>2, <2>3 DEF Born
  <2>4. CASE Closed(r)
    BY <1>2, <1>5, <2>1, <2>4 DEF Closed
  <2>5. CASE Taken(r)
    <3>1. PICK s : StepSound(s) /\ s.run = r /\ Lost(r, s.by)
      BY <1>4, <2>5
    <3>2. CASE s.by = ByEvidence
      BY <2>2, <3>1, <3>2 DEF Lost
    <3>3. CASE s.by # ByEvidence
      BY <2>2, <3>1, <3>3 DEF Lost
    <3>4. QED
      BY <3>2, <3>3
  <2>6. QED
    BY <1>1, <2>3, <2>4, <2>5 DEF RowFate
<1>9. LastRunsKept'
  <2>1. SUFFICES ASSUME NEW r \in RunId
                 PROVE  /\ row'[r].statsPruned = ByRuns => Cardinality(Newer(r)') >= KeepRuns
                        /\ row'[r].evidencePruned \in {ByRuns, ByEvidence}
                             => Cardinality(Newer(r)') >= KeepEvidence
    BY DEF LastRunsKept
  <2>2. /\ row[r].statsPruned = ByRuns => Cardinality(Newer(r)) >= KeepRuns
        /\ row[r].evidencePruned \in {ByRuns, ByEvidence}
             => Cardinality(Newer(r)) >= KeepEvidence
    BY DEF LastRunsKept
  <2>3. Cardinality(Newer(r)) \in Nat /\ Cardinality(Newer(r)') \in Nat
    BY RunsFinite DEF Newer
  <2>4. Began(r) => Cardinality(Newer(r)) <= Cardinality(Newer(r)')
    BY NewerGrows
  <2>5. CASE ~ Began(r) /\ ~ Taken(r)
    <3>1. row[r].evidencePruned = Kept /\ row[r].statsPruned = Kept
      BY <2>5 DEF TiersNested
    <3>2. row'[r].evidencePruned = Kept /\ row'[r].statsPruned = Kept
      BY <1>1, <2>5, <3>1 DEF RowFate, Born, Closed
    <3>3. QED
      BY <1>3, <3>2
  <2>6. CASE Began(r) /\ ~ Taken(r)
    <3>1. row'[r].statsPruned = row[r].statsPruned /\ row'[r].evidencePruned = row[r].evidencePruned
      BY <1>1, <2>6 DEF RowFate, Born, Closed
    <3>2. QED
      BY <2>2, <2>3, <2>4, <2>6, <3>1, LimitsOrdered
  <2>7. CASE Taken(r)
    <3>1. PICK s : StepSound(s) /\ s.run = r /\ Lost(r, s.by)
      BY <1>4, <2>7
    <3>2. /\ s.by = ByRuns => Cardinality(Newer(r)') >= KeepRuns
          /\ s.by \in {ByRuns, ByEvidence} => Cardinality(Newer(r)') >= KeepEvidence
      BY <2>3, <2>4, <3>1, LimitsOrdered DEF StepSound
    <3>3. /\ row[r].statsPruned = ByRuns => Cardinality(Newer(r)') >= KeepRuns
          /\ row[r].evidencePruned \in {ByRuns, ByEvidence} => Cardinality(Newer(r)') >= KeepEvidence
      BY <2>2, <2>3, <2>4, <3>1, LimitsOrdered DEF StepSound
    <3>4. /\ row'[r].statsPruned = row[r].statsPruned \/ row'[r].statsPruned = s.by
          /\ row'[r].evidencePruned = row[r].evidencePruned \/ row'[r].evidencePruned = s.by
      BY <3>1 DEF Lost
    <3>5. QED
      BY <1>3, <3>2, <3>3, <3>4
  <2>8. QED
    BY <2>5, <2>6, <2>7
<1>10. LatestWhole'
  <2>1. SUFFICES ASSUME NEW r \in RunId, Usable(r)', r \notin raced', ~ Outdone(r)'
                 PROVE  /\ row'[r].statsPruned \in {Kept, ByDays}
                        /\ row'[r].evidencePruned \in {Kept, ByDays}
    BY DEF LatestWhole
  <2>2. CASE Closed(r)
    BY <1>2, <1>5, <2>1, <2>2 DEF Closed
  <2>3. CASE ~ Closed(r)
    <3>1. Usable(r) /\ Began(r)
      BY <1>1, <1>4, <2>1, <2>3 DEF RowFate, Born, Usable, Began, Lost
    <3>2. ~ Outdone(r)
      BY <2>1, <3>1, NewerGrows
    <3>3. row[r].statsPruned \in {Kept, ByDays} /\ row[r].evidencePruned \in {Kept, ByDays}
      BY <1>2, <2>1, <3>1, <3>2 DEF LatestWhole
    <3>4. CASE row'[r] = row[r]
      BY <3>3, <3>4
    <3>5. CASE Taken(r)
      <4>1. PICK s : StepSound(s) /\ s.run = r /\ Lost(r, s.by)
        BY <1>4, <3>5
      <4>2. s.by = ByDays
        BY <3>1, <3>2, <4>1 DEF StepSound
      <4>3. QED
        BY <1>3, <3>3, <4>1, <4>2 DEF Lost
    <3>6. QED
      BY <1>1, <2>3, <3>1, <3>4, <3>5 DEF RowFate, Born
  <2>4. QED
    BY <2>2, <2>3
<1>11. QED
  BY <1>6, <1>7, <1>8, <1>9, <1>10

-----------------------------------------------------------------------------
(* Captures. *)

\* A run dir is removed only for a run whose row says its evidence is pruned.
DoomedInv == \A p \in Procs : \A r \in doomed[p] : row[r].evidencePruned # Kept

\* Evidence a row says is pruned never comes back.
LEMMA PrunedForGood ==
  ASSUME TypeInv, DueInv, KeptInv, [Next]_vars, NEW r \in RunId,
         row[r].evidencePruned # Kept
  PROVE  row'[r].evidencePruned # Kept
<1>1. RowFate(r) /\ Began(r)
  BY RowFates DEF KeptInv, TiersNested
<1>2. CASE Taken(r)
  <2>1. PICK s : StepSound(s) /\ row'[r] = Pruned(r, s.by)
    BY <1>2 DEF Taken, DueInv
  <2>2. row[r] \in Row
    BY DEF TypeInv, TypeOK
  <2>3. Lost(r, s.by)
    BY <2>1, <2>2, PrunedTiers
  <2>4. QED
    BY <2>1, <2>3 DEF Lost, StepSound, Kept, ByRuns, ByEvidence, ByDays
<1>3. QED
  BY <1>1, <1>2 DEF RowFate, Born, Closed

LEMMA DoomedStep ==
  ASSUME TypeInv, DueInv, KeptInv, DoomedInv, [Next]_vars
  PROVE  DoomedInv'
<1> SUFFICES ASSUME NEW p \in Procs, NEW r \in doomed'[p]
             PROVE  row'[r].evidencePruned # Kept
  BY DEF DoomedInv
<1>1. CASE r \in doomed[p]
  <2>1. r \in RunId /\ row[r].evidencePruned # Kept
    BY <1>1 DEF DoomedInv, TypeInv, TypeOK
  <2>2. QED
    BY <2>1, PrunedForGood
<1>2. CASE PruneBatch(p) /\ r \notin doomed[p]
  <2>1. PICK done \in SUBSET due[p] :
          /\ row' = [q \in RunId |->
                       IF \E s \in done : s.run = q
                       THEN Pruned(q, (CHOOSE s \in done : s.run = q).by)
                       ELSE row[q]]
          /\ doomed' = [doomed EXCEPT ![p] = Removals(p, done)]
    BY <1>2 DEF PruneBatch
  <2>2. \E s \in done : s.run = r
    <3>1. doomed'[p] = {s.run : s \in done}
      BY <2>1 DEF Removals, TypeInv, TypeOK
    <3>2. QED
      BY <3>1
  <2>3. PICK s \in done : s.run = r /\ s = CHOOSE t \in done : t.run = r
    BY <2>2
  <2>4. pc[p] = "pruning" /\ s \in due[p]
    BY <1>2, <2>3 DEF PruneBatch, Goto
  <2>5. StepSound(s)
    BY <2>4 DEF DueInv
  <2>6. r \in RunId /\ row[r] \in Row
    BY <2>3, <2>5 DEF StepSound, TypeInv, TypeOK
  <2>7. row'[r] = Pruned(r, s.by)
    BY <2>1, <2>3, <2>6
  <2>8. Lost(r, s.by)
    BY <2>6, <2>7, PrunedTiers
  <2>9. QED
    BY <2>5, <2>8 DEF Lost, StepSound, Kept, ByRuns, ByEvidence, ByDays
<1>3. CASE SweepOrphans(p) /\ r \notin doomed[p]
  <2>1. doomed'[p] = Orphans /\ row' = row
    BY <1>3 DEF SweepOrphans, TypeInv, TypeOK
  <2>2. QED
    BY <2>1 DEF Orphans
<1>4. r \in doomed[p] \/ PruneBatch(p) \/ SweepOrphans(p)
  <2> USE DEF TypeInv, TypeOK
  <2>1. ASSUME NEW q \in Procs, RemoveCapture(q) \/ (PruneBatch(q) /\ q # p)
                                \/ (SweepOrphans(q) /\ q # p)
        PROVE  doomed'[p] \subseteq doomed[p]
    BY <2>1 DEF RemoveCapture, PruneBatch, SweepOrphans
  <2>2. ASSUME NEW q \in Procs, Leave(q) \/ Crash(q)
        PROVE  doomed'[p] \subseteq doomed[p]
    BY <2>2 DEF Leave, Done, GiveUp, FailPruned, Crash, Exit
  <2>3. ASSUME NEW q \in Procs,
               \/ Begin(q) \/ Finish(q) \/ StartGc(q) \/ PlanPrune(q)
               \/ NextBatch(q) \/ Vacuum(q)
        PROVE  doomed' = doomed
    BY <2>3 DEF Begin, Finish, InsertRun, CreateLock, TakeLock, ReadCandidates,
                Require, ReadStats, FinishRun, FinishInterruptedRun,
                StopRecording, StartGc, PlanPrune, NextBatch, Vacuum
  <2>4. CASE Tick \/ UNCHANGED vars
    BY <2>4 DEF Tick, vars
  <2>5. QED
    BY <2>1, <2>2, <2>3, <2>4 DEF Next, Prune, Rest, Procs
<1>5. QED
  BY <1>1, <1>2, <1>3, <1>4

-----------------------------------------------------------------------------
(* Locks. None of these can be shown alone: a lock file stays because no    *)
(* prune takes a locked run, and no prune takes it because the file stays.  *)

LEMMA EndedStay ==
  ASSUME TypeInv, DueInv, [Next]_vars, NEW r \in RunId,
         row[r].status \in {"finished", "interrupted"}
  PROVE  row'[r].status \in {"finished", "interrupted"}
<1>1. RowFate(r) /\ row[r] \in Row
  BY RowFates DEF TypeInv, TypeOK
<1>2. CASE Taken(r)
  BY <1>1, <1>2, PrunedKeeps DEF Taken
<1>3. QED
  BY <1>1, <1>2 DEF RowFate, Born, Closed, Began

LEMMA LockStep ==
  ASSUME TypeInv, RecorderInv, LockInv, DueInv, KeptInv, DoomedInv, [Next]_vars
  PROVE  LockInv'
<1> DEFINE Unfinished(p) == pc[p] \in Live /\ cur[p] \in RunId
                            /\ row[cur[p]].status = "unfinished"
           Locked(p) == /\ cur[p] \in locks <=> pc[p] \notin {"inserted", "created"}
                        /\ pc[p] # "inserted" /\ cur[p] \notin raced
                             => "lock" \in files[cur[p]]
           Ended(p) == pc[p] \notin Live /\ cur[p] \in RunId =>
                         row[cur[p]].status \in {"finished", "interrupted"}
<1>1. \A p \in Procs : /\ pc[p] \in Live => Unfinished(p) /\ Locked(p)
                       /\ Ended(p)
  BY DEF LockInv, RecorderInv, TypeInv, Busy
<1>2. \A p, q \in Procs : pc[p] \in Live /\ p # q => cur[p] # cur[q]
  <2> SUFFICES ASSUME NEW p \in Procs, NEW q \in Procs, pc[p] \in Live, p # q, cur[p] = cur[q]
               PROVE  FALSE
    OBVIOUS
  <2>1. CASE pc[q] \in Live
    BY <2>1 DEF RecorderInv
  <2>2. CASE pc[q] \notin Live
    BY <1>1, <2>2
  <2>3. QED
    BY <2>1, <2>2
<1>3. raced \subseteq raced'
  BY RacedGrows
<1>4. ASSUME NEW p \in Procs, NEW c \in Contexts, InsertRun(p, c)
      PROVE  LockInv'
  <2>1. PICK s \in RunId :
           /\ ~ Began(s)
           /\ pc[p] = "idle" /\ pc' = [pc EXCEPT ![p] = "inserted"]
           /\ cur' = [cur EXCEPT ![p] = s]
           /\ row' = [row EXCEPT ![s] = [Absent EXCEPT !.context = c,
                                                       !.status = "unfinished",
                                                       !.started = today]]
    BY <1>4 DEF InsertRun, NextId, Goto
  <2>2. files' = files /\ locks' = locks /\ raced' = raced
    BY <1>4 DEF InsertRun
  <2>3. \A q \in Procs \ {p} : pc'[q] = pc[q] /\ cur'[q] = cur[q]
    BY <2>1 DEF TypeInv, TypeOK
  <2>4. pc'[p] = "inserted" /\ cur'[p] = s /\ s \notin locks
    BY <2>1 DEF TypeInv, TypeOK, LockInv
  <2>5. \A r \in RunId : Began(r) => Began(r)'
    BY RowsGrow
  <2>6. ASSUME NEW q \in Procs
        PROVE  (pc[q] \in Live => Locked(q))' /\ Ended(q)'
    <3>1. CASE q = p
      BY <2>2, <2>4, <3>1 DEF Live
    <3>2. CASE q # p
      BY <1>1, <2>2, <2>3, <3>2, EndedStay
    <3>3. QED
      BY <3>1, <3>2
  <2>7. \A r \in locks' : Began(r)'
    BY <2>2, <2>5 DEF LockInv, TypeInv, TypeOK
  <2>8. QED
    BY <2>6, <2>7 DEF LockInv
<1>5. ASSUME NEW p \in Procs, CreateLock(p) \/ TakeLock(p)
      PROVE  LockInv'
  <2>1. /\ row' = row /\ cur' = cur /\ raced' = raced
        /\ pc[p] \in Live /\ pc'[p] \in Live
        /\ \A q \in Procs \ {p} : pc'[q] = pc[q]
        /\ \A r \in RunId : files[r] \subseteq files'[r]
        /\ \/ /\ pc'[p] = "created" /\ locks' = locks /\ "lock" \in files'[cur[p]]
              /\ pc[p] = "inserted"
           \/ /\ pc'[p] = "recording" /\ locks' = locks \cup {cur[p]}
              /\ pc[p] = "created"
    BY <1>1, <1>5 DEF CreateLock, TakeLock, Goto, TypeInv, TypeOK, Live, Busy
  <2>2. ASSUME NEW q \in Procs
        PROVE  (pc[q] \in Live => Locked(q))' /\ Ended(q)'
    <3>1. CASE q = p
      BY <1>1, <2>1, <3>1
    <3>2. CASE q # p
      BY <1>1, <1>2, <2>1, <3>2
    <3>3. QED
      BY <3>1, <3>2
  <2>3. \A r \in locks' : Began(r)'
    BY <1>1, <2>1 DEF LockInv, Began
  <2>4. QED
    BY <2>2, <2>3 DEF LockInv
<1>6. ASSUME NEW p \in Procs, FinishRun(p) \/ FinishInterruptedRun(p)
      PROVE  LockInv'
  <2>1. PICK status \in {"finished", "interrupted"}, B \in SUBSET seen[p] :
          row' = [row EXCEPT ![cur[p]] = FinishedRow(cur[p], status, B)]
    BY <1>6 DEF FinishRun, FinishInterruptedRun
  <2>2. /\ pc[p] \in Live /\ pc'[p] = "unlocking"
        /\ files' = files /\ locks' = locks /\ cur' = cur /\ raced' = raced
        /\ \A q \in Procs \ {p} : pc'[q] = pc[q]
    BY <1>6 DEF FinishRun, FinishInterruptedRun, Goto, TypeInv, TypeOK, Live, disk
  <2>3. cur[p] \in RunId /\ row'[cur[p]].status \in {"finished", "interrupted"}
    <3>1. cur[p] \in RunId
      BY <1>1, <2>2
    <3>2. row'[cur[p]] = FinishedRow(cur[p], status, B)
      BY <2>1, <3>1 DEF TypeInv, TypeOK
    <3>3. row[cur[p]] \in Row
      BY <3>1 DEF TypeInv, TypeOK
    <3>4. QED
      BY <3>1, <3>2, <3>3, FinishedKeeps
  <2>4. ASSUME NEW q \in Procs
        PROVE  (pc[q] \in Live => Locked(q))' /\ Ended(q)'
    <3>1. CASE q = p
      BY <2>2, <2>3, <3>1 DEF Live
    <3>2. CASE q # p
      BY <1>1, <2>2, <3>2, EndedStay
    <3>3. QED
      BY <3>1, <3>2
  <2>5. \A r \in locks' : Began(r)'
    BY <2>2, RowsGrow DEF LockInv, TypeInv, TypeOK
  <2>6. QED
    BY <2>4, <2>5 DEF LockInv
<1>7. ASSUME NEW p \in Procs, StopRecording(p)
      PROVE  LockInv'
  <2>1. /\ row' = row /\ cur' = cur /\ raced' = raced
        /\ pc[p] \notin Live /\ pc'[p] \notin Live
        /\ \A q \in Procs \ {p} : pc'[q] = pc[q]
        /\ locks' = locks \ {cur[p]}
        /\ \A r \in RunId \ {cur[p]} : files'[r] = files[r]
    BY <1>7 DEF StopRecording, Goto, TypeInv, TypeOK, Live
  <2>2. ASSUME NEW q \in Procs
        PROVE  (pc[q] \in Live => Locked(q))' /\ Ended(q)'
    <3>1. CASE q = p
      BY <1>1, <2>1, <3>1
    <3>2. CASE q # p
      BY <1>1, <1>2, <2>1, <3>2
    <3>3. QED
      BY <3>1, <3>2
  <2>3. \A r \in locks' : Began(r)'
    BY <2>1 DEF LockInv, Began
  <2>4. QED
    BY <2>2, <2>3 DEF LockInv
<1>8. ASSUME NEW p \in Procs, RemoveCapture(p)
      PROVE  LockInv'
  <2>1. /\ row' = row /\ cur' = cur /\ raced' = raced /\ pc' = pc /\ locks' = locks
        /\ doomed[p] \subseteq RunId /\ doomed[p] # {}
        /\ files' = [files EXCEPT ![Min(doomed[p])] = {}]
    BY <1>8 DEF RemoveCapture, TypeInv, TypeOK
  <2>2. Min(doomed[p]) \in doomed[p]
    BY <2>1, MinOfRuns
  <2>3. row[Min(doomed[p])].evidencePruned # Kept
    BY <2>2 DEF DoomedInv
  <2>4. ASSUME NEW q \in Procs, pc[q] \in Live
        PROVE  Locked(q)'
    <3>1. cur[q] \notin raced => cur[q] # Min(doomed[p])
      BY <2>3, <2>4 DEF KeptInv, LiveWhole
    <3>2. cur[q] \in RunId
      BY <1>1, <2>4
    <3>3. cur[q] \notin raced => files'[cur[q]] = files[cur[q]]
      BY <2>1, <3>1, <3>2 DEF TypeInv, TypeOK
    <3>4. QED
      BY <1>1, <2>1, <2>4, <3>3
  <2>5. \A q \in Procs : Ended(q)'
    BY <1>1, <2>1
  <2>6. \A r \in locks' : Began(r)'
    BY <2>1 DEF LockInv, Began
  <2>7. QED
    BY <2>1, <2>4, <2>5, <2>6 DEF LockInv
<1>9. ASSUME NEW p \in Procs, Leave(p) \/ Crash(p)
      PROVE  LockInv'
  <2>1. /\ row' = row /\ files' = files /\ raced' = raced
        /\ pc'[p] \notin Live /\ cur'[p] = NoRun
        /\ locks' = locks \ {cur[p]}
        /\ \A q \in Procs \ {p} : pc'[q] = pc[q] /\ cur'[q] = cur[q]
    BY <1>9 DEF Leave, Done, GiveUp, FailPruned, Crash, Exit, TypeInv, TypeOK, Live
  <2>2. ASSUME NEW q \in Procs
        PROVE  (pc[q] \in Live => Locked(q))' /\ Ended(q)'
    <3>1. CASE q = p
      BY <2>1, <3>1 DEF NoRun, RunId
    <3>2. CASE q # p
      BY <1>1, <1>2, <2>1, <3>2
    <3>3. QED
      BY <3>1, <3>2
  <2>3. \A r \in locks' : Began(r)'
    BY <2>1 DEF LockInv, Began
  <2>4. QED
    BY <2>2, <2>3 DEF LockInv
<1>10. ASSUME NEW p \in Procs, ReadCandidates(p) \/ Require(p) \/ ReadStats(p)
       PROVE  LockInv'
  <2>1. /\ row' = row /\ cur' = cur /\ raced' = raced /\ files' = files /\ locks' = locks
        /\ {pc[p], pc'[p]} \subseteq Live \ {"inserted", "created"}
        /\ \A q \in Procs \ {p} : pc'[q] = pc[q]
    BY <1>10 DEF ReadCandidates, Require, ReadStats, Goto, TypeInv, TypeOK, disk, Live
  <2>2. QED
    BY <1>1, <2>1 DEF LockInv, Began, Live
<1>11. ASSUME NEW p \in Procs, \/ StartGc(p) \/ PlanPrune(p) \/ PruneBatch(p)
                               \/ NextBatch(p) \/ SweepOrphans(p) \/ Vacuum(p)
       PROVE  LockInv'
  <2>1. /\ cur' = cur /\ files' = files /\ locks' = locks
        /\ pc[p] \notin Live /\ pc'[p] \notin Live
        /\ \A q \in Procs \ {p} : pc'[q] = pc[q]
    BY <1>11 DEF StartGc, PlanPrune, PruneBatch, NextBatch, SweepOrphans, Vacuum,
                 Goto, TypeInv, TypeOK, disk, Live
  <2>2. ASSUME NEW q \in Procs
        PROVE  (pc[q] \in Live => Locked(q))' /\ Ended(q)'
    BY <1>1, <1>3, <2>1, EndedStay
  <2>3. \A r \in locks' : Began(r)'
    BY <2>1, RowsGrow DEF LockInv, TypeInv, TypeOK
  <2>4. QED
    BY <2>2, <2>3 DEF LockInv
<1>12. CASE Tick \/ UNCHANGED vars
  BY <1>12 DEF Tick, vars, disk, LockInv, Began
<1>13. QED
  BY <1>4, <1>5, <1>6, <1>7, <1>8, <1>9, <1>10, <1>11, <1>12
  DEF Next, Begin, Finish, Prune, Rest, Procs

StoreInv == LockInv /\ DueInv /\ KeptInv /\ DoomedInv

LEMMA StoreInvariant == Spec => []StoreInv
<1>1. Init => StoreInv
  <2>1. Init => LockInv /\ DueInv /\ DoomedInv
    BY DEF Init, LockInv, DueInv, DoomedInv, Live, NoRun, RunId
  <2>2. QED
    BY <2>1, KeptInit DEF StoreInv
<1>2. TypeInv /\ RecorderInv /\ StoreInv /\ [Next]_vars => StoreInv'
  BY LockStep, DueStep, KeptStep, DoomedStep DEF StoreInv
<1>3. QED
  BY <1>1, <1>2, TypeInvariant, RecorderInvariant, PTL DEF Spec

-----------------------------------------------------------------------------
(* What they promise. *)

\* What a row says was pruned is gone: whoever prunes, no run is taken from a
\* recorder that holds its lock, so no finish writes rows behind a mark. Only
\* a run taken before its recorder had the lock is excepted (retention.rs
\* recording, write.rs finish_run).
THEOREM NothingLeaked == Spec => []NoLeakedRows
  BY StoreInvariant, PTL DEF StoreInv, KeptInv

\* Whatever the settings, whoever records and prunes: the last KeepRuns runs
\* of a context keep their stats, and the last KeepEvidence their evidence,
\* while the context is used (retention.rs context_steps).
THEOREM LimitsKept == Spec => []LastRunsKept
  BY StoreInvariant, PTL DEF StoreInv, KeptInv

\* The newest usable run of a context loses nothing to the limits, however
\* many unfinished and interrupted runs came after it (retention.rs live_reads).
THEOREM LatestKept == Spec => []LatestUsableKept
<1>1. TypeInv /\ KeptInv => LatestUsableKept
  <2> SUFFICES ASSUME TypeInv, KeptInv, NEW c \in Contexts,
                      {r \in RunId : Usable(r) /\ row[r].context = c} # {}
               PROVE  LET l == Max({r \in RunId : Usable(r) /\ row[r].context = c})
                      IN  l \in raced \/ {row[l].statsPruned, row[l].evidencePruned}
                                           \subseteq {Kept, ByDays}
    BY DEF LatestUsableKept
  <2> DEFINE U == {r \in RunId : Usable(r) /\ row[r].context = c}
             l == Max(U)
  <2>1. l \in U /\ \A s \in U : s <= l
    <3>1. U \subseteq RunId /\ U # {}
      OBVIOUS
    <3> HIDE DEF U
    <3>2. QED
      BY <3>1, MaxOfRuns
  <2>2. l \in RunId /\ Usable(l) /\ row[l].context = c
    BY <2>1
  <2>3. ~ Outdone(l)
    <3>1. ASSUME NEW t \in RunId, t > l, Usable(t), row[t].context = row[l].context
          PROVE  FALSE
      <4>1. t \in U
        BY <2>2, <3>1
      <4>2. t <= l /\ t \in Int /\ l \in Int
        BY <2>1, <2>2, <4>1, RetentionAssumption DEF RunId
      <4>3. QED
        BY <3>1, <4>2
    <3>2. QED
      BY <3>1 DEF Outdone
  <2>4. l \in raced \/ /\ row[l].statsPruned \in {Kept, ByDays}
                       /\ row[l].evidencePruned \in {Kept, ByDays}
    BY <2>2, <2>3 DEF KeptInv, LatestWhole
  <2>5. QED
    BY <2>4
<1>2. QED
  BY <1>1, StoreInvariant, TypeInvariant, PTL DEF StoreInv

LEMMA CaptureStep ==
  ASSUME TypeInv, DoomedInv, [Next]_vars, NEW r \in RunId,
         "capture" \in files[r] \ files'[r]
  PROVE  row[r].evidencePruned # Kept
<1> USE DEF TypeInv, TypeOK
<1>1. ASSUME NEW p \in Procs, RemoveCapture(p)
      PROVE  row[r].evidencePruned # Kept
  <2>1. doomed[p] \subseteq RunId /\ doomed[p] # {}
    BY <1>1 DEF RemoveCapture
  <2>2. Min(doomed[p]) \in doomed[p]
    BY <2>1, MinOfRuns
  <2>3. r = Min(doomed[p])
    BY <1>1, <2>1, <2>2 DEF RemoveCapture
  <2>4. QED
    BY <2>2, <2>3 DEF DoomedInv
<1>2. ASSUME NEW p \in Procs, StopRecording(p) \/ CreateLock(p) \/ TakeLock(p)
      PROVE  FALSE
  BY <1>2 DEF StopRecording, CreateLock, TakeLock
<1>3. ASSUME NEW p \in Procs,
             \/ (\E c \in Contexts : InsertRun(p, c))
             \/ ReadCandidates(p) \/ Require(p) \/ ReadStats(p) \/ FinishRun(p)
             \/ FinishInterruptedRun(p) \/ StartGc(p) \/ PlanPrune(p)
             \/ PruneBatch(p) \/ NextBatch(p) \/ SweepOrphans(p) \/ Vacuum(p)
             \/ Leave(p) \/ Crash(p)
      PROVE  files' = files
  BY <1>3 DEF InsertRun, ReadCandidates, Require, ReadStats, FinishRun,
              FinishInterruptedRun, StartGc, PlanPrune, PruneBatch, NextBatch,
              SweepOrphans, Vacuum, Leave, Done, GiveUp, FailPruned, Crash,
              Exit, disk
<1>4. CASE Tick \/ UNCHANGED vars
  BY <1>4 DEF Tick, vars, disk
<1>5. QED
  BY <1>1, <1>2, <1>3, <1>4 DEF Next, Begin, Finish, Prune, Rest, Procs

\* A raw capture goes only once a commit says its run's evidence is pruned,
\* wherever the pruning process dies (retention.rs prune_batch).
THEOREM CaptureIsLast == Spec => CaptureOutlivesEvidence
<1>1. TypeInv /\ DoomedInv /\ [Next]_vars
        => [\A r \in RunId :
              "capture" \in files[r] \ files'[r] => row[r].evidencePruned # Kept]_vars
  BY CaptureStep
<1>2. QED
  BY <1>1, TypeInvariant, StoreInvariant, PTL DEF Spec, StoreInv, CaptureOutlivesEvidence

-----------------------------------------------------------------------------
(* The store implements the abstract history of its runs: whatever the     *)
(* processes do, what the rows say changes only as RunHistory allows.       *)

\* What reading a run whose row is x gives rather than an error.
Reads(x) ==
  IF x.status \notin {"finished", "interrupted"} THEN {}
  ELSE (IF x.statsPruned = Kept THEN {"stats"} ELSE {})
    \cup (IF x.evidencePruned = Kept THEN {"evidence"} ELSE {})

life     == [r \in RunId |-> row[r].status]
judged   == [r \in RunId |-> row[r].baseline]
readable == [r \in RunId |-> Reads(row[r])]

\* A run not begun was judged against nothing.
AbsentBare == \A r \in RunId : ~ Began(r) => row[r].baseline = {}

LEMMA AbsentBareInvariant == Spec => []AbsentBare
<1>1. Init => AbsentBare
  BY DEF Init, AbsentBare, Absent
<1>2. ASSUME TypeInv, DueInv, AbsentBare, [Next]_vars
      PROVE  AbsentBare'
  <2> SUFFICES ASSUME NEW r \in RunId, ~ Began(r)'
               PROVE  row'[r].baseline = {}
    BY DEF AbsentBare
  <2>1. RowFate(r) /\ row[r] \in Row
    BY <1>2, RowFates DEF TypeInv, TypeOK
  <2>2. CASE Taken(r)
    <3>1. PICK s : StepSound(s) /\ s.run = r /\ row'[r] = Pruned(r, s.by)
      BY <1>2, <2>2 DEF Taken, DueInv
    <3>2. Lost(r, s.by)
      BY <2>1, <3>1, PrunedTiers
    <3>3. QED
      BY <3>1, <3>2 DEF StepSound, Lost, Began
  <2>3. CASE row'[r] = row[r]
    BY <1>2, <2>3 DEF AbsentBare, Began
  <2>4. CASE Born(r) \/ Closed(r)
    BY <2>4 DEF Born, Closed, Began
  <2>5. QED
    BY <2>1, <2>2, <2>3, <2>4 DEF RowFate
<1>3. QED
  BY <1>1, <1>2, TypeInvariant, StoreInvariant, PTL DEF Spec, StoreInv

LEMMA HistoryInit == Init => History!HInit
  BY DEF Init, Absent, History!HInit, History!Runs, RunId

LEMMA HBeginStep ==
  ASSUME TypeInv, AbsentBare, NEW p \in Procs, NEW c \in Contexts, InsertRun(p, c)
  PROVE  History!HNext
<1> USE DEF TypeInv, TypeOK
<1>1. PICK s \in RunId :
        /\ ~ Began(s)
        /\ \A r \in RunId : r < s => Began(r)
        /\ row' = [row EXCEPT ![s] = [Absent EXCEPT !.context = c,
                                                    !.status = "unfinished",
                                                    !.started = today]]
  BY DEF InsertRun, NextId
<1>2. /\ row'[s] = [Absent EXCEPT !.context = c, !.status = "unfinished",
                                  !.started = today]
      /\ \A r \in RunId \ {s} : row'[r] = row[r]
  BY <1>1
<1>3. row'[s].status = "unfinished" /\ row'[s].baseline = {}
  BY <1>2 DEF Absent
<1>4. row[s].status = "absent"
  BY <1>1 DEF Began
<1>5. life' = [life EXCEPT ![s] = "unfinished"]
  BY <1>2, <1>3 DEF life
<1>6. readable' = readable
  <2>1. \A r \in RunId : Reads(row'[r]) = Reads(row[r])
    BY <1>2, <1>3, <1>4 DEF Reads
  <2>2. QED
    BY <2>1 DEF readable
<1>7. judged' = judged
  <2>1. \A r \in RunId : row'[r].baseline = row[r].baseline
    <3>1. row[s].baseline = {}
      BY <1>1 DEF AbsentBare
    <3>2. QED
      BY <1>2, <1>3, <3>1
  <2>2. QED
    BY <2>1 DEF judged
<1>8. History!HBegin(s)
  <2>1. life[s] = "absent" /\ \A r \in RunId : r < s => life[r] # "absent"
    BY <1>1, <1>4 DEF life, Began
  <2>2. QED
    BY <1>5, <1>6, <1>7, <2>1 DEF History!HBegin, History!Runs, RunId, life, judged, readable, Reads
<1>9. QED
  BY <1>8 DEF History!HNext, History!Runs, RunId

LEMMA HCloseStep ==
  ASSUME TypeInv, RecorderInv, BaselineInv, KeptInv,
         NEW p \in Procs, FinishRun(p) \/ FinishInterruptedRun(p)
  PROVE  History!HNext
<1> USE DEF TypeInv, TypeOK
<1>1. PICK f \in RunId : f = cur[p] /\ row[f].status = "unfinished"
  BY DEF FinishRun, FinishInterruptedRun, Goto, Live, Busy, RecorderInv
<1>2. PICK status \in {"finished", "interrupted"}, B \in SUBSET RunId :
        /\ row' = [row EXCEPT ![f] = FinishedRow(f, status, B)]
        /\ Judges(f, B)
  <2>1. CASE FinishRun(p)
    <3>1. pc[p] = "comparing"
      BY <2>1 DEF FinishRun, Goto
    <3>2. PICK B \in SUBSET seen[p] :
            row' = [row EXCEPT ![cur[p]] = FinishedRow(cur[p], "finished", B)]
      BY <2>1 DEF FinishRun
    <3>3. Judges(f, Compared(p)) /\ B \subseteq Compared(p) /\ Compared(p) \subseteq RunId
      BY <1>1, <3>1, <3>2 DEF BaselineInv, Compared
    <3>4. Judges(f, B)
      BY <3>3, SmallerJudged
    <3>5. QED
      BY <1>1, <3>2, <3>3, <3>4
  <2>2. CASE FinishInterruptedRun(p)
    BY <1>1, <2>2, NothingJudged DEF FinishInterruptedRun
  <2>3. QED
    BY <2>1, <2>2
<1>3. /\ row'[f].status = status /\ row'[f].baseline = B
      /\ \A r \in RunId \ {f} : row'[r] = row[r]
  BY <1>1, <1>2, FinishedKeeps
<1>4. life' = [life EXCEPT ![f] = status]
  BY <1>1, <1>3 DEF life
<1>5. judged' = [judged EXCEPT ![f] = B]
  BY <1>1, <1>3 DEF judged
<1>6. readable' = [readable EXCEPT ![f] = Reads(row[f])']
  BY <1>1, <1>3 DEF readable
<1>7. Reads(row[f])' \in History!Tiers
  <2>1. row'[f].statsPruned = row[f].statsPruned
        /\ row'[f].evidencePruned = row[f].evidencePruned
    BY <1>1, <1>2, FinishedKeeps
  <2>2. QED
    BY <1>1, <2>1 DEF KeptInv, TiersNested, Reads, History!Tiers
<1>8. B \in SUBSET {s \in RunId : s < f /\ life[s] = "finished"}
  BY <1>2 DEF Judges, Usable, life
<1>9. History!HClose(f)
  <2>1. life[f] = "unfinished"
    BY <1>1 DEF life
  <2>2. QED
    BY <1>1, <1>2, <1>4, <1>5, <1>6, <1>7, <1>8, <2>1
    DEF History!HClose, History!Closed, History!Runs, RunId, life, judged, readable, Reads
<1>10. QED
  BY <1>1, <1>9 DEF History!HNext, History!Runs, RunId

LEMMA HLoseStep ==
  ASSUME TypeInv, TypeInv', DueInv, KeptInv, KeptInv', NEW p \in Procs, PruneBatch(p)
  PROVE  History!HNext
<1> USE DEF TypeInv, TypeOK
<1>1. \A r \in RunId : row'[r].status = row[r].status /\ row'[r].baseline = row[r].baseline
  BY BatchKeeps
<1>2. life' = life /\ judged' = judged
  BY <1>1 DEF life, judged
<1>3. ASSUME NEW r \in RunId
      PROVE  readable'[r] \in History!Tiers /\ readable'[r] \subseteq readable[r]
  <2>1. /\ readable[r] = Reads(row[r]) /\ readable'[r] = Reads(row'[r])
        /\ row'[r].status = row[r].status
    BY <1>1, <1>3 DEF readable
  <2>2. Reads(row'[r]) \in History!Tiers
    BY <1>3 DEF KeptInv, TiersNested, Reads, History!Tiers
  <2>3. CASE row'[r] = row[r]
    BY <2>1, <2>2, <2>3
  <2>4. CASE \E s : StepSound(s) /\ s.run = r /\ row'[r] = Pruned(r, s.by)
    <3>1. PICK s : StepSound(s) /\ s.run = r /\ row'[r] = Pruned(r, s.by)
      BY <2>4
    <3>2. row[r] \in Row
      BY <1>3
    <3>3. Lost(r, s.by)
      BY <3>1, <3>2, PrunedTiers
    <3>4. /\ row'[r].statsPruned = Kept => row[r].statsPruned = Kept
          /\ row'[r].evidencePruned = Kept => row[r].evidencePruned = Kept
      BY <3>1, <3>3 DEF Lost, StepSound, Kept, ByRuns, ByEvidence, ByDays
    <3>5. QED
      BY <2>1, <2>2, <3>4 DEF Reads
  <2>5. row'[r] = row[r] \/ Taken(r)
    <3>1. PICK done \in SUBSET due[p] :
            row' = [q \in RunId |->
                      IF \E s \in done : s.run = q
                      THEN Pruned(q, (CHOOSE s \in done : s.run = q).by)
                      ELSE row[q]]
      BY DEF PruneBatch
    <3>2. pc[p] = "pruning"
      BY DEF PruneBatch, Goto
    <3>3. CASE \E s \in done : s.run = r
      BY <1>3, <3>1, <3>2, <3>3 DEF Taken
    <3>4. CASE ~ \E s \in done : s.run = r
      BY <1>3, <3>1, <3>4
    <3>5. QED
      BY <3>3, <3>4
  <2>6. QED
    BY <2>3, <2>4, <2>5 DEF Taken, DueInv
<1>4. History!HLose
  BY <1>2, <1>3 DEF History!HLose, History!Runs, RunId, life, judged, readable, Reads
<1>5. QED
  BY <1>4 DEF History!HNext

LEMMA HistoryStep ==
  ASSUME TypeInv, TypeInv', RecorderInv, BaselineInv, DueInv,
         KeptInv, KeptInv', AbsentBare, [Next]_vars
  PROVE  [History!HNext]_(History!histVars)
<1>1. ASSUME NEW p \in Procs,
             \/ CreateLock(p) \/ TakeLock(p) \/ StopRecording(p) \/ ReadCandidates(p)
             \/ Require(p) \/ ReadStats(p) \/ StartGc(p) \/ PlanPrune(p)
             \/ RemoveCapture(p) \/ NextBatch(p) \/ SweepOrphans(p) \/ Vacuum(p)
             \/ Leave(p) \/ Crash(p)
      PROVE  row' = row
  BY <1>1 DEF CreateLock, TakeLock, StopRecording, ReadCandidates, Require,
              ReadStats, StartGc, PlanPrune, RemoveCapture, NextBatch,
              SweepOrphans, Vacuum, Leave, Done, GiveUp, FailPruned, Crash, Exit
<1>2. CASE Tick \/ UNCHANGED vars
  BY <1>2 DEF Tick, vars, History!histVars
<1>3. row' = row => UNCHANGED History!histVars
  BY DEF History!histVars
<1>4. QED
  BY <1>1, <1>2, <1>3, HBeginStep, HCloseStep, HLoseStep
  DEF Next, Begin, Finish, Prune, Rest, Procs

\* The store implements the history of its runs (write.rs, retention.rs): ids
\* are handed out in order, a run is closed once and judged against earlier
\* finished runs, and what can be read of it only shrinks, evidence first.
THEOREM StoreImplementsHistory == Spec => RunHistoryKept
<1>1. TypeInv /\ TypeInv' /\ RecorderInv /\ BaselineInv /\ DueInv
        /\ KeptInv /\ KeptInv' /\ AbsentBare /\ [Next]_vars
        => [History!HNext]_(History!histVars)
  BY HistoryStep
<1>2. QED
  BY <1>1, HistoryInit, TypeInvariant, RecorderInvariant, BaselineInvariant,
     StoreInvariant, AbsentBareInvariant, PTL DEF Spec, StoreInv, RunHistoryKept, History!HSpec
=============================================================================
