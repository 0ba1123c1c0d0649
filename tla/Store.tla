-------------------------------- MODULE Store --------------------------------
(***************************************************************************)
(* Several siftr processes over one data dir: runs are begun, recorded,    *)
(* compared with their baseline and finished (store/write.rs, record.rs);  *)
(* every finish prunes, and so does `siftr gc` (store/retention.rs,        *)
(* cmd/gc.rs). A process may die, or give up, between any two steps.       *)
(*                                                                         *)
(* SQLite's write lock is the variable writer: an IMMEDIATE transaction    *)
(* that computes something while holding it is two actions. Readers never  *)
(* take it, so a statement of theirs sees the last commit.                 *)
(***************************************************************************)
EXTENDS Retention

CONSTANTS
  Recorders,    \* processes that record runs, one after another
  Collectors,   \* processes that run `siftr gc`
  NoProc,       \* nobody
  MaxCrashes    \* bound: processes that die or fail

Procs == Recorders \cup Collectors

ASSUME ProcsAssumption ==
  /\ Recorders \cap Collectors = {}
  /\ NoProc \notin Procs
  /\ MaxCrashes \in Nat

VARIABLES
  pc,       \* what each process does next
  cur,      \* the run it records; NoRun for none, or for a gc
  unread,   \* baseline candidates whose stats it has yet to read
  seen,     \* candidates whose stats it has read
  due,      \* the steps of the plan it is carrying out
  doomed,   \* run dirs it has yet to remove
  again,    \* gc: another batch is due
  writer,   \* who holds SQLite's write lock
  raced,    \* history: runs a plan took before their recorder had its lock
  crashes   \* how many processes have died

vars == <<row, files, locks, today, pc, cur, unread, seen, due, doomed,
          again, writer, raced, crashes>>

disk == <<files, locks>>

NoRun == 0

\* The recorder's states, from its row's INSERT to its finish's COMMIT.
Live == {"inserted", "created", "recording", "comparing", "reading"}

PC == Live \cup {"idle", "unlocking", "upkeep", "gc", "pruning", "removing",
                 "sweeping", "vacuuming"}

TypeOK ==
  /\ row \in [RunId -> Row]
  /\ files \in [RunId -> SUBSET {"dir", "lock", "capture"}]
  /\ locks \in SUBSET RunId
  /\ today \in Day
  /\ pc \in [Procs -> PC]
  /\ cur \in [Procs -> RunId \cup {NoRun}]
  /\ unread \in [Procs -> SUBSET RunId]
  /\ seen \in [Procs -> SUBSET RunId]
  /\ due \in [Procs -> SUBSET Step]
  /\ doomed \in [Procs -> SUBSET RunId]
  /\ again \in [Procs -> BOOLEAN]
  /\ writer \in Procs \cup {NoProc}
  /\ raced \in SUBSET RunId
  /\ crashes \in 0..MaxCrashes

Absent == [context |-> CHOOSE c \in Contexts : TRUE, status |-> "absent",
           started |-> 0, ended |-> 0, baseline |-> {},
           stats |-> FALSE, exemplars |-> FALSE,
           statsPruned |-> Kept, evidencePruned |-> Kept]

Init ==
  /\ row = [r \in RunId |-> Absent]
  /\ files = [r \in RunId |-> {}]
  /\ locks = {}
  /\ today = 0
  /\ pc = [p \in Procs |-> "idle"]
  /\ cur = [p \in Procs |-> NoRun]
  /\ unread = [p \in Procs |-> {}]
  /\ seen = [p \in Procs |-> {}]
  /\ due = [p \in Procs |-> {}]
  /\ doomed = [p \in Procs |-> {}]
  /\ again = [p \in Procs |-> FALSE]
  /\ writer = NoProc
  /\ raced = {}
  /\ crashes = 0

Goto(p, from, to) ==
  /\ pc[p] = from
  /\ pc' = [pc EXCEPT ![p] = to]

-----------------------------------------------------------------------------
(* Beginning a run. *)

\* Mutant: ids of pruned runs are handed out again.
NextId_Reused(r) == ~ Began(r) \/ row[r].statsPruned # Kept

\* SQLite's rowid: rows are never deleted, so one more than the last.
NextId(r) == ~ Began(r) /\ \A s \in RunId : s < r => Began(s)

\* The row is committed before its dir, and its lock, exist.
InsertRun(p, c) ==
  \E r \in RunId :
    /\ Goto(p, "idle", "inserted")
    /\ writer = NoProc
    /\ NextId(r)
    /\ row' = [row EXCEPT ![r] = [Absent EXCEPT !.context = c,
                                                !.status = "unfinished",
                                                !.started = today]]
    /\ cur' = [cur EXCEPT ![p] = r]
    /\ UNCHANGED <<files, locks, today, unread, seen, due, doomed, again,
                   writer, raced, crashes>>

\* create_dir_all, then File::create: the lock file exists, unlocked.
CreateLock(p) ==
  /\ Goto(p, "inserted", "created")
  /\ files' = [files EXCEPT ![cur[p]] = @ \cup {"dir", "lock"}]
  /\ UNCHANGED <<row, locks, today, cur, unread, seen, due, doomed, again,
                 writer, raced, crashes>>

\* A prune's check holds it only for an instant, so lock_within succeeds.
\* With SIFTR_CAPTURE not off the raw capture starts, making the dir again.
TakeLock(p) ==
  \E capture \in SUBSET {{"dir", "capture"}} :
    /\ Goto(p, "created", "recording")
    /\ locks' = locks \cup {cur[p]}
    /\ files' = [files EXCEPT ![cur[p]] = @ \cup UNION capture]
    /\ UNCHANGED <<row, today, cur, unread, seen, due, doomed, again, writer,
                   raced, crashes>>

-----------------------------------------------------------------------------
(* Recording and finishing it. *)

\* Mutant: id < before is dropped.
Candidates_Later(r) ==
  LET Others == UsableWithStats(row[r].context) \ {r}
  IN  {s \in Others : Cardinality({t \in Others : t > s}) < MAX_RUNS}

\* The MAX_RUNS newest usable runs of the context before r.
Candidates(r) ==
  LET Earlier == {s \in UsableWithStats(row[r].context) : s < r}
  IN  {s \in Earlier : Cardinality({t \in Earlier : t > s}) < MAX_RUNS}

ReadCandidates(p) ==
  /\ Goto(p, "recording", "comparing")
  /\ unread' = [unread EXCEPT ![p] = Candidates(cur[p])]
  /\ UNCHANGED <<row, disk, today, cur, seen, due, doomed, again, writer,
                 raced, crashes>>

\* run_stats, newest candidate first: `require` looks at the row, and only
\* then do separate SELECTs read what hangs off it.
Require(p) ==
  /\ unread[p] # {}
  /\ row[Max(unread[p])].statsPruned = Kept
  /\ Goto(p, "comparing", "reading")
  /\ UNCHANGED <<row, disk, today, cur, unread, seen, due, doomed, again,
                 writer, raced, crashes>>

ReadStats(p) ==
  /\ Goto(p, "reading", "comparing")
  /\ unread' = [unread EXCEPT ![p] = @ \ {Max(@)}]
  /\ seen' = [seen EXCEPT ![p] = @ \cup {Max(unread[p])}]
  /\ UNCHANGED <<row, disk, today, cur, due, doomed, again, writer, raced, crashes>>

FinishedRow(r, status, baseline) ==
  [row[r] EXCEPT !.status = status, !.ended = today, !.baseline = baseline,
                 !.stats = TRUE, !.exemplars = TRUE]

\* Which of the candidates are comparable depends on what the runs ran.
FinishRun(p) ==
  /\ Goto(p, "comparing", "unlocking")
  /\ unread[p] = {}
  /\ writer = NoProc
  /\ \E B \in SUBSET seen[p] :
       row' = [row EXCEPT ![cur[p]] = FinishedRow(cur[p], "finished", B)]
  /\ seen' = [seen EXCEPT ![p] = {}]
  /\ UNCHANGED <<disk, today, cur, unread, due, doomed, again, writer, raced,
                 crashes>>

\* A signal ended the run: evidence only, compared with nothing.
FinishInterruptedRun(p) ==
  /\ Goto(p, "recording", "unlocking")
  /\ writer = NoProc
  /\ row' = [row EXCEPT ![cur[p]] = FinishedRow(cur[p], "interrupted", {})]
  /\ UNCHANGED <<disk, today, cur, unread, seen, due, doomed, again, writer,
                 raced, crashes>>

StopRecording(p) ==
  /\ Goto(p, "unlocking", "upkeep")
  /\ locks' = locks \ {cur[p]}
  /\ files' = [files EXCEPT ![cur[p]] = @ \ {"lock"}]
  /\ UNCHANGED <<row, today, cur, unread, seen, due, doomed, again, writer,
                 raced, crashes>>

-----------------------------------------------------------------------------
(* Pruning: after a finish one batch, for gc batches until nothing is due. *)

StartGc(p) ==
  /\ Goto(p, "idle", "gc")
  /\ UNCHANGED <<row, disk, today, cur, unread, seen, due, doomed, again,
                 writer, raced, crashes>>

LiveRuns == {cur[p] : p \in {q \in Procs : pc[q] \in Live}}

\* The plan is made under the write lock, which creating or taking a
\* recording lock does not need: a run whose recorder has yet to take its
\* lock may be in it.
PlanPrune(p) ==
  /\ pc[p] \in {"upkeep", "gc"}
  /\ pc' = [pc EXCEPT ![p] = "pruning"]
  /\ writer = NoProc
  /\ writer' = p
  /\ due' = [due EXCEPT ![p] = Plan]
  /\ raced' = raced \cup {r \in LiveRuns \ locks : \E s \in Plan : s.run = r}
  /\ UNCHANGED <<row, disk, today, cur, unread, seen, doomed, again, crashes>>

\* Mutants: gc goes on without progress; captures of steps not carried out.
Progressed_Always(done) == TRUE
Removals_WholePlan(p, done) == {s.run : s \in due[p]}

Progressed(done)  == done # {}
Removals(p, done) == {s.run : s \in done}

\* Oldest first, until the budget is spent: any prefix of the plan.
PruneBatch(p) ==
  \E done \in SUBSET due[p] :
    /\ \A s \in done, t \in due[p] : t.run < s.run => t \in done
    /\ Goto(p, "pruning", "removing")
    /\ row' = [r \in RunId |->
                 IF \E s \in done : s.run = r
                 THEN Pruned(r, (CHOOSE s \in done : s.run = r).by)
                 ELSE row[r]]
    /\ UNCHANGED <<disk, today, cur, unread, seen, raced, crashes>>
    /\ due' = [due EXCEPT ![p] = {}]
    /\ doomed' = [doomed EXCEPT ![p] = Removals(p, done)]
    /\ again' = [again EXCEPT ![p] = /\ cur[p] = NoRun
                                      /\ Progressed(done)
                                      /\ Plan' # {}]
    /\ writer' = NoProc

RemoveCapture(p) ==
  /\ pc[p] \in {"removing", "sweeping"}
  /\ doomed[p] # {}
  /\ files' = [files EXCEPT ![Min(doomed[p])] = {}]
  /\ doomed' = [doomed EXCEPT ![p] = @ \ {Min(@)}]
  /\ UNCHANGED <<row, locks, today, pc, cur, unread, seen, due, again,
                 writer, raced, crashes>>

NextBatch(p) ==
  /\ doomed[p] = {} /\ again[p]
  /\ Goto(p, "removing", "gc")
  /\ UNCHANGED <<row, disk, today, cur, unread, seen, due, doomed, again,
                 writer, raced, crashes>>

SweepOrphans(p) ==
  /\ doomed[p] = {} /\ ~ again[p] /\ cur[p] = NoRun
  /\ Goto(p, "removing", "sweeping")
  /\ doomed' = [doomed EXCEPT ![p] = Orphans]
  /\ UNCHANGED <<row, disk, today, cur, unread, seen, due, again, writer,
                 raced, crashes>>

\* A vacuum changes nothing a row says, but holds the write lock throughout.
Vacuum(p) ==
  /\ doomed[p] = {}
  /\ Goto(p, "sweeping", "vacuuming")
  /\ writer = NoProc
  /\ writer' = p
  /\ UNCHANGED <<row, disk, today, cur, unread, seen, due, doomed, again,
                 raced, crashes>>

-----------------------------------------------------------------------------
(* Leaving. *)

\* The process is gone: the system drops its locks, SQLite rolls it back.
Exit(p) ==
  /\ pc' = [pc EXCEPT ![p] = "idle"]
  /\ cur' = [cur EXCEPT ![p] = NoRun]
  /\ unread' = [unread EXCEPT ![p] = {}]
  /\ seen' = [seen EXCEPT ![p] = {}]
  /\ due' = [due EXCEPT ![p] = {}]
  /\ doomed' = [doomed EXCEPT ![p] = {}]
  /\ again' = [again EXCEPT ![p] = FALSE]
  /\ locks' = locks \ {cur[p]}
  /\ writer' = IF writer = p THEN NoProc ELSE writer
  /\ UNCHANGED <<row, files, today, raced>>

\* A finish's upkeep is over, or gc has swept, with or without a vacuum.
Done(p) ==
  /\ \/ pc[p] = "removing" /\ doomed[p] = {} /\ cur[p] # NoRun
     \/ pc[p] = "sweeping" /\ doomed[p] = {}
     \/ pc[p] = "vacuuming"
  /\ Exit(p)
  /\ UNCHANGED crashes

\* The write lock was not free within the wait: none after a finish, 2s for
\* gc and its vacuum, 5s for a finish, whose run then stays unfinished.
GiveUp(p) ==
  /\ writer # NoProc
  /\ \/ pc[p] \in {"upkeep", "gc", "recording"}
     \/ pc[p] = "comparing" /\ unread[p] = {}
     \/ pc[p] = "sweeping" /\ doomed[p] = {}
  /\ Exit(p)
  /\ UNCHANGED crashes

\* `require` found the candidate pruned: finish fails before writing.
FailPruned(p) ==
  /\ pc[p] = "comparing"
  /\ unread[p] # {}
  /\ row[Max(unread[p])].statsPruned # Kept
  /\ Exit(p)
  /\ UNCHANGED crashes

\* siftr is killed, or an operation on the file system fails it.
Crash(p) ==
  /\ pc[p] # "idle"
  /\ crashes < MaxCrashes
  /\ crashes' = crashes + 1
  /\ Exit(p)

Tick ==
  /\ today < MaxDay
  /\ today' = today + 1
  /\ UNCHANGED <<row, disk, pc, cur, unread, seen, due, doomed, again,
                 writer, raced, crashes>>

-----------------------------------------------------------------------------

\* No siftr is running: the system may stay so.
Rest == (\A p \in Procs : pc[p] = "idle") /\ UNCHANGED vars

Begin(p)  == (\E c \in Contexts : InsertRun(p, c)) \/ CreateLock(p) \/ TakeLock(p)
Finish(p) == ReadCandidates(p) \/ Require(p) \/ ReadStats(p) \/ FinishRun(p)
             \/ FinishInterruptedRun(p) \/ StopRecording(p)
Prune(p)  == PlanPrune(p) \/ PruneBatch(p) \/ RemoveCapture(p) \/ NextBatch(p)
             \/ SweepOrphans(p) \/ Vacuum(p)
Leave(p)  == Done(p) \/ GiveUp(p) \/ FailPruned(p)

Next ==
  \/ \E p \in Recorders : Begin(p) \/ Finish(p)
  \/ \E p \in Collectors : StartGc(p)
  \/ \E p \in Procs : Prune(p) \/ Leave(p) \/ Crash(p)
  \/ Tick \/ Rest

Spec == Init /\ [][Next]_vars

-----------------------------------------------------------------------------
(* Fairness. A process that has work of its own left does it; when its       *)
(* command ends, who starts gc, and what kills it are not its own to decide. *)

Work(p) == \/ Require(p) \/ ReadStats(p) \/ FinishRun(p)
           \/ StopRecording(p) \/ Prune(p) \/ Leave(p)

FairSpec == Spec /\ \A p \in Procs : WF_vars(Work(p))

-----------------------------------------------------------------------------
(* Properties. *)

Newer(r) == {s \in RunId : s > r /\ Began(s) /\ row[s].context = row[r].context}

\* A run is only ever judged against earlier runs of its own context that
\* finished and were not interrupted, at most MAX_RUNS of them, whatever
\* else was being recorded meanwhile (read.rs baseline_runs, record.rs).
BaselineSound ==
  \A r \in RunId :
    /\ Cardinality(row[r].baseline) <= MAX_RUNS
    /\ \A b \in row[r].baseline :
         b < r /\ Usable(b) /\ row[b].context = row[r].context

\* What a row says was pruned is gone: a run being recorded under its lock is
\* taken by no prune, so its finish writes no rows behind a mark where no
\* later plan would look, whoever prunes, dies or is idle for days meanwhile
\* (retention.rs recording, write.rs finish_run). Only a run that a plan
\* took between its row's INSERT and its lock is excepted.
NoLeakedRows ==
  \A r \in RunId \ raced :
    /\ row[r].statsPruned # Kept => ~ row[r].stats
    /\ row[r].evidencePruned # Kept => ~ row[r].exemplars

\* A capture goes only after the commit that says its run's evidence was
\* pruned, wherever the pruning process dies (retention.rs prune_batch).
CaptureOutlivesEvidence ==
  [][\A r \in RunId :
       "capture" \in files[r] \ files'[r] => row[r].evidencePruned # Kept]_vars

\* The promise of the settings: the last KeepRuns runs of a context lose
\* stats, and the last KeepEvidence evidence, only by going unrun.
LastRunsKept ==
  \A r \in RunId :
    /\ row[r].statsPruned = ByRuns => Cardinality(Newer(r)) >= KeepRuns
    /\ row[r].evidencePruned \in {ByRuns, ByEvidence}
         => Cardinality(Newer(r)) >= KeepEvidence

\* The newest usable run of a context, which every report starts from, loses
\* nothing to the limits however many unfinished or interrupted runs follow.
LatestUsableKept ==
  \A c \in Contexts :
    LET U == {r \in RunId : Usable(r) /\ row[r].context = c}
    IN  U # {} => LET l == Max(U)
                  IN  l \in raced \/ {row[l].statsPruned, row[l].evidencePruned}
                                       \subseteq {Kept, ByDays}

\* A capture outlived its evidence: the pruning process has yet to remove it,
\* or died before it did.
LeftOver(r) == "capture" \in files[r] /\ row[r].evidencePruned # Kept

\* Nobody waits on anybody for ever: a finish, its upkeep and a gc all end,
\* however many runs others finish meanwhile. And "a crash in between leaves a
\* capture gc removes" (retention.rs prune_batch): a gc that gets to the end of
\* its batches, and is not killed itself, leaves no capture behind.
WorkEnds ==
  /\ \A p \in Procs :
       pc[p] \in PC \ {"idle", "inserted", "created", "recording"} ~> pc[p] = "idle"
  /\ \A g \in Collectors, r \in RunId :
       /\ pc[g] = "removing" /\ ~ again[g]
       /\ LeftOver(r) /\ crashes = MaxCrashes
       ~> ~ LeftOver(r)

\* The store refines the abstract history of its runs: what its rows say.
History ==
  INSTANCE RunHistory WITH
    life     <- [r \in RunId |-> row[r].status],
    judged   <- [r \in RunId |-> row[r].baseline],
    readable <- [r \in RunId |->
                   IF row[r].status \notin {"finished", "interrupted"} THEN {}
                   ELSE (IF row[r].statsPruned = Kept THEN {"stats"} ELSE {})
                     \cup (IF row[r].evidencePruned = Kept THEN {"evidence"} ELSE {})]

RunHistoryKept == History!HSpec
=============================================================================
