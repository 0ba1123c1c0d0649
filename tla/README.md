# A TLA+ model of siftr

siftr wraps a command, or reads a log, turns its lines into behaviors, and
compares each run with the last runs of the same command. It has no server: any
number of short-lived siftr processes share a data directory, an SQLite database
with one directory per run beside it. What is hard about it is therefore in
six places: processes meeting in the store, threads meeting inside one process
while a command runs or a log is read, what a run reads from files other programs
own, how bytes become lines, events and counts within fixed limits, what of a line is
its behavior, and what is concluded from runs that did not run, or read, everything.

This directory models those parts from the source, checks them with TLC on small
instances, and proves most of what they check with TLAPS for every value of the
constants: of the store and its migration, of wrapping a command and reading a log, of
the sources a run reads, of how a suite is counted, and of what siftr reports.

    tlc -config StoreRaces.cfg MCStore        # a run
    tlapm StoreProofs.tla                     # the proofs of a module

`PROJECT.json` lists the runs, which lines of the source every definition models,
and for every checked property a mutant of the model that breaks it. Mutants are
the definitions commented `Mutant:`; nothing uses them.

## Inventory

For each component: its state, its operations, who it meets, and what makes it
correct. *Modelled* says where.

| component (source under `src/src/`) | state | operations | meets | correct when | modelled |
|---|---|---|---|---|---|
| **Store: recording** (`store.rs`, `store/write.rs`, `read.rs`, `ids.rs`, `capture.rs`, `bin/siftr/record.rs`) | rows of `runs` and what hangs off them; run dirs; recording locks | `begin_run`, `capture`, `baseline_runs`/`run_stats`, `finish_run`, `finish_interrupted_run` | other recorders and prunes, through SQLite's write lock and file locks | a run is judged only against earlier whole runs; a finished run stays what it was | `Store` |
| **Retention** (`store/retention.rs`, `bin/siftr/cmd/gc.rs`) | none of its own: every prune plans afresh | `plan`, `prune_batch`, `prune`, `prune_after_finish`, orphaned captures, `vacuum` | recorders, other prunes, crashes, the clock | the limits keep what they promise, nothing read is lost silently, nothing pruned stays behind, gc ends | `Retention`, `Store` |
| **Migration** (`store/schema.rs`, `scrub.rs`) | schema version, journal mode; migration lock | `migrate`, `take_turn`, `scrub::credentials` | other openers, newer siftrs, failures, crashes | nobody works on an old or unredacted store; nothing recorded since is deleted; waiting ends | `Migration` |
| **Run wrapping** (`bin/siftr/cmd/run.rs`, `run/terminal.rs`) | the event queue; the recorder's three states; relays' flags | relays, waiter, beginner, signal thread, event loop | the command, what it leaves behind, the reader of siftr's output, the store | output passes through; nothing is lost; only a whole run is finished as one; siftr ends | `RunCommand` |
| **Ingest** (`bin/siftr/cmd/ingest.rs`) | a queue; the signal flag; what was shown | `pump`, `read_into`, `watch`, `replay`, `Shapes::drain` | the reading thread, signals, the pipe's writer, the reader of siftr's output | a cut input is never a whole run; what was queued is analyzed; each behavior is shown once; siftr ends | `Ingest` |
| **Recording a run, line splitting** (`bin/siftr/record.rs`, `observation.rs`, `store/capture.rs`, `normalize/secrets.rs`) | per stream: the partial line, its number, an open private key; the numbers of masked values; whether the capture stopped | `feed_raw`, `finish_raw`, `scan`, `write_line`, `finish` | chunks cut anywhere; a disk that fails | the lines of the bytes, whatever the cuts; no credential gets through | `Recording` |
| **Aggregation** (`aggregate.rs`) | counts per behavior and scope, measures, exemplars, all capped | `record`, `drain_new`, `finish` | every interpreter | counts add up across the caps, exemplars are lines that occurred | `Aggregator` |
| **Interpreters** (`interpret.rs`, `interpret/*`, `analyze.rs`) | the examples' ranges in the log, the open request, an open list of cargo's | `claim` of RSpec, cargo, generic; Rails log lines; resources | workers that share a log, suites that die | a line of the log belongs to what wrote it | `Interpreters`, `Suite` |
| **Normalization** (`normalize.rs`, `normalize/*`) | none: a template of a line, on a machine | `normalize`, `recognize`, path roles, syslog headers, quotes | the project, home and temp dirs, nested in any way | a template is the line less what varies, and the same on every machine | `Lexemes`, `Paths`, `Normalizer` |
| **Sources, configuration** (`bin/siftr/sources.rs`, `sources/*`, `config.rs`, `project.rs`) | which sources are on, prepared, collected | `load`, `for_command`, `prepare`, `reading`, `collect` | files edited between runs, setups and reads that fail | what was not read is never called new or gone; off is off | `Configuration`, `Sources` |
| **Rails log** (`sources/rails_log.rs`, `sources/rspec.rs`, `assets/siftr_rspec_listener.rb`) | offsets and open files from before the run | `snapshot`, `measure`, `copy`, `place` | the command's logger, rotation, truncation | exactly the run's lines, or none | `RailsLog` |
| **Baseline and signals** (`baseline.rs`, `signal.rs`, `signal/rules.rs`) | none: functions of runs | `from_runs`, `detect` | Store's candidates | no change is raised from what a run did not run | `Signals` |
| **Reminders, feedback** (`bin/siftr/cmd/history.rs`, `feedback.rs`, `store/feedback.rs`) | none: re-judges stored signals | `still_open`, `judge` | retention, which prunes what it reads | shown until seen fixed, or answered | `Reminders` |
| **Reports** (`cmd/status.rs`, `explain.rs`, `changes.rs`, `summary.rs`, `scorecard.rs`, `evidence.rs`, `output.rs`) | none | reads and formatting | | | not modelled |
| **Scheduled runs** (`cmd/cron.rs`), argument parsing, dispatch | a crontab's text, the environment | | | | not modelled |

The hazards this leaves, each at its line and with the properties that cover it,
are in `PROJECT.json` under `hazards`.

## Modules

| module | models |
|---|---|
| `Retention` | what a prune would remove now: the settings with their floors, the plan's two tiers and its ranks, which runs are still recording, what the latest usable run still reads. Declares the rows, the files, the locks and the clock. |
| `Store` | EXTENDS `Retention`. Processes that begin, record, compare and finish runs, prune after a finish, run `gc`, fail, and die. |
| `RunHistory` | abstract: what the store promises about a run. `Store` implements it (`RunHistoryKept`). |
| `StoreProofs` | theorems about `Store`: retention, baselines, and that it implements `RunHistory`. |
| `Migration`, `MigrationProofs` | opening a store of an older version; its theorems. |
| `RunCommand`, `RunCommandProofs` | `siftr run -- CMD`: its threads and their queue; its theorems. |
| `RailsLog`, `RailsLogProofs` | reading the lines a run appended to a log that rotates; its theorems. |
| `Aggregator` | the statistics of a run's behaviors: a record and the functions that update it. |
| `Recording` | EXTENDS `Aggregator`. From chunks to numbered, masked lines, to the capture and to the aggregator. |
| `Ingest` | EXTENDS `Recording`. `siftr ingest`: the reading thread, the signal thread, the loop, the replay of a captured scenario. |
| `IngestInvariants` | EXTENDS `Ingest`. The parts of its inductive invariant, and the words they are said in; nothing is modelled there. |
| `IngestProofs` | EXTENDS `IngestInvariants`. Theorems about `Ingest`'s threads, and about what the recording keeps of the bytes. |
| `Interpreters` | EXTENDS `Aggregator`. What the lines of a suite's streams mean. |
| `Suite` | EXTENDS `Interpreters`. A suite that writes those streams and siftr reading them. |
| `SuiteProofs` | theorems about what `Aggregator` has of a suite's events, and of which lines they are. |
| `Lexemes`, `Paths`, `Normalizer` | what a token is taken for; where a path lies and what it names; the scan that makes a template. |
| `Configuration`, `Sources` | which file governs and what it switches; EXTENDS it: what a run reads besides its output, over the runs of a command. |
| `SourcesProofs` | theorems about both. |
| `Signals` | what changed between a run and its baseline: functions of the runs' stats. |
| `Reminders` | EXTENDS `Signals`. A project's runs over time: what each reports, what `history` says became of it, what `ack` answers. |
| `RemindersProofs` | theorems about `Reminders`. |
| `MC*` | the inputs of a run, or the symmetry. |

`Store` and `RunCommand` meet in the recorder: `RunCommand`'s `BeginRun`, `Answer`
and `End` are the calls whose steps `Store` has in full. `RunCommand` keeps of them
only what the loop can see: that the row appears before the answer, that the answer
may come late, never, or as an error, and that a finish may fail. What it does with a chunk
is `Recording`, which `Ingest` runs in full: both commands feed the same recorder. In a wrapped
suite, `Sources` says what is prepared and collected, `RailsLog` which lines of the log a
collect finds, and `Suite` what is made of them. `Aggregator` is one module under both of its users.
`Normalizer` is what turns a line into the template that `Recording` and `Interpreters` take
as given. `Reminders` is what `Store` leaves open: which of the
candidates compare and which signals a run records. It has one context, whose runs are
recorded one after the other, and keeps of retention only that stats go, the oldest first.

### Store and Retention

One `row` per run holds what retention and the baselines tell apart. The five
statistics tables are one flag (`stats`), the exemplars another. `files` is the run
dir: the dir, the lock file, the raw capture. `locks` are the recording locks the
operating system holds, `writer` SQLite's write lock, and `pc` where each process is.

A step is what no other process can see half of: a statement or transaction on the
database, or one call on the file system. So `begin_run` is `InsertRun`,
`CreateLock` and `TakeLock`; reading a baseline is `ReadCandidates` and, for every
candidate, `Require` and `ReadStats`, since the check and the SELECTs are separate
statements; a finish is `FinishRun` and `StopRecording`; a prune is `PlanPrune` and
`PruneBatch` under one write lock (recording locks can change in between), then one
`RemoveCapture` per run. Which candidates are comparable depends on what the runs
ran, so `FinishRun` records any subset of those it read. How far a batch gets
within its budget is any prefix of the plan.

`GiveUp` is the busy timeout: a process that waits for the write lock leaves when
it is held. `FailPruned` is the error of a finish whose candidate was pruned
meanwhile. `Crash` is a kill, or a file system error, at any step: locks are dropped
and an open transaction is rolled back, files stay.

`raced` is a history variable: runs that a plan took between their row's INSERT and
their recording lock, which the code allows (see below). The invariants speak of the other runs, those
that a plan took, or could have taken, while they were recorded under their lock among them: `NoLeakedRows`
says that no finish writes rows behind a mark where no later plan looks, whoever prunes, dies, or is idle for days
meanwhile, and it breaks if a plan does not ask whether a run is recording (`Due_Unasked`).

`WorkEnds` has two parts: every command that has something to finish ends, and "a crash in between leaves a capture
`gc` removes" (`retention.rs`, after the commit): once nothing dies any more, a `gc` that has come to the end of its batches
leaves no capture behind whose evidence is pruned, whoever left it.

Not in the model: that `lock_within` may time out after two seconds of contention
(only a prune's instant check contends), runs recorded before recording locks
existed, run dirs without a row, and sizes in bytes.

### Migration

One disk, one lock file, one transaction: `version`, `wal` (the journal mode), `plain` (whether
rows hold credentials) and `files` are what is committed, `tx` what the holder of the lock
will commit. `Open` reads the version, as does every `Poll` of a process that waits; `Begin`
reads it again under the lock. Of the migrations one is told apart, the redaction (`SCRUB`):
it rewrites the rows inside the transaction (`rewrite`) and deletes captures outside of it
(`RemoveCapture`), so that a failure leaves deleted what the rollback cannot bring back.
`Fail` is an error or a crash at any step, `Upgrade` a newer siftr, external, that knows one migration
more, and `Record` a run that is recorded meanwhile. Left out: what the other migrations do to the
schema, and older siftrs that have the store open.

### RunCommand

`pipe` is the kernel's buffer per stream, `relay` and `hand` the relay thread and
the chunk it read, `chan` the bounded queue, `recorder` the three states of
`Recorder` with what it holds and what it has fed to the analysis, as one sequence.
Events are records. Chunks are numbered per stream, so that loss, repetition and
reordering show; those of a process the command left behind are all numbered 0 (`Noise`). The main loop is `Receive*`, which includes
`recorder.poll()`, then `Drain`, the check of the relays. Two timers are choices:
`late` once `BEGIN_DEADLINE` has passed, `quiet` once `ORPHAN_GRACE` has passed since
`quiet_since`. A lost reader (`| head`) is the branch of `PassThrough` that ends in
`QueueReaderGone`. Relay flags are exact: the instant between a read returning and
the flag's store is taken as the chunk still being in the pipe.

Not in the model: the PTY and its size, process groups, the exit code, the report, and
errors of `wait`.

### Aggregator, Recording and Ingest

An aggregator is a record: its behaviors, each with its counts, its cells per scope, what no cell
had room for, its measures and its exemplars (the first ones and a reservoir of others), and what
the caps cut. `Record` is `Aggregator::record`, `Drained` `drain_new`. What the sampling draws is a constant
sequence.

A recording is a record too, and `Chunk(rec, stream, bytes)` is `Recorder::feed`. A byte of the
model is a stretch of text that nothing cuts but a chunk's end or `MAX_LINE`: a line's end, a
credential, one end of a private key, an address, other text. `Split` numbers and clips the lines,
masking keeps what the code keeps from line to line (the open key, how many lines it has had, the numbers of
remembered values), `write_line` writes the capture until it fails, and the rest is the aggregator's.

`Ingest` has the reading thread (`Take`, `Send`), the handler (`Signal`), the signal thread (`Wake`,
`Abort`) and the main thread. A terminal's Ctrl-C may kill the pipe's writer too. `Drain` prints new
behaviors, and ends siftr if whoever reads them is gone. `heard` is a history variable: how much had been
queued when the signal thread spoke, which is what an interrupted run has to contain. A chunk read but
not yet sent is lost, which the comment at `ingest.rs:250` does not say.

Not in the model: sizes and durations of a run, the report, the formats of single credentials.

### Interpreters and Suite

A line is a record of what its parser takes from it. `EventsOf` and `After` offer it to RSpec, cargo and the generic
interpreter in turn: what events the one that claims it makes, and the state it leaves. RSpec's keeps the examples' ranges of the Rails
log, in the order they came, and which request is open; a line of the log has the scope of the example whose range
it starts in, or of the request it is about. Cargo's keeps whether a list of failed targets is open.

`Suite` is external: RSpec's workers (how examples, groups, errors outside them and summaries are written is the
listener's), a Rails application that logs requests and queries, or cargo's tests, any of which may be
killed. The listener's `emit` looks at the log's length and then writes its event, which are two steps here
(`NoteStart`, `StartExample`; `NoteEnd`, `EndExample`): other workers log, and write events, in between. Every line of the log carries
who wrote it (`by`, `block`) and which examples were running then, from the look at their start to the one at their end (`during`); siftr
reads none of these and the properties compare with them. `placed` is a history variable: examples both of whose offsets siftr could place and
beside which no other ran.

What can be promised depends on the workers. With several that share one log, no reading of offsets can tell whose line is whose.
`RightScope` says what holds for any number: a line is given to an example only if that one was running when it was written (a request's
own event by its Started line), and an example that ran alone and was placed gets every line it wrote, whatever overlapped before or after it. `RequestsWhole` says, with
one worker, what becomes of requests that are left off at any line: a completed one makes one event of its own data; outside of examples a line in a request is in
that request's endpoint, or in none before its action is known, and only a line outside of requests, and a request's own event, may
be in the endpoint of an earlier one, which was never completed. The comments promise more than that (see below).

Not in the model: parsing itself, durations; that several workers' listeners write a start and a summary each (there is one of each here).

### Lexemes, Paths and Normalizer

A line is a sequence of lexemes, which are strings: a run of letters, a number, or one character. What
a recognizer accepts is a set over them with one member per case the code tells apart. `Normalize` starts on a
line, and an action is an iteration of the scan: `Chunk` (a path or tokens), `Space`, `Escape`, `Quote`, `Placeholder`,
`Mark`, then `Finish`. `Paths` has `canonical`: which root a path lies under, and how much of it is kept. The same line is then
normalized on another machine by the same normalizer, so what a line leaves in it would show.

Not in the model: URLs and the whole alphabet of each recognizer; credentials, which are masked before.
These modules use RECURSIVE operators, and have no theorems.

### Configuration and Sources

A working directory is the sequence of the directories from it upwards, each with or without `.git`, a manifest
and a `.siftr.toml`. `load` is `Config::load`. `Sources` runs one command several times: files may be edited
and the project gain or lose its `log/` in between (`EditFile`, `ChangeProject`), at any step; each source is prepared
and collected in an action of its own that may fail, wholly or half way. `Reading` is what the run is reported to
read and `recording` what it did. A comparison is `Compare`, presence only. Not in the model: a bare
`siftr sources` with no command, the child's environment.

### RailsLog

A file is a sequence of lines and an offset counts lines, as every writer appends
whole lines and siftr looks at the first and last bytes only. Inode numbers are reused
once a file has neither a name nor anybody holding it open. `Create`, `OpenLog`,
`Write`, `Rotate`, `Clear` and `Unlink` are Ruby's logger, `rails log:clear` and the
file system, external to this repository and modelled from what `rails_log.rs` and its
tests say of them; they go on while siftr reads, as a process the command left behind
would. `Stamp` is the listener's `log_offset` and `log_ino`.

`unguarded` is a history variable: lines were cut from a file, or at a time, siftr had
nothing to compare with, which `Exact` and `EventsPlaced` exclude.

### Signals and Reminders

`Signals` is `detect` without its text: which recent runs compare (`BaselineIds`), why a
run or its baseline is incomplete, the presence, frequency and error rules, what partial
runs, switched-off sources and the cap on behaviors take back (`Changes`), and how changes are
grouped and headed (`Key`, `Group`, `HeadKind`). A behavior is an example, or something that
occurs so often in each example and outside them all; that is as much of the stats as the rules
read. A median is kept twice (`Median2`), so that it is an integer.

`Reminders` runs it. A `Code` is what the spec files define, how each example ends and what it
does; the suite that runs it is external, and may fail to load a file, be filtered, stop
early, raise in a hook, or be killed before it summarizes (`Cuts`), as siftr may be told not to
read a stream or reach its cap. `Record` is a run and its `finish`, or its `finish_interrupted`;
`Prune` takes the stats of runs past the newest `KEEP_RUNS`, but may keep more of them than that, as
retention's rule for the latest run does; `Ack` answers a signal. `StillOpen(r)` is
what a report on run `r` reminds of: `judge` with each signal's own baseline, then what
status, settling and answers make of it. The code a run ran is a history variable in each
row: siftr sees the stats only, and the properties compare what it says with what was written.

Not in the model: requests, durations and LATENCY; confidence, and the ranks of groups; `dismissed` feedback, which ends
reminders as an `ack` does, and `investigated`, which ends none. 

## Runs

| run | instance | shows |
|---|---|---|
| `races` | 2 recorders, 4 runs, `MAX_RUNS` 1, limits at their floors (3 runs, 1 evidence) | `BaselineSound`, `LastRunsKept`, `LatestUsableKept`, and that `Store` implements `RunHistory` (`RunHistoryKept`) |
| `days` | a recorder and a gc, 2 runs, 2 days, 2 crashes, captures | `NoLeakedRows`, `CaptureOutlivesEvidence`, `WorkEnds` (ends, and leaves no capture behind) under fairness |
| `migration` | 2 openers, 2 old captures, every older version, 2 polls, 2 opens each | `OpenedIsCurrent`, `RedactedForGood`, `NewCapturesKept`, `NoStall` under fairness of the waiters |
| `wrap` | 1 stream, queue, pipe and held output of 1, 2 chunks, a process left behind, 1 signal | `NothingLost`, `FinishedWhole`; `ShownSoon`, `WrapEnds` under fairness |
| `ingest` | inputs of up to 5 bytes (one of 8) on one or two streams, chunks of 1 or 2, lines of 3, keys of 2 lines, 1 remembered value, 2 behaviors, 2 signals | `CutsDontMatter`, `LinesWhereTheyWere`, `RedactionHolds`, `ShownOnce`, `WholeIsWhole`, `KeepsWhatWasQueued`, `ReadEnds` under fairness |
| `ingest_once` | the same | refutes `OnceIsKept` |
| `rails_log` | 4 inodes, 2 earlier lines, 3 lines, 3 mishaps, 1 event | `Exact`, `EventsPlaced`, `RefusedForCause` |
| `suite` | 2 examples of one file, 2 actions, 1 worker, 6 lines of events and log, 5 of the log, 4 of output, 1 mishap, 2 behaviors | `CountsExact`, `ExemplarsReal`, `QueriesTold`, `RequestsWhole` |
| `suite_workers` | 2 workers, 2 examples, 6 lines of events and log, 3 of the log, 1 mishap | `RightScope` |
| `normalize` | every line of up to 4 or 5 lexemes of small alphabets, and compositions of heads and tails, on 3 machines | `ValuesHidden` (`SlotsTellTheLine` and `WordsKept`), `ListsAreOne`, `SameEverywhere` |
| `sources` | 3 commands, 2 trees, 4 files, 3 runs, 1 edit, a behavior of the events and one of the log | `ClaimsAreReal`, `RecordedWasReported`, `OffIsUntouched` |
| `reminders` | 4 runs, 2 of them cut short, 2 examples and a query, 3 codes, `MAX_RUNS` 2, 1 answer | `GoneForGood`, `NewSinceBaseline`, `RegressionShown`, `AnswersHold` |

Each property is stated in words above its definition, with the code it is about. Every run
ends within five minutes.

### The bounds, and why they are enough

* `MAX_RUNS` is 10 in the code and 1 or 2 here. `LIVE_STATS` is `2 * MAX_RUNS + 1`, so
  the floor of the runs limit is 3 and the fourth run is the first that is past it;
  evidence is past its limit from the second run on. With two recorders four
  runs give every overlap of a late finisher with a prune, and the proofs cover every
  other value.
* Two crashes let a gc die between its commit and a capture's removal, and the gc that
  cleans up after it die too. Two days pass a `SIFTR_KEEP_DAYS` of one.
* A queue, a pipe and a held output of one chunk make each of them full, and one chunk more than is held makes the
  recorder give up. One stream interleaves with the process left behind, the signal and the store's answer; that several streams
  do with each other is in the theorems, which hold for any number of streams, chunks and signals and any capacity.
* Three mishaps are two rotations and a clear, or three rotations, the first sequence
  that puts the starting inode number out of use and another file behind it; four
  inodes are the two held, the current log and a new one. The theorems hold for any number of each.
* Four runs with `MAX_RUNS` 2 are the fewest in which a failure is reported, fixed and back
  inside its own baseline, and in which a run leaves the window. Two cuts are a run
  that skipped something and a baseline run that did. `MIN_RUNS` is 2 as in the code, and `MAX_SIGNALS` is
  low enough to be passed. The theorems hold for every value of all of these.
* Ingest: five bytes are two lines with their ends and a piece, of which a chunk of two ends everywhere; `MAX_LINE` of 3 is
  passed by one byte, also with its return cut off; a key of more than two lines is longer than the
  limit; with one remembered value, the second of a kind puts out the first, and may come back; a third
  behavior is past the cap. Two signals are the one that ends the input and the one that ends siftr. What the
  theorems say of the threads holds for any input and any size of a read.
* Migration: two old captures let a failure fall between their deletions; with two polls a waiter sees the holder
  working, finished, or neither and gives up. Two opens are a failure and its retry. The theorems hold for all values.
* Suite: five lines of the log are a request that is left off once its action is known and a whole one, for the other action, after
  it, which is what it takes to inherit anything; an example's two events and four lines are such a start within an example, whose scope is the finer
  one, or a whole request with a query in it. With two workers four events are two examples that overlap in any way, and two more lines fall
  before, in or after the overlap. With two behaviors of a kind that is
  capped, the third overflows; with two sampled exemplars, their order shows. One mishap is a kill, a failed example, or
  an offset that was not placed. The theorems hold for lines, scopes and limits of any number.
* Normalizer: most rules look at a token, the separator before or after it and their neighbours, which lines of four or five
  lexemes combine in every way; the compositions reach the longer forms (times, addresses, headers, paths).
* Sources: three runs are a baseline of `MIN_RUNS` 2 and the run compared with it. One edit is one in the baseline or
  between it and the run; the initial files already differ. The theorems hold for every project and number of runs.

Deadlock is checked except in `reminders`, `migration`, the suite's runs and `sources`, where a project may not be run again, a user may
not open the store again and a suite has been read. The steps `Rest`, `Exit`, `Exited` and `Stop` say where
the others may stop: no siftr is running, or this one has exited or read its log; a line
that was normalized on two machines stays as it is.

### Fairness

`Store!FairSpec` is weak fairness of what a process does of its own accord once it
has something to finish: no step of it waits for more than the write lock, and giving up
on that is a step as well. When a command ends, who starts a gc, the clock and
crashes are not fair. `RunCommand!FairSpec` is weak fairness of each thread of siftr
and of the clock (`DeadlinePasses`, `GracePasses`). The command need not end, the
store need not answer, and a process left behind need not fall silent: `WrapEnds`
holds without, as the code has a timeout for each. That process writes a bounded number of chunks,
though: a relay blocked on the full queue counts as progress, so while one writes faster
than siftr analyzes it is waited for, and `WrapEnds` says nothing of one that does for ever. One
action per thread is enough as at most one action of a thread is enabled at a time, or any of
them is progress. `Ingest!FairSpec` is weak
fairness of the main thread, the signal thread and the reading thread's `Send`; a read may block for ever, so
`ReadEnds` asks that the input ended or a signal came. The main thread's is written out with `CanRun`,
which says when it can step, as TLC would otherwise compute a recording to find out. `Migration!FairSpec` is weak
fairness of those who wait only: whoever holds the lock may be suspended, and `NoStall` holds all the same. The other
modules have no fairness: they claim nothing will happen.

## Where the code and its documentation part

One disagreement is a run that TLC refutes (`findings`):

* `OnceIsKept`: `ingest.rs:8-10` says that Ctrl-C ends the input and the run is kept as evidence, and `:327-329` that a second
  one loses it. The terminal's Ctrl-C reaches the pipe's writer too. If the end of file this causes is handled first, the loop
  has ended by the time the signal's thread runs; its `send` fails, and siftr exits in the middle of
  finishing the run. One signal was enough.

The others were met while modelling, are allowed by the models, and are why some
properties say what they say:

* What retention keeps follows from the run that is latest when a prune runs (`retention.rs:548`). A later run can need more
  again, when a run left out of one baseline is part of the next. `LatestUsableKept` is about each plan's own time.
* A lock file is created before it is locked (`write.rs:49`), and a prune that opens it in between takes the lock, and the run.
* An empty log has no bytes to compare, nor has one the run created (`rails_log.rs:161`): cut away, its lines are
  missed silently.
* A run that lacks examples is incomplete for its errors outside examples only if it has more of them than every baseline
  run (`baseline.rs:252`). After one hook that raised, a spec file that fails to load goes unremarked, and its examples
  are reported as disappeared.
* `judge` picks, of the signal's own baseline runs, those that compare with the later run (`history.rs:550`). If none of
  them ran the example, the error rule has nothing to compare with, and the change counts as resolved by a run in which it fails
  as before.
* A change that was fixed, came back and was reported anew has two reports (`history.rs:596`). An answer to the second
  does not count for the first, which recurred and so never settles.
* A chunk that was read but not yet queued when a signal ends the input is not in the run (`ingest.rs:250`).
* `rails.rs:7-8` says that outside of examples a block's lines are scoped to the block itself. A line's scope is taken from the
  request that is open before it is read (`:58`), so after a request A that was never completed the Started line of B has A's endpoint for its
  scope, B keeps it (`:84`), and B's own event is recorded in A (`:123`), as are lines outside of requests until another starts. B's other lines are in no scope,
  then in B's. Of a completed request nothing is inherited (`RequestsWhole`).
* `rspec.rs:371` says that overlapping ranges are left unscoped rather than misattributed. Only the range that comes last
  is left out (`:373`). The one it overlaps has been pushed and stays, so what the other worker wrote in it is given to its example, which was at least
  running then (`RightScope`).
* `for_command` and `reading` each look for the Rails log (`sources.rs:107`, `:214`): a log dir created in between is
  reported as a setup that failed.
* A behavior belongs to the stream it was first seen in (`signal.rs:456`): if that stream is off it is not called gone,
  whatever the other stream says, and the reverse. NEW may be claimed with fewer than `MIN_RUNS` runs that read the stream
  (`:473`).
* `aggregate.rs:25` says no emitter has more than six measures; cargo's summary has seven (`cargo.rs:215`), and
  `filtered_out` is dropped.
* A path is made canonical only where a word or a key's value starts, so not in `-I/path` or `x:/path`; colors inside a
  word, and two spaces before a unit, make templates of their own; a literal `<int>` has the template of a number.

`FinishedWhole` excepts a run that siftr said it stopped capturing: the grace counts from when the
loop heard of the exit, whether or not the queue is empty, so it may cut chunks the command wrote.

## Proofs

| theorem | property |
|---|---|
| `StoreProofs!TypeCorrect` | `TypeOK` of `Store` |
| `StoreProofs!BaselinesSound` | `BaselineSound` |
| `StoreProofs!NothingLeaked` | `NoLeakedRows` |
| `StoreProofs!LimitsKept` | `LastRunsKept` |
| `StoreProofs!LatestKept` | `LatestUsableKept` |
| `StoreProofs!CaptureIsLast` | `CaptureOutlivesEvidence` |
| `StoreProofs!StoreImplementsHistory` | `RunHistoryKept` |
| `MigrationProofs!Inductive` | `IInv`, the inductive invariant |
| `MigrationProofs!TypeCorrect` | `TypeOK` of `Migration` |
| `MigrationProofs!WorksOnCurrent` | `OpenedIsCurrent` |
| `MigrationProofs!Redacts` | `RedactedForGood` |
| `MigrationProofs!KeepsNewCaptures` | `NewCapturesKept` |
| `RunCommandProofs!TypeCorrect` | `TypeOK` of `RunCommand` |
| `RunCommandProofs!NoChunkLost` | `NothingLost` |
| `RunCommandProofs!FinishedIsWhole` | `FinishedWhole` |
| `IngestProofs!TypeCorrect` | `TypeOK` of `Ingest`, all but the recording |
| `IngestProofs!WholeRuns` | `WholeIsWhole` |
| `IngestProofs!QueuedIsKept` | `KeepsWhatWasQueued` |
| `IngestProofs!CutsAreNothing` | `CutsDontMatter` |
| `IngestProofs!LinesAreFound` | `LinesWhereTheyWere` |
| `IngestProofs!RedactionKept` | `RedactionHolds` |
| `IngestProofs!NoCredentials` | `CredentialsHidden`, a part of `RedactionHolds` |
| `IngestProofs!NumbersTell` | `SameNumber`, a part of `RedactionHolds` |
| `RailsLogProofs!TypeCorrect` | `TypeOK` of `RailsLog` |
| `RailsLogProofs!ExactlyTheRun` | `Exact` |
| `RailsLogProofs!EventsWhereTheyWere` | `EventsPlaced` |
| `RailsLogProofs!RefusedWithCause` | `RefusedForCause` |
| `SourcesProofs!TypeCorrect` | `TypeOK` of `Sources` |
| `SourcesProofs!ClaimsReal` | `ClaimsAreReal` |
| `SourcesProofs!WhatIsRecordedWasReported` | `RecordedWasReported` |
| `SourcesProofs!OffUntouched` | `OffIsUntouched` |
| `SuiteProofs!CountsAreExact` | `CountsExact` |
| `SuiteProofs!ExemplarsAreReal` | `ExemplarsReal` |
| `SuiteProofs!ScopesAreRight` | `RightScope` |
| `SuiteProofs!RequestsAreWhole` | `RequestsWhole`, with one worker |
| `RemindersProofs!TypeCorrect` | `TypeOK` of `Reminders` |
| `RemindersProofs!GoneIsGone` | `GoneForGood` |
| `RemindersProofs!NewIsNew` | `NewSinceBaseline` |
| `RemindersProofs!RegressionsAreShown` | `RegressionShown` |
| `RemindersProofs!AnswersAreKept` | `AnswersHold` |

The type invariants are stated in the proof modules and are not run.

### From which assumptions

Every theorem holds for any values of its constants that satisfy the named assumptions of its module:

* `Store`: any contexts, processes, settings, `MAX_RUNS`, number of runs, days and crashes. `RetentionAssumption`: naturals,
  `MAX_RUNS` positive, some context. `ProcsAssumption`: recorders and collectors differ; `NoProc` is neither.
* `Migration`: any openers, captures, number of migrations, place of the redaction among them, polls and opens (`MigrationAssumption`).
* `RunCommand`: any streams, chunks, signals and capacities (`RunCommandAssumption`: naturals, and that queue and pipe hold something).
* `Ingest`: any inputs, size of a read and number of signals. `IngestAssumption`: what is read outside of a captured scenario is one
  stream, and a scenario has a file for each of its streams (`streams()` in `ingest.rs`), so none is read twice; a read is of one byte or more. `RecordingAssumption`: a line has room for a byte, and the overflow's template is
  its own text, which has nothing to mask.
* `RailsLog`: any files, lines, mishaps and events. `RailsLogAssumption`: `NoFile` is no file, and the guard has a line.
* `Sources`: any commands, directories, files, behaviors and number of runs. `SourcesAssumption`: a working directory has a path,
  `MIN_RUNS` is positive.
* `Suite`: any examples, lines, scopes, draws and bounds. `AggregatorAssumption`: limits are naturals, both numbers of exemplars
  positive. `SuiteAssumption`: the overflow's template is no line's, whose template is what it is of and its text; what stands for
  something that is not there is no number, example, action or scope; RSpec gives no two examples one id, and an id names a
  file. `RequestsAreWhole` also assumes `OneWorker`, without which it does not hold: siftr reads one log, in which the lines of two workers'
  requests are told apart by nothing.
* `Reminders`: any finite suite, codes, cuts, limits and bounds (`SignalsAssumption`, `RemindersAssumption`).

### Along which argument

Each is an invariant that had to be strengthened until it is inductive.

For `Store`:

1. `TypeInv` adds `Busy` to `TypeOK`: a process that records has a run.
2. `RecorderInv`: a live recorder's run is unfinished, its own, and no other's. Without it
   a finish could overwrite a finished row.
3. `BaselineInv`: the candidates a process has read, or has yet to read, are already what a baseline may hold.
   `BaselineSound` says that only of the row, which `FinishRun` writes from `seen`. That
   a candidate stays fit while it is read needs `RecorderInv`: a finished run is final.
4. `DueInv`: every step of a plan being carried out is sound (`StepSound`) in the *current*
   state, though the plan was made in an earlier one: runs are only added, and are only ever
   added at the end, so a rank never falls (`RowsGrow`, `NewerGrows`, `StepStaysSound`).
5. `KeptInv` joins `LiveWhole` (a recording run that no plan took is marked as pruned in neither tier),
   `TiersNested` (evidence goes no later than stats), `NoLeakedRows`, `LastRunsKept` and `LatestWhole`.
   The step for `PruneBatch` uses `DueInv`; the step for `FinishRun` uses `LiveWhole`, which is
   what fails for the runs in `raced`. `LockInv` is what it rests on: a recorder past `TakeLock` holds its run's lock
   until it has finished, so a plan, which is made and carried out under the write lock, finds the run recording; and a plan that is
   being carried out has no run in it that has come under its lock since, but those in `raced`. `StoreInv` joins these, as none of them is inductive
   without the others.
6. `DoomedInv`: a process only ever holds, to be removed, captures whose evidence is marked as pruned, and that
   mark is never taken back (`PrunedForGood`).

The refinement maps `status`, `baseline` and what the two marks leave
readable. `InsertRun` is `HBegin`, the finishes are `HClose`, a batch is `HLose`, the
rest stutters. `AbsentBare` adds that a row not begun has judged nothing.

For `Migration` the invariant `IInv` joins five parts to `TypeOK` and the properties. `LockInv`: who is between taking and
releasing the lock is who holds it. `WalInv`: the write-ahead log is on in a transaction and after it.
`TxInv`: a transaction's version is no older than the store's and, once past the redaction, its rows are redacted and
the old captures gone; so `Commit` keeps `RedactedForGood`. `CurrentInv`: whoever has committed or opened found
the latest version, and versions do not go back. `RecordedInv`: runs are recorded in a store of the latest version only, so
a transaction that starts after one has nothing to redact. That is where `Begin` reading
the version anew under the lock is needed, as in the mutant of `NewCapturesKept`.

For `RunCommand`, `NothingLost` says that what is in five places, one after the other, is what was written. As a statement
about one long sequence it is not inductive in a form a prover can use; `Flow` says it of each place: three counts, *held*, *queued* and
*read*, divide a stream's chunks among the recorder, the queue, the relay's hand and the pipe, each in order.
An action moves one of the counts by one. `Has` divides the recorder's part again, into recorded and held, which
is what changes as a late answer lets go of what was held. Queue and recorder hold the chunks of several streams, so an event of another
stream must leave them alone (`NotOwn`). `FinishedWhole` follows from three more: `RelaysEnd` (a relay ends at the end of its
stream, or because siftr's reader left and the main thread knows or is being told), `StopsLast` (the loop ends, unless siftr
says that it stopped capturing, only when the queue is empty and every sender is gone) and `Finished` (only a
recorder that records, and whose reader is there, finishes a run).

For `Ingest` the invariant is about offsets in the input: how much was `fed`, what each queued chunk spans, how much was read.
`InOrder`: chunks are queued in the order of their offsets. `Closed`: an end of file that is queued comes after all that was
read, and a signal after all that was queued when it came. `Reading`: the end of file is at the end of the input, or else
a signal had come, since the handler's flag is set before the writer can die of the same signal. So the loop, which reads the flag when it gets the
end of file, takes no cut input for a whole one. `Ended` keeps that until the run is closed, and `Alone` says
that a scenario has no threads. These never look into `rec`.

`CredentialsHidden` and `SameNumber` do. `Hidden` says of a recording in any state that its capture is of bytes its mode
allows, that every line and template the analysis has is of bytes that are no credential, and that numbers tell values
apart (`NumbersOk`: a number given is at most the last one of its kind, and a value without room to be remembered never
gets room later). Each is kept by every operation a chunk goes through, from the inside out: the spans of a line
(`SpansSplit`: nothing in between is a credential, by induction from the end of the line), the marks in
their place (`RenderOk`), one line (`SinkLineOk`), a chunk's lines (`ChunkOk`), the last lines (`FlushOk`), the
masking of what was kept (`FinishOk`). `NextHidden` then has a case for each action that records. The folds of the
community modules are functions by their definition, so `FoldWalks` takes one apart as a walk of states along the sequence,
and a property of the last state is shown for each of them in turn (`UpTo`, from the least number that lacks it).

`CutsDontMatter` compares a recording with that of the whole. `AsWhole` is its inductive form: what was recorded so far is `Like` the
recording of what was fed so far in one piece, which is to say equal but for what was shown of it, which showing forgets. It is kept by
a chunk because a chunk after another is the two in one (`ChunkConcat`). That is a fact about the splitter:
the newlines of two chunks are those of the first and those of the second further on (`EndsJoin`), so the lines are those
of the first, then the line that was carried with its other half, then the rest (`RawLinesJoin`), and what is carried on in the end is the
same (`FedJoin`), at every place the line can pass `MAX_LINE` (`ClipTwice`). Feeding what
was split already is feeding one line after the other (`SinkLinesJoin`), where the splitters are read by none (`SinkLinesResplit`).
`PiecesGrow` says it of a scenario's streams in turn, `NoGaps` that the queue's next chunk starts where the last one ended.
Flushing twice is flushing once (`FlushTwice`), so a run whose last line was shown before it is finished is finished the same.

`LinesWhereTheyWere` and `KeysHidden` are then about a recording in one piece (`SeenInAll`). `Saw` says what such a recording has of the
first lines of a stream, in terms of the bytes alone: the lines are numbered and as long as the stretches between its
newlines (`Placed`, `LineLies`), the capture is that of as many lines, byte for byte if none is masked or clipped (`Wrote`), and
the scanner is as far into a private key as the lines since its BEGIN say (`KeyIs`). One more line keeps it
(`LineSunk`), and leaves the other streams as they are (`Kin`); a whole stream is as many lines as it has newlines (`StreamSeen`), a scenario its streams in turn
(`PiecesSeen`), and the end one more line of each stream that has no newline there (`FlushSeen`). That the scanner's count is right
needs that a BEGIN which nothing after it in its line ends is of the last span, whatever comes before it (`KeyOpens`, by induction from the end of the
line), and that a line in a block is one span (`RenderOpen`). `OffsetIs` sums the lengths.

For `RailsLog`, `Kept` says where the run's lines are by the number of rotations: all in the log, or the first of them, to `Mine`, in
the rotated file and the others after a header in the new one (`Continues`); `Made` is the same for a log the run created. `SeenKept` and
`SeenMade` say it of what siftr opened, which may have been appended to or rotated since. `InPlace`: the segments
siftr means to copy hold the run's lines one after the other, and each event lies at its line. `Cuts` and `Lost`
are the converse: what was cut within the guard's sight, or removed, is not there to be compared, and so is
refused. `RefusedForCause` is part of the invariant.

For `Sources`: `OnlyAllowed` (what is prepared or collected is on), `Reported` (every source is reported as
read or as unread, what was prepared as read), `Recorded` (a stream that was read to its end was
seen whole) and `RunsWhole`, the same of the runs there are. `ClaimsAreReal` is inductive with these: a claim is made once, from runs
that stay as they are. `OffIsUntouched` first needs that the nearest directory's file decides (`NearestGoverns`,
`FirstDecides`, `OffIsOff`).

For `Suite`, `AggExact` says of each accumulator what it counts: its behavior's events, or, if it is the overflow's, the events
of all that have none. That is inductive because limits do not look back (`NoRoom`, `PastCap`): a behavior, or a scope,
that found no room finds none later, so what has an accumulator or a cell was counted in it from
its first event on. `KeptOf` says of the lines kept that the first ones are those of the events of the lowest `Rank`, that the others
are of later ones, all different, and how many there are. They differ because `Distinct`: two events of one line are an example and what it
raised, which are of two behaviors, as examples never overflow. Sorting them by line (`BySeq`) then loses and repeats none
(`BySeqSorts`): the places of different lines are different.

`RightScope` and `RequestsWhole` need two invariants more. `WorldInv` is about the suite alone, before anything is read. `Span`: an example ran
from one line of the log to another, the lines it was running at are those between, and each look at the log that was taken of it, whether it is
still in a worker's hand or an event by now, is at one of these two lines (`LenTo`, how long the log's first lines are, grows with each) or could not be
placed. `PlacedOk`: of an example that ran alone and was placed the two events are next to each other, and no earlier one is of a place further on. `ReadInv` is about siftr after
*k* events and *n* lines. `ScopesOk`: its ranges are in order, each is that of the two looks at one example, and those of the placed examples are all there
(`RangePushed`: the last range ends before one begins, as it is of earlier events). So a line in a range lies in its example's `Span` (`ScopeIds`), and a line of a placed example is in that
range, which `At` finds, being the first that ends after the line starts (`AtIs`, `ScopeFound`). The log is read
when all events are. A request's own event has the scope of its Started line, or its endpoint (`RequestFrom`). An example's scope reads back as an example, since recording its end gave
it a behavior of its own that no limit takes (`RecordedDomain`). None of this depends on how many workers there are.

With one worker a line in a request goes on with what the line before it left (`BlocksOk`), so the request siftr is in is the worker's (`RequestOk`), but for its
scope. `RequestLeft` says what that may be: the endpoint of a request since whose Processing line none was completed. Each event is then one of its line (`FromLine`), once (`EmittedOk`).

For `Reminders` the invariant is `RunsInv`: the rows' types, that no two signals of a run have one
name, and `Sound`, what stats tell of the code they are of. A summarized run that has no error
outside examples, and ran as many as were loaded, and loaded as many as were defined, ran all
that is written (`StatsAreSound`, from the cardinalities of nested finite sets); a query it read was counted
in each example as often as the code makes it. `GoneIsGone` then follows a DISAPPEARED back through
everything that could have taken it back (`ArrivalsKept`): if the run was not incomplete it lacks
nothing (`LacksNothing`), and if it was, the behavior lies within the examples it ran. `NewIsNew`
does the same with a partial baseline. A run's signals never change once recorded, so only
`Record` matters. `AnswersAreKept` needs that a name stands for one signal.
`RegressionsAreShown` adds `FailuresReal`: every failure that was reported was found by its rule, so no run it was judged
against failed the same way. A run that ran all a signal's baseline ran is then compared with those of them
that ran everything (`NothingMissed`) and finds the failure again (`FoundAgain`). A run that passed over an example is
incomplete by its own counts, or has no summary, and so has no vote (`PassedOverIsSilent`).

### What is only model-checked

* Liveness (`WorkEnds`, `NoStall`, `ShownSoon`, `WrapEnds`, `ReadEnds`): out of the prover's reach under fairness.
* `ShownOnce` of `Ingest`. It is about the order in which an aggregator's behaviors, which are a function, were first seen, and so needs an
  invariant of its own along every line.
* `QueriesTold` of `Suite`: which statements are one behavior is what a fold over their words computes.
* What `Normalizer` computes, with RECURSIVE operators.
* `OnceIsKept`, which is refuted.

## Not modelled

* **Reports**: reads of the store and formatting. Which changes are open, what they are grouped under and
  whose name they go by are in `Reminders` and `Signals`; the rest is text.
* **Scheduled runs**: edits of a crontab's text through an external command, by one process. Two edits that overlap lose one, as
  with every crontab, and nothing in siftr detects it.
* **Dispatch, arguments, the privacy report, the home directory**: no state.
* **LATENCY and durations**: sums and medians of real numbers, told apart by thresholds; no set of small integers stands for them
  without choosing the outcome.
* **Confidence and the ranks of groups**: an order of display.
* **Formats of single credentials and the recognizers' full alphabets**: text, covered by the repository's fixtures. What is
  kept between lines, which fixtures hardly reach, is in `Recording`.
* **The PTY, process groups and exit codes** of a wrapped command, and the child's environment.

## Plan

In this order, each with its map, properties and mutants:

1. `Retention`, `Store`, `RunHistory` and their proofs; `RunCommand`; `RailsLog`; `Signals`,
   `Reminders` and their proofs: done.
2. `Aggregator`, `Recording`, `Ingest`; `Migration` and its proofs: done.
3. `Interpreters` and `Suite`; `Lexemes`, `Paths`, `Normalizer`; `Configuration`, `Sources`: done.
4. Proofs about `RunCommand`, `Ingest`'s threads, `RailsLog`, `Sources`, `Suite`'s counts and exemplars, and
   `RegressionShown`: done.
5. What the recording keeps has no credential nor private key, numbers tell values apart, cuts don't matter, and lines are where they were: done.
6. Left to prove: `ShownOnce`, as `CountsExact` was.
7. Left to model: requests as behaviors with scopes of their own in `Signals`, and the ranks of groups.
