-------------------------------- MODULE Sources --------------------------------
(***************************************************************************)
(* What siftr reads of a wrapped command besides its output                 *)
(* (bin/siftr/sources.rs and its sources), over the runs of one command:    *)
(* the listener RSpec loads, the slice of the Rails log and what the kernel *)
(* charged.  A source may be switched off, may not apply, may fail as it is *)
(* set up or as it is read; what a run did read decides which behaviors a   *)
(* later comparison may call new or gone.                                   *)
(*                                                                         *)
(* Where in the log the run's lines are is RailsLog's; whether the run was   *)
(* a whole one is Signals'.  Here a source is read wholly, in part or not.  *)
(***************************************************************************)
EXTENDS Configuration, FiniteSets

CONSTANTS
  Argvs,        \* the commands there are: sequences of words
  Trees,        \* the working directories there are, as Configuration has them
  Files,        \* what the user may write as a configuration file
  Behaviors,
  StreamOf,     \* [Behaviors -> stream]: where a behavior's lines are
  MIN_RUNS,     \* baseline runs below which nothing is new or gone
  MaxRuns,      \* bound: runs
  MaxEdits      \* bound: edits of configuration, and of the project

Directory == [git : BOOLEAN, manifest : BOOLEAN, config : Files \cup {Absent}]

ASSUME SourcesAssumption ==
  /\ MIN_RUNS \in Nat \ {0}
  /\ Trees \subseteq Seq(Directory) \ {<<>>}

VARIABLES
  argv, dirs, user,
  rails,        \* whether the project has a Rails test log, or a directory for one
  edits,        \* how often configuration or project changed
  stage,        \* what siftr run is at
  on,           \* which sources configuration allows this run
  sources,      \* those of the command that are still to prepare, or to collect
  kept,         \* those prepared
  reading,      \* what the run reports of its sources
  wrote,        \* the behaviors that occurred
  recording,    \* what was recorded: the sources read, and the behaviors seen
  runs,         \* the runs recorded whole
  claims        \* the behaviors the last run is said to have gained and lost

configuration == <<argv, dirs, user, rails, edits>>
vars == <<configuration, stage, on, sources, kept, reading, wrote, recording, runs, claims>>

-----------------------------------------------------------------------------
(* Which sources apply.                                                     *)

always_read == {"stdout", "stderr"}

Listing == always_read \cup SOURCES

\* The stream each source feeds; rusage feeds none.
StreamsOf == [name \in {"stdout", "stderr", "rspec", "rails_log"} |->
                CASE name = "rspec" -> "events" [] name = "rails_log" -> "log" [] OTHER -> name]

\* A task, or one of its own tasks.
Task(name, word) == word \in {name, name \o ":models"}

\* Whether the words run a suite siftr knows, bundled or not.
suite(words) ==
  LET bundled == words # <<>> /\ words[1] = "bundle"
      args == IF ~ bundled THEN words
              ELSE IF Len(words) > 1 /\ words[2] = "exec" THEN SubSeq(words, 3, Len(words))
              ELSE <<>>
      runs_task == Len(args) > 1 /\ args[1] \in {"rake", "rails"}
  IN CASE args # <<>> /\ args[1] = "rspec"    -> "rspec"
       [] runs_task /\ Task("spec", args[2]) -> "rspec"
       [] runs_task /\ Task("test", args[2]) -> "other"
       [] OTHER                              -> "none"

\* A Rails project's test log is there, or will be.
detect == rails

Source(name, log) == [name |-> name, log |-> log]

\* Mutant: the listener has the log whatever configuration says of it.
for_command_Unasked(words, allowed) ==
  LET log == detect
  IN (CASE suite(words) = "none" -> <<>>
        [] suite(words) = "rspec" /\ allowed["rspec"] -> <<Source("rspec", log)>>
        [] OTHER -> IF log /\ allowed["rails_log"] THEN <<Source("rails_log", TRUE)>> ELSE <<>>)
     \o IF allowed["rusage"] THEN <<Source("rusage", FALSE)>> ELSE <<>>

\* The listener has the log with it: its offsets say where examples are in there.
for_command(words, allowed) ==
  LET log == detect /\ allowed["rails_log"]
  IN (CASE suite(words) = "none" -> <<>>
        [] suite(words) = "rspec" /\ allowed["rspec"] -> <<Source("rspec", log)>>
        [] OTHER -> IF log THEN <<Source("rails_log", TRUE)>> ELSE <<>>)
     \o IF allowed["rusage"] THEN <<Source("rusage", FALSE)>> ELSE <<>>

\* Mutant: only a source's own name.
also_reads_Nothing(source) == {}

also_reads(source) ==
  IF source.name = "rspec" /\ source.log THEN {"rails_log"} ELSE {}

\* Whether a source would feed a run of the words something, as siftr sources lists it.
Applies(words, name) ==
  CASE name = "rspec"     -> suite(words) = "rspec"
    [] name = "rails_log" -> suite(words) # "none" /\ detect
    [] OTHER              -> TRUE

\* What the run is reported to have read, given the sources that were prepared.
Reading(words, allowed, prepared) ==
  LET names == always_read \cup prepared
      Why(name) == CASE ~ allowed[name]         -> "switched off"
                     [] Applies(words, name)    -> "its setup failed"
                     [] OTHER                   -> "does not apply"
  IN [read   |-> Listing \cap names,
      unread |-> [name \in Listing \ names |-> Why(name)]]

-----------------------------------------------------------------------------
(* What a comparison makes of what runs read.                               *)

Run(names, seen, did) == [sources |-> names, seen |-> seen, wrote |-> did]

\* Whether a run read a stream, unless it did not record what it read.
Read(run, stream) ==
  IF run.sources \cap DOMAIN StreamsOf = {} THEN "unknown"
  ELSE IF \E name \in run.sources \cap DOMAIN StreamsOf : StreamsOf[name] = stream THEN "read"
  ELSE "unread"

\* The runs read different streams, and that accounts for the whole absence.
configuration_explains(now, before, b, kind) ==
  /\ \E i \in DOMAIN before : b \in before[i].seen \cup now.seen
  /\ \/ kind = "gone" /\ Read(now, StreamOf[b]) = "unread"
     \/ kind = "new" /\ \A i \in DOMAIN before : Read(before[i], StreamOf[b]) = "unread"

NoClaims == [new |-> {}, gone |-> {}]

\* The behaviors said to be new in a run, or gone from it.
Compare(now, before) ==
  IF Len(before) < MIN_RUNS THEN NoClaims
  ELSE [new |-> {b \in now.seen :
                   /\ \A i \in DOMAIN before : b \notin before[i].seen
                   /\ ~ configuration_explains(now, before, b, "new")},
        gone |-> {b \in Behaviors \ now.seen :
                   /\ \A i \in DOMAIN before : b \in before[i].seen
                   /\ ~ configuration_explains(now, before, b, "gone")}]

-----------------------------------------------------------------------------
(* A run.                                                                   *)

Nothing == [sources |-> {}, seen |-> {}]
NotRead == [read |-> {}, unread |-> <<>>]
AllOn   == [name \in SOURCES |-> TRUE]

Init ==
  /\ argv \in Argvs /\ dirs \in Trees /\ user = Absent
  /\ rails \in BOOLEAN /\ edits = 0
  /\ stage = "idle" /\ on = AllOn
  /\ sources = <<>> /\ kept = <<>> /\ reading = NotRead
  /\ wrote = {} /\ recording = Nothing
  \* An earlier siftr did not record what a run read.
  /\ runs \in {<<>>} \cup {<<Run({}, seen, seen)>> : seen \in SUBSET Behaviors}
  /\ claims = NoClaims

\* The user writes, changes or removes a configuration file.
EditFile ==
  /\ edits < MaxEdits
  /\ \E file \in Files \cup {Absent} :
       \/ \E i \in DOMAIN dirs : dirs' = [dirs EXCEPT ![i].config = file] /\ UNCHANGED user
       \/ user' = file /\ UNCHANGED dirs
  /\ edits' = edits + 1
  /\ UNCHANGED <<argv, rails, stage, on, sources, kept, reading, wrote, recording, runs, claims>>

\* The project gets a log directory, or it is removed.
ChangeProject ==
  /\ edits < MaxEdits
  /\ rails' = ~ rails
  /\ edits' = edits + 1
  /\ UNCHANGED <<argv, dirs, user, stage, on, sources, kept, reading, wrote, recording, runs, claims>>

Start ==
  /\ stage = "idle" /\ Len(runs) < MaxRuns
  /\ LET allowed == load(dirs, user)
     IN on' = allowed /\ sources' = for_command(argv, allowed)
  /\ stage' = "preparing" /\ claims' = NoClaims
  /\ UNCHANGED <<configuration, kept, reading, wrote, recording, runs>>

\* siftr ends, and what it knew of the run with it.
Done ==
  /\ stage' = "idle" /\ on' = AllOn /\ sources' = <<>> /\ kept' = <<>>
  /\ reading' = NotRead /\ wrote' = {} /\ recording' = Nothing

\* The listener's directory and file are written, then the log's end is noted:
\* without it the listener goes on alone.
PrepareRspec ==
  /\ stage = "preparing" /\ sources # <<>> /\ Head(sources).name = "rspec"
  /\ \/ kept' = kept                                  \* its setup failed
     \/ \E log \in {FALSE, Head(sources).log} : kept' = Append(kept, Source("rspec", log))
  /\ sources' = Tail(sources)
  /\ UNCHANGED <<configuration, stage, on, reading, wrote, recording, runs, claims>>

PrepareRailsLog ==
  /\ stage = "preparing" /\ sources # <<>> /\ Head(sources).name = "rails_log"
  /\ kept' \in {kept, Append(kept, Head(sources))}
  /\ sources' = Tail(sources)
  /\ UNCHANGED <<configuration, stage, on, reading, wrote, recording, runs, claims>>

PrepareRusage ==
  /\ stage = "preparing" /\ sources # <<>> /\ Head(sources).name = "rusage"
  /\ kept' = Append(kept, Head(sources))
  /\ sources' = Tail(sources)
  /\ UNCHANGED <<configuration, stage, on, reading, wrote, recording, runs, claims>>

\* What was prepared is what the run will read, and the command starts.
Spawn ==
  /\ stage = "preparing" /\ sources = <<>>
  /\ \/ LET prepared == UNION {{kept[i].name} \cup also_reads(kept[i]) : i \in DOMAIN kept}
        IN /\ reading' = Reading(argv, on, prepared) /\ stage' = "running"
           /\ UNCHANGED <<on, sources, kept, wrote, recording>>
     \/ Done                                         \* the command cannot be run
  /\ UNCHANGED <<configuration, runs, claims>>

\* The command runs, and its output is read as it comes.
Exits ==
  /\ stage = "running"
  /\ \/ \E did \in SUBSET Behaviors :
          /\ stage' = "collecting" /\ sources' = kept /\ wrote' = did
          /\ recording' = [sources |-> always_read,
                           seen |-> {b \in did : StreamOf[b] \in {"stdout", "stderr"}}]
          /\ UNCHANGED <<on, kept, reading>>
     \/ Done                                         \* its run could not be recorded
  /\ UNCHANGED <<configuration, runs, claims>>

\* What reading a stream adds to what was seen: all of it, or, torn, any part.
Fed(stream, whole) ==
  LET there == {b \in wrote : StreamOf[b] = stream}
  IN IF whole THEN {there} ELSE SUBSET there

\* Mutant: an event stream that broke off was read.
CollectRspec_Torn ==
  /\ stage = "collecting" /\ sources # <<>> /\ Head(sources).name = "rspec"
  /\ \E events \in BOOLEAN, log \in {FALSE, Head(sources).log}, slice \in BOOLEAN :
       \E seen \in Fed("events", events), lines \in IF log THEN Fed("log", slice) ELSE {{}} :
         recording' = [sources |-> recording.sources \cup {"rspec"}
                                     \cup (IF log /\ slice THEN {"rails_log"} ELSE {}),
                       seen |-> recording.seen \cup seen \cup lines]
  /\ sources' = Tail(sources)
  /\ UNCHANGED <<configuration, stage, on, kept, reading, wrote, runs, claims>>

\* The log's slice is measured, if it can be; the events are read to their end
\* or not at all or in part; then the slice is.  Only what was read to its end
\* counts as read.
CollectRspec ==
  /\ stage = "collecting" /\ sources # <<>> /\ Head(sources).name = "rspec"
  /\ \E events \in BOOLEAN, log \in {FALSE, Head(sources).log}, slice \in BOOLEAN :
       \E seen \in Fed("events", events), lines \in IF log THEN Fed("log", slice) ELSE {{}} :
         recording' = [sources |-> recording.sources \cup (IF events THEN {"rspec"} ELSE {})
                                     \cup (IF log /\ slice THEN {"rails_log"} ELSE {}),
                       seen |-> recording.seen \cup seen \cup lines]
  /\ sources' = Tail(sources)
  /\ UNCHANGED <<configuration, stage, on, kept, reading, wrote, runs, claims>>

CollectRailsLog ==
  /\ stage = "collecting" /\ sources # <<>> /\ Head(sources).name = "rails_log"
  /\ \/ UNCHANGED recording                           \* its lines could not be placed
     \/ \E slice \in BOOLEAN : \E lines \in Fed("log", slice) :
          recording' = [sources |-> recording.sources \cup (IF slice THEN {"rails_log"} ELSE {}),
                        seen |-> recording.seen \cup lines]
  /\ sources' = Tail(sources)
  /\ UNCHANGED <<configuration, stage, on, kept, reading, wrote, runs, claims>>

CollectRusage ==
  /\ stage = "collecting" /\ sources # <<>> /\ Head(sources).name = "rusage"
  /\ recording' = [recording EXCEPT !.sources = @ \cup {"rusage"}]
  /\ sources' = Tail(sources)
  /\ UNCHANGED <<configuration, stage, on, kept, reading, wrote, runs, claims>>

\* A whole run is compared with those before it and joins them; an interrupted
\* one is kept as evidence only.
Finish ==
  /\ stage = "collecting" /\ sources = <<>>
  /\ LET now == Run(recording.sources, recording.seen, wrote)
     IN \/ runs' = Append(runs, now) /\ claims' = Compare(now, runs)
        \/ UNCHANGED <<runs, claims>>
  /\ Done
  /\ UNCHANGED configuration

Next ==
  \/ EditFile \/ ChangeProject \/ Start \/ Spawn \/ Exits
  \/ PrepareRspec \/ PrepareRailsLog \/ PrepareRusage
  \/ CollectRspec \/ CollectRailsLog \/ CollectRusage \/ Finish

Spec == Init /\ [][Next]_vars

-----------------------------------------------------------------------------
(* Properties.                                                              *)

\* What a comparison says of presence is so. A behavior said to be gone did not
\* occur: a source that was off, not set up, not there or not read to its end
\* never reads as the behaviors it feeds disappearing. A behavior said to be new
\* was looked for: some run of the baseline read its stream to the end without it,
\* or did not say what it read (signal.rs configuration_explains, what each
\* collect declares, aggregate.rs RunStats::read).
ClaimsAreReal ==
  /\ claims.gone # {} => claims.gone \cap Last(runs).wrote = {}
  /\ \A b \in claims.new : \E i \in 1..(Len(runs) - 1) :
       \/ Read(runs[i], StreamOf[b]) = "read" /\ b \notin runs[i].wrote
       \/ Read(runs[i], StreamOf[b]) = "unknown"

\* What a run records as read it reported as read, to whoever started it, and
\* each source is reported once: in what was read or in what was not
\* (sources.rs reading, and also_reads of the listener that has the log too).
RecordedWasReported ==
  stage \in {"running", "collecting"} =>
    /\ recording.sources \subseteq reading.read
    /\ reading.read \cup DOMAIN reading.unread = Listing
    /\ reading.read \cap DOMAIN reading.unread = {}

Sets(file, name, value) ==
  file.toml /\ name \in DOMAIN file.values /\ file.values[name] = value

\* The nearest file of the project switches it off, or sets nothing and the user's does.
SwitchedOff(name) ==
  LET top == root_of(dirs)
      Governs(i) == dirs[i].config.there /\ \A j \in 1..(i - 1) : ~ dirs[j].config.there
  IN \/ \E i \in 1..top : Governs(i) /\ Sets(dirs[i].config, name, "false")
     \/ /\ Sets(user, name, "false")
        /\ \A i \in 1..top : ~ Sets(dirs[i].config, name, "true")

\* Nothing is taken from a source that is switched off as the run starts: not
\* by itself and not along with another, whatever files say elsewhere
\* (config.rs Config::read and project_file, sources.rs for_command).
OffIsUntouched ==
  [][/\ stage = "idle" /\ stage' = "preparing" =>
          \A name \in SOURCES : SwitchedOff(name) => ~ on'[name]
     /\ \A name \in SOURCES : ~ on'[name] =>
          /\ name \notin recording'.sources
          /\ name \in DOMAIN StreamsOf =>
               \A b \in recording'.seen : StreamOf[b] # StreamsOf[name]]_vars
=============================================================================
