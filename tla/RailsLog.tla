------------------------------ MODULE RailsLog ------------------------------
(***************************************************************************)
(* The lines a run appended to log/test.log (sources/rails_log.rs): where  *)
(* the log ends is noted before the command starts, and what follows is    *)
(* read once it has exited. Meanwhile the command's logger rotates the     *)
(* log, and the log may be cleared or removed. The RSpec listener stamps   *)
(* its events with the log's inode and size (sources/rspec.rs), which are  *)
(* placed in the lines read.                                               *)
(*                                                                         *)
(* A file is its lines, and an offset a number of them. What the run       *)
(* writes is numbered; earlier lines are Before, and the line a logger     *)
(* writes first into a file it creates is Header.                          *)
(***************************************************************************)
EXTENDS Integers, Sequences

CONSTANTS
  Inodes,        \* inode numbers the file system can hand out
  NoFile,        \* no inode
  GUARD_LINES,   \* GUARD_BYTES, in lines
  MaxBefore,     \* bound: lines of an earlier run
  MaxLines,      \* bound: lines the run writes
  MaxMishaps,    \* bound: rotations, clears and removals
  MaxEvents      \* bound: events the listener stamps

ASSUME RailsLogAssumption ==
  /\ NoFile \notin Inodes
  /\ GUARD_LINES \in Nat \ {0}
  /\ MaxBefore \in Nat
  /\ MaxLines \in Nat
  /\ MaxMishaps \in Nat
  /\ MaxEvents \in Nat

VARIABLES
  lines,      \* each file's lines
  name,       \* the inodes test.log and test.log.0 name
  logger,     \* the inode the command's logger has open
  wrote,      \* lines the run wrote
  mishaps,    \* rotations so far, and cuts: clears and removals
  events,     \* what the listener noted, and how many lines were before it
  siftr,      \* what siftr does next
  start,      \* what it noted before the command started
  current,    \* test.log and test.log.0 as it opened them afterwards
  rotated,
  segments,   \* which lines of which files are the run's
  read,       \* the lines it has recorded
  opened,     \* history: how many lines the run had written at OpenCurrent
  unguarded   \* history: lines siftr could not have known of were cut away

world == <<lines, name, logger, wrote, mishaps, events>>
found == <<current, rotated, segments, read>>

vars == <<world, siftr, start, found, opened, unguarded>>

Before == 0
Header == 0 - 1

File     == Inodes \cup {NoFile}

\* A file siftr has open, and its length when it opened it: here there is none.
Nothing  == [ino |-> NoFile, len |-> 0]

\* Of an earlier run's log nothing is left, or it was cleared, or created.
EarlierLog == {<<>>} \cup {[i \in 1..n |-> Before] : n \in 1..MaxBefore}

Init ==
  /\ name \in [log : File, rotated : File]
  /\ name.log = name.rotated => name.log = NoFile
  /\ \E before \in EarlierLog :
       lines = [f \in Inodes |-> IF f = name.log THEN before ELSE <<>>]
  /\ logger = NoFile
  /\ wrote = 0
  /\ mishaps = [rotations |-> 0, cuts |-> 0]
  /\ events = <<>>
  /\ siftr = "preparing"
  /\ start = [log |-> Nothing, rotated |-> NoFile, guard |-> <<>>]
  /\ current = Nothing
  /\ rotated = Nothing
  /\ segments = <<>>
  /\ read = <<>>
  /\ opened = 0
  /\ unguarded = FALSE

-----------------------------------------------------------------------------
(* The command: its logger, the listener, and whoever clears the log. A     *)
(* process it leaves behind may go on while siftr reads.                    *)

Running == siftr \notin {"preparing", "recorded", "refused", "incomplete"}

Held == {start.log.ino, start.rotated, current.ino, rotated.ino}

\* Mutant: the files seen at the start are not held open.
Free_Unheld(named) == Inodes \ (named \cup {logger, current.ino, rotated.ino})

\* Inodes a new file can get: an inode lives while it has a name or is open.
Free(named) == Inodes \ (named \cup {logger} \cup Held)

Create(f) == lines' = [lines EXCEPT ![f] = <<Header>>]

OpenLog ==
  /\ Running
  /\ logger # name.log \/ name.log = NoFile
  /\ \/ /\ name.log # NoFile
        /\ logger' = name.log
        /\ UNCHANGED <<lines, name>>
     \/ /\ name.log = NoFile
        /\ \E f \in Free({name.rotated}) :
             /\ Create(f)
             /\ name' = [name EXCEPT !.log = f]
             /\ logger' = f
  /\ UNCHANGED <<wrote, mishaps, events, siftr, start, found, opened, unguarded>>

\* What goes to a file that has lost its name is lost with it.
Write ==
  /\ Running
  /\ logger # NoFile
  /\ wrote < MaxLines
  /\ wrote' = wrote + 1
  /\ lines' = [lines EXCEPT ![logger] = Append(@, wrote')]
  /\ unguarded' = (unguarded \/ logger \notin {name.log, name.rotated, start.log.ino})
  /\ UNCHANGED <<name, logger, mishaps, events, siftr, start, found, opened>>

Mishap(kind) ==
  /\ mishaps.rotations + mishaps.cuts < MaxMishaps
  /\ mishaps' = [mishaps EXCEPT ![kind] = @ + 1]

\* The one old file kept is replaced, and so may free its inode.
Rotate ==
  /\ Running
  /\ Mishap("rotations")
  /\ logger # NoFile /\ logger = name.log
  /\ \E f \in Free({}) :
       /\ Create(f)
       /\ name' = [log |-> f, rotated |-> logger]
       /\ logger' = f
  /\ UNCHANGED <<wrote, events, siftr, start, found, opened, unguarded>>

\* siftr knows lines only of the log as it started, if it had any, and what
\* is cut away once it looks is beyond it.
Guarded(f) == f = start.log.ino /\ start.log.len > 0 /\ siftr = "waiting"

\* rails log:clear truncates in place; the logger appends.
Clear ==
  /\ Running
  /\ Mishap("cuts")
  /\ name.log # NoFile
  /\ lines' = [lines EXCEPT ![name.log] = <<>>]
  /\ unguarded' = (unguarded \/ ~ Guarded(name.log))
  /\ UNCHANGED <<name, logger, wrote, events, siftr, start, found, opened>>

Unlink ==
  /\ Running
  /\ Mishap("cuts")
  /\ name.log # NoFile
  /\ name' = [name EXCEPT !.log = NoFile]
  /\ unguarded' = (unguarded \/ name.log # start.log.ino \/ siftr # "waiting")
  /\ UNCHANGED <<lines, logger, wrote, events, siftr, start, found, opened>>

Stamp ==
  /\ siftr = "waiting"
  /\ name.log # NoFile
  /\ Len(events) < MaxEvents
  /\ events' = Append(events, [ino |-> name.log, offset |-> Len(lines[name.log]),
                               after |-> wrote])
  /\ UNCHANGED <<lines, name, logger, wrote, mishaps, siftr, start, found,
                 opened, unguarded>>

-----------------------------------------------------------------------------
(* siftr. *)

Opened(f) == IF f = NoFile THEN Nothing ELSE [ino |-> f, len |-> Len(lines[f])]

\* Before the command starts, so nothing moves meanwhile.
Snapshot ==
  /\ siftr = "preparing"
  /\ siftr' = "waiting"
  /\ LET log  == Opened(name.log)
         from == IF log.len > GUARD_LINES THEN log.len - GUARD_LINES ELSE 0
     IN  start' = [log     |-> log,
                   rotated |-> name.rotated,
                   guard   |-> IF log = Nothing THEN <<>>
                               ELSE SubSeq(lines[log.ino], from + 1, log.len)]
  /\ UNCHANGED <<world, found, opened, unguarded>>

OpenCurrent ==
  /\ siftr = "waiting"
  /\ siftr' = "opening"
  /\ current' = Opened(name.log)
  /\ opened' = wrote
  /\ UNCHANGED <<world, start, rotated, segments, read, unguarded>>

OpenRotated ==
  /\ siftr = "opening"
  /\ siftr' = "measuring"
  /\ rotated' = Opened(name.rotated)
  /\ UNCHANGED <<world, start, current, segments, read, opened, unguarded>>

\* What reading a file's first n lines needs: that it was not cut meanwhile.
Has(file, n) == Len(lines[file.ino]) >= n

\* Mutant: a run that logged nothing is taken for a truncation.
Appended_Longer(file) ==
  /\ file.len > start.log.len
  /\ Has(file, start.log.len)
  /\ LET from == start.log.len - Len(start.guard)
     IN  SubSeq(lines[file.ino], from + 1, start.log.len) = start.guard

\* The file goes on from where the log ended: neither shorter nor rewritten.
Appended(file) ==
  /\ file.len >= start.log.len
  /\ Has(file, start.log.len)
  /\ LET from == start.log.len - Len(start.guard)
     IN  SubSeq(lines[file.ino], from + 1, start.log.len) = start.guard

After(file) == [ino |-> file.ino, from |-> start.log.len, to |-> file.len]

\* Without the header, which a run without rotation would not have.
Created(file) ==
  [ino  |-> file.ino,
   from |-> IF file.len > 0 /\ Head(lines[file.ino]) = Header THEN 1 ELSE 0,
   to   |-> file.len]

\* Whether the run's lines can be placed: nothing was ever there, the log was
\* created and not rotated, it is the same file, or it was rotated once.
Placeable ==
  \/ start.log = Nothing /\ current = Nothing
  \/ /\ start.log = Nothing /\ current # Nothing
     /\ rotated.ino = start.rotated
     /\ Has(current, 1) \/ current.len = 0
  \/ /\ start.log # Nothing /\ current.ino = start.log.ino
     /\ Appended(current)
  \/ /\ start.log # Nothing /\ current # Nothing
     /\ current.ino # start.log.ino /\ rotated.ino = start.log.ino
     /\ Appended(rotated)
     /\ Has(current, 1) \/ current.len = 0

Segments ==
  IF start.log = Nothing
  THEN IF current = Nothing THEN <<>> ELSE <<Created(current)>>
  ELSE IF current.ino = start.log.ino
       THEN <<After(current)>>
       ELSE <<After(rotated), Created(current)>>

Measure ==
  /\ siftr = "measuring"
  /\ \/ /\ Placeable
        /\ siftr' = "copying"
        /\ segments' = Segments
     \/ /\ ~ Placeable
        /\ siftr' = "refused"
        /\ UNCHANGED segments
  /\ UNCHANGED <<world, start, current, rotated, read, opened, unguarded>>

Copied(s) ==
  SubSeq(lines[s.ino], s.from + 1, IF Has(s, s.to) THEN s.to ELSE Len(lines[s.ino]))

\* What is read of the i-th segment, of two at most.
Slice(i) == IF i \in DOMAIN segments THEN Copied(segments[i]) ELSE <<>>

\* Each segment is read from the file it holds open, up to its length then;
\* a file cut short since ends the slice early.
Copy ==
  /\ siftr = "copying"
  /\ read' = Slice(1) \o Slice(2)
  /\ siftr' = IF \A i \in DOMAIN segments : Has(segments[i], segments[i].to)
              THEN "recorded" ELSE "incomplete"
  /\ UNCHANGED <<world, start, current, rotated, segments, opened, unguarded>>

\* Mutant: segments all count from the start of the slice.
Base_None(i) == 0

Length(s) == s.to - s.from
Base(i)   == IF i = 1 THEN 0 ELSE Length(segments[1])

\* Where an offset into a file lands in the slice, in the first segment that
\* has it; {} if nowhere.
Place(ino, offset) ==
  LET In == {i \in DOMAIN segments :
               segments[i].ino = ino /\ offset \in segments[i].from .. segments[i].to}
  IN  {Base(i) + offset - segments[i].from : i \in {j \in In : \A k \in In : j <= k}}

\* An event goes on with its place in the slice, or without one.
rebase(event) == [event EXCEPT !.offset = Place(event.ino, @)]

-----------------------------------------------------------------------------

Stop == ~ Running /\ siftr # "preparing" /\ UNCHANGED vars

Command == OpenLog \/ Write \/ Rotate \/ Clear \/ Unlink \/ Stamp
Siftr   == Snapshot \/ OpenCurrent \/ OpenRotated \/ Measure \/ Copy

Next == Command \/ Siftr \/ Stop
Spec == Init /\ [][Next]_vars

-----------------------------------------------------------------------------
(* Properties. *)

FirstLines(n) == [i \in 1..n |-> i]

\* What is recorded as the run's log is exactly what the run wrote to it by
\* the time siftr looked, in order, across a rotation and whatever else
\* happened, unless lines were cut from where siftr keeps nothing to compare.
Exact == siftr = "recorded" /\ ~ unguarded => read = FirstLines(opened)

\* An event is placed after exactly the lines that were written before it,
\* in whichever file it was stamped, or not at all.
EventsPlaced ==
  siftr = "recorded" /\ ~ unguarded =>
    \A i \in DOMAIN events :
      rebase(events[i]).offset \subseteq {events[i].after}

\* Nothing that can be placed is refused: README, "one log rotation during a
\* run is handled exactly". A log the run created is refused if it rotated.
RefusedForCause ==
  siftr = "refused" =>
    \/ mishaps.cuts > 0
    \/ mishaps.rotations > IF start.log = Nothing THEN 0 ELSE 1
=============================================================================
