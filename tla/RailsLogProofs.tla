----------------------------- MODULE RailsLogProofs -----------------------------
(***************************************************************************)
(* What is proved of RailsLog for any number of lines, files, rotations,   *)
(* cuts and events: what is recorded as the run's log is what the run wrote *)
(* to it, events are placed where they were, and nothing that can be placed *)
(* is refused.                                                             *)
(***************************************************************************)
EXTENDS RailsLog, SequenceTheorems, TLAPS

Opening  == [ino : File, len : Nat]
Noted    == [ino : Inodes, offset : Nat, after : Nat]
Segment  == [ino : Inodes, from : Nat, to : Nat]
Stages   == {"preparing", "waiting", "opening", "measuring", "copying",
             "recorded", "refused", "incomplete"}

TypeOK ==
  /\ lines \in [Inodes -> Seq(Int)]
  /\ name \in [log : File, rotated : File]
  /\ logger \in File
  /\ wrote \in Nat
  /\ mishaps \in [rotations : Nat, cuts : Nat]
  /\ events \in Seq(Noted)
  /\ siftr \in Stages
  /\ start \in [log : Opening, rotated : File, guard : Seq(Int)]
  /\ current \in Opening /\ rotated \in Opening
  /\ segments \in Seq(Segment)
  /\ read \in Seq(Int)
  /\ opened \in Nat
  /\ unguarded \in BOOLEAN

\* The log as it was when the command started, and the lines of it then.
Old  == start.log.ino
Was  == start.log.len

Uncut   == mishaps.cuts = 0
Started == siftr # "preparing"

\* What was noted of the log before the command started.  The lines siftr
\* compares are of an earlier run.
Noticed ==
  /\ start.log.ino = NoFile => start.log = Nothing
  /\ current.ino = NoFile => current = Nothing
  /\ rotated.ino = NoFile => rotated = Nothing
  /\ Len(start.guard) <= Was /\ (Was > 0 => Len(start.guard) > 0)
  /\ \A i \in DOMAIN start.guard : start.guard[i] = Before
  /\ ~ Started => /\ logger = NoFile /\ wrote = 0 /\ events = <<>>
                  /\ mishaps = [rotations |-> 0, cuts |-> 0]
                  /\ start.log = Nothing /\ start.rotated = NoFile
                  /\ name.log = name.rotated => name.log = NoFile
                  /\ name.log # NoFile => \A i \in DOMAIN lines[name.log] : lines[name.log][i] = Before
  /\ siftr \in {"preparing", "waiting"} => current = Nothing
  /\ siftr \in {"preparing", "waiting", "opening"} => rotated = Nothing
  /\ name.log = name.rotated => name.log = NoFile
  /\ Started /\ name.log # NoFile => name.log # start.rotated

\* The last line siftr compares is not in a log that was cleared, and a log that
\* was removed has no name any more.
Lost ==
  /\ Old # NoFile
  /\ siftr \in {"waiting", "opening", "measuring", "refused"}
  /\ \/ Old \notin {name.log, name.rotated, current.ino, rotated.ino}
     \/ Was > 0 /\ \A i \in DOMAIN lines[Old] : lines[Old][i] # Before

Cuts ==
  /\ Uncut => ~ unguarded /\ logger \in {NoFile, name.log}
  /\ ~ Uncut /\ ~ unguarded => Lost

\* A file has a header and then the lines of the run from the k-th on.
Continues(f, k, n) ==
  /\ n >= 1 /\ n <= Len(lines[f]) /\ lines[f][1] = Header
  /\ \A i \in 2..n : lines[f][i] = k + (i - 1)

\* Lines of the run that are in the log as it started.
Mine == Len(lines[Old]) - Was

\* Where the run's lines are while the log was not rotated, or rotated once.
Kept ==
  /\ name.log # NoFile
  /\ Mine \in 0..wrote
  /\ \A i \in 1..Was : lines[Old][i] = Before
  /\ \A i \in 1..Mine : lines[Old][Was + i] = i
  /\ name.log = Old <=> mishaps.rotations = 0
  /\ name.rotated = Old <=> mishaps.rotations = 1
  /\ name.log = Old => Mine = wrote /\ \A i \in DOMAIN events : events[i].ino = Old
  /\ name.rotated = Old =>
       /\ Continues(name.log, Mine, Len(lines[name.log]))
       /\ Len(lines[name.log]) = 1 + (wrote - Mine)
       /\ \A i \in DOMAIN events : events[i].ino # Old =>
            events[i].ino = name.log /\ events[i].offset = 1 + (events[i].after - Mine)
  /\ \A i \in DOMAIN events : events[i].ino = Old => events[i].offset = Was + events[i].after

Appending == Uncut /\ Started /\ Old # NoFile => Kept

\* Where they are while the log the run created was not rotated.
Made ==
  /\ mishaps.rotations = 0 <=> name.rotated = start.rotated
  /\ mishaps.rotations > 0 => name.log # NoFile
  /\ name.log = NoFile => wrote = 0 /\ events = <<>>
  /\ mishaps.rotations = 0 /\ name.log # NoFile =>
       /\ Continues(name.log, 0, Len(lines[name.log]))
       /\ Len(lines[name.log]) = 1 + wrote
       /\ \A i \in DOMAIN events :
            events[i].ino = name.log /\ events[i].offset = 1 + events[i].after

Creating == Uncut /\ Started /\ Old = NoFile => Made

\* Whether test.log.0 is what it was, or will be seen to be, f.
RotatedIs(f) == IF siftr = "opening" THEN name.rotated = f ELSE rotated.ino = f

\* What siftr opened has the run's lines up to when it looked, whatever is
\* appended or rotated since.
SeenKept ==
  /\ current # Nothing
  /\ current.ino = Old => current.len = Was + opened /\ opened <= Mine
  /\ current.ino # Old =>
       /\ mishaps.rotations > 0
       /\ mishaps.rotations = 1 => RotatedIs(Old)
       /\ RotatedIs(Old) =>
            /\ siftr = "opening" => name.log = current.ino
            /\ siftr = "measuring" => rotated.len = Was + Mine
            /\ name.log # Old /\ Mine <= opened
            /\ Continues(current.ino, Mine, current.len)
            /\ current.len = 1 + (opened - Mine)
            /\ \A i \in DOMAIN events : events[i].ino = current.ino =>
                 events[i].offset = 1 + (events[i].after - Mine)

SeenMade ==
  /\ current = Nothing => opened = 0
  /\ mishaps.rotations = 0 => RotatedIs(start.rotated)
  /\ current # Nothing /\ RotatedIs(start.rotated) =>
       /\ Continues(current.ino, 0, current.len)
       /\ current.len = 1 + opened
       /\ \A i \in DOMAIN events : events[i].ino = current.ino =>
            events[i].offset = 1 + events[i].after

Found ==
  Uncut /\ siftr \in {"opening", "measuring"} =>
    /\ opened <= wrote
    /\ Old # NoFile => SeenKept
    /\ Old = NoFile => SeenMade

\* The s-th segment is lines of the run, and starts where the one before ends.
Laid(s) ==
  /\ segments[s].ino \in Held
  /\ segments[s].from <= segments[s].to
  /\ segments[s].to <= Len(lines[segments[s].ino])
  /\ \A i \in 1..Length(segments[s]) :
       lines[segments[s].ino][segments[s].from + i] = Base(s) + i
  /\ \A i \in DOMAIN events : events[i].ino = segments[s].ino =>
       Base(s) + (events[i].offset - segments[s].from) = events[i].after

\* The segments are the run's lines one after the other.
InPlace ==
  /\ Len(segments) <= 2
  /\ Len(segments) = 2 => segments[1].ino # segments[2].ino
  /\ opened = (IF 1 \in DOMAIN segments THEN Length(segments[1]) ELSE 0)
              + (IF 2 \in DOMAIN segments THEN Length(segments[2]) ELSE 0)
  /\ \A s \in DOMAIN segments : Laid(s)

Placed ==
  siftr \in {"copying", "recorded", "incomplete"} /\ ~ unguarded =>
    /\ InPlace
    /\ siftr = "recorded" => read = FirstLines(opened)

IInv ==
  /\ TypeOK
  /\ Noticed
  /\ Cuts
  /\ Appending
  /\ Creating
  /\ Found
  /\ Placed
  /\ RefusedForCause

-----------------------------------------------------------------------------
(* Files and lines.                                                         *)

\* The lines a file had are still there.
Grown(f) ==
  /\ Len(lines[f]) <= Len(lines'[f])
  /\ \A i \in 1..Len(lines[f]) : lines'[f][i] = lines[f][i]

LEMMA Sorts ==
  ASSUME TypeOK
  PROVE  /\ Old \in File /\ Was \in Nat /\ name.log \in File /\ name.rotated \in File
         /\ start.rotated \in File /\ start.guard \in Seq(Int)
         /\ start.log = [ino |-> Old, len |-> Was]
         /\ current.ino \in File /\ current.len \in Nat
         /\ current = [ino |-> current.ino, len |-> current.len]
         /\ rotated.ino \in File /\ rotated.len \in Nat
         /\ rotated = [ino |-> rotated.ino, len |-> rotated.len]
         /\ mishaps.rotations \in Nat /\ mishaps.cuts \in Nat
         /\ wrote \in Nat /\ opened \in Nat /\ logger \in File
         /\ File = Inodes \cup {NoFile} /\ NoFile \notin Inodes
         /\ unguarded \in BOOLEAN /\ siftr \in Stages
         /\ name = [log |-> name.log, rotated |-> name.rotated]
  <1>1. /\ start \in [log : Opening, rotated : File, guard : Seq(Int)]
        /\ current \in Opening /\ rotated \in Opening
        /\ name \in [log : File, rotated : File]
        /\ mishaps \in [rotations : Nat, cuts : Nat]
        /\ wrote \in Nat /\ opened \in Nat /\ logger \in File
        /\ unguarded \in BOOLEAN /\ siftr \in Stages
    BY DEF TypeOK
  <1>2. \A x \in Opening : x.ino \in File /\ x.len \in Nat /\ x = [ino |-> x.ino, len |-> x.len]
    BY DEF Opening
  <1>3. start.log \in Opening /\ start.rotated \in File /\ start.guard \in Seq(Int)
    BY <1>1
  <1>4. name = [log |-> name.log, rotated |-> name.rotated]
        /\ name.log \in File /\ name.rotated \in File
    BY <1>1
  <1> QED
    BY <1>1, <1>2, <1>3, <1>4, RailsLogAssumption DEF Old, Was, File

LEMMA LinesOf ==
  ASSUME TypeOK, NEW f \in Inodes
  PROVE  /\ lines[f] \in Seq(Int) /\ Len(lines[f]) \in Nat /\ DOMAIN lines[f] = 1..Len(lines[f])
         /\ \A i \in 1..Len(lines[f]) : lines[f][i] \in Int
  <1>1. lines[f] \in Seq(Int)
    BY DEF TypeOK
  <1> DEFINE q == lines[f]
  <1>2. q \in Seq(Int)
    BY <1>1
  <1> HIDE DEF q
  <1>3. q \in Seq(Int) /\ Len(q) \in Nat /\ DOMAIN q = 1..Len(q)
        /\ \A i \in 1..Len(q) : q[i] \in Int
    BY <1>2
  <1> QED
    BY <1>3 DEF q

LEMMA Noting ==
  ASSUME TypeOK
  PROVE  /\ events \in Seq(Noted)
         /\ \A i \in DOMAIN events : /\ events[i].ino \in Inodes /\ events[i].offset \in Nat
                                     /\ events[i].after \in Nat
  <1>1. events \in Seq(Noted)
    BY DEF TypeOK
  <1>2. \A e \in Noted : e.ino \in Inodes /\ e.offset \in Nat /\ e.after \in Nat
    BY DEF Noted
  <1>3. \A i \in DOMAIN events : events[i] \in Noted
    BY <1>1
  <1> QED
    BY <1>1, <1>2, <1>3

\* A new file has the header alone, and is none that anybody knows of.
LEMMA Creation ==
  ASSUME TypeOK, NEW named, NEW f \in Free(named), Create(f)
  PROVE  /\ f \in Inodes /\ f # NoFile /\ f \notin named /\ f # logger /\ f \notin Held
         /\ lines' \in [Inodes -> Seq(Int)]
         /\ lines'[f] = <<Header>> /\ Len(lines'[f]) = 1 /\ lines'[f][1] = Header
         /\ \A g \in Inodes : g # f => lines'[g] = lines[g]
         /\ \A g \in Inodes : g # f => Grown(g)
  <1>1. f \in Inodes /\ f # NoFile /\ f \notin named /\ f # logger /\ f \notin Held
    BY RailsLogAssumption DEF Free
  <1>2. lines \in [Inodes -> Seq(Int)]
    BY DEF TypeOK
  <1>3. <<Header>> \in Seq(Int)
    BY DEF Header
  <1>4. lines' \in [Inodes -> Seq(Int)] /\ lines'[f] = <<Header>>
        /\ \A g \in Inodes : g # f => lines'[g] = lines[g]
    BY <1>1, <1>2, <1>3 DEF Create
  <1>5. \A g \in Inodes : g # f => Grown(g)
    <2> SUFFICES ASSUME NEW g \in Inodes, g # f PROVE Grown(g)
      OBVIOUS
    <2>1. lines'[g] = lines[g] /\ Len(lines[g]) \in Nat
      BY <1>4, LinesOf
    <2> QED
      BY <2>1 DEF Grown
  <1>6. Len(<<Header>>) = 1 /\ <<Header>>[1] = Header
    OBVIOUS
  <1> QED
    BY <1>1, <1>4, <1>5, <1>6

\* What is written goes to the end of its file.
LEMMA Writing ==
  ASSUME TypeOK, Write
  PROVE  /\ logger \in Inodes /\ wrote' = wrote + 1
         /\ lines' \in [Inodes -> Seq(Int)]
         /\ Len(lines'[logger]) = Len(lines[logger]) + 1
         /\ lines'[logger][Len(lines[logger]) + 1] = wrote + 1
         /\ \A g \in Inodes : g # logger => lines'[g] = lines[g]
         /\ \A g \in Inodes : Grown(g)
         /\ Running /\ UNCHANGED <<name, logger, mishaps, events, siftr, start, found, opened>>
  <1>1. /\ logger \in Inodes /\ wrote' = wrote + 1 /\ wrote \in Nat
        /\ lines' = [lines EXCEPT ![logger] = Append(@, wrote')]
        /\ Running /\ UNCHANGED <<name, logger, mishaps, events, siftr, start, found, opened>>
    BY Sorts DEF Write
  <1>2. lines \in [Inodes -> Seq(Int)]
    BY DEF TypeOK
  <1> DEFINE q == lines[logger]
             w == wrote + 1
             more == Append(q, w)
  <1>3. q \in Seq(Int) /\ w \in Int
    BY <1>1, <1>2
  <1>4. lines' = [lines EXCEPT ![logger] = more]
    BY <1>1
  <1> HIDE DEF q, w
  <1>5. /\ more \in Seq(Int) /\ Len(more) = Len(q) + 1 /\ more[Len(q) + 1] = w
        /\ Len(q) \in Nat /\ \A i \in 1..Len(q) : more[i] = q[i]
    BY <1>3, AppendProperties
  <1> HIDE DEF more
  <1>6. /\ lines' \in [Inodes -> Seq(Int)] /\ lines'[logger] = more
        /\ \A g \in Inodes : g # logger => lines'[g] = lines[g]
    BY <1>1, <1>2, <1>4, <1>5
  <1>7. \A g \in Inodes : Grown(g)
    <2> SUFFICES ASSUME NEW g \in Inodes PROVE Grown(g)
      OBVIOUS
    <2>1. CASE g = logger
      BY <1>5, <1>6, <2>1 DEF Grown, q
    <2>2. CASE g # logger
      <3>1. lines'[g] = lines[g] /\ Len(lines[g]) \in Nat
        BY <1>6, <2>2, LinesOf
      <3> QED
        BY <3>1 DEF Grown
    <2> QED
      BY <2>1, <2>2
  <1> QED
    BY <1>1, <1>5, <1>6, <1>7 DEF q, w

\* What continues a file goes on doing so while it grows.
LEMMA ContinuesGrown ==
  ASSUME TypeOK, NEW f \in Inodes, Grown(f), lines' \in [Inodes -> Seq(Int)],
         NEW k \in Int, NEW n \in Nat, Continues(f, k, n)
  PROVE  /\ n <= Len(lines'[f]) /\ lines'[f][1] = Header
         /\ \A i \in 2..n : lines'[f][i] = k + (i - 1)
         /\ Continues(f, k, n)'
  <1>1. Len(lines[f]) \in Nat
    BY LinesOf
  <1>2. Len(lines'[f]) \in Nat
    <2> DEFINE q == lines'[f]
    <2>1. q \in Seq(Int)
      OBVIOUS
    <2> HIDE DEF q
    <2>2. Len(q) \in Nat
      BY <2>1
    <2> QED
      BY <2>2 DEF q
  <1>3. /\ n >= 1 /\ n <= Len(lines[f]) /\ lines[f][1] = Header
        /\ \A i \in 2..n : lines[f][i] = k + (i - 1)
        /\ Len(lines[f]) <= Len(lines'[f])
        /\ \A i \in 1..Len(lines[f]) : lines'[f][i] = lines[f][i]
    BY DEF Continues, Grown
  <1>4. \A i \in 1..n : lines'[f][i] = lines[f][i]
    BY <1>1, <1>3
  <1>5. n <= Len(lines'[f]) /\ lines'[f][1] = Header
        /\ \A i \in 2..n : lines'[f][i] = k + (i - 1)
    BY <1>1, <1>2, <1>3, <1>4
  <1> QED
    BY <1>3, <1>5 DEF Continues

\* A file as siftr opens it.
LEMMA Opens ==
  ASSUME TypeOK, NEW f \in File
  PROVE  /\ Opened(f) \in Opening /\ Opened(f).ino = f
         /\ f = NoFile => Opened(f) = Nothing
         /\ f # NoFile => Opened(f).len = Len(lines[f]) /\ Opened(f) # Nothing
  <1>1. CASE f = NoFile
    BY <1>1 DEF Opened, Nothing, Opening, File
  <1>2. CASE f # NoFile
    <2>1. f \in Inodes /\ Len(lines[f]) \in Nat
      BY <1>2, LinesOf DEF File
    <2>2. Opened(f) = [ino |-> f, len |-> Len(lines[f])]
      BY <1>2 DEF Opened
    <2> QED
      BY <1>2, <2>1, <2>2 DEF Opening, Nothing
  <1> QED
    BY <1>1, <1>2

\* What is noted before the command starts: the last lines of the log, if any.
LEMMA Snapping ==
  ASSUME TypeOK, Snapshot
  PROVE  /\ start' \in [log : Opening, rotated : File, guard : Seq(Int)]
         /\ start'.log = Opened(name.log) /\ start'.rotated = name.rotated
         /\ start'.log.ino = name.log
         /\ name.log = NoFile => start'.log = Nothing /\ start'.guard = <<>>
         /\ name.log # NoFile =>
              /\ start'.log.len = Len(lines[name.log])
              /\ Len(start'.guard) <= start'.log.len
              /\ start'.log.len > 0 => Len(start'.guard) > 0
              /\ \A i \in DOMAIN start'.guard :
                   \E j \in DOMAIN lines[name.log] : start'.guard[i] = lines[name.log][j]
  <1> DEFINE log  == Opened(name.log)
             from == IF log.len > GUARD_LINES THEN log.len - GUARD_LINES ELSE 0
             guard == IF log = Nothing THEN <<>>
                      ELSE SubSeq(lines[log.ino], from + 1, log.len)
  <1>1. start' = [log |-> log, rotated |-> name.rotated, guard |-> guard]
    BY DEF Snapshot
  <1>2. name.log \in File /\ name.rotated \in File
    BY Sorts
  <1>3. log \in Opening /\ log.ino = name.log
    BY <1>2, Opens
  <1>4. CASE name.log = NoFile
    <2>1. log = Nothing
      BY <1>2, <1>4, Opens
    <2>2. guard = <<>> /\ guard \in Seq(Int)
      BY <2>1
    <2> HIDE DEF log, from, guard
    <2>3. start'.log = log /\ start'.rotated = name.rotated /\ start'.guard = guard
      BY <1>1
    <2>4. start' \in [log : Opening, rotated : File, guard : Seq(Int)]
      BY <1>1, <1>2, <1>3, <2>2
    <2>5. start'.log = Opened(name.log)
      BY <2>3 DEF log
    <2> QED
      BY <1>3, <1>4, <2>1, <2>2, <2>3, <2>4, <2>5
  <1>5. CASE name.log # NoFile
    <2> DEFINE q == lines[name.log]
               n == Len(q)
    <2>1. /\ name.log \in Inodes /\ q \in Seq(Int) /\ n \in Nat /\ DOMAIN q = 1..n
          /\ \A i \in 1..n : q[i] \in Int
      BY <1>2, <1>5, LinesOf DEF File
    <2>2. log # Nothing /\ log.len = n
      BY <1>2, <1>5, Opens
    <2>3. guard = SubSeq(q, from + 1, n)
      BY <1>3, <2>2
    <2> HIDE DEF q
    <2>4. n \in Nat /\ from \in 0..n /\ (n > 0 => from < n)
      BY <2>1, <2>2, RailsLogAssumption
    <2> HIDE DEF log, from, guard, n
    <2>5. \A i \in from + 1 .. n : q[i] \in Int
      BY <2>1, <2>4
    <2>6. PICK m \in Int : m = from + 1
      BY <2>4
    <2>7. /\ SubSeq(q, m, n) \in Seq(Int) /\ Len(SubSeq(q, m, n)) = IF m <= n THEN n - m + 1 ELSE 0
          /\ \A i \in 1..(n - m + 1) : SubSeq(q, m, n)[i] = q[m + i - 1]
      <3>1. n \in Int /\ \A i \in m..n : q[i] \in Int
        BY <2>4, <2>5, <2>6
      <3> QED
        BY <3>1, SubSeqProperties
    <2>8. guard = SubSeq(q, m, n)
      BY <2>3, <2>6
    <2>9. /\ guard \in Seq(Int) /\ Len(guard) = n - from
          /\ \A i \in 1..(n - from) : guard[i] = q[from + i]
      BY <2>4, <2>6, <2>7, <2>8
    <2>10. DOMAIN guard = 1..(n - from)
      BY <2>9
    <2>11. \A i \in DOMAIN guard : \E j \in DOMAIN q : guard[i] = q[j]
      <3> SUFFICES ASSUME NEW i \in 1..(n - from) PROVE \E j \in DOMAIN q : guard[i] = q[j]
        BY <2>10
      <3>1. from + i \in DOMAIN q
        BY <2>1, <2>4
      <3> QED
        BY <2>9, <3>1
    <2>12. Len(guard) <= n /\ (n > 0 => Len(guard) > 0)
      BY <2>4, <2>9
    <2>13. /\ start' \in [log : Opening, rotated : File, guard : Seq(Int)]
           /\ start'.log = log /\ start'.rotated = name.rotated /\ start'.guard = guard
      BY <1>1, <1>2, <1>3, <2>9
    <2>14. start'.log = Opened(name.log) /\ q = lines[name.log]
           /\ start'.log.len = Len(lines[name.log])
      BY <2>2, <2>13 DEF log, q, n
    <2>15. \A i \in DOMAIN start'.guard :
             \E j \in DOMAIN lines[name.log] : start'.guard[i] = lines[name.log][j]
      BY <2>11, <2>13, <2>14
    <2>16. /\ start'.log.ino = name.log
           /\ Len(start'.guard) <= start'.log.len
           /\ start'.log.len > 0 => Len(start'.guard) > 0
      BY <1>3, <2>2, <2>12, <2>13
    <2> QED
      BY <1>5, <2>13, <2>14, <2>15, <2>16
  <1> QED
    BY <1>4, <1>5

\* What is read of a segment.
LEMMA Copying ==
  ASSUME TypeOK, NEW s \in Segment
  PROVE  /\ Copied(s) \in Seq(Int)
         /\ s.from <= s.to /\ Has(s, s.to) =>
              /\ Len(Copied(s)) = Length(s)
              /\ \A i \in 1..Length(s) : Copied(s)[i] = lines[s.ino][s.from + i]
  <1>1. s.ino \in Inodes /\ s.from \in Nat /\ s.to \in Nat
    BY DEF Segment
  <1> DEFINE q == lines[s.ino]
             n == IF Has(s, s.to) THEN s.to ELSE Len(q)
  <1>2. /\ q \in Seq(Int) /\ Len(q) \in Nat /\ \A i \in 1..Len(q) : q[i] \in Int
    BY <1>1, LinesOf
  <1>3. n \in Nat /\ n <= Len(q) /\ (Has(s, s.to) => n = s.to)
    BY <1>1, <1>2 DEF Has
  <1>4. PICK m \in Int : m = s.from + 1
    BY <1>1
  <1>5. Copied(s) = SubSeq(q, m, n)
    BY <1>4 DEF Copied
  <1> HIDE DEF q, n
  <1>6. n \in Int /\ m \in Int /\ \A i \in m..n : q[i] \in Int
    BY <1>1, <1>2, <1>3, <1>4
  <1>7. /\ SubSeq(q, m, n) \in Seq(Int) /\ Len(SubSeq(q, m, n)) = IF m <= n THEN n - m + 1 ELSE 0
        /\ \A i \in 1..(n - m + 1) : SubSeq(q, m, n)[i] = q[m + i - 1]
    BY <1>6, SubSeqProperties
  <1>8. ASSUME s.from <= s.to, Has(s, s.to)
        PROVE  /\ Len(Copied(s)) = s.to - s.from
               /\ \A i \in 1..(s.to - s.from) : Copied(s)[i] = q[s.from + i]
    <2>1. n = s.to /\ n - m + 1 = s.to - s.from
          /\ (IF m <= n THEN n - m + 1 ELSE 0) = s.to - s.from
      BY <1>1, <1>3, <1>4, <1>8
    <2>2. \A i \in 1..(s.to - s.from) : m + i - 1 = s.from + i
      BY <1>1, <1>4
    <2> QED
      BY <1>5, <1>7, <2>1, <2>2
  <1> QED
    BY <1>5, <1>7, <1>8 DEF Length, q

\* The cases in which the lines can be placed, and where they are then.
LEMMA Segmenting ==
  ASSUME TypeOK, Noticed, Placeable
  PROVE  /\ Segments \in Seq(Segment)
         /\ \/ Old = NoFile /\ current = Nothing /\ Segments = <<>>
            \/ /\ Old = NoFile /\ current # Nothing /\ current.ino \in Inodes
               /\ rotated.ino = start.rotated
               /\ current.len > 0 => Len(lines[current.ino]) >= 1
               /\ Segments = <<Created(current)>>
            \/ /\ Old \in Inodes /\ current.ino = Old /\ Appended(current)
               /\ Segments = <<After(current)>>
            \/ /\ Old \in Inodes /\ current.ino \in Inodes /\ current.ino # Old
               /\ rotated.ino = Old /\ Appended(rotated)
               /\ current.len > 0 => Len(lines[current.ino]) >= 1
               /\ Segments = <<After(rotated), Created(current)>>
  <1>1. /\ Old \in File /\ current.ino \in File /\ rotated.ino \in File
        /\ Was \in Nat /\ current.len \in Nat /\ rotated.len \in Nat
        /\ File = Inodes \cup {NoFile} /\ NoFile \notin Inodes
    BY Sorts
  <1>2. /\ Old = NoFile <=> start.log = Nothing
        /\ current.ino = NoFile <=> current = Nothing
        /\ rotated.ino = NoFile <=> rotated = Nothing
    BY DEF Noticed, Old, Nothing
  <1>3. \A x \in Opening : x.ino \in Inodes => After(x) \in Segment /\ Created(x) \in Segment
    BY <1>1 DEF After, Created, Segment, Opening, Was
  <1>4. current \in Opening /\ rotated \in Opening
    BY DEF TypeOK
  <1>5. CASE start.log = Nothing /\ current = Nothing
    <2>1. Segments = <<>>
      BY <1>5 DEF Segments
    <2> QED
      BY <1>2, <1>5, <2>1
  <1>6. CASE /\ start.log = Nothing /\ current # Nothing
             /\ rotated.ino = start.rotated
             /\ Has(current, 1) \/ current.len = 0
    <2>1. Segments = <<Created(current)>>
      BY <1>6 DEF Segments
    <2>2. Created(current) \in Segment /\ current.ino \in Inodes
      BY <1>1, <1>2, <1>3, <1>4, <1>6
    <2>3. <<Created(current)>> \in Seq(Segment)
      BY <2>2
    <2>4. current.len > 0 => Len(lines[current.ino]) >= 1
      BY <1>1, <1>6 DEF Has
    <2> QED
      BY <1>2, <1>6, <2>1, <2>2, <2>3, <2>4
  <1>7. CASE /\ start.log # Nothing /\ current.ino = start.log.ino
             /\ Appended(current)
    <2>1. current # Nothing /\ Old \in Inodes
      BY <1>1, <1>2, <1>7 DEF Old
    <2>2. Segments = <<After(current)>>
      BY <1>7, <2>1 DEF Segments, Old
    <2>3. After(current) \in Segment
      BY <1>3, <1>4, <1>7, <2>1 DEF Old
    <2>4. <<After(current)>> \in Seq(Segment)
      BY <2>3
    <2> QED
      BY <1>7, <2>1, <2>2, <2>4 DEF Old
  <1>8. CASE /\ start.log # Nothing /\ current # Nothing
             /\ current.ino # start.log.ino /\ rotated.ino = start.log.ino
             /\ Appended(rotated)
             /\ Has(current, 1) \/ current.len = 0
    <2>1. current.ino \in Inodes /\ rotated.ino \in Inodes /\ Old \in Inodes
      BY <1>1, <1>2, <1>8 DEF Old
    <2>2. Segments = <<After(rotated), Created(current)>>
      BY <1>8 DEF Segments
    <2>3. After(rotated) \in Segment /\ Created(current) \in Segment
      BY <1>3, <1>4, <2>1
    <2>4. <<After(rotated), Created(current)>> \in Seq(Segment)
      BY <2>3
    <2> QED
      BY <1>1, <1>8, <2>1, <2>2, <2>4 DEF Old, Has
  <1> QED
    BY <1>5, <1>6, <1>7, <1>8 DEF Placeable

-----------------------------------------------------------------------------
(* The types of the variables.                                              *)

LEMMA TypeInit == ASSUME Init PROVE TypeOK
  <1>1. \A before \in EarlierLog : before \in Seq(Int) /\ \A i \in DOMAIN before : before[i] = Before
    <2>1. \A n \in 1..MaxBefore : /\ [i \in 1..n |-> Before] \in Seq(Int)
                                  /\ \A i \in DOMAIN [j \in 1..n |-> Before] :
                                       [j \in 1..n |-> Before][i] = Before
      BY RailsLogAssumption DEF Before
    <2>2. <<>> \in Seq(Int) /\ \A i \in DOMAIN <<>> : <<>>[i] = Before
      OBVIOUS
    <2> QED
      BY <2>1, <2>2 DEF EarlierLog
  <1>2. lines \in [Inodes -> Seq(Int)]
    <2>1. PICK before \in EarlierLog :
            lines = [f \in Inodes |-> IF f = name.log THEN before ELSE <<>>]
      BY DEF Init
    <2>2. before \in Seq(Int) /\ <<>> \in Seq(Int)
      BY <1>1
    <2> QED
      BY <2>1, <2>2
  <1>3. Nothing \in Opening
    BY DEF Nothing, Opening, File
  <1>4. start \in [log : Opening, rotated : File, guard : Seq(Int)]
    <2>1. <<>> \in Seq(Int) /\ NoFile \in File
      BY DEF File
    <2>2. start = [log |-> Nothing, rotated |-> NoFile, guard |-> <<>>]
      BY DEF Init
    <2> QED
      BY <1>3, <2>1, <2>2
  <1>5. mishaps \in [rotations : Nat, cuts : Nat]
    BY DEF Init
  <1>6. events \in Seq(Noted) /\ segments \in Seq(Segment) /\ read \in Seq(Int)
    BY DEF Init
  <1>7. /\ name \in [log : File, rotated : File] /\ logger \in File /\ wrote \in Nat
        /\ siftr \in Stages /\ current \in Opening /\ rotated \in Opening
        /\ opened \in Nat /\ unguarded \in BOOLEAN
    BY <1>3 DEF Init, Stages, File
  <1> QED
    BY <1>2, <1>4, <1>5, <1>6, <1>7 DEF TypeOK

\* What a step of the command leaves alone.
LEMMA Frame ==
  ASSUME TypeOK, Command
  PROVE  /\ Running /\ Running' /\ Started /\ Started' /\ siftr' = siftr
         /\ UNCHANGED <<start, current, rotated, segments, read, opened>>
         /\ Old' = Old /\ Was' = Was
         /\ Held' = Held
  <1>1. /\ siftr' = siftr
        /\ UNCHANGED <<start, current, rotated, segments, read, opened>>
    BY DEF Command, OpenLog, Write, Rotate, Clear, Unlink, Stamp, found
  <1>2. Running
    BY DEF Command, OpenLog, Write, Rotate, Clear, Unlink, Stamp, Running
  <1> QED
    BY <1>1, <1>2 DEF Running, Started, Old, Was, Held

\* A removal or a clear.
LEMMA Cutting ==
  ASSUME TypeOK, Clear \/ Unlink
  PROVE  /\ mishaps' \in [rotations : Nat, cuts : Nat]
         /\ mishaps'.cuts > 0 /\ mishaps'.rotations = mishaps.rotations /\ ~ Uncut'
         /\ name.log \in Inodes
  <1>1. mishaps' = [mishaps EXCEPT !["cuts"] = @ + 1]
    BY DEF Clear, Unlink, Mishap
  <1>2. mishaps \in [rotations : Nat, cuts : Nat]
    BY DEF TypeOK
  <1>3. /\ mishaps' \in [rotations : Nat, cuts : Nat]
        /\ mishaps'.cuts = mishaps.cuts + 1 /\ mishaps'.rotations = mishaps.rotations
        /\ mishaps.cuts \in Nat
    BY <1>1, <1>2
  <1>4. name.log \in Inodes
    BY Sorts DEF Clear, Unlink
  <1> QED
    BY <1>3, <1>4 DEF Uncut

LEMMA Rotating ==
  ASSUME TypeOK, Rotate
  PROVE  /\ mishaps' \in [rotations : Nat, cuts : Nat]
         /\ mishaps'.rotations = mishaps.rotations + 1 /\ mishaps'.cuts = mishaps.cuts
         /\ logger \in Inodes /\ logger = name.log
         /\ name'.rotated = name.log /\ logger' = name'.log
         /\ name'.log \in Free({}) /\ Create(name'.log)
         /\ name' \in [log : File, rotated : File]
         /\ UNCHANGED <<wrote, events, unguarded>>
  <1>1. /\ mishaps' = [mishaps EXCEPT !["rotations"] = @ + 1]
        /\ logger # NoFile /\ logger = name.log
        /\ \E f \in Free({}) : Create(f) /\ name' = [log |-> f, rotated |-> logger] /\ logger' = f
        /\ UNCHANGED <<wrote, events, unguarded>>
    BY DEF Rotate, Mishap
  <1>2. mishaps \in [rotations : Nat, cuts : Nat]
    BY DEF TypeOK
  <1>3. /\ mishaps' \in [rotations : Nat, cuts : Nat]
        /\ mishaps'.rotations = mishaps.rotations + 1 /\ mishaps'.cuts = mishaps.cuts
    BY <1>1, <1>2
  <1>4. PICK f \in Free({}) : Create(f) /\ name' = [log |-> f, rotated |-> logger] /\ logger' = f
    BY <1>1
  <1>5. f \in File /\ logger \in Inodes
    BY <1>1, Sorts DEF Free, File
  <1> QED
    BY <1>1, <1>3, <1>4, <1>5 DEF File

\* The logger opens the log, or creates it.
LEMMA Logging ==
  ASSUME TypeOK, OpenLog
  PROVE  /\ logger' = name'.log /\ name'.log \in File /\ name'.log # NoFile
         /\ name' \in [log : File, rotated : File] /\ name'.rotated = name.rotated
         /\ UNCHANGED <<wrote, mishaps, events, unguarded>>
         /\ name.log # NoFile => UNCHANGED <<lines, name>>
         /\ name.log = NoFile => name'.log \in Free({name.rotated}) /\ Create(name'.log)
  <1>1. name \in [log : File, rotated : File]
    BY DEF TypeOK
  <1>2. UNCHANGED <<wrote, mishaps, events, unguarded>>
    BY DEF OpenLog
  <1>3. CASE name.log # NoFile
    <2>1. logger' = name.log /\ UNCHANGED <<lines, name>>
      BY <1>3 DEF OpenLog
    <2> QED
      BY <1>1, <1>2, <1>3, <2>1
  <1>4. CASE name.log = NoFile
    <2>1. PICK f \in Free({name.rotated}) :
            Create(f) /\ name' = [name EXCEPT !.log = f] /\ logger' = f
      BY <1>4 DEF OpenLog
    <2>2. f \in File /\ f # NoFile
      BY RailsLogAssumption DEF Free, File
    <2> QED
      BY <1>1, <1>2, <1>4, <2>1, <2>2
  <1> QED
    BY <1>3, <1>4

LEMMA Stamping ==
  ASSUME TypeOK, Stamp
  PROVE  /\ siftr = "waiting" /\ name.log \in Inodes
         /\ events' \in Seq(Noted) /\ Len(events') = Len(events) + 1 /\ Len(events) \in Nat
         /\ DOMAIN events = 1..Len(events) /\ DOMAIN events' = 1..Len(events')
         /\ \A i \in 1..Len(events) : events'[i] = events[i]
         /\ events'[Len(events')].ino = name.log
         /\ events'[Len(events')].offset = Len(lines[name.log])
         /\ events'[Len(events')].after = wrote
         /\ UNCHANGED <<lines, name, logger, wrote, mishaps, unguarded>>
  <1> DEFINE e == [ino |-> name.log, offset |-> Len(lines[name.log]), after |-> wrote]
  <1>1. /\ siftr = "waiting" /\ name.log # NoFile /\ events' = Append(events, e)
        /\ UNCHANGED <<lines, name, logger, wrote, mishaps, unguarded>>
    BY DEF Stamp
  <1>2. name.log \in Inodes /\ wrote \in Nat
    BY <1>1, Sorts
  <1>3. Len(lines[name.log]) \in Nat
    BY <1>2, LinesOf
  <1>4. e \in Noted /\ e.ino = name.log /\ e.offset = Len(lines[name.log]) /\ e.after = wrote
    BY <1>2, <1>3 DEF Noted
  <1> HIDE DEF e
  <1>5. events \in Seq(Noted)
    BY DEF TypeOK
  <1>6. /\ Append(events, e) \in Seq(Noted) /\ Len(Append(events, e)) = Len(events) + 1
        /\ Append(events, e)[Len(events) + 1] = e
        /\ \A i \in 1..Len(events) : Append(events, e)[i] = events[i]
        /\ Len(events) \in Nat /\ DOMAIN events = 1..Len(events)
    BY <1>4, <1>5, AppendProperties
  <1>7. /\ events' \in Seq(Noted) /\ Len(events') = Len(events) + 1
        /\ events'[Len(events')] = e /\ \A i \in 1..Len(events) : events'[i] = events[i]
        /\ DOMAIN events' = 1..Len(events')
    BY <1>1, <1>6
  <1> QED
    BY <1>1, <1>2, <1>4, <1>6, <1>7

LEMMA TypeStep ==
  ASSUME TypeOK, Noticed, Next \/ UNCHANGED vars
  PROVE  TypeOK'
  <1>1. CASE Command
    <2>1. /\ UNCHANGED <<start, current, rotated, segments, read, opened>> /\ siftr' = siftr
      BY <1>1, Frame
    <2>2. /\ start' \in [log : Opening, rotated : File, guard : Seq(Int)]
          /\ current' \in Opening /\ rotated' \in Opening
          /\ segments' \in Seq(Segment) /\ read' \in Seq(Int)
          /\ opened' \in Nat /\ siftr' \in Stages
      BY <2>1 DEF TypeOK
    <2>3. /\ lines \in [Inodes -> Seq(Int)] /\ name \in [log : File, rotated : File]
          /\ logger \in File /\ wrote \in Nat /\ mishaps \in [rotations : Nat, cuts : Nat]
          /\ events \in Seq(Noted) /\ unguarded \in BOOLEAN
      BY DEF TypeOK
    <2>4. /\ lines' \in [Inodes -> Seq(Int)] /\ name' \in [log : File, rotated : File]
          /\ logger' \in File /\ wrote' \in Nat /\ mishaps' \in [rotations : Nat, cuts : Nat]
          /\ events' \in Seq(Noted) /\ unguarded' \in BOOLEAN
      <3>1. CASE OpenLog
        <4>1. lines' \in [Inodes -> Seq(Int)]
          BY <2>3, <3>1, Logging, Creation
        <4> QED
          BY <2>3, <3>1, <4>1, Logging
      <3>2. CASE Write
        <4>1. unguarded' \in BOOLEAN
          BY <2>3, <3>2 DEF Write
        <4> QED
          BY <2>3, <3>2, <4>1, Writing
      <3>3. CASE Rotate
        <4>1. lines' \in [Inodes -> Seq(Int)]
          BY <2>3, <3>3, Rotating, Creation
        <4> QED
          BY <2>3, <3>3, <4>1, Rotating
      <3>4. CASE Clear
        <4>1. lines' \in [Inodes -> Seq(Int)]
          <5>1. <<>> \in Seq(Int)
            OBVIOUS
          <5> QED
            BY <2>3, <3>4, <5>1, Cutting DEF Clear
        <4>2. unguarded' \in BOOLEAN
          BY <2>3, <3>4 DEF Clear
        <4> QED
          BY <2>3, <3>4, <4>1, <4>2, Cutting DEF Clear
      <3>5. CASE Unlink
        <4>1. name' \in [log : File, rotated : File]
          BY <2>3, <3>5 DEF Unlink, File
        <4>2. unguarded' \in BOOLEAN
          BY <2>3, <3>5 DEF Unlink
        <4> QED
          BY <2>3, <3>5, <4>1, <4>2, Cutting DEF Unlink
      <3>6. CASE Stamp
        BY <2>3, <3>6, Stamping
      <3> QED
        BY <1>1, <3>1, <3>2, <3>3, <3>4, <3>5, <3>6 DEF Command
    <2> QED
      BY <2>2, <2>4 DEF TypeOK
  <1>2. CASE Siftr
    <2>1. UNCHANGED world /\ unguarded' = unguarded
      BY <1>2 DEF Siftr, Snapshot, OpenCurrent, OpenRotated, Measure, Copy
    <2>2. /\ lines' \in [Inodes -> Seq(Int)] /\ name' \in [log : File, rotated : File]
          /\ logger' \in File /\ wrote' \in Nat /\ mishaps' \in [rotations : Nat, cuts : Nat]
          /\ events' \in Seq(Noted) /\ unguarded' \in BOOLEAN
      BY <2>1 DEF TypeOK, world
    <2>3. siftr' \in Stages
      BY <1>2 DEF Siftr, Snapshot, OpenCurrent, OpenRotated, Measure, Copy, Stages
    <2>4. /\ start \in [log : Opening, rotated : File, guard : Seq(Int)]
          /\ current \in Opening /\ rotated \in Opening
          /\ segments \in Seq(Segment) /\ read \in Seq(Int) /\ opened \in Nat
          /\ wrote \in Nat /\ name.log \in File /\ name.rotated \in File
      BY Sorts DEF TypeOK
    <2>5. /\ start' \in [log : Opening, rotated : File, guard : Seq(Int)]
          /\ current' \in Opening /\ rotated' \in Opening
          /\ segments' \in Seq(Segment) /\ read' \in Seq(Int) /\ opened' \in Nat
      <3>1. CASE Snapshot
        <4>1. UNCHANGED <<current, rotated, segments, read, opened>>
          BY <3>1 DEF Snapshot, found
        <4> QED
          BY <2>4, <3>1, <4>1, Snapping
      <3>2. CASE OpenCurrent
        <4>1. /\ UNCHANGED <<start, rotated, segments, read>>
              /\ current' = Opened(name.log) /\ opened' = wrote
          BY <3>2 DEF OpenCurrent
        <4> QED
          BY <2>4, <4>1, Opens
      <3>3. CASE OpenRotated
        <4>1. /\ UNCHANGED <<start, current, segments, read, opened>>
              /\ rotated' = Opened(name.rotated)
          BY <3>3 DEF OpenRotated
        <4> QED
          BY <2>4, <4>1, Opens
      <3>4. CASE Measure
        <4>1. UNCHANGED <<start, current, rotated, read, opened>>
          BY <3>4 DEF Measure
        <4>2. segments' \in Seq(Segment)
          <5>1. (Placeable /\ segments' = Segments) \/ segments' = segments
            BY <3>4 DEF Measure
          <5> QED
            BY <2>4, <5>1, Segmenting
        <4> QED
          BY <2>4, <4>1, <4>2
      <3>5. CASE Copy
        <4>1. /\ UNCHANGED <<start, current, rotated, segments, opened>>
              /\ read' = Slice(1) \o Slice(2)
          BY <3>5 DEF Copy
        <4>2. ASSUME NEW i \in Nat PROVE Slice(i) \in Seq(Int)
          <5>1. CASE i \in DOMAIN segments
            <6>1. segments[i] \in Segment
              BY <2>4, <5>1
            <6> QED
              BY <5>1, <6>1, Copying DEF Slice
          <5>2. CASE i \notin DOMAIN segments
            BY <5>2 DEF Slice
          <5> QED
            BY <5>1, <5>2
        <4>3. Slice(1) \in Seq(Int) /\ Slice(2) \in Seq(Int)
          BY <4>2
        <4>4. read' \in Seq(Int)
          BY <4>1, <4>3, ConcatProperties
        <4> QED
          BY <2>4, <4>1, <4>4
      <3> QED
        BY <1>2, <3>1, <3>2, <3>3, <3>4, <3>5 DEF Siftr
    <2> QED
      BY <2>2, <2>3, <2>5 DEF TypeOK
  <1>3. CASE UNCHANGED vars
    BY <1>3 DEF TypeOK, vars, world, found
  <1> QED
    BY <1>1, <1>2, <1>3 DEF Next, Stop

-----------------------------------------------------------------------------
(* What was noted of the log before the command started.                    *)

LEMMA NoticedStep ==
  ASSUME TypeOK, Noticed, Next \/ UNCHANGED vars
  PROVE  Noticed'
  <1>1. CASE Command
    <2>1. /\ UNCHANGED <<start, current, rotated>> /\ siftr' = siftr
          /\ Started /\ Started' /\ Was' = Was
      BY <1>1, Frame
    <2>2. /\ name'.log = name'.rotated => name'.log = NoFile
          /\ name'.log # NoFile => name'.log # start.rotated
      <3>1. /\ name.log = name.rotated => name.log = NoFile
            /\ name.log # NoFile => name.log # start.rotated
        BY <2>1 DEF Noticed
      <3>2. CASE OpenLog
        BY <3>1, <3>2, Logging, Creation DEF Held
      <3>3. CASE Rotate
        BY <3>3, Rotating, Creation DEF Held
      <3>4. CASE Unlink
        <4>1. name' = [name EXCEPT !.log = NoFile] /\ name \in [log : File, rotated : File]
          BY <3>4 DEF Unlink, TypeOK
        <4> QED
          BY <4>1
      <3>5. CASE Write \/ Clear \/ Stamp
        <4>1. name' = name
          BY <3>5 DEF Write, Clear, Stamp
        <4> QED
          BY <3>1, <4>1
      <3> QED
        BY <1>1, <3>2, <3>3, <3>4, <3>5 DEF Command
    <2> QED
      BY <2>1, <2>2 DEF Noticed, Started
  <1>2. CASE Snapshot
    <2>1. ~ Started /\ siftr' = "waiting" /\ UNCHANGED <<name, current, rotated>>
      BY <1>2 DEF Snapshot, Started, world, found
    <2>2. /\ name.log = name.rotated => name.log = NoFile
          /\ name.log # NoFile => \A i \in DOMAIN lines[name.log] : lines[name.log][i] = Before
          /\ current = Nothing /\ rotated = Nothing
          /\ current.ino = NoFile /\ rotated.ino = NoFile
      BY <2>1 DEF Noticed, Started, Nothing
    <2>3. /\ start'.log.ino = NoFile => start'.log = Nothing
          /\ Len(start'.guard) <= Was' /\ (Was' > 0 => Len(start'.guard) > 0)
          /\ \A i \in DOMAIN start'.guard : start'.guard[i] = Before
          /\ start'.rotated = name.rotated
      <3>1. CASE name.log = NoFile
        BY <1>2, <3>1, Snapping DEF Was, Nothing
      <3>2. CASE name.log # NoFile
        BY <1>2, <2>2, <3>2, Snapping DEF Was
      <3> QED
        BY <3>1, <3>2
    <2> QED
      BY <2>1, <2>2, <2>3 DEF Noticed, Started
  <1>3. CASE OpenCurrent
    <2>1. /\ siftr = "waiting" /\ siftr' = "opening" /\ UNCHANGED <<start, name, rotated>>
          /\ current' = Opened(name.log) /\ name.log \in File
      BY <1>3, Sorts DEF OpenCurrent, world
    <2>2. current'.ino = NoFile => current' = Nothing
      BY <2>1, Opens
    <2> QED
      BY <2>1, <2>2 DEF Noticed, Started, Was
  <1>4. CASE OpenRotated
    <2>1. /\ siftr = "opening" /\ siftr' = "measuring" /\ UNCHANGED <<start, name, current>>
          /\ rotated' = Opened(name.rotated) /\ name.rotated \in File
      BY <1>4, Sorts DEF OpenRotated, world
    <2>2. rotated'.ino = NoFile => rotated' = Nothing
      BY <2>1, Opens
    <2> QED
      BY <2>1, <2>2 DEF Noticed, Started, Was
  <1>5. CASE Measure \/ Copy
    <2>1. /\ siftr \notin {"preparing", "waiting", "opening"}
          /\ siftr' \notin {"preparing", "waiting", "opening"}
          /\ UNCHANGED <<start, name, current, rotated>>
      BY <1>5 DEF Measure, Copy, world
    <2> QED
      BY <2>1 DEF Noticed, Started, Was
  <1>6. CASE UNCHANGED vars
    BY <1>6 DEF vars, world, found, Noticed, Started, Was
  <1> QED
    BY <1>1, <1>2, <1>3, <1>4, <1>5, <1>6 DEF Next, Siftr, Stop

-----------------------------------------------------------------------------
(* The lines siftr compares: whether a file goes on from where the log ended. *)

LEMMA GuardMeets ==
  ASSUME TypeOK, Noticed, Old \in Inodes, NEW file \in Opening, file.ino = Old
  PROVE  /\ Appended(file) => /\ Was <= file.len /\ Was <= Len(lines[Old])
                              /\ Was > 0 => lines[Old][Was] = Before
         /\ /\ Was <= file.len /\ Was <= Len(lines[Old])
            /\ \A i \in 1..Was : lines[Old][i] = Before
            => Appended(file)
  <1> DEFINE q == lines[Old]
             g == start.guard
             n == Len(g)
             from == Was - n
  <1>1. /\ Was \in Nat /\ g \in Seq(Int) /\ n \in Nat /\ DOMAIN g = 1..n
        /\ q \in Seq(Int) /\ Len(q) \in Nat /\ \A i \in 1..Len(q) : q[i] \in Int
        /\ file.len \in Nat
    BY Sorts, LinesOf DEF Opening
  <1>2. n <= Was /\ (Was > 0 => n > 0) /\ \A i \in 1..n : g[i] = Before
    BY <1>1 DEF Noticed
  <1>3. Appended(file) <=> /\ file.len >= Was /\ Len(q) >= Was
                           /\ SubSeq(q, from + 1, Was) = g
    BY DEF Appended, Has, Was, Old
  <1> HIDE DEF q, g, n
  <1>4. from \in Nat /\ from <= Was
    BY <1>1, <1>2
  <1>5. PICK m \in Int : m = from + 1
    BY <1>4
  <1>6. ASSUME Was <= Len(q)
        PROVE  /\ SubSeq(q, m, Was) \in Seq(Int) /\ Len(SubSeq(q, m, Was)) = n
               /\ \A i \in 1..n : SubSeq(q, m, Was)[i] = q[from + i]
    <2>1. Was \in Int /\ \A i \in m..Was : q[i] \in Int
      BY <1>1, <1>4, <1>5, <1>6
    <2>2. /\ SubSeq(q, m, Was) \in Seq(Int)
          /\ Len(SubSeq(q, m, Was)) = IF m <= Was THEN Was - m + 1 ELSE 0
          /\ \A i \in 1..(Was - m + 1) : SubSeq(q, m, Was)[i] = q[m + i - 1]
      BY <2>1, SubSeqProperties
    <2>3. Was - m + 1 = n
      BY <1>1, <1>5
    <2> QED
      BY <1>1, <1>4, <1>5, <2>2, <2>3
  <1>7. ASSUME Appended(file), Was > 0 PROVE q[Was] = Before
    <2>1. SubSeq(q, m, Was) = g /\ Was <= Len(q)
      BY <1>1, <1>3, <1>5, <1>7
    <2>2. n \in 1..n /\ from + n = Was
      BY <1>1, <1>2, <1>7
    <2>3. g[n] = q[Was]
      BY <1>6, <2>1, <2>2
    <2> QED
      BY <1>2, <2>2, <2>3
  <1>8. ASSUME Was <= file.len, Was <= Len(q), \A i \in 1..Was : q[i] = Before
        PROVE  Appended(file)
    <2>1. \A i \in 1..n : SubSeq(q, m, Was)[i] = g[i]
      <3> SUFFICES ASSUME NEW i \in 1..n PROVE SubSeq(q, m, Was)[i] = g[i]
        OBVIOUS
      <3>1. from + i \in 1..Was
        BY <1>1, <1>2
      <3> QED
        BY <1>2, <1>6, <1>8, <3>1
    <2>2. SubSeq(q, m, Was) = g
      <3>1. SubSeq(q, m, Was) \in Seq(Int) /\ Len(SubSeq(q, m, Was)) = Len(g)
        BY <1>6, <1>8 DEF n
      <3> DEFINE c == SubSeq(q, m, Was)
      <3>2. c \in Seq(Int) /\ Len(c) = Len(g) /\ \A i \in 1..Len(c) : c[i] = g[i]
        BY <2>1, <3>1 DEF n
      <3> HIDE DEF c
      <3>3. c = g
        BY <1>1, <3>2, SeqEqual
      <3> QED
        BY <3>3 DEF c
    <2> QED
      BY <1>3, <1>5, <1>8, <2>2
  <1> QED
    BY <1>1, <1>3, <1>7, <1>8 DEF q

\* In a log that was cleared or is gone, the run's lines cannot be placed.
LEMMA LostIsRefused ==
  ASSUME TypeOK, Noticed, Lost, siftr = "measuring"
  PROVE  ~ Placeable
  <1>1. /\ Old \in Inodes /\ start.log # Nothing /\ Was \in Nat
        /\ current \in Opening /\ rotated \in Opening
    <2>1. Old \in Inodes
      BY Sorts DEF Lost
    <2>2. start.log # Nothing
      BY <2>1, Sorts DEF Old, Nothing
    <2> QED
      BY <2>1, <2>2, Sorts DEF TypeOK
  <1>2. ASSUME NEW file \in Opening, file.ino = Old, Appended(file)
        PROVE  Was = 0 \/ \E i \in DOMAIN lines[Old] : lines[Old][i] = Before
    <2>1. /\ Was <= Len(lines[Old])
          /\ Was > 0 => lines[Old][Was] = Before
      BY <1>1, <1>2, GuardMeets
    <2>2. DOMAIN lines[Old] = 1..Len(lines[Old]) /\ Len(lines[Old]) \in Nat
      BY <1>1, LinesOf
    <2> QED
      BY <1>1, <2>1, <2>2
  <1> SUFFICES ASSUME Placeable PROVE FALSE
    OBVIOUS
  <1>3. \/ current.ino = Old /\ Appended(current)
        \/ rotated.ino = Old /\ Appended(rotated)
    BY <1>1 DEF Placeable, Old
  <1>4. Was > 0 /\ \A i \in DOMAIN lines[Old] : lines[Old][i] # Before
    BY <1>3 DEF Lost
  <1> QED
    BY <1>1, <1>2, <1>3, <1>4

-----------------------------------------------------------------------------
(* What was cut away, and what siftr can see of it.                         *)

LEMMA CutsStep ==
  ASSUME TypeOK, Noticed, Cuts, Next \/ UNCHANGED vars
  PROVE  Cuts'
  <1>1. /\ Old \in File /\ File = Inodes \cup {NoFile} /\ NoFile \notin Inodes
        /\ name.log \in File /\ name.rotated \in File /\ logger \in File
        /\ unguarded \in BOOLEAN /\ wrote \in Nat
        /\ mishaps.cuts \in Nat
    BY Sorts
  <1>2. CASE Command
    <2>1. /\ UNCHANGED <<start, current, rotated>> /\ siftr' = siftr /\ Old' = Old /\ Was' = Was
      BY <1>2, Frame
    <2>2. Lost' <=> /\ Old # NoFile
                    /\ siftr \in {"waiting", "opening", "measuring", "refused"}
                    /\ \/ Old \notin {name'.log, name'.rotated, current.ino, rotated.ino}
                       \/ Was > 0 /\ \A i \in DOMAIN lines'[Old] : lines'[Old][i] # Before
      BY <2>1 DEF Lost
    <2>3. CASE OpenLog
      <3>1. Uncut' <=> Uncut
        BY <2>3, Logging DEF Uncut
      <3>2. Lost => Lost'
        <4>1. CASE name.log # NoFile
          BY <2>2, <2>3, <4>1, Logging DEF Lost
        <4>2. CASE name.log = NoFile
          <5>1. name'.log # Old /\ name'.rotated = name.rotated
            BY <2>3, <4>2, Logging, Creation DEF Held, Old
          <5>2. Old \in Inodes => lines'[Old] = lines[Old]
            BY <2>3, <4>2, <5>1, Logging, Creation
          <5> QED
            BY <1>1, <2>2, <5>1, <5>2 DEF Lost
        <4> QED
          BY <4>1, <4>2
      <3>3. unguarded' = unguarded /\ logger' = name'.log
        BY <2>3, Logging
      <3> QED
        BY <3>1, <3>2, <3>3 DEF Cuts
    <2>4. CASE Write
      <3>1. UNCHANGED <<name, logger, mishaps>> /\ logger \in Inodes
        BY <2>4, Writing
      <3>2. unguarded' = (unguarded \/ logger \notin {name.log, name.rotated, Old})
        BY <2>4 DEF Write, Old
      <3>3. Uncut' <=> Uncut
        BY <3>1 DEF Uncut
      <3>4. Uncut => ~ unguarded' /\ logger' \in {NoFile, name'.log}
        BY <1>1, <3>1, <3>2 DEF Cuts
      <3>5. ASSUME ~ Uncut, ~ unguarded' PROVE Lost'
        <4>1. ~ unguarded /\ logger \in {name.log, name.rotated, Old}
          BY <1>1, <3>2, <3>5
        <4>2. Lost
          BY <3>5, <4>1 DEF Cuts
        <4>3. CASE Old \notin {name.log, name.rotated, current.ino, rotated.ino}
          BY <2>2, <3>1, <4>2, <4>3 DEF Lost
        <4>4. CASE Was > 0 /\ \A i \in DOMAIN lines[Old] : lines[Old][i] # Before
          <5>1. Old \in Inodes
            BY <1>1, <4>2 DEF Lost
          <5>2. \A i \in DOMAIN lines'[Old] : lines'[Old][i] # Before
            <6>1. CASE logger = Old
              <7>1. /\ lines' \in [Inodes -> Seq(Int)] /\ Len(lines'[Old]) = Len(lines[Old]) + 1
                    /\ lines'[Old][Len(lines[Old]) + 1] = wrote + 1
                    /\ \A i \in 1..Len(lines[Old]) : lines'[Old][i] = lines[Old][i]
                BY <2>4, <6>1, Writing DEF Grown
              <7>2. lines'[Old] \in Seq(Int)
                BY <5>1, <7>1
              <7>3. DOMAIN lines'[Old] = 1..Len(lines'[Old])
                BY <7>2, LenProperties
              <7>4. Len(lines[Old]) \in Nat /\ DOMAIN lines[Old] = 1..Len(lines[Old])
                BY <5>1, LinesOf
              <7> DEFINE n == Len(lines[Old])
              <7>5. /\ n \in Nat /\ DOMAIN lines'[Old] = 1..(n + 1)
                    /\ \A i \in 1..n : lines'[Old][i] = lines[Old][i] /\ lines[Old][i] # 0
                    /\ lines'[Old][n + 1] = wrote + 1
                BY <4>4, <7>1, <7>3, <7>4 DEF Before
              <7> HIDE DEF n
              <7>6. wrote + 1 # 0 /\ \A i \in 1..(n + 1) : i = n + 1 \/ i \in 1..n
                BY <1>1, <7>5
              <7> QED
                BY <7>5, <7>6 DEF Before
            <6>2. CASE logger # Old
              BY <2>4, <4>4, <5>1, <6>2, Writing
            <6> QED
              BY <6>1, <6>2
          <5> QED
            BY <2>2, <4>2, <4>4, <5>2 DEF Lost
        <4> QED
          BY <4>2, <4>3, <4>4 DEF Lost
      <3> QED
        BY <3>3, <3>4, <3>5 DEF Cuts
    <2>5. CASE Rotate
      <3>1. Uncut' <=> Uncut
        BY <2>5, Rotating DEF Uncut
      <3>2. /\ name'.rotated = name.log /\ logger' = name'.log /\ unguarded' = unguarded
            /\ name'.log # Old
            /\ Old \in Inodes => lines'[Old] = lines[Old]
        BY <2>5, Rotating, Creation DEF Held, Old
      <3>3. Lost => Lost'
        BY <1>1, <2>2, <3>2 DEF Lost
      <3> QED
        BY <3>1, <3>2, <3>3 DEF Cuts
    <2>6. CASE Clear
      <3>1. /\ name.log \in Inodes /\ ~ Uncut'
        BY <2>6, Cutting
      <3>2. /\ lines' = [lines EXCEPT ![name.log] = <<>>] /\ lines \in [Inodes -> Seq(Int)]
            /\ name' = name /\ unguarded' = (unguarded \/ ~ Guarded(name.log))
        BY <2>6 DEF Clear, TypeOK
      <3>3. ASSUME ~ unguarded' PROVE Lost'
        <4>1. name.log = Old /\ Was > 0 /\ siftr = "waiting"
          BY <1>1, <3>2, <3>3 DEF Guarded, Old, Was
        <4>2. lines'[Old] = <<>>
          BY <3>1, <3>2, <4>1
        <4>3. \A i \in DOMAIN lines'[Old] : lines'[Old][i] # Before
          BY <4>2
        <4> QED
          BY <1>1, <2>2, <3>1, <4>1, <4>3
      <3> QED
        BY <3>1, <3>3 DEF Cuts
    <2>7. CASE Unlink
      <3>1. /\ name.log \in Inodes /\ ~ Uncut'
        BY <2>7, Cutting
      <3>2. /\ name' = [name EXCEPT !.log = NoFile] /\ name \in [log : File, rotated : File]
            /\ unguarded' = (unguarded \/ name.log # Old \/ siftr # "waiting")
        BY <2>7 DEF Unlink, Old, TypeOK
      <3>3. name'.log = NoFile /\ name'.rotated = name.rotated
        BY <3>2
      <3>4. ASSUME ~ unguarded' PROVE Lost'
        <4>1. name.log = Old /\ siftr = "waiting"
          BY <1>1, <3>2, <3>4
        <4>2. current = Nothing /\ rotated = Nothing /\ name.rotated # name.log
          BY <1>1, <3>1, <4>1 DEF Noticed
        <4>3. Old \notin {name'.log, name'.rotated, current.ino, rotated.ino}
          BY <1>1, <3>1, <3>3, <4>1, <4>2 DEF Nothing
        <4> QED
          BY <1>1, <2>2, <3>1, <4>1, <4>3
      <3> QED
        BY <3>1, <3>4 DEF Cuts
    <2>8. CASE Stamp
      <3>1. UNCHANGED <<lines, name, logger, mishaps, unguarded>>
        BY <2>8, Stamping
      <3>2. Uncut' <=> Uncut
        BY <3>1 DEF Uncut
      <3>3. Lost' <=> Lost
        BY <2>2, <3>1 DEF Lost
      <3> QED
        BY <3>1, <3>2, <3>3 DEF Cuts
    <2> QED
      BY <1>2, <2>3, <2>4, <2>5, <2>6, <2>7, <2>8 DEF Command
  <1>3. CASE Siftr
    <2>1. UNCHANGED <<lines, name, logger, mishaps, unguarded>>
      BY <1>3 DEF Siftr, Snapshot, OpenCurrent, OpenRotated, Measure, Copy, world
    <2>2. Uncut' <=> Uncut
      BY <2>1 DEF Uncut
    <2>3. ASSUME ~ Uncut, ~ unguarded PROVE Lost'
      <3>1. Lost
        BY <2>3 DEF Cuts
      <3>2. CASE Snapshot
        <4>1. ~ Started
          BY <3>2 DEF Snapshot, Started
        <4> QED
          BY <2>3, <4>1 DEF Noticed, Uncut
      <3>3. CASE OpenCurrent
        <4>1. /\ siftr' = "opening" /\ current' = Opened(name.log) /\ UNCHANGED <<start, rotated>>
          BY <3>3 DEF OpenCurrent
        <4>2. current'.ino = name.log
          BY <1>1, <4>1, Opens
        <4> QED
          BY <2>1, <3>1, <4>1, <4>2 DEF Lost, Old, Was
      <3>4. CASE OpenRotated
        <4>1. /\ siftr' = "measuring" /\ rotated' = Opened(name.rotated)
              /\ UNCHANGED <<start, current>>
          BY <3>4 DEF OpenRotated
        <4>2. rotated'.ino = name.rotated
          BY <1>1, <4>1, Opens
        <4> QED
          BY <2>1, <3>1, <4>1, <4>2 DEF Lost, Old, Was
      <3>5. CASE Measure
        <4>1. siftr' = "refused" /\ UNCHANGED <<start, current, rotated>>
          BY <3>1, <3>5, LostIsRefused DEF Measure
        <4> QED
          BY <2>1, <3>1, <4>1 DEF Lost, Old, Was
      <3>6. CASE Copy
        BY <3>1, <3>6 DEF Copy, Lost
      <3> QED
        BY <1>3, <3>2, <3>3, <3>4, <3>5, <3>6 DEF Siftr
    <2> QED
      BY <2>1, <2>2, <2>3 DEF Cuts
  <1>4. CASE UNCHANGED vars
    BY <1>4 DEF vars, world, found, Cuts, Uncut, Lost, Old, Was
  <1> QED
    BY <1>2, <1>3, <1>4 DEF Next, Stop

-----------------------------------------------------------------------------
(* Where the run's lines are.                                               *)

\* The last line written continues the file it went to.
LEMMA ContinuesWritten ==
  ASSUME TypeOK, Write, NEW k \in Int,
         Continues(logger, k, Len(lines[logger])), k + Len(lines[logger]) = wrote + 1
  PROVE  /\ Len(lines'[logger]) = Len(lines[logger]) + 1
         /\ \A h : h = logger => Len(lines'[h]) >= 1 /\ lines'[h][1] = Header
         /\ \A i \in 2..Len(lines'[logger]) : lines'[logger][i] = k + (i - 1)
  <1>1. /\ logger \in Inodes /\ wrote' = wrote + 1 /\ wrote \in Nat
        /\ lines' \in [Inodes -> Seq(Int)]
        /\ Len(lines'[logger]) = Len(lines[logger]) + 1
        /\ lines'[logger][Len(lines[logger]) + 1] = wrote + 1
        /\ Grown(logger)
    BY Writing, Sorts
  <1>2. Len(lines[logger]) \in Nat
    BY <1>1, LinesOf
  <1> DEFINE n == Len(lines[logger])
  <1>3. /\ n >= 1 /\ lines[logger][1] = Header /\ n \in Nat
        /\ \A i \in 2..n : lines[logger][i] = k + (i - 1)
        /\ \A i \in 1..n : lines'[logger][i] = lines[logger][i]
        /\ lines'[logger][n + 1] = k + n
        /\ Len(lines'[logger]) = n + 1
    BY <1>1, <1>2 DEF Continues, Grown
  <1> HIDE DEF n
  <1>4. lines'[logger][1] = Header
    BY <1>3
  <1>5. \A i \in 2..(n + 1) : lines'[logger][i] = k + (i - 1)
    <2> SUFFICES ASSUME NEW i \in 2..(n + 1) PROVE lines'[logger][i] = k + (i - 1)
      OBVIOUS
    <2>1. CASE i = n + 1
      BY <1>3, <2>1
    <2>2. CASE i # n + 1
      <3>1. i \in 2..n /\ i \in 1..n
        BY <1>3, <2>2
      <3> QED
        BY <1>3, <3>1
    <2> QED
      BY <2>1, <2>2
  <1>6. Len(lines'[logger]) = Len(lines[logger]) + 1 /\ Len(lines'[logger]) = n + 1
    BY <1>1, <1>3
  <1>7. \A i \in 2..Len(lines'[logger]) : lines'[logger][i] = k + (i - 1)
    BY <1>5, <1>6
  <1>8. Len(lines'[logger]) >= 1
    BY <1>3
  <1> QED
    BY <1>4, <1>6, <1>7, <1>8

\* A step that leaves the files and what was noted of them alone.
LEMMA Same ==
  ASSUME UNCHANGED <<lines, name, wrote, mishaps, events, start>>
  PROVE  /\ Kept' <=> Kept
         /\ Made' <=> Made
         /\ Uncut' <=> Uncut
         /\ Old' = Old /\ Was' = Was /\ Mine' = Mine
  <1>1. Old' = Old /\ Was' = Was /\ Mine' = Mine /\ (Uncut' <=> Uncut)
    BY DEF Old, Was, Mine, Uncut
  <1>2. Kept' <=> Kept
    <2>1. Continues(name.log, Mine, Len(lines[name.log]))'
          <=> Continues(name.log, Mine, Len(lines[name.log]))
      BY <1>1 DEF Continues
    <2> QED
      BY <1>1, <2>1 DEF Kept
  <1>3. Made' <=> Made
    <2>1. Continues(name.log, 0, Len(lines[name.log]))'
          <=> Continues(name.log, 0, Len(lines[name.log]))
      BY DEF Continues
    <2> QED
      BY <2>1 DEF Made
  <1> QED
    BY <1>1, <1>2, <1>3

LEMMA AppendingStep ==
  ASSUME TypeOK, Noticed, Cuts, Appending, Next \/ UNCHANGED vars
  PROVE  Appending'
  <1>1. /\ Old \in File /\ File = Inodes \cup {NoFile} /\ NoFile \notin Inodes
        /\ name.log \in File /\ name.rotated \in File /\ logger \in File
        /\ wrote \in Nat /\ Was \in Nat
        /\ mishaps.cuts \in Nat /\ mishaps.rotations \in Nat
    BY Sorts
  <1>2. CASE Command
    <2> SUFFICES ASSUME Uncut', Old # NoFile PROVE Kept'
      BY <1>2, Frame DEF Appending
    <2>1. /\ Started /\ Old' = Old /\ Was' = Was /\ UNCHANGED start
          /\ Old \in Inodes /\ Old \in Held
      BY <1>1, <1>2, Frame DEF Held, Old
    <2>2. CASE Clear \/ Unlink
      BY <2>2, Cutting
    <2>3. CASE OpenLog
      <3>1. Uncut
        BY <2>3, Logging DEF Uncut
      <3>2. Kept
        BY <2>1, <3>1 DEF Appending
      <3>3. UNCHANGED <<lines, name, wrote, mishaps, events>>
        BY <2>3, <3>2, Logging DEF Kept
      <3> QED
        BY <2>1, <3>2, <3>3 DEF Kept, Mine, Continues
    <2>4. CASE Stamp
      <3>1. UNCHANGED <<lines, name, wrote, mishaps>>
        BY <2>4, Stamping
      <3>2. Kept
        BY <2>1, <3>1 DEF Appending, Uncut
      <3>3. Mine' = Mine /\ Mine \in Nat
        BY <1>1, <2>1, <3>1, <3>2 DEF Mine, Kept
      <3> DEFINE n == Len(events)
                 e == events'[n + 1]
      <3>4. /\ n \in Nat /\ DOMAIN events = 1..n /\ DOMAIN events' = 1..(n + 1)
            /\ \A i \in 1..n : events'[i] = events[i]
            /\ e.ino = name.log /\ e.offset = Len(lines[name.log]) /\ e.after = wrote
        BY <2>4, Stamping
      <3> HIDE DEF n, e
      <3>5. \A i \in DOMAIN events' : (i \in DOMAIN events /\ events'[i] = events[i]) \/ events'[i] = e
        <4> SUFFICES ASSUME NEW i \in 1..(n + 1)
                     PROVE  (i \in 1..n /\ events'[i] = events[i]) \/ i = n + 1
          BY <3>4 DEF e
        <4> QED
          BY <3>4
      <3>6. name.log = Old => \A i \in DOMAIN events' : events'[i].ino = Old
        BY <3>2, <3>4, <3>5 DEF Kept
      <3>7. name.rotated = Old =>
              \A i \in DOMAIN events' : events'[i].ino # Old =>
                 events'[i].ino = name.log /\ events'[i].offset = 1 + (events'[i].after - Mine)
        BY <3>2, <3>4, <3>5 DEF Kept
      <3>8. \A i \in DOMAIN events' : events'[i].ino = Old => events'[i].offset = Was + events'[i].after
        <4>1. e.ino = Old => e.offset = Was + e.after
          <5> SUFFICES ASSUME name.log = Old PROVE Len(lines[Old]) = Was + wrote
            BY <3>4
          <5>1. Mine = wrote /\ Len(lines[Old]) \in Nat
            BY <2>1, <3>2, LinesOf DEF Kept
          <5> QED
            BY <1>1, <5>1 DEF Mine
        <4> QED
          BY <3>2, <3>5, <4>1 DEF Kept
      <3>9. /\ name'.log # NoFile /\ Mine' \in 0..wrote'
            /\ \A i \in 1..Was' : lines'[Old'][i] = Before
            /\ \A i \in 1..Mine' : lines'[Old'][Was' + i] = i
            /\ name'.log = Old' <=> mishaps'.rotations = 0
            /\ name'.rotated = Old' <=> mishaps'.rotations = 1
            /\ name'.log = Old' => Mine' = wrote'
            /\ name'.rotated = Old' =>
                 /\ Continues(name.log, Mine, Len(lines[name.log]))'
                 /\ Len(lines'[name'.log]) = 1 + (wrote' - Mine')
        BY <2>1, <3>1, <3>2, <3>3 DEF Kept, Continues
      <3> QED
        BY <2>1, <3>1, <3>3, <3>6, <3>7, <3>8, <3>9 DEF Kept
    <2>5. CASE Write
      <3>1. /\ UNCHANGED <<name, logger, mishaps, events>> /\ wrote' = wrote + 1
            /\ logger \in Inodes
        BY <2>5, Writing
      <3>2. Kept /\ logger = name.log
        BY <1>1, <2>1, <3>1 DEF Appending, Uncut, Cuts
      <3>3. /\ Len(lines[Old]) \in Nat /\ Mine \in 0..wrote /\ Len(lines[Old]) = Was + Mine
        BY <1>1, <2>1, <3>2, LinesOf DEF Kept, Mine
      <3>4. CASE name.log = Old
        <4>1. /\ Mine = wrote /\ mishaps.rotations = 0 /\ name.rotated # Old
          BY <3>2, <3>4 DEF Kept
        <4>2. /\ Len(lines'[Old]) = Len(lines[Old]) + 1
              /\ lines'[Old][Len(lines[Old]) + 1] = wrote + 1
              /\ \A i \in 1..Len(lines[Old]) : lines'[Old][i] = lines[Old][i]
          BY <2>5, <3>2, <3>4, Writing DEF Grown
        <4>3. Mine' = wrote' /\ Mine' \in 0..wrote'
          <5>1. Mine' = (Len(lines[Old]) + 1) - Was
            BY <2>1, <4>2 DEF Mine
          <5>2. (Len(lines[Old]) + 1) - Was = wrote + 1
            BY <1>1, <3>3, <4>1
          <5> QED
            BY <1>1, <3>1, <5>1, <5>2
        <4>4. \A i \in 1..Was : lines'[Old][i] = Before
          <5>1. \A i \in 1..Was : i \in 1..Len(lines[Old])
            BY <1>1, <3>3
          <5>2. \A i \in 1..Was : lines[Old][i] = Before
            BY <3>2 DEF Kept
          <5> QED
            BY <4>2, <5>1, <5>2
        <4>5. \A i \in 1..Mine' : lines'[Old][Was + i] = i
          <5> SUFFICES ASSUME NEW i \in 1..(wrote + 1) PROVE lines'[Old][Was + i] = i
            BY <3>1, <4>3
          <5>1. CASE i = wrote + 1
            <6>1. Was + i = Len(lines[Old]) + 1
              BY <1>1, <3>3, <4>1, <5>1
            <6> QED
              BY <4>2, <5>1, <6>1
          <5>2. CASE i # wrote + 1
            <6>1. i \in 1..Mine /\ Was + i \in 1..Len(lines[Old])
              BY <1>1, <3>3, <4>1, <5>2
            <6> QED
              BY <3>2, <4>2, <6>1 DEF Kept
          <5> QED
            BY <5>1, <5>2
        <4>6. /\ \A i \in DOMAIN events : events[i].ino = Old
              /\ \A i \in DOMAIN events : events[i].ino = Old => events[i].offset = Was + events[i].after
          BY <3>2, <3>4 DEF Kept
        <4>7. name' = name /\ mishaps' = mishaps /\ events' = events
          BY <3>1
        <4> QED
          BY <2>1, <3>2, <3>4, <4>1, <4>3, <4>4, <4>5, <4>6, <4>7 DEF Kept
      <3>5. CASE name.log # Old
        <4>1. lines'[Old] = lines[Old] /\ Mine' = Mine
          BY <2>1, <2>5, <3>2, <3>5, Writing DEF Mine
        <4>2. ASSUME name.rotated = Old
              PROVE  /\ Continues(name.log, Mine, Len(lines[name.log]))'
                     /\ Len(lines'[name'.log]) = 1 + (wrote' - Mine')
          <5>1. /\ Continues(logger, Mine, Len(lines[logger]))
                /\ Len(lines[logger]) = 1 + (wrote - Mine)
            BY <3>2, <4>2 DEF Kept
          <5>2. Len(lines[logger]) \in Nat
            BY <3>1, LinesOf
          <5>3. PICK k \in Int : k = Mine
            BY <3>3
          <5>4. Continues(logger, k, Len(lines[logger])) /\ k + Len(lines[logger]) = wrote + 1
            BY <1>1, <3>3, <5>1, <5>2, <5>3
          <5>5. /\ Len(lines'[logger]) = Len(lines[logger]) + 1
                /\ Len(lines'[logger]) >= 1 /\ lines'[logger][1] = Header
                /\ \A i \in 2..Len(lines'[logger]) : lines'[logger][i] = k + (i - 1)
            BY <2>5, <5>4, ContinuesWritten
          <5>6. Len(lines'[name'.log]) = 1 + (wrote' - Mine')
            BY <1>1, <3>1, <3>2, <3>3, <4>1, <5>1, <5>2, <5>5
          <5>7. name'.log = logger /\ Mine' = k
            BY <3>1, <3>2, <4>1, <5>3
          <5>8. Continues(name.log, Mine, Len(lines[name.log]))'
            BY <5>2, <5>5, <5>7 DEF Continues
          <5> QED
            BY <5>6, <5>8
        <4>3. Mine' \in 0..wrote'
          BY <1>1, <3>1, <3>3, <4>1
        <4>4. name' = name /\ mishaps' = mishaps /\ events' = events
          BY <3>1
        <4>5. /\ name.log # NoFile
              /\ \A i \in 1..Was : lines'[Old][i] = Before
              /\ \A i \in 1..Mine : lines'[Old][Was + i] = i
              /\ name.log = Old <=> mishaps.rotations = 0
              /\ name.rotated = Old <=> mishaps.rotations = 1
              /\ name.rotated = Old =>
                   \A i \in DOMAIN events : events[i].ino # Old =>
                     events[i].ino = name.log /\ events[i].offset = 1 + (events[i].after - Mine)
              /\ \A i \in DOMAIN events : events[i].ino = Old => events[i].offset = Was + events[i].after
          BY <3>2, <4>1 DEF Kept
        <4> QED
          BY <2>1, <3>5, <4>1, <4>2, <4>3, <4>4, <4>5 DEF Kept
      <3> QED
        BY <3>4, <3>5
    <2>6. CASE Rotate
      <3>1. /\ logger = name.log /\ name'.rotated = name.log
            /\ UNCHANGED <<wrote, events>> /\ mishaps'.rotations = mishaps.rotations + 1
            /\ name'.log \in Inodes /\ name'.log \notin Held /\ name'.log # NoFile
            /\ Len(lines'[name'.log]) = 1 /\ lines'[name'.log][1] = Header
            /\ \A g \in Inodes : g # name'.log => lines'[g] = lines[g]
        BY <2>6, Rotating, Creation
      <3>2. Kept
        BY <2>1, <2>6, Rotating DEF Appending, Uncut
      <3>3. name'.log # Old /\ lines'[Old] = lines[Old] /\ Mine' = Mine
        BY <2>1, <3>1 DEF Mine
      <3>4. /\ name'.log = Old <=> mishaps'.rotations = 0
            /\ name'.rotated = Old <=> mishaps'.rotations = 1
        BY <1>1, <3>1, <3>2, <3>3 DEF Kept
      <3>5. ASSUME name'.rotated = Old
            PROVE  /\ Mine = wrote /\ \A i \in DOMAIN events : events[i].ino = Old
                   /\ Continues(name.log, Mine, Len(lines[name.log]))'
                   /\ Len(lines'[name'.log]) = 1 + (wrote' - Mine')
        <4>1. /\ Mine = wrote /\ \A i \in DOMAIN events : events[i].ino = Old
          BY <3>1, <3>2, <3>5 DEF Kept
        <4>2. Len(lines'[name'.log]) = 1 + (wrote' - Mine')
          BY <1>1, <3>1, <3>3, <4>1
        <4>3. \A i \in 2..1 : FALSE
          OBVIOUS
        <4>4. Continues(name.log, Mine, Len(lines[name.log]))'
          BY <3>1, <4>3 DEF Continues
        <4> QED
          BY <4>1, <4>2, <4>4
      <3>6. /\ Mine \in 0..wrote
            /\ \A i \in 1..Was : lines'[Old][i] = Before
            /\ \A i \in 1..Mine : lines'[Old][Was + i] = i
            /\ \A i \in DOMAIN events : events[i].ino = Old => events[i].offset = Was + events[i].after
        BY <3>2, <3>3 DEF Kept
      <3>7. events' = events /\ wrote' = wrote
        BY <3>1
      <3> QED
        BY <2>1, <3>1, <3>3, <3>4, <3>5, <3>6, <3>7 DEF Kept
    <2> QED
      BY <1>2, <2>2, <2>3, <2>4, <2>5, <2>6 DEF Command
  <1>3. CASE Snapshot
    <2> SUFFICES ASSUME Old' # NoFile PROVE Kept'
      BY DEF Appending
    <2>1. ~ Started /\ UNCHANGED <<lines, name, wrote, mishaps, events>>
      BY <1>3 DEF Snapshot, Started, world
    <2>2. /\ wrote = 0 /\ events = <<>> /\ mishaps.rotations = 0
          /\ name.log = name.rotated => name.log = NoFile
          /\ name.log # NoFile => \A i \in DOMAIN lines[name.log] : lines[name.log][i] = Before
      BY <2>1 DEF Noticed
    <2>3. /\ Old' = name.log /\ name.log \in Inodes /\ Was' = Len(lines[name.log])
          /\ name.rotated # name.log
      BY <1>1, <1>3, <2>2, Snapping DEF Old, Was
    <2>4. Len(lines[name.log]) \in Nat /\ DOMAIN lines[name.log] = 1..Len(lines[name.log])
      BY <2>3, LinesOf
    <2>5. Mine' = 0
      BY <2>1, <2>3, <2>4 DEF Mine
    <2>6. /\ \A i \in 1..Was' : lines'[Old'][i] = Before
          /\ \A i \in 1..Mine' : lines'[Old'][Was' + i] = i
          /\ Mine' \in 0..wrote'
      BY <2>1, <2>2, <2>3, <2>4, <2>5
    <2>7. name' = name /\ mishaps' = mishaps /\ events' = <<>> /\ wrote' = 0 /\ DOMAIN <<>> = {}
      BY <2>1, <2>2
    <2> QED
      BY <1>1, <2>2, <2>3, <2>5, <2>6, <2>7 DEF Kept
  <1>4. CASE OpenCurrent \/ OpenRotated \/ Measure \/ Copy
    <2>1. UNCHANGED <<lines, name, wrote, mishaps, events, start>> /\ Started
      BY <1>4 DEF OpenCurrent, OpenRotated, Measure, Copy, world, Started
    <2>2. Started' <=> Started
      BY <1>4, <2>1 DEF OpenCurrent, OpenRotated, Measure, Copy, Started
    <2> QED
      BY <2>1, <2>2, Same DEF Appending
  <1>5. CASE UNCHANGED vars
    <2>1. UNCHANGED <<lines, name, wrote, mishaps, events, start, siftr>>
      BY <1>5 DEF vars, world
    <2> QED
      BY <2>1, Same DEF Appending, Started
  <1> QED
    BY <1>2, <1>3, <1>4, <1>5 DEF Next, Siftr, Stop

LEMMA CreatingStep ==
  ASSUME TypeOK, Noticed, Cuts, Creating, Next \/ UNCHANGED vars
  PROVE  Creating'
  <1>1. /\ Old \in File /\ File = Inodes \cup {NoFile} /\ NoFile \notin Inodes
        /\ name.log \in File /\ name.rotated \in File /\ logger \in File
        /\ wrote \in Nat
        /\ mishaps.cuts \in Nat /\ mishaps.rotations \in Nat
    BY Sorts
  <1>2. CASE Command
    <2> SUFFICES ASSUME Uncut', Old = NoFile PROVE Made'
      BY <1>2, Frame DEF Creating
    <2>1. Started /\ UNCHANGED start
      BY <1>2, Frame
    <2>2. CASE Clear \/ Unlink
      BY <2>2, Cutting
    <2>3. CASE OpenLog
      <3>1. UNCHANGED <<wrote, mishaps, events>> /\ name'.rotated = name.rotated
        BY <2>3, Logging
      <3>2. Made
        BY <2>1, <3>1 DEF Creating, Uncut
      <3>3. CASE name.log # NoFile
        BY <2>1, <2>3, <3>1, <3>2, <3>3, Logging, Same
      <3>4. CASE name.log = NoFile
        <4>1. /\ name'.log # NoFile /\ Len(lines'[name'.log]) = 1 /\ lines'[name'.log][1] = Header
          BY <2>3, <3>4, Logging, Creation
        <4>2. wrote = 0 /\ events = <<>> /\ mishaps.rotations = 0
          BY <1>1, <3>2, <3>4 DEF Made
        <4>3. \A i \in 2..1 : FALSE
          OBVIOUS
        <4>4. Continues(name.log, 0, Len(lines[name.log]))'
          BY <4>1, <4>3 DEF Continues
        <4>5. DOMAIN <<>> = {} /\ 1 + 0 = 1
          OBVIOUS
        <4>6. wrote' = 0 /\ events' = <<>> /\ mishaps'.rotations = 0
              /\ name'.rotated = start'.rotated
          BY <2>1, <3>1, <3>2, <4>2 DEF Made
        <4> QED
          BY <4>1, <4>4, <4>5, <4>6 DEF Made
      <3> QED
        BY <3>3, <3>4
    <2>4. CASE Stamp
      <3>1. UNCHANGED <<lines, name, wrote, mishaps>> /\ name.log \in Inodes
        BY <2>4, Stamping
      <3>2. Made
        BY <2>1, <3>1 DEF Creating, Uncut
      <3> DEFINE n == Len(events)
                 e == events'[n + 1]
      <3>3. /\ n \in Nat /\ DOMAIN events = 1..n /\ DOMAIN events' = 1..(n + 1)
            /\ \A i \in 1..n : events'[i] = events[i]
            /\ e.ino = name.log /\ e.offset = Len(lines[name.log]) /\ e.after = wrote
        BY <2>4, Stamping
      <3> HIDE DEF n, e
      <3>4. \A i \in DOMAIN events' : (i \in DOMAIN events /\ events'[i] = events[i]) \/ events'[i] = e
        <4> SUFFICES ASSUME NEW i \in 1..(n + 1)
                     PROVE  (i \in 1..n /\ events'[i] = events[i]) \/ i = n + 1
          BY <3>3 DEF e
        <4> QED
          BY <3>3
      <3>5. mishaps.rotations = 0 =>
              \A i \in DOMAIN events' :
                events'[i].ino = name.log /\ events'[i].offset = 1 + events'[i].after
        BY <1>1, <3>1, <3>2, <3>3, <3>4 DEF Made
      <3>6. /\ mishaps'.rotations = 0 <=> name'.rotated = start'.rotated
            /\ name'.log # NoFile
            /\ mishaps'.rotations = 0 =>
                 /\ Continues(name.log, 0, Len(lines[name.log]))'
                 /\ Len(lines'[name'.log]) = 1 + wrote'
        BY <1>1, <2>1, <3>1, <3>2 DEF Made, Continues
      <3> QED
        BY <3>1, <3>5, <3>6 DEF Made
    <2>5. CASE Write
      <3>1. /\ UNCHANGED <<name, logger, mishaps, events>> /\ wrote' = wrote + 1
            /\ logger \in Inodes
        BY <2>5, Writing
      <3>2. Made /\ logger = name.log
        BY <1>1, <2>1, <3>1 DEF Creating, Uncut, Cuts
      <3>3. ASSUME mishaps.rotations = 0
            PROVE  /\ Continues(name.log, 0, Len(lines[name.log]))'
                   /\ Len(lines'[name'.log]) = 1 + wrote'
        <4>1. Continues(logger, 0, Len(lines[logger])) /\ Len(lines[logger]) = 1 + wrote
          BY <1>1, <3>1, <3>2, <3>3 DEF Made
        <4>2. PICK k \in Int : k = 0
          OBVIOUS
        <4>3. Continues(logger, k, Len(lines[logger])) /\ k + Len(lines[logger]) = wrote + 1
          BY <1>1, <4>1, <4>2
        <4>4. /\ Len(lines'[logger]) = Len(lines[logger]) + 1
              /\ Len(lines'[logger]) >= 1 /\ lines'[logger][1] = Header
              /\ \A i \in 2..Len(lines'[logger]) : lines'[logger][i] = k + (i - 1)
          BY <2>5, <4>3, ContinuesWritten
        <4>5. name'.log = logger
          BY <3>1, <3>2
        <4>6. Len(lines'[name'.log]) = 1 + wrote'
          BY <1>1, <3>1, <4>1, <4>4, <4>5
        <4>7. Continues(name.log, 0, Len(lines[name.log]))'
          <5>1. Len(lines'[logger]) <= Len(lines'[logger])
            BY <1>1, <4>1, <4>4
          <5> QED
            BY <4>2, <4>4, <4>5, <5>1 DEF Continues
        <4> QED
          BY <4>6, <4>7
      <3>4. /\ mishaps.rotations = 0 <=> name.rotated = start.rotated
            /\ name.log # NoFile
            /\ mishaps.rotations = 0 =>
                 \A i \in DOMAIN events :
                   events[i].ino = name.log /\ events[i].offset = 1 + events[i].after
        BY <1>1, <3>1, <3>2 DEF Made
      <3>5. name' = name /\ mishaps' = mishaps /\ events' = events /\ start' = start
        BY <2>1, <3>1
      <3> QED
        BY <3>3, <3>4, <3>5 DEF Made
    <2>6. CASE Rotate
      <3>1. /\ logger = name.log /\ name'.rotated = name.log /\ logger \in Inodes
            /\ mishaps'.rotations = mishaps.rotations + 1 /\ name'.log # NoFile
        BY <2>6, Rotating, Creation
      <3>2. name'.rotated # start'.rotated
        BY <1>1, <2>1, <3>1 DEF Noticed
      <3>3. mishaps'.rotations # 0
        BY <1>1, <3>1
      <3> QED
        BY <3>1, <3>2, <3>3 DEF Made
    <2> QED
      BY <1>2, <2>2, <2>3, <2>4, <2>5, <2>6 DEF Command
  <1>3. CASE Snapshot
    <2> SUFFICES ASSUME Old' = NoFile PROVE Made'
      BY DEF Creating
    <2>1. ~ Started /\ UNCHANGED <<lines, name, wrote, mishaps, events>>
      BY <1>3 DEF Snapshot, Started, world
    <2>2. wrote = 0 /\ events = <<>> /\ mishaps.rotations = 0
      BY <2>1 DEF Noticed
    <2>3. name.log = NoFile /\ start'.rotated = name.rotated
      BY <1>3, Snapping DEF Old
    <2>4. name' = name /\ mishaps' = mishaps /\ events' = <<>> /\ wrote' = 0
      BY <2>1, <2>2
    <2> QED
      BY <2>2, <2>3, <2>4 DEF Made
  <1>4. CASE OpenCurrent \/ OpenRotated \/ Measure \/ Copy
    <2>1. UNCHANGED <<lines, name, wrote, mishaps, events, start>>
      BY <1>4 DEF OpenCurrent, OpenRotated, Measure, Copy, world
    <2>2. Started' <=> Started
      BY <1>4, <2>1 DEF OpenCurrent, OpenRotated, Measure, Copy, Started
    <2> QED
      BY <2>1, <2>2, Same DEF Creating
  <1>5. CASE UNCHANGED vars
    <2>1. UNCHANGED <<lines, name, wrote, mishaps, events, start, siftr>>
      BY <1>5 DEF vars, world
    <2> QED
      BY <2>1, Same DEF Creating, Started
  <1> QED
    BY <1>2, <1>3, <1>4, <1>5 DEF Next, Siftr, Stop

-----------------------------------------------------------------------------
(* What siftr opened.                                                       *)

\* While nothing is cut, the files siftr holds only grow.
LEMMA Growing ==
  ASSUME TypeOK, OpenLog \/ Write \/ Rotate
  PROVE  /\ \A g \in Inodes : g \in Held => Grown(g)
         /\ lines' \in [Inodes -> Seq(Int)]
         /\ events' = events /\ wrote' \in Nat /\ wrote <= wrote'
         /\ mishaps'.cuts = mishaps.cuts
  <1>1. lines \in [Inodes -> Seq(Int)] /\ wrote \in Nat
    BY DEF TypeOK
  <1>2. CASE OpenLog
    <2>1. CASE name.log # NoFile
      <3>1. lines' = lines
        BY <1>2, <2>1, Logging
      <3>2. \A g \in Inodes : Grown(g)
        BY <3>1, LinesOf DEF Grown
      <3> QED
        BY <1>1, <1>2, <3>1, <3>2, Logging
    <2>2. CASE name.log = NoFile
      BY <1>1, <1>2, <2>2, Logging, Creation
    <2> QED
      BY <2>1, <2>2
  <1>3. CASE Write
    BY <1>1, <1>3, Writing
  <1>4. CASE Rotate
    BY <1>1, <1>4, Rotating, Creation
  <1> QED
    BY <1>2, <1>3, <1>4

LEMMA SeenKeptStep ==
  ASSUME TypeOK, Noticed, Cuts, Kept, SeenKept, Uncut, Old \in Inodes,
         siftr \in {"opening", "measuring"}, OpenLog \/ Write \/ Rotate
  PROVE  SeenKept'
  <1>1. /\ wrote \in Nat /\ Was \in Nat /\ opened \in Nat /\ current.len \in Nat
        /\ mishaps.cuts \in Nat /\ mishaps.rotations \in Nat
        /\ current.ino \in File /\ logger \in File
        /\ File = Inodes \cup {NoFile} /\ NoFile \notin Inodes
    BY Sorts
  <1>2. /\ UNCHANGED <<current, rotated, start, opened, siftr>> /\ Old' = Old /\ Was' = Was
        /\ Old \in Held /\ current.ino \in Held
    BY Frame DEF Command, Held, Old
  <1>3. /\ Grown(Old) /\ lines' \in [Inodes -> Seq(Int)] /\ events' = events
        /\ \A g \in Inodes : g \in Held => Grown(g)
    BY <1>2, Growing
  <1>4. /\ Len(lines[Old]) \in Nat /\ Len(lines[Old]) <= Len(lines'[Old])
        /\ Mine \in Nat
    BY <1>1, <1>3, LinesOf DEF Grown, Kept
  <1>5. Len(lines'[Old]) \in Nat
    <2>1. lines'[Old] \in Seq(Int)
      BY <1>3
    <2> QED
      BY <2>1, LenProperties
  <1>6. Mine <= Mine' /\ Mine' \in Int
    BY <1>1, <1>2, <1>4, <1>5 DEF Mine
  <1>7. ASSUME current.ino # Old
        PROVE  /\ mishaps'.rotations > 0
               /\ mishaps'.rotations = 1 => RotatedIs(Old)'
               /\ RotatedIs(Old)' => RotatedIs(Old) /\ (siftr = "opening" => name' = name)
    <2>1. mishaps.rotations > 0 /\ (mishaps.rotations = 1 => RotatedIs(Old))
      BY <1>7 DEF SeenKept
    <2>2. CASE OpenLog \/ Write
      <3>1. mishaps' = mishaps /\ name' = name
        BY <2>2, Logging, Writing DEF Kept
      <3>2. RotatedIs(Old)' <=> RotatedIs(Old)
        BY <1>2, <3>1 DEF RotatedIs
      <3> QED
        BY <2>1, <3>1, <3>2
    <2>3. CASE Rotate
      <3>1. mishaps'.rotations = mishaps.rotations + 1 /\ name'.rotated = name.log
        BY <2>3, Rotating
      <3>2. name.log # Old
        BY <2>1 DEF Kept
      <3>3. siftr = "opening" => ~ RotatedIs(Old)'
        BY <1>2, <3>1, <3>2 DEF RotatedIs
      <3>4. siftr # "opening" => (RotatedIs(Old)' <=> RotatedIs(Old))
        BY <1>2 DEF RotatedIs
      <3> QED
        BY <1>1, <2>1, <3>1, <3>3, <3>4
    <2> QED
      BY <2>2, <2>3
  <1>8. ASSUME current.ino # Old, RotatedIs(Old)'
        PROVE  /\ siftr = "opening" => name'.log = current.ino
               /\ siftr = "measuring" => rotated.len = Was + Mine'
               /\ name'.log # Old /\ Mine' <= opened
               /\ Continues(current.ino, Mine, current.len)'
               /\ current.len = 1 + (opened - Mine')
               /\ \A i \in DOMAIN events : events[i].ino = current.ino =>
                    events[i].offset = 1 + (events[i].after - Mine')
    <2>1. /\ RotatedIs(Old)
          /\ siftr = "opening" => name.log = current.ino
          /\ siftr = "measuring" => rotated.len = Was + Mine
          /\ name.log # Old /\ Mine <= opened
          /\ Continues(current.ino, Mine, current.len)
          /\ current.len = 1 + (opened - Mine)
          /\ \A i \in DOMAIN events : events[i].ino = current.ino =>
               events[i].offset = 1 + (events[i].after - Mine)
          /\ current # Nothing
      BY <1>7, <1>8 DEF SeenKept
    <2>2. name'.log # Old /\ lines'[Old] = lines[Old]
      <3>1. CASE OpenLog
        BY <2>1, <3>1, Logging DEF Kept
      <3>2. CASE Write
        <4>1. logger \in Inodes /\ name' = name
          BY <3>2, Writing
        <4>2. logger = name.log
          BY <1>1, <4>1 DEF Cuts
        <4> QED
          BY <2>1, <3>2, <4>1, <4>2, Writing
      <3>3. CASE Rotate
        BY <1>2, <3>3, Rotating, Creation
      <3> QED
        BY <3>1, <3>2, <3>3
    <2>3. Mine' = Mine
      BY <1>2, <2>2 DEF Mine
    <2>4. current.ino \in Inodes
      BY <1>1, <2>1 DEF Noticed
    <2>5. Grown(current.ino)
      BY <1>2, <1>3, <2>4
    <2>6. PICK k \in Int : k = Mine
      BY <1>4
    <2>7. Continues(current.ino, k, current.len)
      BY <2>1, <2>6
    <2>8. /\ current.len <= Len(lines'[current.ino]) /\ lines'[current.ino][1] = Header
          /\ \A i \in 2..current.len : lines'[current.ino][i] = k + (i - 1)
      BY <1>1, <1>3, <2>4, <2>5, <2>7, ContinuesGrown
    <2>9. current.len >= 1 /\ current' = current /\ Mine' = k
      BY <1>2, <2>1, <2>3, <2>6 DEF Continues
    <2>10. Continues(current.ino, Mine, current.len)'
      BY <2>8, <2>9 DEF Continues
    <2> QED
      BY <1>7, <1>8, <2>1, <2>2, <2>3, <2>10
  <1>9. /\ current # Nothing
        /\ current.ino = Old => current.len = Was + opened /\ opened <= Mine'
    BY <1>1, <1>4, <1>6 DEF SeenKept
  <1> QED
    BY <1>2, <1>3, <1>7, <1>8, <1>9 DEF SeenKept

LEMMA SeenMadeStep ==
  ASSUME TypeOK, Noticed, Cuts, Made, Made', SeenMade, Old = NoFile,
         siftr \in {"opening", "measuring"}, OpenLog \/ Write \/ Rotate
  PROVE  SeenMade'
  <1>1. /\ opened \in Nat /\ current.len \in Nat /\ mishaps.rotations \in Nat
        /\ current.ino \in File /\ File = Inodes \cup {NoFile} /\ NoFile \notin Inodes
    BY Sorts
  <1>2. /\ UNCHANGED <<current, rotated, start, opened, siftr>> /\ current.ino \in Held
    BY Frame DEF Command, Held
  <1>3. /\ lines' \in [Inodes -> Seq(Int)] /\ events' = events
        /\ \A g \in Inodes : g \in Held => Grown(g)
    BY Growing
  <1>4. mishaps'.rotations = 0 => mishaps.rotations = 0
    <2>1. CASE OpenLog \/ Write
      BY <2>1, Logging, Writing
    <2>2. CASE Rotate
      BY <1>1, <2>2, Rotating
    <2> QED
      BY <2>1, <2>2
  <1>5. /\ mishaps'.rotations = 0 => RotatedIs(start.rotated)'
        /\ RotatedIs(start.rotated)' => RotatedIs(start.rotated)
    <2>1. CASE siftr = "opening"
      BY <1>2, <1>4, <2>1 DEF RotatedIs, Made
    <2>2. CASE siftr = "measuring"
      BY <1>2, <1>4, <2>2 DEF RotatedIs, SeenMade
    <2> QED
      BY <2>1, <2>2
  <1>6. ASSUME current # Nothing, RotatedIs(start.rotated)'
        PROVE  /\ Continues(current.ino, 0, current.len)'
               /\ current.len = 1 + opened
               /\ \A i \in DOMAIN events : events[i].ino = current.ino =>
                    events[i].offset = 1 + events[i].after
    <2>1. /\ Continues(current.ino, 0, current.len)
          /\ current.len = 1 + opened
          /\ \A i \in DOMAIN events : events[i].ino = current.ino =>
               events[i].offset = 1 + events[i].after
      BY <1>5, <1>6 DEF SeenMade
    <2>2. current.ino \in Inodes
      BY <1>1, <1>6 DEF Noticed
    <2>3. Grown(current.ino)
      BY <1>2, <1>3, <2>2
    <2>4. PICK k \in Int : k = 0
      OBVIOUS
    <2>5. Continues(current.ino, k, current.len)
      BY <2>1, <2>4
    <2>6. /\ current.len <= Len(lines'[current.ino]) /\ lines'[current.ino][1] = Header
          /\ \A i \in 2..current.len : lines'[current.ino][i] = k + (i - 1)
      BY <1>1, <1>3, <2>2, <2>3, <2>5, ContinuesGrown
    <2>7. current.len >= 1 /\ current' = current
      BY <1>2, <2>1 DEF Continues
    <2>8. Continues(current.ino, 0, current.len)'
      BY <2>4, <2>6, <2>7 DEF Continues
    <2> QED
      BY <2>1, <2>8
  <1>7. current = Nothing => opened = 0
    BY DEF SeenMade
  <1> QED
    BY <1>2, <1>3, <1>5, <1>6, <1>7 DEF SeenMade

LEMMA FoundStep ==
  ASSUME TypeOK, Noticed, Cuts, Appending, Creating, Found,
         Appending', Creating', Next \/ UNCHANGED vars
  PROVE  Found'
  <1>1. /\ Old \in File /\ File = Inodes \cup {NoFile} /\ NoFile \notin Inodes
        /\ name.log \in File /\ name.rotated \in File
        /\ wrote \in Nat /\ opened \in Nat /\ Was \in Nat
        /\ mishaps.cuts \in Nat /\ mishaps.rotations \in Nat
    BY Sorts
  <1>2. CASE Command
    <2> SUFFICES ASSUME Uncut', siftr \in {"opening", "measuring"}
                 PROVE  /\ opened' <= wrote'
                        /\ Old # NoFile => SeenKept'
                        /\ Old = NoFile => SeenMade'
      BY <1>2, Frame DEF Found
    <2>1. OpenLog \/ Write \/ Rotate
      BY <1>2, Cutting, Stamping DEF Command
    <2>2. Uncut /\ Started /\ Started' /\ opened' = opened /\ Old' = Old
      BY <1>2, <2>1, Frame, Growing DEF Uncut
    <2>3. opened' <= wrote'
      BY <1>1, <2>1, <2>2, Growing DEF Found
    <2>4. ASSUME Old # NoFile PROVE SeenKept'
      <3>1. Kept /\ SeenKept /\ Old \in Inodes
        BY <1>1, <2>2, <2>4 DEF Appending, Found
      <3> QED
        BY <2>1, <2>2, <3>1, SeenKeptStep
    <2>5. ASSUME Old = NoFile PROVE SeenMade'
      <3>1. Made /\ Made' /\ SeenMade
        BY <2>2, <2>5 DEF Creating, Found
      <3> QED
        BY <2>1, <2>5, <3>1, SeenMadeStep
    <2> QED
      BY <2>3, <2>4, <2>5
  <1>3. CASE OpenCurrent
    <2>1. /\ siftr = "waiting" /\ siftr' = "opening" /\ current' = Opened(name.log)
          /\ opened' = wrote /\ UNCHANGED <<lines, name, wrote, mishaps, events, start>>
          /\ Started
      BY <1>3 DEF OpenCurrent, world, Started
    <2> SUFFICES ASSUME Uncut
                 PROVE  /\ opened' <= wrote'
                        /\ Old # NoFile => SeenKept'
                        /\ Old = NoFile => SeenMade'
      BY <2>1, Same DEF Found
    <2>2. /\ Old' = Old /\ Was' = Was /\ Mine' = Mine
      BY <2>1, Same
    <2>3. ASSUME Old # NoFile PROVE SeenKept'
      <3>1. Kept /\ Old \in Inodes /\ name.log \in Inodes
        BY <1>1, <2>1, <2>3 DEF Appending, Kept
      <3>2. /\ current' # Nothing /\ current'.ino = name.log
            /\ current'.len = Len(lines[name.log])
        BY <1>1, <2>1, <3>1, Opens
      <3>3. Len(lines[Old]) \in Nat /\ Mine \in Nat /\ Len(lines[Old]) = Was + Mine
        BY <1>1, <3>1, LinesOf DEF Kept, Mine
      <3>4. CASE name.log = Old
        <4>1. Mine = wrote
          BY <3>1, <3>4 DEF Kept
        <4> QED
          BY <1>1, <2>1, <2>2, <3>2, <3>3, <3>4, <4>1 DEF SeenKept
      <3>5. CASE name.log # Old
        <4>1. /\ mishaps.rotations > 0
              /\ name.rotated = Old <=> mishaps.rotations = 1
          BY <1>1, <3>1, <3>5 DEF Kept
        <4>2. RotatedIs(Old)' <=> name.rotated = Old
          BY <2>1, <2>2 DEF RotatedIs
        <4>3. ASSUME name.rotated = Old
              PROVE  /\ Mine <= wrote
                     /\ Continues(current.ino, Mine, current.len)'
                     /\ current'.len = 1 + (wrote - Mine)
                     /\ \A i \in DOMAIN events : events[i].ino = name.log =>
                          events[i].offset = 1 + (events[i].after - Mine)
          <5>1. /\ Continues(name.log, Mine, Len(lines[name.log]))
                /\ Len(lines[name.log]) = 1 + (wrote - Mine)
                /\ \A i \in DOMAIN events : events[i].ino # Old =>
                     events[i].offset = 1 + (events[i].after - Mine)
                /\ Mine <= wrote
            BY <1>1, <3>1, <4>3 DEF Kept
          <5>2. Continues(current.ino, Mine, current.len)'
            BY <2>1, <2>2, <3>2, <5>1 DEF Continues
          <5> QED
            BY <3>2, <3>5, <5>1, <5>2
        <4>4. /\ current'.ino # Old' /\ current' # Nothing
              /\ mishaps'.rotations > 0
              /\ mishaps'.rotations = 1 => RotatedIs(Old)'
          BY <2>1, <2>2, <3>2, <3>5, <4>1, <4>2
        <4>5. RotatedIs(Old)' =>
                /\ siftr' = "opening" /\ name'.log = current'.ino
                /\ name'.log # Old' /\ Mine' <= opened'
                /\ Continues(current.ino, Mine, current.len)'
                /\ current'.len = 1 + (opened' - Mine')
                /\ \A i \in DOMAIN events' : events'[i].ino = current'.ino =>
                     events'[i].offset = 1 + (events'[i].after - Mine')
          <5> SUFFICES ASSUME name.rotated = Old
                       PROVE  /\ siftr' = "opening" /\ name'.log = current'.ino
                              /\ name'.log # Old' /\ Mine' <= opened'
                              /\ Continues(current.ino, Mine, current.len)'
                              /\ current'.len = 1 + (opened' - Mine')
                              /\ \A i \in DOMAIN events' : events'[i].ino = current'.ino =>
                                   events'[i].offset = 1 + (events'[i].after - Mine')
            BY <4>2
          <5>1. events' = events /\ name' = name
            BY <2>1
          <5> QED
            BY <2>1, <2>2, <3>2, <3>5, <4>3, <5>1
        <4> QED
          BY <4>4, <4>5 DEF SeenKept
      <3> QED
        BY <3>4, <3>5
    <2>4. ASSUME Old = NoFile PROVE SeenMade'
      <3>1. Made
        BY <2>1, <2>4 DEF Creating
      <3>2. RotatedIs(start.rotated)' <=> mishaps.rotations = 0
        BY <2>1, <3>1 DEF RotatedIs, Made
      <3>3. CASE name.log = NoFile
        <4>1. current' = Nothing /\ opened' = 0
          BY <1>1, <2>1, <3>1, <3>3, Opens DEF Made
        <4> QED
          BY <2>1, <3>2, <4>1 DEF SeenMade
      <3>4. CASE name.log # NoFile
        <4>1. /\ current' # Nothing /\ current'.ino = name.log
              /\ current'.len = Len(lines[name.log])
          BY <1>1, <2>1, <3>4, Opens
        <4>2. ASSUME mishaps.rotations = 0
              PROVE  /\ Continues(current.ino, 0, current.len)'
                     /\ current'.len = 1 + wrote
                     /\ \A i \in DOMAIN events : events[i].offset = 1 + events[i].after
          <5>1. /\ Continues(name.log, 0, Len(lines[name.log]))
                /\ Len(lines[name.log]) = 1 + wrote
                /\ \A i \in DOMAIN events : events[i].offset = 1 + events[i].after
            BY <3>1, <3>4, <4>2 DEF Made
          <5>2. Continues(current.ino, 0, current.len)'
            BY <2>1, <4>1, <5>1 DEF Continues
          <5> QED
            BY <4>1, <5>1, <5>2
        <4> QED
          BY <2>1, <3>2, <4>1, <4>2 DEF SeenMade
      <3> QED
        BY <3>3, <3>4
    <2> QED
      BY <1>1, <2>1, <2>3, <2>4
  <1>4. CASE OpenRotated
    <2>1. /\ siftr = "opening" /\ siftr' = "measuring" /\ rotated' = Opened(name.rotated)
          /\ UNCHANGED <<lines, name, wrote, mishaps, events, start, current, opened>>
          /\ Started
      BY <1>4 DEF OpenRotated, world, Started
    <2> SUFFICES ASSUME Uncut
                 PROVE  /\ opened' <= wrote'
                        /\ Old # NoFile => SeenKept'
                        /\ Old = NoFile => SeenMade'
      BY <2>1, Same DEF Found
    <2>2. /\ Old' = Old /\ Was' = Was /\ Mine' = Mine /\ rotated'.ino = name.rotated
      BY <1>1, <2>1, Same, Opens
    <2>3. opened <= wrote /\ (Old # NoFile => SeenKept) /\ (Old = NoFile => SeenMade)
      BY <2>1 DEF Found
    <2>4. ASSUME Old # NoFile PROVE SeenKept'
      <3>1. Kept /\ Old \in Inodes
        BY <1>1, <2>1, <2>4 DEF Appending
      <3>2. RotatedIs(Old)' <=> RotatedIs(Old)
        BY <2>1, <2>2 DEF RotatedIs
      <3>3. RotatedIs(Old) => rotated'.len = Was + Mine
        <4> SUFFICES ASSUME name.rotated = Old PROVE rotated'.len = Was + Mine
          BY <2>1 DEF RotatedIs
        <4>1. rotated'.len = Len(lines[Old]) /\ Len(lines[Old]) \in Nat
          BY <1>1, <2>1, <3>1, Opens, LinesOf
        <4> QED
          BY <1>1, <4>1 DEF Mine
      <3>4. Continues(current.ino, Mine, current.len)'
            <=> Continues(current.ino, Mine, current.len)
        BY <2>1, <2>2 DEF Continues
      <3>5. UNCHANGED <<current, opened, events, mishaps, name>>
        BY <2>1
      <3>6. SeenKept
        BY <2>3, <2>4
      <3> QED
        BY <2>1, <2>2, <3>2, <3>3, <3>4, <3>5, <3>6 DEF SeenKept
    <2>5. ASSUME Old = NoFile PROVE SeenMade'
      <3>1. RotatedIs(start.rotated)' <=> RotatedIs(start.rotated)
        BY <2>1, <2>2 DEF RotatedIs
      <3>2. Continues(current.ino, 0, current.len)'
            <=> Continues(current.ino, 0, current.len)
        BY <2>1 DEF Continues
      <3>3. UNCHANGED <<current, opened, events, mishaps>>
        BY <2>1
      <3>4. SeenMade
        BY <2>3, <2>5
      <3> QED
        BY <3>1, <3>2, <3>3, <3>4 DEF SeenMade
    <2> QED
      BY <2>1, <2>3, <2>4, <2>5
  <1>5. CASE Snapshot \/ Measure \/ Copy
    BY <1>5 DEF Snapshot, Measure, Copy, Found
  <1>6. CASE UNCHANGED vars
    <2>1. /\ UNCHANGED <<lines, name, wrote, mishaps, events, start, siftr>>
          /\ UNCHANGED <<current, rotated, opened>>
      BY <1>6 DEF vars, world, found
    <2>2. /\ Uncut' <=> Uncut
          /\ Old' = Old /\ Was' = Was /\ Mine' = Mine
      BY <2>1, Same
    <2>3. /\ RotatedIs(Old)' <=> RotatedIs(Old)
          /\ RotatedIs(start.rotated)' <=> RotatedIs(start.rotated)
          /\ Continues(current.ino, Mine, current.len)'
             <=> Continues(current.ino, Mine, current.len)
          /\ Continues(current.ino, 0, current.len)'
             <=> Continues(current.ino, 0, current.len)
      BY <2>1, <2>2 DEF RotatedIs, Continues
    <2>4. SeenKept' <=> SeenKept
      BY <2>1, <2>2, <2>3 DEF SeenKept
    <2>5. SeenMade' <=> SeenMade
      BY <2>1, <2>2, <2>3 DEF SeenMade
    <2> QED
      BY <2>1, <2>2, <2>4, <2>5 DEF Found
  <1> QED
    BY <1>2, <1>3, <1>4, <1>5, <1>6 DEF Next, Siftr, Stop

-----------------------------------------------------------------------------
(* Where the run's lines are placed.                                        *)

\* A file the logger created starts with its header, which is left out.
LEMMA WithoutHeader ==
  ASSUME TypeOK, NEW k, NEW n, current.len = n, Continues(current.ino, k, n)
  PROVE  /\ Created(current) = [ino |-> current.ino, from |-> 1, to |-> n]
         /\ n >= 1 /\ n <= Len(lines[current.ino])
  <1>1. n \in Nat
    BY Sorts
  <1>2. n >= 1 /\ n <= Len(lines[current.ino]) /\ lines[current.ino][1] = Header
    BY DEF Continues
  <1>3. Head(lines[current.ino]) = Header
    BY <1>2 DEF Head
  <1> QED
    BY <1>1, <1>2, <1>3 DEF Created

LEMMA Measuring ==
  ASSUME TypeOK, Noticed, Cuts, Appending, Creating, Found, Measure, Placeable, ~ unguarded
  PROVE  InPlace'
  <1>1. /\ wrote \in Nat /\ opened \in Nat /\ Was \in Nat /\ rotated.len \in Nat
        /\ current.len \in Nat /\ Old \in File /\ NoFile \notin Inodes
    BY Sorts
  <1>2. /\ siftr = "measuring" /\ Started /\ segments' = Segments
        /\ UNCHANGED <<lines, events, start, current, rotated, opened>> /\ Held' = Held
    BY DEF Measure, Started, Held, world
  <1>3. Uncut
    BY <1>2, LostIsRefused DEF Cuts
  <1>4. opened <= wrote /\ (Old # NoFile => SeenKept) /\ (Old = NoFile => SeenMade)
    BY <1>2, <1>3 DEF Found
  <1>5. \A i \in DOMAIN events : events[i].offset \in Nat /\ events[i].after \in Nat
    BY Noting
  \* One segment from a on, of the lines of the run from the first on.
  <1>6. ASSUME NEW f \in Inodes, NEW a \in Nat, f \in Held,
               segments' = <<[ino |-> f, from |-> a, to |-> a + opened]>>,
               a + opened <= Len(lines[f]),
               \A i \in 1..opened : lines[f][a + i] = i,
               \A i \in DOMAIN events : events[i].ino = f => events[i].offset = a + events[i].after
        PROVE  InPlace'
    <2> DEFINE s == [ino |-> f, from |-> a, to |-> a + opened]
    <2>1. s.ino = f /\ s.from = a /\ s.to = a + opened /\ Length(s) = opened
      BY <1>1 DEF Length
    <2>2. segments' = <<s>>
      BY <1>6
    <2> HIDE DEF s
    <2>3. Len(segments') = 1 /\ DOMAIN segments' = {1} /\ segments'[1] = s
      BY <2>2
    <2>4. Base(1)' = 0 /\ Length(segments[1])' = opened
      BY <2>1, <2>3 DEF Base, Length
    <2>5. /\ \A i \in 1..opened : lines[f][a + i] = 0 + i
          /\ \A i \in DOMAIN events : events[i].ino = f =>
               0 + (events[i].offset - a) = events[i].after
      BY <1>5, <1>6
    <2>6. Laid(1)'
      BY <1>1, <1>2, <1>6, <2>1, <2>3, <2>4, <2>5 DEF Laid
    <2>7. \A t \in DOMAIN segments' : t = 1
      BY <2>3
    <2>8. Len(segments') <= 2 /\ Len(segments') # 2 /\ opened' = opened + 0 /\ 1 \in DOMAIN segments'
          /\ 2 \notin DOMAIN segments'
      BY <1>1, <1>2, <2>3
    <2> QED
      BY <2>4, <2>6, <2>7, <2>8 DEF InPlace
  <1>7. CASE Old = NoFile /\ current = Nothing /\ Segments = <<>>
    <2>1. opened = 0
      BY <1>4, <1>7 DEF SeenMade
    <2>2. Len(segments') = 0 /\ DOMAIN segments' = {} /\ opened' = 0
      BY <1>2, <1>7, <2>1
    <2> QED
      BY <2>2 DEF InPlace
  <1>8. CASE /\ Old = NoFile /\ current # Nothing /\ current.ino \in Inodes
             /\ rotated.ino = start.rotated
             /\ Segments = <<Created(current)>>
    <2>1. /\ Continues(current.ino, 0, current.len)
          /\ current.len = 1 + opened
          /\ \A i \in DOMAIN events : events[i].ino = current.ino =>
               events[i].offset = 1 + events[i].after
      BY <1>2, <1>4, <1>8 DEF SeenMade, RotatedIs
    <2>2. /\ Created(current) = [ino |-> current.ino, from |-> 1, to |-> 1 + opened]
          /\ 1 + opened <= Len(lines[current.ino])
      BY <2>1, WithoutHeader
    <2>3. \A i \in 1..opened : lines[current.ino][1 + i] = i
      <3> SUFFICES ASSUME NEW i \in 1..opened PROVE lines[current.ino][1 + i] = i
        OBVIOUS
      <3>1. PICK j \in 2..current.len : j = 1 + i
        BY <1>1, <2>1
      <3>2. lines[current.ino][j] = 0 + (j - 1)
        BY <2>1, <3>1 DEF Continues
      <3> QED
        BY <3>1, <3>2
    <2>4. current.ino \in Held
      BY DEF Held
    <2>5. PICK f \in Inodes : f = current.ino
      BY <1>8
    <2>6. 1 \in Nat /\ segments' = <<[ino |-> f, from |-> 1, to |-> 1 + opened]>>
      BY <1>2, <1>8, <2>2, <2>5
    <2> QED
      BY <1>6, <2>1, <2>2, <2>3, <2>4, <2>5, <2>6
  <1>9. CASE /\ Old \in Inodes /\ current.ino = Old
             /\ Segments = <<After(current)>>
    <2>1. /\ current.len = Was + opened /\ opened <= Mine /\ Kept
      BY <1>1, <1>2, <1>3, <1>4, <1>9 DEF SeenKept, Appending
    <2>2. /\ Mine \in Nat /\ Len(lines[Old]) = Was + Mine
          /\ \A i \in 1..Mine : lines[Old][Was + i] = i
          /\ \A i \in DOMAIN events : events[i].ino = Old => events[i].offset = Was + events[i].after
      <3>1. Len(lines[Old]) \in Nat
        BY <1>9, LinesOf
      <3>2. Len(lines[Old]) = Was + Mine
        BY <1>1, <3>1 DEF Mine
      <3>3. Mine \in Nat
        BY <1>1, <2>1 DEF Kept
      <3> QED
        BY <2>1, <3>2, <3>3 DEF Kept
    <2>3. /\ Was + opened <= Len(lines[Old])
          /\ \A i \in 1..opened : lines[Old][Was + i] = i
      BY <1>1, <2>1, <2>2
    <2>4. PICK f \in Inodes : f = Old
      BY <1>9
    <2>5. PICK a \in Nat : a = Was
      BY <1>1
    <2>6. f \in Held /\ segments' = <<[ino |-> f, from |-> a, to |-> a + opened]>>
      BY <1>2, <1>9, <2>1, <2>4, <2>5 DEF Held, After, Old, Was
    <2> QED
      BY <1>6, <2>2, <2>3, <2>4, <2>5, <2>6
  <1>10. CASE /\ Old \in Inodes /\ current.ino \in Inodes /\ current.ino # Old
              /\ rotated.ino = Old
              /\ Segments = <<After(rotated), Created(current)>>
    <2>1. Kept /\ SeenKept /\ RotatedIs(Old)
      BY <1>1, <1>2, <1>3, <1>4, <1>10 DEF Appending, RotatedIs
    <2>2. /\ rotated.len = Was + Mine /\ Mine <= opened
          /\ Continues(current.ino, Mine, current.len)
          /\ current.len = 1 + (opened - Mine)
          /\ \A i \in DOMAIN events : events[i].ino = current.ino =>
               events[i].offset = 1 + (events[i].after - Mine)
      BY <1>2, <1>10, <2>1 DEF SeenKept
    <2>3. /\ Mine \in Nat /\ Len(lines[Old]) = Was + Mine
          /\ \A i \in 1..Mine : lines[Old][Was + i] = i
          /\ \A i \in DOMAIN events : events[i].ino = Old => events[i].offset = Was + events[i].after
      <3>1. Len(lines[Old]) \in Nat
        BY <1>10, LinesOf
      <3>2. Len(lines[Old]) = Was + Mine
        BY <1>1, <3>1 DEF Mine
      <3>3. Mine \in Nat
        BY <1>1, <2>1 DEF Kept
      <3> QED
        BY <2>1, <3>2, <3>3 DEF Kept
    <2>4. PICK k \in Nat : k = Mine
      BY <2>3
    <2>5. PICK m \in Nat : m = opened - k
      BY <1>1, <2>2, <2>4
    <2> DEFINE s == [ino |-> Old, from |-> Was, to |-> Was + k]
               t == [ino |-> current.ino, from |-> 1, to |-> 1 + m]
    <2>6. /\ Continues(current.ino, k, 1 + m) /\ current.len = 1 + m
          /\ \A i \in DOMAIN events : events[i].ino = current.ino =>
               events[i].offset = 1 + (events[i].after - k)
      BY <2>2, <2>4, <2>5
    <2>7. Created(current) = t /\ 1 + m <= Len(lines[current.ino])
      BY <2>6, WithoutHeader
    <2>8. After(rotated) = s
      BY <1>10, <2>2, <2>4 DEF After, Was, Old
    <2>9. /\ s.ino = Old /\ s.from = Was /\ s.to = Was + k /\ Length(s) = k
          /\ t.ino = current.ino /\ t.from = 1 /\ t.to = 1 + m /\ Length(t) = m
      BY <1>1, <2>4, <2>5 DEF Length
    <2> HIDE DEF s, t
    <2>10. segments' = <<s, t>>
      BY <1>2, <1>10, <2>7, <2>8
    <2>11. /\ Len(segments') = 2 /\ DOMAIN segments' = {1, 2}
           /\ segments'[1] = s /\ segments'[2] = t
      BY <2>10
    <2>12. Base(1)' = 0 /\ Base(2)' = k
      BY <2>9, <2>11 DEF Base, Length
    <2>13. Laid(1)'
      <3>1. /\ \A i \in 1..k : lines[Old][Was + i] = 0 + i
            /\ \A i \in DOMAIN events : events[i].ino = Old =>
                 0 + (events[i].offset - Was) = events[i].after
            /\ Was <= Was + k /\ Was + k <= Len(lines[Old]) /\ Old \in Held
        BY <1>1, <1>5, <2>3, <2>4 DEF Held, Old
      <3>2. Length(segments[1])' = k
        BY <2>9, <2>11 DEF Length
      <3> QED
        BY <1>2, <2>9, <2>11, <2>12, <3>1, <3>2 DEF Laid
    <2>14. Laid(2)'
      <3>1. \A i \in 1..m : lines[current.ino][1 + i] = k + i
        <4> SUFFICES ASSUME NEW i \in 1..m PROVE lines[current.ino][1 + i] = k + i
          OBVIOUS
        <4>1. PICK j \in 2..(1 + m) : j = 1 + i
          OBVIOUS
        <4>2. lines[current.ino][j] = k + (j - 1)
          BY <2>6, <4>1 DEF Continues
        <4> QED
          BY <4>1, <4>2
      <3>2. /\ \A i \in DOMAIN events : events[i].ino = current.ino =>
                 k + (events[i].offset - 1) = events[i].after
            /\ 1 <= 1 + m /\ 1 + m <= Len(lines[current.ino]) /\ current.ino \in Held
        BY <1>5, <2>6, <2>7 DEF Held
      <3>3. Length(segments[2])' = m
        BY <2>9, <2>11 DEF Length
      <3> QED
        BY <1>2, <2>9, <2>11, <2>12, <3>1, <3>2, <3>3 DEF Laid
    <2>15. opened' = k + m /\ Length(segments[1])' = k /\ Length(segments[2])' = m
      BY <1>1, <1>2, <2>4, <2>5, <2>9, <2>11 DEF Length
    <2>16. segments'[1].ino # segments'[2].ino
      BY <1>10, <2>9, <2>11
    <2>17. /\ \A i \in DOMAIN segments' : i = 1 \/ i = 2
           /\ 1 \in DOMAIN segments' /\ 2 \in DOMAIN segments' /\ Len(segments') <= 2
      BY <2>11
    <2> QED
      BY <2>13, <2>14, <2>15, <2>16, <2>17 DEF InPlace
  <1> QED
    BY <1>7, <1>8, <1>9, <1>10, Segmenting

\* A step that leaves alone what was placed.
LEMMA InPlaceSame ==
  ASSUME UNCHANGED <<lines, events, segments, opened, start, current, rotated>>, InPlace
  PROVE  InPlace'
  <1>1. /\ \A s \in DOMAIN segments : Base(s)' = Base(s) /\ Length(segments[s])' = Length(segments[s])
        /\ Held' = Held
    BY DEF Base, Length, Held
  <1>2. \A s \in DOMAIN segments : Laid(s)'
    <2> SUFFICES ASSUME NEW s \in DOMAIN segments PROVE Laid(s)'
      OBVIOUS
    <2>1. Laid(s) /\ Base(s)' = Base(s) /\ Length(segments[s])' = Length(segments[s])
      BY <1>1 DEF InPlace
    <2>2. UNCHANGED <<lines, events, segments>>
      OBVIOUS
    <2> QED
      BY <1>1, <2>1, <2>2 DEF Laid
  <1>3. UNCHANGED <<segments, opened>>
    OBVIOUS
  <1>4. /\ 1 \in DOMAIN segments => Length(segments[1])' = Length(segments[1])
        /\ 2 \in DOMAIN segments => Length(segments[2])' = Length(segments[2])
    BY <1>1
  <1>5. opened = (IF 1 \in DOMAIN segments THEN Length(segments[1]) ELSE 0)
                 + (IF 2 \in DOMAIN segments THEN Length(segments[2]) ELSE 0)
        /\ Len(segments) <= 2 /\ (Len(segments) = 2 => segments[1].ino # segments[2].ino)
    BY DEF InPlace
  <1> QED
    BY <1>2, <1>3, <1>4, <1>5 DEF InPlace

\* The segments, one after the other, are the run's lines from the first on.
LEMMA InPlaceIsRead ==
  ASSUME TypeOK, InPlace, \A i \in DOMAIN segments : Has(segments[i], segments[i].to)
  PROVE  Slice(1) \o Slice(2) = FirstLines(opened)
  <1>1. /\ segments \in Seq(Segment) /\ opened \in Nat
        /\ Len(segments) \in Nat /\ DOMAIN segments = 1..Len(segments)
    <2>1. segments \in Seq(Segment) /\ opened \in Nat
      BY DEF TypeOK
    <2> QED
      BY <2>1, LenProperties
  <1>2. \A x \in Segment : x.from <= x.to => Length(x) \in Nat
    BY DEF Segment, Length
  <1>3. ASSUME NEW s \in DOMAIN segments
        PROVE  /\ Slice(s) \in Seq(Int) /\ Len(Slice(s)) = Length(segments[s])
               /\ Length(segments[s]) \in Nat
               /\ \A i \in 1..Length(segments[s]) : Slice(s)[i] = Base(s) + i
    <2>1. segments[s] \in Segment /\ Laid(s) /\ Has(segments[s], segments[s].to)
      BY <1>1 DEF InPlace
    <2>2. Slice(s) = Copied(segments[s])
      BY DEF Slice
    <2>3. segments[s].from <= segments[s].to
          /\ \A i \in 1..Length(segments[s]) :
               lines[segments[s].ino][segments[s].from + i] = Base(s) + i
      BY <2>1 DEF Laid
    <2>4. /\ Copied(segments[s]) \in Seq(Int)
          /\ Len(Copied(segments[s])) = Length(segments[s])
          /\ \A i \in 1..Length(segments[s]) :
               Copied(segments[s])[i] = lines[segments[s].ino][segments[s].from + i]
      BY <2>1, <2>3, Copying
    <2> QED
      BY <1>2, <2>1, <2>2, <2>3, <2>4
  <1> DEFINE a == Slice(1)
             b == Slice(2)
             m == IF 1 \in DOMAIN segments THEN Length(segments[1]) ELSE 0
             n == IF 2 \in DOMAIN segments THEN Length(segments[2]) ELSE 0
  <1>4. opened = m + n
    BY DEF InPlace
  <1>5. a \in Seq(Int) /\ Len(a) = m /\ m \in Nat /\ \A i \in 1..m : a[i] = i
    <2>1. CASE 1 \in DOMAIN segments
      <3>1. /\ Slice(1) \in Seq(Int) /\ Len(Slice(1)) = Length(segments[1])
            /\ Length(segments[1]) \in Nat
            /\ \A i \in 1..Length(segments[1]) : Slice(1)[i] = Base(1) + i
        BY <1>3, <2>1
      <3>2. \A i \in 1..Length(segments[1]) : Base(1) + i = i
        BY <3>1 DEF Base
      <3> QED
        BY <2>1, <3>1, <3>2
    <2>2. CASE 1 \notin DOMAIN segments
      <3>1. a = <<>> /\ m = 0
        BY <2>2 DEF Slice
      <3>2. <<>> \in Seq(Int) /\ Len(<<>>) = 0 /\ \A i \in 1..0 : FALSE
        OBVIOUS
      <3> HIDE DEF a, m
      <3> QED
        BY <3>1, <3>2
    <2> QED
      BY <2>1, <2>2
  <1>6. b \in Seq(Int) /\ Len(b) = n /\ n \in Nat /\ \A i \in 1..n : b[i] = m + i
    <2>1. CASE 2 \in DOMAIN segments
      <3>1. 1 \in DOMAIN segments
        BY <1>1, <2>1
      <3>2. /\ Slice(2) \in Seq(Int) /\ Len(Slice(2)) = Length(segments[2])
            /\ Length(segments[2]) \in Nat
            /\ \A i \in 1..Length(segments[2]) : Slice(2)[i] = Base(2) + i
        BY <1>3, <2>1
      <3>3. Base(2) = m
        BY <3>1 DEF Base
      <3> QED
        BY <2>1, <3>2, <3>3
    <2>2. CASE 2 \notin DOMAIN segments
      <3>1. b = <<>> /\ n = 0
        BY <2>2 DEF Slice
      <3>2. <<>> \in Seq(Int) /\ Len(<<>>) = 0 /\ \A i \in 1..0 : FALSE
        OBVIOUS
      <3> HIDE DEF b, n
      <3> QED
        BY <3>1, <3>2
    <2> QED
      BY <2>1, <2>2
  <1> HIDE DEF a, b, m, n
  <1>7. /\ a \o b \in Seq(Int) /\ Len(a \o b) = Len(a) + Len(b)
        /\ \A i \in 1..Len(a) + Len(b) :
             (a \o b)[i] = IF i <= Len(a) THEN a[i] ELSE b[i - Len(a)]
    BY <1>5, <1>6, ConcatProperties
  <1> DEFINE q == a \o b
             r == FirstLines(opened)
  <1>8. r \in Seq(Int) /\ Len(r) = opened /\ \A i \in 1..opened : r[i] = i
    BY <1>1 DEF FirstLines
  <1>9. q \in Seq(Int) /\ Len(q) = opened
    BY <1>4, <1>5, <1>6, <1>7
  <1>10. \A i \in 1..opened : q[i] = i
    <2> SUFFICES ASSUME NEW i \in 1..(m + n) PROVE (a \o b)[i] = i
      BY <1>4
    <2>1. CASE i <= m
      BY <1>5, <1>6, <1>7, <2>1
    <2>2. CASE ~ (i <= m)
      <3>1. PICK j \in 1..n : j = i - m
        BY <1>5, <1>6, <2>2
      <3>2. (a \o b)[i] = b[j]
        <4>1. i \in 1..Len(a) + Len(b) /\ ~ (i <= Len(a)) /\ i - Len(a) = j
          BY <1>5, <1>6, <2>2, <3>1
        <4> QED
          BY <1>7, <4>1
      <3> QED
        BY <1>5, <1>6, <3>1, <3>2
    <2> QED
      BY <2>1, <2>2
  <1> HIDE DEF q, r
  <1>11. q = r
    <2>1. /\ q \in Seq(Int) /\ r \in Seq(Int) /\ Len(q) = Len(r)
          /\ \A i \in 1..Len(q) : q[i] = r[i]
      BY <1>8, <1>9, <1>10
    <2> QED
      BY <2>1, SeqEqual
  <1> QED
    BY <1>11 DEF q, r, a, b

\* While it copies, what siftr has placed stays where it is.
LEMMA InPlaceGrown ==
  ASSUME TypeOK, InPlace, OpenLog \/ Write \/ Rotate
  PROVE  InPlace'
  <1>1. /\ UNCHANGED <<segments, opened>> /\ Held' = Held
    BY Frame DEF Command
  <1>2. /\ lines' \in [Inodes -> Seq(Int)] /\ events' = events
        /\ \A g \in Inodes : g \in Held => Grown(g)
    BY Growing
  <1>3. segments \in Seq(Segment)
    BY DEF TypeOK
  <1>4. /\ Len(segments) <= 2
        /\ Len(segments) = 2 => segments[1].ino # segments[2].ino
        /\ opened = (IF 1 \in DOMAIN segments THEN Length(segments[1]) ELSE 0)
                    + (IF 2 \in DOMAIN segments THEN Length(segments[2]) ELSE 0)
    BY DEF InPlace
  <1>5. /\ Length(segments[1])' = Length(segments[1])
        /\ Length(segments[2])' = Length(segments[2])
    BY <1>1 DEF Length
  <1>6. ASSUME NEW s \in DOMAIN segments PROVE Laid(s)'
    <2>1. segments[s] \in Segment
      BY <1>3
    <2>2. segments[s].ino \in Inodes /\ segments[s].from \in Nat /\ segments[s].to \in Nat
      BY <2>1 DEF Segment
    <2>3. Laid(s) /\ Base(s)' = Base(s) /\ Length(segments[s])' = Length(segments[s])
      BY <1>1 DEF InPlace, Base, Length
    <2> DEFINE f == segments[s].ino
               k == segments[s].from
               n == Length(segments[s])
    <2>4. /\ k <= segments[s].to /\ segments[s].to <= Len(lines[f]) /\ n = segments[s].to - k
          /\ \A i \in 1..n : lines[f][k + i] = Base(s) + i
          /\ Len(lines[f]) \in Nat /\ f \in Held
      BY <2>2, <2>3, LinesOf DEF Laid, Length
    <2>5. Grown(f)
      BY <1>2, <2>2, <2>4
    <2>6. lines'[f] \in Seq(Int)
      BY <1>2, <2>2
    <2>7. Len(lines'[f]) \in Nat /\ segments[s].to <= Len(lines'[f])
      <3>1. Len(lines'[f]) \in Nat
        BY <2>6, LenProperties
      <3>2. Len(lines[f]) <= Len(lines'[f])
        BY <2>5 DEF Grown
      <3> QED
        BY <2>2, <2>4, <3>1, <3>2
    <2>8. \A i \in 1..n : lines'[f][k + i] = Base(s) + i
      <3> SUFFICES ASSUME NEW i \in 1..n PROVE lines'[f][k + i] = Base(s) + i
        OBVIOUS
      <3>1. k + i \in 1..Len(lines[f])
        BY <2>2, <2>4
      <3>2. lines'[f][k + i] = lines[f][k + i]
        BY <2>5, <3>1 DEF Grown
      <3> QED
        BY <2>4, <3>2
    <2>9. \A i \in DOMAIN events : events[i].ino = segments[s].ino =>
            Base(s) + (events[i].offset - segments[s].from) = events[i].after
      BY <2>3 DEF Laid
    <2> QED
      BY <1>1, <1>2, <2>3, <2>4, <2>7, <2>8, <2>9 DEF Laid
  <1> QED
    BY <1>1, <1>4, <1>5, <1>6 DEF InPlace

LEMMA PlacedStep ==
  ASSUME TypeOK, Noticed, Cuts, Appending, Creating, Found, Placed, Next \/ UNCHANGED vars
  PROVE  Placed'
  <1>1. CASE Command
    <2> SUFFICES ASSUME siftr \in {"copying", "recorded", "incomplete"}, ~ unguarded'
                 PROVE  InPlace' /\ siftr # "recorded"
      BY <1>1, Frame DEF Placed
    <2>1. siftr = "copying" /\ UNCHANGED start
      BY <1>1, Frame DEF Running
    <2>2. OpenLog \/ Write \/ Rotate
      <3>1. ~ Clear
        BY <2>1, Sorts DEF Clear, Guarded
      <3>2. ~ Unlink
        BY <2>1, Sorts DEF Unlink
      <3>3. ~ Stamp
        BY <2>1 DEF Stamp
      <3> QED
        BY <1>1, <3>1, <3>2, <3>3 DEF Command
    <2>3. ~ unguarded
      BY <2>2, Logging, Rotating, Sorts DEF Write
    <2>4. InPlace
      BY <2>1, <2>3 DEF Placed
    <2> QED
      BY <2>1, <2>2, <2>4, InPlaceGrown
  <1>2. CASE Snapshot \/ OpenCurrent \/ OpenRotated
    BY <1>2 DEF Snapshot, OpenCurrent, OpenRotated, Placed
  <1>3. CASE Measure
    <2>1. CASE Placeable
      <3>1. siftr' \in {"copying", "refused"} /\ unguarded' = unguarded
        BY <1>3 DEF Measure
      <3>2. ~ unguarded => InPlace'
        BY <1>3, <2>1, Measuring
      <3> QED
        BY <3>1, <3>2 DEF Placed
    <2>2. CASE ~ Placeable
      BY <1>3, <2>2 DEF Measure, Placed
    <2> QED
      BY <2>1, <2>2
  <1>4. CASE Copy
    <2> SUFFICES ASSUME ~ unguarded
                 PROVE  InPlace' /\ (siftr' = "recorded" => read' = FirstLines(opened'))
      BY <1>4 DEF Copy, Placed
    <2>1. InPlace /\ UNCHANGED <<lines, events, segments, opened, start, current, rotated>>
      BY <1>4 DEF Copy, world, Placed
    <2>2. InPlace'
      BY <2>1, InPlaceSame
    <2>3. ASSUME siftr' = "recorded" PROVE read' = FirstLines(opened')
      <3>1. \A i \in DOMAIN segments : Has(segments[i], segments[i].to)
        BY <1>4, <2>3 DEF Copy
      <3>2. read' = Slice(1) \o Slice(2)
        BY <1>4 DEF Copy
      <3>3. FirstLines(opened') = FirstLines(opened)
        BY <2>1
      <3> QED
        BY <2>1, <3>1, <3>2, <3>3, InPlaceIsRead
    <2> QED
      BY <2>2, <2>3
  <1>5. CASE UNCHANGED vars
    <2>1. /\ UNCHANGED <<lines, events, segments, opened, start, current, rotated>>
          /\ UNCHANGED <<siftr, unguarded, read>>
      BY <1>5 DEF vars, world, found
    <2>2. InPlace => InPlace'
      BY <2>1, InPlaceSame
    <2> QED
      BY <2>1, <2>2 DEF Placed, FirstLines
  <1> QED
    BY <1>1, <1>2, <1>3, <1>4, <1>5 DEF Next, Siftr, Stop

\* With nothing cut and at most one rotation, the run's lines can be placed.
LEMMA RefusedStep ==
  ASSUME TypeOK, Noticed, Cuts, Appending, Creating, Found, RefusedForCause,
         Next \/ UNCHANGED vars
  PROVE  RefusedForCause'
  <1>1. CASE Measure
    <2>1. UNCHANGED <<mishaps, start>> /\ siftr = "measuring"
      BY <1>1 DEF Measure, world
    <2> SUFFICES ASSUME mishaps.cuts = 0,
                        ~ (mishaps.rotations > IF start.log = Nothing THEN 0 ELSE 1)
                 PROVE  Placeable
      BY <1>1, <2>1, Sorts DEF Measure, RefusedForCause
    <2>2. /\ Old \in File /\ File = Inodes \cup {NoFile} /\ NoFile \notin Inodes
          /\ mishaps.rotations \in Nat /\ Was \in Nat /\ opened \in Nat
          /\ current.len \in Nat /\ rotated.len \in Nat
          /\ current \in Opening /\ rotated \in Opening
      BY Sorts DEF TypeOK
    <2>3. Uncut /\ Started
      BY <2>1 DEF Uncut, Started
    <2>4. Old = NoFile <=> start.log = Nothing
      BY DEF Noticed, Old, Nothing
    <2>5. CASE Old = NoFile
      <3>1. SeenMade /\ mishaps.rotations = 0
        BY <2>1, <2>2, <2>3, <2>4, <2>5 DEF Found
      <3>2. rotated.ino = start.rotated
        BY <2>1, <3>1 DEF SeenMade, RotatedIs
      <3>3. CASE current = Nothing
        BY <2>4, <2>5, <3>3 DEF Placeable
      <3>4. CASE current # Nothing
        <4>1. Continues(current.ino, 0, current.len)
          BY <2>1, <3>1, <3>2, <3>4 DEF SeenMade, RotatedIs
        <4>2. current.ino \in Inodes
          BY <2>2, <3>4, Sorts DEF Noticed
        <4>3. Len(lines[current.ino]) \in Nat
          BY <4>2, LinesOf
        <4>4. Has(current, 1)
          BY <2>2, <4>1, <4>3 DEF Continues, Has
        <4> QED
          BY <2>4, <2>5, <3>2, <3>4, <4>4 DEF Placeable
      <3> QED
        BY <3>3, <3>4
    <2>6. CASE Old # NoFile
      <3>1. /\ SeenKept /\ Kept /\ Old \in Inodes /\ mishaps.rotations <= 1
            /\ start.log # Nothing
        BY <2>1, <2>2, <2>3, <2>4, <2>6 DEF Found, Appending
      <3>2. /\ Len(lines[Old]) \in Nat /\ Mine \in Nat /\ Len(lines[Old]) = Was + Mine
            /\ \A i \in 1..Was : lines[Old][i] = Before
        <4>1. Len(lines[Old]) \in Nat
          BY <3>1, LinesOf
        <4> QED
          BY <2>2, <3>1, <4>1, Sorts DEF Kept, Mine
      <3>3. CASE current.ino = Old
        <4>1. current.len = Was + opened
          BY <3>1, <3>3 DEF SeenKept
        <4>2. Was <= current.len /\ Was <= Len(lines[Old])
          BY <2>2, <3>2, <4>1
        <4>3. Appended(current)
          BY <2>2, <3>1, <3>2, <3>3, <4>2, GuardMeets
        <4> QED
          BY <3>1, <3>3, <4>3 DEF Placeable, Old
      <3>4. CASE current.ino # Old
        <4>1. mishaps.rotations = 1
          BY <2>2, <3>1, <3>4 DEF SeenKept
        <4>2. rotated.ino = Old /\ RotatedIs(Old)
          BY <2>1, <3>1, <3>4, <4>1 DEF SeenKept, RotatedIs
        <4>3. /\ rotated.len = Was + Mine /\ current # Nothing
              /\ Continues(current.ino, Mine, current.len)
          BY <2>1, <3>1, <3>4, <4>2 DEF SeenKept
        <4>4. Was <= rotated.len /\ Was <= Len(lines[Old])
          BY <2>2, <3>2, <4>3
        <4>5. Appended(rotated)
          BY <2>2, <3>1, <3>2, <4>2, <4>4, GuardMeets
        <4>6. current.ino \in Inodes
          BY <2>2, <4>3, Sorts DEF Noticed
        <4>7. Len(lines[current.ino]) \in Nat
          BY <4>6, LinesOf
        <4>8. Has(current, 1)
          BY <2>2, <4>3, <4>7 DEF Continues, Has
        <4> QED
          BY <3>1, <3>4, <4>2, <4>3, <4>5, <4>8 DEF Placeable, Old
      <3> QED
        BY <3>3, <3>4
    <2> QED
      BY <2>5, <2>6
  <1>2. CASE Command
    <2>1. Running /\ siftr' = siftr
      BY <1>2, Frame
    <2> QED
      BY <2>1 DEF RefusedForCause, Running
  <1>3. CASE Snapshot \/ OpenCurrent \/ OpenRotated \/ Copy
    BY <1>3 DEF Snapshot, OpenCurrent, OpenRotated, Copy, RefusedForCause
  <1>4. CASE UNCHANGED vars
    BY <1>4 DEF vars, world, RefusedForCause
  <1> QED
    BY <1>1, <1>2, <1>3, <1>4 DEF Next, Siftr, Stop

-----------------------------------------------------------------------------

LEMMA InitIInv == Init => IInv
  <1> SUFFICES ASSUME Init PROVE IInv
    OBVIOUS
  <1>1. TypeOK
    BY TypeInit
  <1>2. /\ siftr = "preparing" /\ ~ Started
        /\ logger = NoFile /\ wrote = 0 /\ events = <<>> /\ unguarded = FALSE
        /\ mishaps = [rotations |-> 0, cuts |-> 0]
        /\ start = [log |-> Nothing, rotated |-> NoFile, guard |-> <<>>]
        /\ current = Nothing /\ rotated = Nothing
        /\ name.log = name.rotated => name.log = NoFile
    BY DEF Init, Started
  <1>3. start.log = Nothing /\ start.rotated = NoFile /\ start.guard = <<>> /\ Was = 0
        /\ mishaps.cuts = 0
    BY <1>2 DEF Was, Nothing
  <1>4. name.log # NoFile => \A i \in DOMAIN lines[name.log] : lines[name.log][i] = Before
    <2> SUFFICES ASSUME name.log # NoFile, NEW i \in DOMAIN lines[name.log]
                 PROVE  lines[name.log][i] = Before
      OBVIOUS
    <2>1. name.log \in Inodes
      BY <1>1, Sorts
    <2>2. PICK before \in EarlierLog :
            lines = [f \in Inodes |-> IF f = name.log THEN before ELSE <<>>]
      BY DEF Init
    <2>3. lines[name.log] = before
      BY <2>1, <2>2
    <2>4. CASE before = <<>>
      BY <2>3, <2>4
    <2>5. CASE \E n \in 1..MaxBefore : before = [j \in 1..n |-> Before]
      BY <2>3, <2>5
    <2> QED
      BY <2>4, <2>5 DEF EarlierLog
  <1>5. Noticed
    <2>1. Len(start.guard) = 0 /\ DOMAIN start.guard = {}
      BY <1>3
    <2> QED
      BY <1>2, <1>3, <1>4, <2>1 DEF Noticed
  <1>6. Cuts
    BY <1>2, <1>3 DEF Cuts, Uncut
  <1> QED
    BY <1>1, <1>2, <1>5, <1>6 DEF IInv, Appending, Creating, Found, Placed, RefusedForCause

LEMMA NextIInv == IInv /\ [Next]_vars => IInv'
  <1> SUFFICES ASSUME IInv, Next \/ UNCHANGED vars PROVE IInv'
    OBVIOUS
  <1>1. /\ TypeOK /\ Noticed /\ Cuts /\ Appending /\ Creating /\ Found /\ Placed
        /\ RefusedForCause
    BY DEF IInv
  <1>2. TypeOK' /\ Noticed' /\ Cuts'
    BY <1>1, TypeStep, NoticedStep, CutsStep
  <1>3. Appending' /\ Creating'
    BY <1>1, AppendingStep, CreatingStep
  <1>4. Found'
    BY <1>1, <1>3, FoundStep
  <1>5. Placed' /\ RefusedForCause'
    BY <1>1, PlacedStep, RefusedStep
  <1> QED
    BY <1>2, <1>3, <1>4, <1>5 DEF IInv

\* What was noted of the log, what was cut, and where the run's lines are, are
\* as the steps of siftr and of the command left them.
THEOREM Invariant == Spec => []IInv
  BY InitIInv, NextIInv, PTL DEF Spec

THEOREM TypeCorrect == Spec => []TypeOK
  <1>1. IInv => TypeOK
    BY DEF IInv
  <1> QED
    BY <1>1, Invariant, PTL

\* What is recorded as the run's log is exactly what the run wrote to it, in
\* order (RailsLog::collect, Slice::copy).
THEOREM ExactlyTheRun == Spec => []Exact
  <1>1. IInv => Exact
    BY DEF IInv, Placed, Exact
  <1> QED
    BY <1>1, Invariant, PTL

\* An event is placed after the lines written before it, or nowhere
\* (Slice::place, rebase).
THEOREM EventsWhereTheyWere == Spec => []EventsPlaced
  <1>1. IInv => EventsPlaced
    <2> SUFFICES ASSUME IInv, siftr = "recorded", ~ unguarded, NEW i \in DOMAIN events,
                        NEW x \in rebase(events[i]).offset
                 PROVE  x = events[i].after
      BY DEF EventsPlaced
    <2>1. TypeOK /\ InPlace
      BY DEF IInv, Placed
    <2>2. /\ events \in Seq(Noted) /\ segments \in Seq(Segment)
      BY <2>1 DEF TypeOK
    <2>3. events[i] \in Noted
      BY <2>2
    <2>4. events[i].ino \in Inodes /\ events[i].offset \in Nat /\ events[i].after \in Nat
          /\ rebase(events[i]).offset = Place(events[i].ino, events[i].offset)
      BY <2>3 DEF Noted, rebase
    <2>5. PICK s \in DOMAIN segments :
            /\ segments[s].ino = events[i].ino
            /\ x = Base(s) + events[i].offset - segments[s].from
      BY <2>4 DEF Place
    <2>6. /\ Laid(s) /\ segments[s] \in Segment
      BY <2>1, <2>2 DEF InPlace
    <2>7. Base(s) + (events[i].offset - segments[s].from) = events[i].after
      BY <2>5, <2>6 DEF Laid
    <2>8. segments[s].from \in Nat /\ Base(s) \in Int
      <3>1. \A y \in Segment : y.from \in Nat /\ y.to \in Nat
        BY DEF Segment
      <3>2. 1 \in DOMAIN segments
        <4>1. DOMAIN segments = 1..Len(segments) /\ Len(segments) \in Nat
          BY <2>2, LenProperties
        <4> QED
          BY <4>1
      <3>3. segments[1] \in Segment
        BY <2>2, <3>2
      <3> QED
        BY <2>6, <3>1, <3>3 DEF Base, Length
    <2> QED
      BY <2>4, <2>5, <2>7, <2>8
  <1> QED
    BY <1>1, Invariant, PTL

\* Nothing that can be placed is refused (RailsLog::slice): only a log that was
\* cleared or removed, or rotated once more than siftr can follow.
THEOREM RefusedWithCause == Spec => []RefusedForCause
  <1>1. IInv => RefusedForCause
    BY DEF IInv
  <1> QED
    BY <1>1, Invariant, PTL
=============================================================================
