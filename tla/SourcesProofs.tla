----------------------------- MODULE SourcesProofs -----------------------------
(***************************************************************************)
(* What is proved of Sources for every command, project, configuration and *)
(* number of runs: what a run records as read it was reported to read, what *)
(* a comparison says of presence is so, and nothing is taken from a source *)
(* that is switched off.                                                   *)
(***************************************************************************)
EXTENDS Sources, SequenceTheorems, TLAPS

\* A source as it is set up: the log is the log's, or the listener's with it.
SourceRecord == {Source("rspec", TRUE), Source("rspec", FALSE),
                 Source("rails_log", TRUE), Source("rusage", FALSE)}

\* The sources a source counts for.
Names(source) == {source.name} \cup also_reads(source)

\* The sources of a sequence of them.
Among(list) == UNION {Names(list[i]) : i \in DOMAIN list}

Stages == {"idle", "preparing", "running", "collecting"}

TypeOK ==
  /\ argv \in Argvs
  /\ dirs \in Seq(Directory) \ {<<>>}
  /\ user \in Files \cup {Absent}
  /\ rails \in BOOLEAN
  /\ edits \in Nat
  /\ stage \in Stages
  /\ on \in [SOURCES -> BOOLEAN]
  /\ sources \in Seq(SourceRecord)
  /\ kept \in Seq(SourceRecord)
  /\ reading.read \in SUBSET Listing /\ DOMAIN reading.unread \in SUBSET Listing
  /\ wrote \in SUBSET Behaviors
  /\ recording \in [sources : SUBSET Listing, seen : SUBSET Behaviors]
  /\ runs \in Seq([sources : SUBSET Listing, seen : SUBSET Behaviors,
                   wrote : SUBSET Behaviors])
  /\ claims \in [new : SUBSET Behaviors, gone : SUBSET Behaviors]

\* What is to be prepared, or read, is switched on.  A run starts with nothing
\* left of the one before it.
OnlyAllowed ==
  /\ \A name \in Among(sources) \cup Among(kept) : on[name]
  /\ stage = "idle" => kept = <<>>

\* What the run reports to read is what was prepared, and what is left to
\* collect was.
Reported ==
  stage \in {"running", "collecting"} =>
    /\ reading.read \cup DOMAIN reading.unread = Listing
    /\ reading.read \cap DOMAIN reading.unread = {}
    /\ always_read \cup Among(kept) \cup Among(sources) \cup recording.sources
         \subseteq reading.read

\* Of a stream that was read to its end, all that occurred was seen.
Whole(names, seen, did) ==
  \A name \in names \cap DOMAIN StreamsOf :
    \A b \in did : StreamOf[b] = StreamsOf[name] => b \in seen

\* What a run recorded: the streams it read to their ends, whole; nothing of a
\* source that is off.
Recorded ==
  /\ recording.seen \subseteq wrote
  /\ Whole(recording.sources, recording.seen, wrote)
  /\ stage = "collecting" => always_read \subseteq recording.sources
  /\ stage # "collecting" => recording = Nothing
  /\ \A name \in SOURCES : ~ on[name] =>
       /\ name \notin recording.sources
       /\ name \in DOMAIN StreamsOf =>
            \A b \in recording.seen : StreamOf[b] # StreamsOf[name]

\* What was recorded of the runs there are.
RunsWhole ==
  \A i \in DOMAIN runs :
    /\ runs[i].seen \subseteq runs[i].wrote
    /\ Whole(runs[i].sources, runs[i].seen, runs[i].wrote)

IInv ==
  /\ TypeOK
  /\ OnlyAllowed
  /\ Reported
  /\ Recorded
  /\ RunsWhole
  /\ ClaimsAreReal

-----------------------------------------------------------------------------
(* Sequences of sources. *)

LEMMA Distinct ==
  /\ "rspec" # "rails_log" /\ "rspec" # "rusage" /\ "rails_log" # "rusage"
  /\ \A s \in SourceRecord :
       /\ Names(s) \subseteq SOURCES
       /\ s.name \in SOURCES
       /\ s.name \in Names(s)
       /\ s.name = "rspec" /\ s.log => "rails_log" \in Names(s)
  BY DEF SourceRecord, Source, Names, also_reads, SOURCES

LEMMA AmongNone == Among(<<>>) = {}
  BY DEF Among

LEMMA AmongAppend ==
  ASSUME NEW l \in Seq(SourceRecord), NEW s \in SourceRecord
  PROVE  Among(Append(l, s)) = Among(l) \cup Names(s)
  <1> DEFINE m == Append(l, s)
  <1>1. /\ \A i \in DOMAIN l : i \in DOMAIN m /\ m[i] = l[i]
        /\ \A i \in DOMAIN m : i \in DOMAIN l \/ m[i] = s
        /\ \E i \in DOMAIN m : m[i] = s
    <2>1. /\ m \in Seq(SourceRecord) /\ Len(m) = Len(l) + 1 /\ Len(l) \in Nat
          /\ \A i \in 1..Len(l) : m[i] = l[i]
          /\ m[Len(l) + 1] = s
      BY AppendProperties
    <2>2. DOMAIN m = 1..(Len(l) + 1) /\ DOMAIN l = 1..Len(l)
      BY <2>1
    <2> HIDE DEF m
    <2>3. Len(l) + 1 \in DOMAIN m /\ \A i \in DOMAIN m : i \in DOMAIN l \/ i = Len(l) + 1
      BY <2>1, <2>2
    <2>4. \A i \in DOMAIN l : i \in DOMAIN m
      BY <2>1, <2>2
    <2> QED
      BY <2>1, <2>2, <2>3, <2>4
  <1> HIDE DEF m
  <1>2. Among(m) = Among(l) \cup Names(s)
    BY <1>1 DEF Among
  <1> QED
    BY <1>2 DEF m

LEMMA AmongTail ==
  ASSUME NEW l \in Seq(SourceRecord), l # <<>>
  PROVE  /\ Head(l) \in SourceRecord /\ Tail(l) \in Seq(SourceRecord)
         /\ Names(Head(l)) \subseteq Among(l) /\ Among(Tail(l)) \subseteq Among(l)
  <1>1. /\ Head(l) \in SourceRecord /\ Tail(l) \in Seq(SourceRecord)
        /\ 1 \in DOMAIN l /\ Head(l) = l[1]
        /\ \A i \in DOMAIN Tail(l) : i + 1 \in DOMAIN l /\ Tail(l)[i] = l[i + 1]
    OBVIOUS
  <1> QED
    BY <1>1 DEF Among

LEMMA AmongSources ==
  ASSUME NEW l \in Seq(SourceRecord)
  PROVE  Among(l) \subseteq SOURCES /\ Among(l) \subseteq Listing
  BY Distinct DEF Among, Listing

\* What siftr sets up for a command is switched on, the log included where the
\* listener has it with it.
LEMMA OnlyAllowedSetUp ==
  ASSUME NEW words, NEW allowed \in [SOURCES -> BOOLEAN], rails \in BOOLEAN
  PROVE  /\ for_command(words, allowed) \in Seq(SourceRecord)
         /\ \A name \in Among(for_command(words, allowed)) : allowed[name]
  <1> DEFINE log   == rails /\ allowed["rails_log"]
             own   == CASE suite(words) = "none" -> <<>>
                        [] suite(words) = "rspec" /\ allowed["rspec"] ->
                             <<Source("rspec", log)>>
                        [] OTHER -> IF log THEN <<Source("rails_log", TRUE)>> ELSE <<>>
             usage == IF allowed["rusage"] THEN <<Source("rusage", FALSE)>> ELSE <<>>
             Fine(l) == l \in Seq(SourceRecord) /\ \A name \in Among(l) : allowed[name]
  <1>1. for_command(words, allowed) = own \o usage
    BY DEF for_command, detect
  <1>2. /\ \A b \in BOOLEAN : Source("rspec", b) \in SourceRecord
        /\ Source("rails_log", TRUE) \in SourceRecord
        /\ Source("rusage", FALSE) \in SourceRecord
    <2>1. \A b \in BOOLEAN : b = TRUE \/ b = FALSE
      OBVIOUS
    <2> QED
      BY <2>1 DEF SourceRecord
  <1>3. /\ Names(Source("rspec", TRUE)) = {"rspec", "rails_log"}
        /\ Names(Source("rspec", FALSE)) = {"rspec"}
        /\ Names(Source("rails_log", TRUE)) = {"rails_log"}
        /\ Names(Source("rusage", FALSE)) = {"rusage"}
    BY DEF Names, also_reads, Source
  <1>4. ASSUME NEW l, Fine(l), NEW s \in SourceRecord, \A name \in Names(s) : allowed[name]
        PROVE  Fine(Append(l, s))
    BY <1>4, AmongAppend
  <1>5. Fine(<<>>)
    BY AmongNone
  <1>6. ASSUME NEW s \in SourceRecord, \A name \in Names(s) : allowed[name]
        PROVE  Fine(<<s>>)
    <2>1. <<s>> = Append(<<>>, s)
      OBVIOUS
    <2>2. Fine(Append(<<>>, s))
      BY <1>4, <1>5, <1>6
    <2> QED
      BY <2>1, <2>2
  <1>7. Fine(own)
    <2>1. CASE own = <<>>
      BY <2>1, <1>5
    <2>2. CASE own = <<Source("rspec", log)>> /\ allowed["rspec"]
      <3>1. CASE log
        <4>1. log = TRUE
          BY <3>1
        <4>2. Fine(<<Source("rspec", TRUE)>>)
          <5>1. /\ Source("rspec", TRUE) \in SourceRecord
                /\ \A name \in Names(Source("rspec", TRUE)) : allowed[name]
            BY <1>2, <1>3, <2>2, <3>1
          <5> QED
            BY <1>6, <5>1
        <4> QED
          BY <2>2, <4>1, <4>2
      <3>2. CASE ~ log
        <4>1. log = FALSE
          BY <3>2
        <4>2. Fine(<<Source("rspec", FALSE)>>)
          <5>1. /\ Source("rspec", FALSE) \in SourceRecord
                /\ \A name \in Names(Source("rspec", FALSE)) : allowed[name]
            BY <1>2, <1>3, <2>2
          <5> QED
            BY <1>6, <5>1
        <4> QED
          BY <2>2, <4>1, <4>2
      <3> QED
        BY <3>1, <3>2
    <2>3. CASE own = <<Source("rails_log", TRUE)>> /\ log
      <3>1. Fine(<<Source("rails_log", TRUE)>>)
        <4>1. /\ Source("rails_log", TRUE) \in SourceRecord
              /\ \A name \in Names(Source("rails_log", TRUE)) : allowed[name]
          BY <1>2, <1>3, <2>3
        <4> QED
          BY <1>6, <4>1
      <3> QED
        BY <2>3, <3>1
    <2> QED
      BY <2>1, <2>2, <2>3
  <1>8. own \o usage = own \/ (allowed["rusage"] /\ own \o usage = Append(own, Source("rusage", FALSE)))
    <2>1. own \in Seq(SourceRecord)
      BY <1>7
    <2> HIDE DEF own
    <2>2. own \o <<>> = own
      BY <2>1
    <2>3. own \o <<Source("rusage", FALSE)>> = Append(own, Source("rusage", FALSE))
      BY <2>1, <1>2, AppendIsConcat
    <2> QED
      BY <2>2, <2>3
  <1>9. allowed["rusage"] => Fine(Append(own, Source("rusage", FALSE)))
    BY <1>2, <1>3, <1>4, <1>7
  <1> HIDE DEF own, usage
  <1>10. Fine(own \o usage)
    BY <1>7, <1>8, <1>9
  <1> QED
    BY <1>1, <1>10

-----------------------------------------------------------------------------
(* What configuration files switch. *)

LEMMA SettingsOf ==
  ASSUME NEW file, NEW name \in SOURCES
  PROVE  /\ name \in DOMAIN Settings(file) => Settings(file)[name] \in BOOLEAN
         /\ Sets(file, name, "false") =>
              name \in DOMAIN Settings(file) /\ ~ Settings(file)[name]
         /\ name \in DOMAIN Settings(file) /\ ~ Sets(file, name, "true") =>
              ~ Settings(file)[name]
  <1>1. CASE name \in DOMAIN Settings(file)
    <2>1. /\ file.toml /\ name \in DOMAIN file.values
          /\ Settings(file)[name] = (file.values[name] = "true")
      BY <1>1 DEF Settings
    <2> QED
      BY <1>1, <2>1 DEF Sets
  <1>2. CASE name \notin DOMAIN Settings(file)
    BY <1>2 DEF Settings, Sets
  <1> QED
    BY <1>1, <1>2

\* The project's root is one of the directories.
LEMMA RootIsThere ==
  ASSUME NEW d \in Seq(Directory), d # <<>>
  PROVE  root_of(d) \in DOMAIN d
  <1> DEFINE repo   == Nearest(d, LAMBDA x : x.git)
             inside == {i \in DOMAIN d : \E r \in repo : i <= r}
             upto   == IF inside = {} THEN 0 ELSE CHOOSE r \in repo : TRUE
             first  == Nearest(SubSeq(d, 1, upto), LAMBDA x : x.manifest)
  <1>1. 1 \in DOMAIN d /\ DOMAIN d = 1..Len(d) /\ Len(d) \in Nat
    OBVIOUS
  <1>2. repo \subseteq DOMAIN d
    BY DEF Nearest
  <1>3. upto \in 0..Len(d)
    <2>1. inside # {} => (CHOOSE r \in repo : TRUE) \in repo
      OBVIOUS
    <2> HIDE DEF inside, repo
    <2> QED
      BY <1>1, <1>2, <2>1
  <1> HIDE DEF upto
  <1>4. DOMAIN SubSeq(d, 1, upto) \subseteq DOMAIN d
    <2>1. DOMAIN SubSeq(d, 1, upto) = 1..upto
      BY <1>3
    <2> QED
      BY <1>1, <1>3, <2>1
  <1>5. first \subseteq DOMAIN d
    BY <1>4 DEF Nearest
  <1>6. root_of(d) = IF first = {} THEN 1 ELSE CHOOSE i \in first : TRUE
    BY DEF root_of, upto
  <1> HIDE DEF first
  <1> QED
    BY <1>1, <1>5, <1>6

\* The project's file is the nearest there is up to the root.
LEMMA NearestGoverns ==
  ASSUME NEW d \in Seq(Directory), d # <<>>
  PROVE  LET top == root_of(d)
             Governs(i) == d[i].config.there /\ \A j \in 1..(i - 1) : ~ d[j].config.there
         IN /\ \A i \in 1..top : Governs(i) => project_file(d) = d[i].config
            /\ project_file(d) = Absent \/ \E i \in 1..top : project_file(d) = d[i].config
  <1> DEFINE top == root_of(d)
             Governs(i) == d[i].config.there /\ \A j \in 1..(i - 1) : ~ d[j].config.there
             within == SubSeq(d, 1, top)
             found == Nearest(within, LAMBDA x : x.config.there)
  <1>1. top \in 1..Len(d) /\ Len(d) \in Nat
    BY RootIsThere
  <1> HIDE DEF top
  <1>2. DOMAIN within = 1..top /\ \A i \in 1..top : within[i] = d[i]
    BY <1>1
  <1> HIDE DEF within
  <1>3. found = {i \in 1..top : Governs(i)}
    <2>1. found = {i \in DOMAIN within :
                     /\ within[i].config.there
                     /\ \A j \in 1..(i - 1) : ~ within[j].config.there}
      BY DEF Nearest
    <2> HIDE DEF found
    <2>2. ASSUME NEW i \in 1..top
          PROVE  i \in found <=> Governs(i)
      <3>1. \A j \in 1..(i - 1) : j \in 1..top
        BY <1>1
      <3>2. i \in found <=> /\ within[i].config.there
                           /\ \A j \in 1..(i - 1) : ~ within[j].config.there
        BY <1>2, <2>1
      <3> QED
        BY <1>2, <3>1, <3>2
    <2>3. found \subseteq 1..top
      BY <1>2, <2>1
    <2> HIDE DEF Governs
    <2> QED
      BY <2>2, <2>3
  <1> HIDE DEF found
  <1>4. \A i, j \in found : i = j
    <2>1. ASSUME NEW i \in found, NEW j \in found, i < j
          PROVE  FALSE
      <3>1. i \in 1..(j - 1) /\ Governs(i) /\ Governs(j)
        BY <1>1, <1>3, <2>1
      <3> QED
        BY <3>1
    <2>2. found \subseteq Nat
      BY <1>1, <1>3
    <2> QED
      BY <2>1, <2>2
  <1>5. project_file(d) = IF found = {} THEN Absent
                          ELSE d[CHOOSE i \in found : TRUE].config
    BY DEF project_file, within, top, found
  <1>6. found # {} => (CHOOSE i \in found : TRUE) \in found
    OBVIOUS
  <1>7. \A i \in 1..top : Governs(i) => project_file(d) = d[i].config
    BY <1>3, <1>4, <1>5, <1>6
  <1>8. project_file(d) = Absent \/ \E i \in 1..top : project_file(d) = d[i].config
    BY <1>3, <1>5, <1>6
  <1> QED
    BY <1>7, <1>8 DEF top

\* The first file to set a source decides; the default is on.
LEMMA FirstDecides ==
  ASSUME NEW near, NEW far, NEW name \in SOURCES
  PROVE  read(<<near, far>>)[name] =
           IF name \in DOMAIN Settings(near) THEN Settings(near)[name]
           ELSE IF name \in DOMAIN Settings(far) THEN Settings(far)[name]
           ELSE TRUE
  <1> DEFINE paths == <<near, far>>
             set == Nearest(paths, LAMBDA f : name \in DOMAIN Settings(f))
  <1>1. DOMAIN paths = 1..2 /\ paths[1] = near /\ paths[2] = far
    OBVIOUS
  <1>2. read(paths)[name] = IF set = {} THEN TRUE
                            ELSE Settings(paths[CHOOSE i \in set : TRUE])[name]
    BY DEF read
  <1> HIDE DEF paths
  <1>3. set = {i \in 1..2 : /\ name \in DOMAIN Settings(paths[i])
                             /\ \A j \in 1..(i - 1) : name \notin DOMAIN Settings(paths[j])}
    BY <1>1 DEF Nearest
  <1> HIDE DEF set
  <1>4. CASE name \in DOMAIN Settings(near)
    <2>1. set = {1}
      BY <1>1, <1>3, <1>4
    <2>2. (CHOOSE i \in set : TRUE) = 1
      BY <2>1
    <2> QED
      BY <1>1, <1>2, <1>4, <2>1, <2>2 DEF paths
  <1>5. CASE name \notin DOMAIN Settings(near) /\ name \in DOMAIN Settings(far)
    <2>1. set = {2}
      BY <1>1, <1>3, <1>5
    <2>2. (CHOOSE i \in set : TRUE) = 2
      BY <2>1
    <2> QED
      BY <1>1, <1>2, <1>5, <2>1, <2>2 DEF paths
  <1>6. CASE name \notin DOMAIN Settings(near) /\ name \notin DOMAIN Settings(far)
    <2>1. set = {}
      BY <1>1, <1>3, <1>6
    <2> QED
      BY <1>2, <1>6, <2>1 DEF paths
  <1> QED
    BY <1>4, <1>5, <1>6

\* What is switched off by the file that governs is off.
LEMMA OffIsOff ==
  ASSUME TypeOK
  PROVE  /\ load(dirs, user) \in [SOURCES -> BOOLEAN]
         /\ \A name \in SOURCES : SwitchedOff(name) => ~ load(dirs, user)[name]
  <1> DEFINE f == project_file(dirs)
             s == load(dirs, user)
  <1>1. dirs \in Seq(Directory) /\ dirs # <<>>
    BY DEF TypeOK
  <1>2. \A name \in SOURCES :
          s[name] = IF name \in DOMAIN Settings(f) THEN Settings(f)[name]
                    ELSE IF name \in DOMAIN Settings(user) THEN Settings(user)[name]
                    ELSE TRUE
    BY FirstDecides DEF load
  <1>3. s = [name \in SOURCES |-> s[name]]
    BY DEF load, read
  <1>4. /\ \A i \in 1..root_of(dirs) :
             dirs[i].config.there /\ (\A j \in 1..(i - 1) : ~ dirs[j].config.there)
               => f = dirs[i].config
        /\ f = Absent \/ \E i \in 1..root_of(dirs) : f = dirs[i].config
    BY <1>1, NearestGoverns
  <1> HIDE DEF f, s
  <1>5. s \in [SOURCES -> BOOLEAN]
    <2>1. \A name \in SOURCES : s[name] \in BOOLEAN
      BY <1>2, SettingsOf
    <2> QED
      BY <1>3, <2>1
  <1>6. ASSUME NEW name \in SOURCES, SwitchedOff(name)
        PROVE  ~ s[name]
    <2>1. CASE Sets(f, name, "false")
      BY <1>2, <2>1, SettingsOf
    <2>2. CASE Sets(user, name, "false") /\ ~ Sets(f, name, "true")
      BY <1>2, <2>2, SettingsOf
    <2>3. ~ Sets(Absent, name, "true")
      BY DEF Sets, Absent
    <2>4. \/ \E i \in 1..root_of(dirs) :
               /\ dirs[i].config.there /\ \A j \in 1..(i - 1) : ~ dirs[j].config.there
               /\ Sets(dirs[i].config, name, "false")
          \/ /\ Sets(user, name, "false")
             /\ \A i \in 1..root_of(dirs) : ~ Sets(dirs[i].config, name, "true")
      BY <1>6 DEF SwitchedOff
    <2> QED
      BY <1>4, <2>1, <2>2, <2>3, <2>4
  <1> QED
    BY <1>5, <1>6 DEF s

-----------------------------------------------------------------------------
(* What the sources do, one after the other. *)

\* A source is prepared as it was to be, with less, or not at all.
LEMMA Preparing ==
  ASSUME TypeOK, PrepareRspec \/ PrepareRailsLog \/ PrepareRusage
  PROVE  /\ stage = "preparing" /\ sources # <<>> /\ sources' = Tail(sources)
         /\ \/ kept' = kept
            \/ \E s \in SourceRecord : /\ kept' = Append(kept, s)
                                      /\ Names(s) \subseteq Names(Head(sources))
         /\ UNCHANGED <<configuration, stage, on, reading, wrote, recording, runs, claims>>
  <1> DEFINE s == Head(sources)
  <1>1. sources # <<>> /\ sources \in Seq(SourceRecord)
    BY DEF TypeOK, PrepareRspec, PrepareRailsLog, PrepareRusage
  <1>2. s \in SourceRecord
    BY <1>1
  <1>3. CASE PrepareRspec
    <2>1. s.name = "rspec"
      BY <1>3 DEF PrepareRspec
    <2>2. s \in {Source("rspec", TRUE), Source("rspec", FALSE)}
      BY <1>2, <2>1 DEF SourceRecord, Source
    <2>3. \A log \in {FALSE, s.log} :
            /\ Source("rspec", log) \in SourceRecord
            /\ Names(Source("rspec", log)) \subseteq Names(s)
      <3>1. s.log = TRUE \/ s.log = FALSE
        BY <2>2 DEF Source
      <3>2. s = Source("rspec", s.log)
        BY <2>2, <3>1 DEF Source
      <3>3. Source("rspec", FALSE) \in SourceRecord /\ Source("rspec", TRUE) \in SourceRecord
        BY DEF SourceRecord
      <3>4. Names(Source("rspec", FALSE)) = {"rspec"} /\ "rspec" \in Names(s)
        BY <1>2, <2>1, Distinct DEF Names, also_reads, Source
      <3> HIDE DEF s
      <3>5. Source("rspec", s.log) \in SourceRecord
        BY <1>2, <3>2
      <3>6. Names(Source("rspec", s.log)) = Names(s)
        BY <3>2
      <3> QED
        BY <3>3, <3>4, <3>5, <3>6
    <2> HIDE DEF s
    <2> QED
      BY <1>3, <2>3 DEF PrepareRspec, s
  <1>4. CASE PrepareRailsLog
    BY <1>2, <1>4 DEF PrepareRailsLog
  <1>5. CASE PrepareRusage
    BY <1>2, <1>5 DEF PrepareRusage
  <1> QED
    BY <1>3, <1>4, <1>5

\* Of a stream, all that occurred is taken in, or some of it.
LEMMA FedPart ==
  ASSUME NEW stream, NEW whole \in BOOLEAN, NEW seen \in Fed(stream, whole)
  PROVE  /\ seen \subseteq wrote /\ \A b \in seen : StreamOf[b] = stream
         /\ whole => \A b \in wrote : StreamOf[b] = stream => b \in seen
  <1>1. CASE whole
    BY <1>1 DEF Fed
  <1>2. CASE ~ whole
    BY <1>2 DEF Fed
  <1> QED
    BY <1>1, <1>2

\* The streams that are fed, and what collecting the next source adds.
LEMMA FeedsOne ==
  /\ StreamsOf["rspec"] = "events" /\ StreamsOf["rails_log"] = "log"
  /\ StreamsOf["stdout"] = "stdout" /\ StreamsOf["stderr"] = "stderr"
  /\ DOMAIN StreamsOf = {"stdout", "stderr", "rspec", "rails_log"}
  BY DEF StreamsOf

Adds(names, seen) ==
  /\ names \subseteq Names(Head(sources)) /\ seen \subseteq wrote
  /\ recording' = [sources |-> recording.sources \cup names,
                   seen |-> recording.seen \cup seen]
  /\ Whole(names, seen, wrote)
  /\ \A b \in seen : \E name \in Names(Head(sources)) \cap DOMAIN StreamsOf :
       StreamOf[b] = StreamsOf[name]

LEMMA Collecting ==
  ASSUME TypeOK, CollectRspec \/ CollectRailsLog \/ CollectRusage
  PROVE  /\ stage = "collecting" /\ sources # <<>> /\ sources' = Tail(sources)
         /\ \E names, seen : Adds(names, seen)
         /\ UNCHANGED <<configuration, stage, on, kept, reading, wrote, runs, claims>>
  <1> DEFINE s == Head(sources)
             r == recording
  <1>1. sources # <<>> /\ sources \in Seq(SourceRecord)
    BY DEF TypeOK, CollectRspec, CollectRailsLog, CollectRusage
  <1>2. s \in SourceRecord
    BY <1>1
  <1>3. r = [sources |-> r.sources, seen |-> r.seen]
    BY DEF TypeOK
  <1>4. /\ stage = "collecting" /\ sources' = Tail(sources)
        /\ UNCHANGED <<configuration, stage, on, kept, reading, wrote, runs, claims>>
    BY DEF CollectRspec, CollectRailsLog, CollectRusage
  <1>5. CASE CollectRspec
    <2>1. s.name = "rspec" /\ "rspec" \in Names(s) /\ s.log \in BOOLEAN
      <3>1. s.name = "rspec"
        BY <1>5 DEF CollectRspec
      <3>2. s.log = TRUE \/ s.log = FALSE
        BY <1>2 DEF SourceRecord, Source
      <3> QED
        BY <1>2, <3>1, <3>2, Distinct
    <2>2. PICK events \in BOOLEAN, log \in {FALSE, s.log}, slice \in BOOLEAN :
            \E seen \in Fed("events", events), lines \in IF log THEN Fed("log", slice) ELSE {{}} :
              recording' = [sources |-> r.sources \cup (IF events THEN {"rspec"} ELSE {})
                                          \cup (IF log /\ slice THEN {"rails_log"} ELSE {}),
                            seen |-> r.seen \cup seen \cup lines]
      BY <1>5 DEF CollectRspec
    <2>3. PICK seen \in Fed("events", events), lines \in IF log THEN Fed("log", slice) ELSE {{}} :
            recording' = [sources |-> r.sources \cup (IF events THEN {"rspec"} ELSE {})
                                        \cup (IF log /\ slice THEN {"rails_log"} ELSE {}),
                          seen |-> r.seen \cup seen \cup lines]
      BY <2>2
    <2> DEFINE names == (IF events THEN {"rspec"} ELSE {})
                          \cup (IF log /\ slice THEN {"rails_log"} ELSE {})
               more == seen \cup lines
    <2>4. log => "rails_log" \in Names(s)
      BY <1>2, <2>1, Distinct
    <2>5. names \subseteq Names(s)
      BY <2>1, <2>4
    <2>6. /\ seen \subseteq wrote /\ \A b \in seen : StreamOf[b] = "events"
          /\ events => \A b \in wrote : StreamOf[b] = "events" => b \in seen
      BY FedPart
    <2>7. /\ lines \subseteq wrote /\ \A b \in lines : log /\ StreamOf[b] = "log"
          /\ log /\ slice => \A b \in wrote : StreamOf[b] = "log" => b \in lines
      <3>1. CASE log
        <4>1. lines \in Fed("log", slice)
          BY <3>1
        <4> QED
          BY <3>1, <4>1, FedPart
      <3>2. CASE ~ log
        BY <3>2
      <3> QED
        BY <3>1, <3>2
    <2>8. recording' = [sources |-> r.sources \cup names, seen |-> r.seen \cup more]
      <3>1. /\ r.sources \cup names = r.sources \cup (IF events THEN {"rspec"} ELSE {})
                                        \cup (IF log /\ slice THEN {"rails_log"} ELSE {})
            /\ r.seen \cup more = r.seen \cup seen \cup lines
        OBVIOUS
      <3> QED
        BY <2>3, <3>1
    <2>9. Whole(names, more, wrote)
      BY <2>6, <2>7, FeedsOne DEF Whole
    <2>10. \A b \in more : \E name \in Names(s) \cap DOMAIN StreamsOf :
             StreamOf[b] = StreamsOf[name]
      BY <2>1, <2>4, <2>6, <2>7, FeedsOne
    <2> HIDE DEF names, more
    <2>11. Adds(names, more)
      BY <2>5, <2>6, <2>7, <2>8, <2>9, <2>10 DEF Adds, more
    <2> QED
      BY <1>1, <1>4, <2>11
  <1>6. ASSUME recording' = recording
        PROVE  Adds({}, {})
    <2>1. recording' = [sources |-> r.sources \cup {}, seen |-> r.seen \cup {}]
      BY <1>3, <1>6
    <2> QED
      BY <2>1 DEF Adds, Whole
  <1>7. CASE CollectRailsLog /\ recording' # recording
    <2>1. s.name = "rails_log" /\ "rails_log" \in Names(s)
      BY <1>2, <1>7, Distinct DEF CollectRailsLog
    <2>2. PICK slice \in BOOLEAN : \E lines \in Fed("log", slice) :
            recording' = [sources |-> r.sources \cup (IF slice THEN {"rails_log"} ELSE {}),
                          seen |-> r.seen \cup lines]
      BY <1>7 DEF CollectRailsLog
    <2>3. PICK lines \in Fed("log", slice) :
            recording' = [sources |-> r.sources \cup (IF slice THEN {"rails_log"} ELSE {}),
                          seen |-> r.seen \cup lines]
      BY <2>2
    <2> DEFINE names == IF slice THEN {"rails_log"} ELSE {}
    <2>4. /\ lines \subseteq wrote /\ \A b \in lines : StreamOf[b] = "log"
          /\ slice => \A b \in wrote : StreamOf[b] = "log" => b \in lines
      BY FedPart
    <2>5. Whole(names, lines, wrote)
      BY <2>4, FeedsOne DEF Whole
    <2>6. Adds(names, lines)
      BY <2>1, <2>3, <2>4, <2>5, FeedsOne DEF Adds
    <2> QED
      BY <1>1, <1>4, <2>6
  <1>8. CASE CollectRusage
    <2>1. s.name = "rusage" /\ "rusage" \in Names(s)
      BY <1>2, <1>8, Distinct DEF CollectRusage
    <2>2. recording' = [sources |-> r.sources \cup {"rusage"}, seen |-> r.seen \cup {}]
      BY <1>3, <1>8 DEF CollectRusage
    <2>3. Whole({"rusage"}, {}, wrote)
      BY FeedsOne DEF Whole
    <2>4. Adds({"rusage"}, {})
      BY <2>1, <2>2, <2>3 DEF Adds
    <2> QED
      BY <1>1, <1>4, <2>4
  <1>9. CASE recording' = recording
    BY <1>1, <1>4, <1>6, <1>9
  <1> QED
    BY <1>5, <1>7, <1>8, <1>9

-----------------------------------------------------------------------------
(* Each step keeps the invariant, part by part. *)

LEMMA Steps ==
  ASSUME [Next]_vars
  PROVE  \/ EditFile \/ ChangeProject \/ Start \/ Spawn \/ Exits
         \/ (PrepareRspec \/ PrepareRailsLog \/ PrepareRusage)
         \/ (CollectRspec \/ CollectRailsLog \/ CollectRusage)
         \/ Finish \/ UNCHANGED vars
  BY DEF Next

\* siftr has ended.
LEMMA Ended ==
  ASSUME Done
  PROVE  /\ stage' = "idle" /\ on' \in [SOURCES -> BOOLEAN]
         /\ sources' = <<>> /\ kept' = <<>> /\ wrote' = {} /\ recording' = Nothing
         /\ \A name \in SOURCES : on'[name]
         /\ reading' = NotRead
  BY DEF Done, AllOn

LEMMA Collected ==
  ASSUME TypeOK, NEW names, NEW seen, Adds(names, seen), sources # <<>>
  PROVE  recording' \in [sources : SUBSET Listing, seen : SUBSET Behaviors]
  <1>1. sources \in Seq(SourceRecord) /\ wrote \subseteq Behaviors
        /\ recording.sources \subseteq Listing /\ recording.seen \subseteq Behaviors
    BY DEF TypeOK
  <1>2. names \subseteq Listing
    BY <1>1, AmongTail, AmongSources DEF Adds
  <1> QED
    BY <1>1, <1>2 DEF Adds

LEMMA Typed ==
  ASSUME TypeOK, ClaimsAreReal, [Next]_vars
  PROVE  TypeOK'
  <1>1. /\ argv \in Argvs /\ edits \in Nat
        /\ dirs \in Seq(Directory) /\ dirs # <<>> /\ user \in Files \cup {Absent}
        /\ reading.read \in SUBSET Listing /\ DOMAIN reading.unread \in SUBSET Listing
        /\ rails \in BOOLEAN /\ stage \in Stages /\ on \in [SOURCES -> BOOLEAN]
        /\ sources \in Seq(SourceRecord) /\ kept \in Seq(SourceRecord)
        /\ wrote \subseteq Behaviors
        /\ recording \in [sources : SUBSET Listing, seen : SUBSET Behaviors]
        /\ runs \in Seq([sources : SUBSET Listing, seen : SUBSET Behaviors,
                         wrote : SUBSET Behaviors])
        /\ claims \in [new : SUBSET Behaviors, gone : SUBSET Behaviors]
    BY DEF TypeOK
  <1>2. /\ <<>> \in Seq(SourceRecord)
        /\ Nothing \in [sources : SUBSET Listing, seen : SUBSET Behaviors]
        /\ NoClaims \in [new : SUBSET Behaviors, gone : SUBSET Behaviors]
        /\ NotRead.read = {} /\ DOMAIN NotRead.unread = {}
    BY DEF Nothing, NoClaims, NotRead
  <1>3. CASE EditFile
    <2>1. PICK file \in Files \cup {Absent} :
            \/ (\E i \in DOMAIN dirs : dirs' = [dirs EXCEPT ![i].config = file]) /\ user' = user
            \/ user' = file /\ dirs' = dirs
      BY <1>3 DEF EditFile
    <2>2. user' \in Files \cup {Absent}
      BY <1>1, <2>1
    <2>3. dirs' \in Seq(Directory) \ {<<>>}
      <3>1. CASE dirs' = dirs
        BY <1>1, <3>1
      <3>2. ASSUME NEW i \in DOMAIN dirs, dirs' = [dirs EXCEPT ![i].config = file]
            PROVE  dirs' \in Seq(Directory) \ {<<>>}
        <4> DEFINE d == [dirs[i] EXCEPT !.config = file]
        <4>1. dirs[i] \in Directory
          BY <1>1
        <4>2. d \in Directory
          BY <4>1 DEF Directory
        <4>3. dirs' = [dirs EXCEPT ![i] = d]
          BY <3>2
        <4> HIDE DEF d
        <4>4. dirs' \in Seq(Directory) /\ DOMAIN dirs' = DOMAIN dirs
          BY <1>1, <4>2, <4>3, ExceptSeq
        <4> QED
          BY <4>4
      <3> QED
        BY <2>1, <3>1, <3>2
    <2>4. UNCHANGED <<argv, rails, stage, on, sources, kept, reading, wrote, recording, runs, claims>>
          /\ edits' \in Nat
      BY <1>1, <1>3 DEF EditFile
    <2> QED
      BY <1>1, <2>2, <2>3, <2>4 DEF TypeOK
  <1>4. CASE ChangeProject
    <2>1. rails' \in BOOLEAN /\ edits' \in Nat
      BY <1>1, <1>4 DEF ChangeProject
    <2> QED
      BY <1>1, <1>4, <2>1 DEF TypeOK, ChangeProject
  <1>5. CASE Start
    <2>1. on' = load(dirs, user) /\ sources' = for_command(argv, load(dirs, user))
      BY <1>5 DEF Start
    <2>2. on' \in [SOURCES -> BOOLEAN]
      BY <2>1, OffIsOff
    <2>3. sources' \in Seq(SourceRecord)
      BY <1>1, <2>1, <2>2, OnlyAllowedSetUp
    <2>4. stage' \in Stages /\ claims' = NoClaims
          /\ UNCHANGED <<argv, dirs, user, rails, edits, kept, reading, wrote, recording, runs>>
      BY <1>5 DEF Start, Stages, configuration
    <2> QED
      BY <1>1, <1>2, <2>2, <2>3, <2>4 DEF TypeOK
  <1>6. CASE Done /\ UNCHANGED <<configuration, runs, claims>>
    BY <1>1, <1>2, <1>6, Ended DEF TypeOK, Stages, configuration
  <1>7. CASE Spawn
    <2>1. CASE Done
      BY <1>6, <1>7, <2>1 DEF Spawn
    <2>2. CASE ~ Done
      <3>1. PICK prepared : reading' = Reading(argv, on, prepared)
        BY <1>7, <2>2 DEF Spawn
      <3>2. reading'.read \subseteq Listing /\ DOMAIN reading'.unread \subseteq Listing
        BY <3>1 DEF Reading
      <3> QED
        BY <1>1, <1>7, <2>2, <3>2 DEF TypeOK, Spawn, Stages, configuration
    <2> QED
      BY <2>1, <2>2
  <1>8. CASE Exits
    <2>1. CASE Done
      BY <1>6, <1>8, <2>1 DEF Exits
    <2>2. CASE ~ Done
      <3>1. PICK did \in SUBSET Behaviors :
              /\ stage' = "collecting" /\ sources' = kept /\ wrote' = did
              /\ recording' = [sources |-> always_read,
                               seen |-> {b \in did : StreamOf[b] \in {"stdout", "stderr"}}]
              /\ UNCHANGED <<on, kept, reading, configuration, runs, claims>>
        BY <1>8, <2>2 DEF Exits
      <3>2. recording' \in [sources : SUBSET Listing, seen : SUBSET Behaviors]
        BY <3>1 DEF Listing
      <3> QED
        BY <1>1, <3>1, <3>2 DEF TypeOK, Stages, configuration
    <2> QED
      BY <2>1, <2>2
  <1>9. CASE PrepareRspec \/ PrepareRailsLog \/ PrepareRusage
    <2>1. /\ sources # <<>> /\ sources' = Tail(sources)
          /\ kept' = kept \/ \E s \in SourceRecord : kept' = Append(kept, s)
          /\ UNCHANGED <<configuration, stage, on, reading, wrote, recording, runs, claims>>
      BY <1>9, Preparing
    <2>2. sources' \in Seq(SourceRecord)
      BY <1>1, <2>1, AmongTail
    <2>3. kept' \in Seq(SourceRecord)
      <3>1. kept \in Seq(SourceRecord)
        BY <1>1
      <3>2. \A s \in SourceRecord : Append(kept, s) \in Seq(SourceRecord)
        BY <3>1
      <3> QED
        BY <2>1, <3>1, <3>2
    <2> QED
      BY <1>1, <2>1, <2>2, <2>3 DEF TypeOK, configuration
  <1>10. CASE CollectRspec \/ CollectRailsLog \/ CollectRusage
    <2>1. /\ sources # <<>> /\ sources' = Tail(sources)
          /\ \E names, seen : Adds(names, seen)
          /\ UNCHANGED <<configuration, stage, on, kept, reading, wrote, runs, claims>>
      BY <1>10, Collecting
    <2>2. sources' \in Seq(SourceRecord)
      BY <1>1, <2>1, AmongTail
    <2>3. recording' \in [sources : SUBSET Listing, seen : SUBSET Behaviors]
      BY <2>1, Collected
    <2> QED
      BY <1>1, <2>1, <2>2, <2>3 DEF TypeOK, configuration
  <1>11. CASE Finish
    <2> DEFINE now == Run(recording.sources, recording.seen, wrote)
    <2>1. now \in [sources : SUBSET Listing, seen : SUBSET Behaviors, wrote : SUBSET Behaviors]
      BY <1>1 DEF Run
    <2>2. Done /\ UNCHANGED configuration
          /\ \/ runs' = Append(runs, now) /\ claims' = Compare(now, runs)
             \/ UNCHANGED <<runs, claims>>
      BY <1>11 DEF Finish
    <2>3. runs' \in Seq([sources : SUBSET Listing, seen : SUBSET Behaviors,
                        wrote : SUBSET Behaviors])
      <3> DEFINE R == [sources : SUBSET Listing, seen : SUBSET Behaviors,
                       wrote : SUBSET Behaviors]
      <3>1. runs \in Seq(R) /\ now \in R
        BY <1>1, <2>1
      <3> HIDE DEF R, now
      <3>2. Append(runs, now) \in Seq(R)
        BY <3>1
      <3>3. runs' \in Seq(R)
        BY <2>2, <3>1, <3>2
      <3> QED
        BY <3>3 DEF R
    <2>4. Compare(now, runs) \in [new : SUBSET Behaviors, gone : SUBSET Behaviors]
      <3>1. now.seen \subseteq Behaviors
        BY <2>1
      <3> HIDE DEF now
      <3> QED
        BY <1>2, <3>1 DEF Compare
    <2>5. claims' \in [new : SUBSET Behaviors, gone : SUBSET Behaviors]
      BY <1>1, <2>2, <2>4
    <2> QED
      BY <1>1, <1>2, <2>2, <2>3, <2>5, Ended DEF TypeOK, Stages, configuration
  <1>12. CASE UNCHANGED vars
    BY <1>1, <1>12 DEF TypeOK, vars, configuration
  <1> QED
    BY <1>3, <1>4, <1>5, <1>7, <1>8, <1>9, <1>10, <1>11, <1>12, Steps

LEMMA StillAllowed ==
  ASSUME TypeOK, OnlyAllowed, [Next]_vars
  PROVE  OnlyAllowed'
  <1>1. sources \in Seq(SourceRecord) /\ kept \in Seq(SourceRecord)
    BY DEF TypeOK
  <1>2. CASE UNCHANGED <<stage, sources, kept, on>>
    BY <1>2 DEF OnlyAllowed, Among
  <1>3. CASE Done
    <2>1. Among(sources)' = {} /\ Among(kept)' = {} /\ kept' = <<>>
      BY <1>3, AmongNone, Ended
    <2> QED
      BY <2>1 DEF OnlyAllowed
  <1>4. CASE Start
    <2>1. /\ on' = load(dirs, user) /\ sources' = for_command(argv, load(dirs, user))
          /\ kept' = kept /\ kept = <<>> /\ rails \in BOOLEAN /\ stage' = "preparing"
      BY <1>4 DEF Start, TypeOK, OnlyAllowed
    <2>2. \A name \in Among(for_command(argv, load(dirs, user))) : load(dirs, user)[name]
      BY <2>1, OffIsOff, OnlyAllowedSetUp
    <2>3. Among(kept)' = {}
      BY <2>1, AmongNone
    <2>4. Among(sources)' = Among(for_command(argv, load(dirs, user)))
      BY <2>1 DEF Among
    <2> QED
      BY <2>1, <2>2, <2>3, <2>4 DEF OnlyAllowed
  <1>5. CASE Spawn
    <2>1. ~ Done => UNCHANGED <<sources, kept, on>> /\ stage' = "running"
      BY <1>5 DEF Spawn
    <2>2. CASE ~ Done
      BY <2>1, <2>2 DEF OnlyAllowed, Among
    <2> QED
      BY <1>3, <2>2
  <1>6. CASE Exits
    <2>1. ~ Done => sources' = kept /\ stage' = "collecting" /\ UNCHANGED <<kept, on>>
      BY <1>6 DEF Exits
    <2>2. CASE ~ Done
      BY <2>1, <2>2 DEF OnlyAllowed, Among
    <2> QED
      BY <1>3, <2>2
  <1>7. CASE PrepareRspec \/ PrepareRailsLog \/ PrepareRusage
    <2>1. /\ stage = "preparing" /\ stage' = stage
          /\ sources # <<>> /\ sources' = Tail(sources) /\ on' = on
          /\ kept' = kept \/ \E s \in SourceRecord : /\ kept' = Append(kept, s)
                                                 /\ Names(s) \subseteq Names(Head(sources))
      BY <1>7, Preparing
    <2>2. Among(Tail(sources)) \subseteq Among(sources) /\ Names(Head(sources)) \subseteq Among(sources)
      BY <1>1, <2>1, AmongTail
    <2>3. Among(kept)' \subseteq Among(kept) \cup Among(sources)
      <3>1. CASE kept' = kept
        BY <3>1 DEF Among
      <3>2. ASSUME NEW s \in SourceRecord, kept' = Append(kept, s), Names(s) \subseteq Names(Head(sources))
            PROVE  Among(kept)' \subseteq Among(kept) \cup Among(sources)
        <4>1. Among(Append(kept, s)) = Among(kept) \cup Names(s)
          BY <1>1, AmongAppend
        <4>2. Among(kept)' = Among(Append(kept, s))
          BY <3>2 DEF Among
        <4> QED
          BY <2>2, <3>2, <4>1, <4>2
      <3> QED
        BY <2>1, <3>1, <3>2
    <2>4. Among(sources)' \subseteq Among(sources)
      BY <2>1, <2>2 DEF Among
    <2> QED
      BY <2>1, <2>3, <2>4 DEF OnlyAllowed
  <1>8. CASE CollectRspec \/ CollectRailsLog \/ CollectRusage
    <2>1. /\ stage = "collecting" /\ stage' = stage
          /\ sources # <<>> /\ sources' = Tail(sources) /\ on' = on /\ kept' = kept
      BY <1>8, Collecting
    <2>2. Among(Tail(sources)) \subseteq Among(sources)
      BY <1>1, <2>1, AmongTail
    <2>3. Among(sources)' \subseteq Among(sources) /\ Among(kept)' = Among(kept)
      BY <2>1, <2>2 DEF Among
    <2> QED
      BY <2>1, <2>3 DEF OnlyAllowed
  <1>9. EditFile \/ ChangeProject \/ UNCHANGED vars => UNCHANGED <<stage, sources, kept, on>>
    BY DEF EditFile, ChangeProject, vars
  <1>10. Finish => Done
    BY DEF Finish
  <1> QED
    BY <1>2, <1>3, <1>4, <1>5, <1>6, <1>7, <1>8, <1>9, <1>10, Steps

LEMMA StillReported ==
  ASSUME TypeOK, Reported, Recorded, [Next]_vars
  PROVE  Reported'
  <1>1. sources \in Seq(SourceRecord) /\ kept \in Seq(SourceRecord)
    BY DEF TypeOK
  <1>2. CASE UNCHANGED <<stage, sources, kept, reading, recording>>
    BY <1>2 DEF Reported, Among
  <1>3. CASE stage' \in {"idle", "preparing"}
    BY <1>3 DEF Reported
  <1>4. CASE Spawn /\ ~ Done
    <2> DEFINE prepared == UNION {{kept[i].name} \cup also_reads(kept[i]) : i \in DOMAIN kept}
    <2>1. /\ reading' = Reading(argv, on, prepared) /\ sources = <<>> /\ stage = "preparing"
          /\ UNCHANGED <<sources, kept, recording>>
      BY <1>4 DEF Spawn
    <2>2. prepared = Among(kept) /\ Among(kept) \subseteq Listing
      BY <1>1, AmongSources DEF Among, Names
    <2> HIDE DEF prepared
    <2>3. /\ reading'.read = Listing \cap (always_read \cup Among(kept))
          /\ DOMAIN reading'.unread = Listing \ (always_read \cup Among(kept))
      BY <2>1, <2>2 DEF Reading
    <2>4. Among(sources)' = {} /\ Among(kept)' = Among(kept) /\ recording'.sources = {}
      BY <2>1, AmongNone DEF Recorded, Nothing, Among
    <2> QED
      BY <2>2, <2>3, <2>4 DEF Reported, Listing
  <1>5. CASE Exits /\ ~ Done
    <2>1. /\ stage = "running" /\ sources' = kept /\ recording'.sources = always_read
          /\ UNCHANGED <<kept, reading>>
      BY <1>5 DEF Exits
    <2> QED
      BY <2>1 DEF Reported, Among
  <1>6. CASE CollectRspec \/ CollectRailsLog \/ CollectRusage
    <2>1. /\ stage = "collecting" /\ sources # <<>> /\ sources' = Tail(sources)
          /\ \E names, seen : Adds(names, seen)
          /\ UNCHANGED <<kept, reading>>
      BY <1>6, Collecting
    <2>2. /\ Among(Tail(sources)) \subseteq Among(sources)
          /\ Names(Head(sources)) \subseteq Among(sources)
      BY <1>1, <2>1, AmongTail
    <2>3. recording'.sources \subseteq recording.sources \cup Among(sources)
      BY <2>1, <2>2 DEF Adds
    <2>4. Among(sources)' \subseteq Among(sources) /\ Among(kept)' = Among(kept)
      BY <2>1, <2>2 DEF Among
    <2> QED
      BY <2>1, <2>3, <2>4 DEF Reported
  <1>7. Done \/ Start \/ Finish => stage' \in {"idle", "preparing"}
    BY DEF Done, Start, Finish
  <1>8. PrepareRspec \/ PrepareRailsLog \/ PrepareRusage => stage' = "preparing"
    BY Preparing
  <1>9. EditFile \/ ChangeProject \/ UNCHANGED vars
          => UNCHANGED <<stage, sources, kept, reading, recording>>
    BY DEF EditFile, ChangeProject, vars
  <1> QED
    BY <1>2, <1>3, <1>4, <1>5, <1>6, <1>7, <1>8, <1>9, Steps

LEMMA StillRecorded ==
  ASSUME TypeOK, OnlyAllowed, Recorded, [Next]_vars
  PROVE  Recorded'
  <1> DEFINE Clean(r, e) == \A name \in SOURCES : ~ e[name] =>
                              /\ name \notin r.sources
                              /\ name \in DOMAIN StreamsOf =>
                                   \A b \in r.seen : StreamOf[b] # StreamsOf[name]
             Sound(r, did) == r.seen \subseteq did /\ Whole(r.sources, r.seen, did)
  <1>1. sources \in Seq(SourceRecord) /\ recording.seen \subseteq wrote
        /\ Clean(recording, on) /\ Sound(recording, wrote)
    BY DEF TypeOK, Recorded
  <1>2. CASE UNCHANGED <<stage, wrote, recording, on>>
    BY <1>2 DEF Recorded
  <1>3. CASE recording' = Nothing /\ stage' # "collecting"
    BY <1>3 DEF Recorded, Nothing, Whole
  <1>4. CASE Exits /\ ~ Done
    <2>1. PICK did \in SUBSET Behaviors :
            /\ wrote' = did /\ on' = on /\ stage' = "collecting"
            /\ recording' = [sources |-> always_read,
                             seen |-> {b \in did : StreamOf[b] \in {"stdout", "stderr"}}]
      BY <1>4 DEF Exits
    <2>2. /\ recording'.sources = {"stdout", "stderr"}
          /\ recording'.seen = {b \in did : StreamOf[b] \in {"stdout", "stderr"}}
      BY <2>1 DEF always_read
    <2>3. Sound(recording', did)
      BY <2>2, FeedsOne DEF Whole
    <2>4. Clean(recording', on)
      BY <2>2, FeedsOne DEF SOURCES
    <2> QED
      BY <2>1, <2>2, <2>3, <2>4 DEF Recorded, always_read
  <1>5. CASE CollectRspec \/ CollectRailsLog \/ CollectRusage
    <2>1. PICK names, seen : Adds(names, seen)
      BY <1>5, Collecting
    <2>2. stage = "collecting" /\ sources # <<>> /\ UNCHANGED <<stage, on, wrote>>
      BY <1>5, Collecting
    <2>3. Head(sources) \in SourceRecord /\ Names(Head(sources)) \subseteq Among(sources)
      BY <1>1, <2>2, AmongTail
    <2>4. /\ names \subseteq Names(Head(sources)) /\ seen \subseteq wrote
          /\ recording'.sources = recording.sources \cup names
          /\ recording'.seen = recording.seen \cup seen
          /\ Whole(names, seen, wrote)
          /\ \A b \in seen : \E name \in Names(Head(sources)) \cap DOMAIN StreamsOf :
               StreamOf[b] = StreamsOf[name]
      BY <2>1 DEF Adds
    <2>5. Sound(recording', wrote)
      BY <1>1, <2>4 DEF Whole
    <2>6. \A name \in Names(Head(sources)) : on[name] /\ name \in SOURCES
      BY <2>3, Distinct DEF OnlyAllowed
    <2>7. ASSUME NEW name \in SOURCES, ~ on[name], name \in DOMAIN StreamsOf, NEW b \in seen
          PROVE  StreamOf[b] # StreamsOf[name]
      <3>1. PICK other \in Names(Head(sources)) \cap DOMAIN StreamsOf :
              StreamOf[b] = StreamsOf[other]
        BY <2>4, <2>7
      <3>2. other # name /\ {other, name} \subseteq {"rspec", "rails_log"}
        BY <2>6, <2>7, <3>1, FeedsOne DEF SOURCES
      <3> QED
        BY <3>1, <3>2, FeedsOne
    <2>8. Clean(recording', on)
      BY <1>1, <2>4, <2>6, <2>7
    <2>9. always_read \subseteq recording'.sources
      BY <2>2, <2>4 DEF Recorded
    <2> QED
      BY <2>2, <2>5, <2>8, <2>9 DEF Recorded
  <1>6. Done => recording' = Nothing /\ stage' # "collecting"
    BY DEF Done
  <1>7. Start \/ (Spawn /\ ~ Done) => recording' = Nothing /\ stage' # "collecting"
    BY DEF Start, Spawn, Recorded
  <1>8. PrepareRspec \/ PrepareRailsLog \/ PrepareRusage \/ EditFile \/ ChangeProject
          \/ UNCHANGED vars => UNCHANGED <<stage, wrote, recording, on>>
    BY Preparing DEF EditFile, ChangeProject, vars
  <1>9. Finish => Done
    BY DEF Finish
  <1> QED
    BY <1>2, <1>3, <1>4, <1>5, <1>6, <1>7, <1>8, <1>9, Steps

\* The run that ends joins the others, or nothing does.
LEMMA Joining ==
  ASSUME TypeOK, Finish
  PROVE  LET now == Run(recording.sources, recording.seen, wrote)
         IN \/ UNCHANGED <<runs, claims>>
            \/ /\ runs' = Append(runs, now) /\ claims' = Compare(now, runs)
               /\ Len(runs') = Len(runs) + 1 /\ Len(runs) \in Nat
               /\ DOMAIN runs = 1..Len(runs) /\ DOMAIN runs' = 1..Len(runs')
               /\ \A i \in DOMAIN runs : runs'[i] = runs[i]
               /\ Last(runs') = now /\ runs'[Len(runs) + 1] = now
  <1> DEFINE now == Run(recording.sources, recording.seen, wrote)
             R == [sources : SUBSET Listing, seen : SUBSET Behaviors, wrote : SUBSET Behaviors]
  <1>1. runs \in Seq(R) /\ now \in R
    BY DEF TypeOK, Run
  <1>2. UNCHANGED <<runs, claims>> \/ (runs' = Append(runs, now) /\ claims' = Compare(now, runs))
    BY DEF Finish
  <1> HIDE DEF now, R
  <1>3. LET more == Append(runs, now)
        IN /\ Len(more) = Len(runs) + 1 /\ Len(runs) \in Nat
           /\ DOMAIN runs = 1..Len(runs) /\ DOMAIN more = 1..Len(more)
           /\ \A i \in DOMAIN runs : more[i] = runs[i]
           /\ more[Len(more)] = now /\ more[Len(runs) + 1] = now
    BY <1>1
  <1>4. runs' = Append(runs, now) => Last(runs') = now
    BY <1>3 DEF Last
  <1> QED
    BY <1>2, <1>3, <1>4 DEF now

LEMMA StillWhole ==
  ASSUME TypeOK, Recorded, RunsWhole, [Next]_vars
  PROVE  RunsWhole'
  <1> DEFINE Sound(r) == r.seen \subseteq r.wrote /\ Whole(r.sources, r.seen, r.wrote)
             now == Run(recording.sources, recording.seen, wrote)
  <1>1. CASE runs' = runs
    BY <1>1 DEF RunsWhole
  <1>2. CASE Finish /\ runs' # runs
    <2>1. /\ Len(runs') = Len(runs) + 1 /\ Len(runs) \in Nat
          /\ DOMAIN runs = 1..Len(runs) /\ DOMAIN runs' = 1..Len(runs')
          /\ \A i \in DOMAIN runs : runs'[i] = runs[i]
          /\ runs'[Len(runs) + 1] = now
      BY <1>2, Joining
    <2>2. Sound(now)
      BY DEF Recorded, Run
    <2>3. \A i \in DOMAIN runs : Sound(runs[i])
      BY DEF RunsWhole
    <2> HIDE DEF Sound, now
    <2>4. \A i \in DOMAIN runs' : i \in DOMAIN runs \/ i = Len(runs) + 1
      BY <2>1
    <2>5. \A i \in DOMAIN runs' : Sound(runs'[i])
      BY <2>1, <2>2, <2>3, <2>4
    <2> QED
      BY <2>5 DEF RunsWhole, Sound
  <1>3. runs' # runs => Finish
    <2>1. EditFile \/ ChangeProject \/ Start \/ Spawn \/ Exits \/ UNCHANGED vars => runs' = runs
      BY DEF EditFile, ChangeProject, Start, Spawn, Exits, vars
    <2> QED
      BY <2>1, Preparing, Collecting, Steps
  <1> QED
    BY <1>1, <1>2, <1>3

-----------------------------------------------------------------------------
(* What a comparison says. *)

\* A run that did not read a stream, knew what it read, and the streams it read
\* it read whole: a behavior of its stream that it lacks did not occur.
LEMMA NotUnread ==
  ASSUME NEW r, NEW b, Read(r, StreamOf[b]) # "unread"
  PROVE  \/ Read(r, StreamOf[b]) = "unknown" /\ r.sources \cap DOMAIN StreamsOf = {}
         \/ /\ Read(r, StreamOf[b]) = "read"
            /\ Whole(r.sources, r.seen, r.wrote) /\ b \notin r.seen => b \notin r.wrote
  BY DEF Read, Whole

LEMMA Comparing ==
  ASSUME NEW now, NEW before, NEW n \in Nat, DOMAIN before = 1..n, Len(before) = n,
         Whole(now.sources, now.seen, now.wrote), always_read \subseteq now.sources,
         \A i \in DOMAIN before : Whole(before[i].sources, before[i].seen, before[i].wrote)
  PROVE  /\ \A b \in Compare(now, before).gone : b \notin now.wrote
         /\ \A b \in Compare(now, before).new : \E i \in DOMAIN before :
              \/ Read(before[i], StreamOf[b]) = "read" /\ b \notin before[i].wrote
              \/ Read(before[i], StreamOf[b]) = "unknown"
  <1>1. CASE n < MIN_RUNS
    BY <1>1 DEF Compare, NoClaims
  <1>2. CASE ~ n < MIN_RUNS
    <2>1. 1 \in DOMAIN before
      BY <1>2, SourcesAssumption
    <2>2. ASSUME NEW b \in Compare(now, before).gone
          PROVE  b \notin now.wrote
      <3>1. /\ b \notin now.seen /\ b \in before[1].seen
            /\ ~ configuration_explains(now, before, b, "gone")
        BY <1>2, <2>1, <2>2 DEF Compare
      <3>2. Read(now, StreamOf[b]) # "unread"
        BY <2>1, <3>1 DEF configuration_explains
      <3>3. now.sources \cap DOMAIN StreamsOf # {}
        BY FeedsOne DEF always_read
      <3> QED
        BY <3>1, <3>2, <3>3, NotUnread
    <2>3. ASSUME NEW b \in Compare(now, before).new
          PROVE  \E i \in DOMAIN before :
                   \/ Read(before[i], StreamOf[b]) = "read" /\ b \notin before[i].wrote
                   \/ Read(before[i], StreamOf[b]) = "unknown"
      <3>1. /\ b \in now.seen /\ \A i \in DOMAIN before : b \notin before[i].seen
            /\ ~ configuration_explains(now, before, b, "new")
        BY <1>2, <2>3 DEF Compare
      <3>2. PICK i \in DOMAIN before : Read(before[i], StreamOf[b]) # "unread"
        BY <2>1, <3>1 DEF configuration_explains
      <3> QED
        BY <3>1, <3>2, NotUnread
    <2> QED
      BY <2>2, <2>3
  <1> QED
    BY <1>1, <1>2

LEMMA StillReal ==
  ASSUME TypeOK, Recorded, RunsWhole, ClaimsAreReal, [Next]_vars
  PROVE  ClaimsAreReal'
  <1> DEFINE now == Run(recording.sources, recording.seen, wrote)
  <1>1. CASE UNCHANGED <<runs, claims>>
    BY <1>1 DEF ClaimsAreReal, Last, Read
  <1>2. CASE claims' = NoClaims
    BY <1>2 DEF ClaimsAreReal, NoClaims
  <1>3. CASE Finish /\ ~ UNCHANGED <<runs, claims>>
    <2>1. /\ claims' = Compare(now, runs)
          /\ Len(runs') = Len(runs) + 1 /\ Len(runs) \in Nat
          /\ DOMAIN runs = 1..Len(runs)
          /\ \A i \in DOMAIN runs : runs'[i] = runs[i]
          /\ Last(runs') = now
      BY <1>3, Joining
    <2>2. /\ Whole(now.sources, now.seen, now.wrote) /\ always_read \subseteq now.sources
          /\ \A i \in DOMAIN runs : Whole(runs[i].sources, runs[i].seen, runs[i].wrote)
      BY <1>3 DEF Recorded, RunsWhole, Finish, Run
    <2> HIDE DEF now
    <2>3. /\ \A b \in claims'.gone : b \notin now.wrote
          /\ \A b \in claims'.new : \E i \in DOMAIN runs :
               \/ Read(runs[i], StreamOf[b]) = "read" /\ b \notin runs[i].wrote
               \/ Read(runs[i], StreamOf[b]) = "unknown"
      BY <2>1, <2>2, Comparing
    <2>4. 1..(Len(runs') - 1) = DOMAIN runs
      BY <2>1
    <2>5. \A b \in claims'.new : \E i \in 1..(Len(runs') - 1) :
            \/ Read(runs'[i], StreamOf[b]) = "read" /\ b \notin runs'[i].wrote
            \/ Read(runs'[i], StreamOf[b]) = "unknown"
      BY <2>1, <2>3, <2>4
    <2>6. claims'.gone \cap Last(runs').wrote = {}
      BY <2>1, <2>3
    <2> QED
      BY <2>5, <2>6 DEF ClaimsAreReal
  <1>4. EditFile \/ ChangeProject \/ Spawn \/ Exits \/ UNCHANGED vars => UNCHANGED <<runs, claims>>
    BY DEF EditFile, ChangeProject, Spawn, Exits, vars
  <1>5. Start => claims' = NoClaims
    BY DEF Start
  <1> QED
    BY <1>1, <1>2, <1>3, <1>4, <1>5, Preparing, Collecting, Steps

-----------------------------------------------------------------------------
(* The theorems. *)

LEMMA InitIInv == Init => IInv
  <1> SUFFICES ASSUME Init PROVE IInv
    OBVIOUS
  <1>1. /\ stage = "idle" /\ sources = <<>> /\ kept = <<>> /\ wrote = {} /\ recording = Nothing
        /\ claims = NoClaims /\ on = AllOn /\ reading = NotRead
    BY DEF Init
  <1>2. \/ runs = <<>>
        \/ \E seen \in SUBSET Behaviors : runs = <<Run({}, seen, seen)>>
    BY DEF Init
  <1>3. /\ runs \in Seq([sources : SUBSET Listing, seen : SUBSET Behaviors,
                         wrote : SUBSET Behaviors])
        /\ RunsWhole
    <2>1. CASE runs = <<>>
      BY <2>1 DEF RunsWhole
    <2>2. ASSUME NEW seen \in SUBSET Behaviors, runs = <<Run({}, seen, seen)>>
          PROVE  <1>3
      <3> DEFINE r == Run({}, seen, seen)
                 R == [sources : SUBSET Listing, seen : SUBSET Behaviors,
                       wrote : SUBSET Behaviors]
      <3>1. r \in R /\ r.sources = {} /\ r.seen = seen /\ r.wrote = seen
        BY DEF Run
      <3> HIDE DEF r, R
      <3>2. <<r>> \in Seq(R) /\ DOMAIN <<r>> = {1} /\ <<r>>[1] = r
        BY <3>1
      <3>3. runs = <<r>>
        BY <2>2 DEF r
      <3>4. RunsWhole
        BY <3>1, <3>2, <3>3 DEF RunsWhole, Whole
      <3> QED
        BY <3>2, <3>3, <3>4 DEF R
    <2> QED
      BY <1>2, <2>1, <2>2
  <1>4. TypeOK
    <2>1. dirs \in Seq(Directory) \ {<<>>} /\ user \in Files \cup {Absent} /\ rails \in BOOLEAN
          /\ argv \in Argvs /\ edits \in Nat
      BY SourcesAssumption DEF Init
    <2> QED
      BY <1>1, <1>3, <2>1 DEF TypeOK, Stages, AllOn, Nothing, NoClaims, NotRead
  <1>5. OnlyAllowed /\ Reported
    BY <1>1, AmongNone DEF OnlyAllowed, Reported
  <1>6. Recorded /\ ClaimsAreReal
    BY <1>1 DEF Recorded, ClaimsAreReal, Nothing, NoClaims, Whole
  <1> QED
    BY <1>3, <1>4, <1>5, <1>6 DEF IInv

LEMMA NextIInv == IInv /\ [Next]_vars => IInv'
  BY Typed, StillAllowed, StillReported, StillRecorded, StillWhole, StillReal DEF IInv

\* What runs read, what they are said to have read and what is concluded from it
\* (sources.rs, signal.rs configuration_explains).
THEOREM Invariant == Spec => []IInv
  BY InitIInv, NextIInv, PTL DEF Spec

\* The state keeps its types.
THEOREM TypeCorrect == Spec => []TypeOK
  <1>1. IInv => TypeOK
    BY DEF IInv
  <1> QED
    BY <1>1, Invariant, PTL

\* Nothing a run did not look for is called gone, and nothing is called new that
\* no run looked for (signal.rs configuration_explains).
THEOREM ClaimsReal == Spec => []ClaimsAreReal
  <1>1. IInv => ClaimsAreReal
    BY DEF IInv
  <1> QED
    BY <1>1, Invariant, PTL

\* What a run records as read it was reported to read, and each source is
\* reported once (sources.rs reading).
THEOREM WhatIsRecordedWasReported == Spec => []RecordedWasReported
  <1>1. IInv => RecordedWasReported
    BY DEF IInv, Reported, RecordedWasReported
  <1> QED
    BY <1>1, Invariant, PTL

\* Nothing is taken from a source that is switched off (config.rs, sources.rs
\* for_command).
THEOREM OffUntouched == Spec => OffIsUntouched
  <1> DEFINE Off == /\ stage = "idle" /\ stage' = "preparing" =>
                         \A name \in SOURCES : SwitchedOff(name) => ~ on'[name]
                    /\ \A name \in SOURCES : ~ on'[name] =>
                         /\ name \notin recording'.sources
                         /\ name \in DOMAIN StreamsOf =>
                              \A b \in recording'.seen : StreamOf[b] # StreamsOf[name]
  <1>1. IInv /\ IInv' /\ [Next]_vars => [Off]_vars
    <2> SUFFICES ASSUME IInv, IInv', [Next]_vars PROVE Off
      OBVIOUS
    <2>1. TypeOK /\ Recorded /\ Recorded'
      BY DEF IInv
    <2>2. ASSUME stage = "idle", stage' = "preparing", NEW name \in SOURCES, SwitchedOff(name)
          PROVE  ~ on'[name]
      <3>1. Start
        <4>1. EditFile \/ ChangeProject \/ Spawn \/ Exits \/ Finish \/ UNCHANGED vars
                => stage' = stage \/ stage' # "preparing"
          BY DEF EditFile, ChangeProject, Spawn, Exits, Finish, Done, vars
        <4> QED
          BY <2>1, <2>2, <4>1, Preparing, Collecting, Steps
      <3>2. on' = load(dirs, user)
        BY <3>1 DEF Start
      <3> QED
        BY <2>1, <2>2, <3>2, OffIsOff
    <2>3. \A name \in SOURCES : ~ on'[name] =>
            /\ name \notin recording'.sources
            /\ name \in DOMAIN StreamsOf =>
                 \A b \in recording'.seen : StreamOf[b] # StreamsOf[name]
      BY <2>1 DEF Recorded
    <2> QED
      BY <2>2, <2>3
  <1> QED
    BY <1>1, Invariant, PTL DEF Spec, OffIsUntouched
=============================================================================
