------------------------------ MODULE Normalizer ------------------------------
(***************************************************************************)
(* From a line to its template (normalize.rs, normalize/syslog.rs): the     *)
(* scan that writes what is a behavior's own and masks what varies into     *)
(* slots. The same line is normalized on one machine and then on another,   *)
(* by a normalizer that is used again.                                      *)
(*                                                                         *)
(* An offset counts the lexemes before it. A slot masks line[from+1..to].   *)
(* In a template the name of a slot's kind stands for its placeholder.      *)
(***************************************************************************)
EXTENDS Paths

CONSTANTS
  Texts,    \* lines, in which "$root", "$home" and "$tmp" stand for a machine's paths
  Machines  \* machines: where each has its project, home and temp dir, and what its lines
            \* say for the project

VARIABLES
  text,     \* the line, wherever it is written
  roots,    \* the machine it is written on
  line,     \* the line there
  at,       \* how much of it is read; None between lines
  out,      \* what the normalizer has written
  results   \* what it made of the line so far, one result per machine

vars == <<text, roots, line, at, out, results>>

NewOut == [template |-> <<>>, slots |-> <<>>, last_slot_end |-> 0, roles |-> {}]

Literal(o, lexemes) == [o EXCEPT !.template = @ \o lexemes]

Span(l, s, e) == SubSeq(l, s + 1, e)

NewSlot(o, kind, s, e) ==
  [o EXCEPT !.template = Append(@, kind), !.last_slot_end = Len(o.template) + 1,
            !.slots = Append(@, [kind |-> kind, from |-> s, to |-> e])]

\* Mutant: only what follows a comma directly joins the list.
Slot_Spaced(o, kind, s, e) ==
  LET gap == From(o.template, o.last_slot_end)
  IN IF o.slots # <<>> /\ Last(o.slots).kind = kind /\ gap = <<",">>
     THEN [o EXCEPT !.template = Upto(@, o.last_slot_end), !.slots[Len(o.slots)].to = e]
     ELSE NewSlot(o, kind, s, e)

\* A slot, or some more of the last one: the values of a list are one, if of one kind,
\* and so are durations in a row.
Slot(o, kind, s, e) ==
  LET gap == ToSet(From(o.template, o.last_slot_end))
      goes_on == /\ o.slots # <<>> /\ Last(o.slots).kind = kind
                 /\ gap # {} /\ gap \subseteq {",", " "}
                 /\ "," \in gap \/ kind = "Duration"
  IN IF goes_on
     THEN [o EXCEPT !.template = Upto(@, o.last_slot_end), !.slots[Len(o.slots)].to = e]
     ELSE NewSlot(o, kind, s, e)

path_slot(o, s, e) ==
  [o EXCEPT !.slots = Append(@, [kind |-> "Path", from |-> s, to |-> e])]

-----------------------------------------------------------------------------
(* A token that is nothing as a whole is split at / ? & =, or if it has     *)
(* none at colons, or if it has none at - _ +, and so is every piece.       *)

SPLIT_LEVELS == <<SEP_PATH, SEP_COLON, SEP_WORD>>

Varies(lexemes) == \E i \in DOMAIN lexemes : Digit(lexemes[i]) \/ At(lexemes[i])

\* What is not split is written, but for an address that a dot glues on.
RECURSIVE dotted_hex(_, _, _, _)
dotted_hex(o, l, s, e) ==
  IF s = e THEN o
  ELSE IF s + 1 < e /\ l[s + 1] = "." /\ l[s + 2] \in Addresses /\ (s + 2 = e \/ l[s + 3] = ".")
  THEN dotted_hex(Slot(Literal(o, <<".">>), "Hex", s + 1, s + 2), l, s + 2, e)
  ELSE dotted_hex(Literal(o, <<l[s + 1]>>), l, s + 1, e)

\* The length of the run of _ after s that a piece of digits follows, or 0.
underscores_before_digits(l, s, e) ==
  LET run == Min({e - s} \cup {n \in 0..(e - s - 1) : l[s + n + 1] # "_"})
      digits == s + run < e /\ l[s + run + 1] \in Ints
      ends == s + run + 1 >= e \/ l[s + run + 2] \in SEP_WORD
  IN IF digits /\ ends THEN run ELSE 0

RECURSIVE piece(_, _, _, _, _), split(_, _, _, _, _), Pieces(_, _, _, _, _, _)

piece(o, l, s, e, level) ==
  LET t == Span(l, s, e)
      kind == recognize(t)
  IN IF ~Varies(t) THEN Literal(o, t)
     ELSE IF kind # "None" THEN Slot(o, kind, s, e)
     ELSE split(o, l, s, e, level + 1)

split(o, l, s, e, level) ==
  IF level > Len(SPLIT_LEVELS) THEN dotted_hex(o, l, s, e)
  ELSE IF ToSet(Span(l, s, e)) \cap SPLIT_LEVELS[level] = {} THEN split(o, l, s, e, level + 1)
  ELSE Pieces(o, l, s, s, e, level)

\* The pieces from the one that starts at s, of which l[s+1..i] has been passed. A UUID
\* is not cut into its groups. A compiled view's method ends in __ and a hash, or in ___
\* and a negative one.
Pieces(o, l, s, i, e, level) ==
  LET words == SPLIT_LEVELS[level] = SEP_WORD
      done == piece(o, l, s, i, level)
      run == underscores_before_digits(l, i, e)
  IN IF i = e THEN done
     ELSE IF words /\ i = s /\ l[i + 1] \in Uuids /\ (i + 1 = e \/ l[i + 2] \in SEP_WORD)
     THEN Pieces(Slot(o, "Uuid", i, i + 1), l, i + 1, i + 1, e, level)
     ELSE IF l[i + 1] \notin SPLIT_LEVELS[level] THEN Pieces(o, l, s, i + 1, e, level)
     ELSE IF words /\ run >= 2
     THEN Pieces(Literal(done, <<"_", "_">>), l, i + run, i + run, e, level)
     ELSE Pieces(Literal(done, <<l[i + 1]>>), l, i + 1, i + 1, e, level)

-----------------------------------------------------------------------------
(* A token that is a value as a whole may go on in the following words. Its *)
(* slot ends where the scan resumes.                                        *)

\* Where the token lexemes that follow s end.
TokenEnd(l, s) == Min({Len(l)} \cup {n \in s..(Len(l) - 1) : ~Token(l[n + 1])})

\* Where a span that ends at e ends without its last marks, if not before s.
RECURSIVE Trimmed(_, _, _, _)
Trimmed(l, s, e, marks) ==
  IF e > s /\ l[e] \in marks THEN Trimmed(l, s, e - 1, marks) ELSE e

\* The end of the token after a single space, or e when there is none.
next_word(l, e) ==
  IF e = Len(l) \/ l[e + 1] # " " THEN e
  ELSE LET end == Trimmed(l, e + 1, TokenEnd(l, e + 1), {".", ":"})
       IN IF end = e + 1 THEN e ELSE end

NextWord(l, e) == Span(l, e + 1, next_word(l, e))

\* Mutant: any word after a number is its unit.
extend_Any(l, kind, s, e) ==
  IF kind = "Int" /\ NextWord(l, e) # <<>> /\ \A i \in DOMAIN NextWord(l, e) : Word(NextWord(l, e)[i])
  THEN [kind |-> "Duration", end |-> next_word(l, e)]
  ELSE [kind |-> kind, end |-> e]

\* 7 seconds; 2024-12-12 12:45:12 +0000, or the time first.
extend(l, kind, s, e) ==
  LET unit == NextWord(l, e)
      t == Span(l, s, e)
      other == IF \/ is_date(t) /\ is_time(NextWord(l, e))
                  \/ is_time(t) /\ is_date(NextWord(l, e))
               THEN next_word(l, e) ELSE e
      bare_date == is_date(t) /\ other = e
  IN IF kind \in {"Int", "Float"} /\ Len(unit) = 1 /\ unit[1] \in DOMAIN spaced_unit
     THEN [kind |-> spaced_unit[unit[1]], end |-> next_word(l, e)]
     ELSE IF kind # "Timestamp" \/ bare_date THEN [kind |-> kind, end |-> e]
     ELSE [kind |-> kind,
           end |-> IF is_zone_word(NextWord(l, other)) THEN next_word(l, other) ELSE other]

\* Mutant: the scan resumes where the token ends.
token_Resumes(o, l, s, e) ==
  LET kind == recognize(Span(l, s, e))
      whole == extend(l, kind, s, e)
  IN IF Varies(Span(l, s, e)) /\ kind # "None"
     THEN [out |-> Slot(o, whole.kind, s, whole.end), at |-> e]
     ELSE [out |-> Literal(o, Span(l, s, e)), at |-> e]

Whole(o, s, value) == [out |-> Slot(o, value.kind, s, value.end), at |-> value.end]

\* Dots at the end end a sentence, not a value.
TokenOf(o, l, s, e, end, kind) ==
  LET dots == Span(l, end, e)
  IN IF kind = "None" THEN [out |-> Literal(split(o, l, s, end, 1), dots), at |-> e]
     ELSE IF end < e THEN [out |-> Literal(Slot(o, kind, s, end), dots), at |-> e]
     ELSE Whole(o, s, extend(l, kind, s, e))

token(o, l, s, e) ==
  LET end == Trimmed(l, s + 1, e, {"."})
  IN IF Varies(Span(l, s, e)) THEN TokenOf(o, l, s, e, end, recognize(Span(l, s, end)))
     ELSE [out |-> Literal(o, Span(l, s, e)), at |-> e]

-----------------------------------------------------------------------------
(* A chunk with a path: the path's prefix is made canonical, its tail       *)
(* masked as other text is.                                                 *)

NoPath == [from |-> None, to |-> None]

\* The path in a chunk: after any key=, before a :12, without a sentence's dots.
\* A query means a URL.
path_span(l, s, e) ==
  LET from == Max({s} \cup {n \in (s + 1)..e : l[n] = "="})
      to == Min({e} \cup {n \in from..(e - 1) : l[n + 1] = ":"})
      path == Span(l, from, Trimmed(l, from, to, {"."}))
  IN IF \/ \E n \in (s + 1)..e : l[n] \in {"?", "&"}
        \/ "/" \notin ToSet(path)
        \/ (\E n \in (s + 1)..e : At(l[n])) /\ ~ats_open_segments(path)
     THEN NoPath ELSE [from |-> from, to |-> from + Len(path)]

\* A temp dir's segments from n on: what is generated is one slot, but for a file's
\* extension.
RECURSIVE temp_tail(_, _, _, _)
temp_tail(o, l, n, e) ==
  IF n >= e THEN o
  ELSE LET end == Min({e} \cup {k \in (n + 1)..(e - 1) : l[k + 1] = "/"})
           stem == IF end < e THEN end
                   ELSE Min({end} \cup {k \in (n + 2)..(end - 1) : l[k + 1] = "."})
           opened == Literal(o, <<"/">>)
       IN temp_tail(IF is_generated(Span(l, n + 1, stem))
                    THEN Literal(Slot(opened, "TempName", n + 1, stem), Span(l, stem, end))
                    ELSE piece(opened, l, n + 1, end, 1),
                    l, end, e)

canonical_path(o, l, s, e, prefix) ==
  LET tail == s + prefix.end
      marked == Literal([path_slot(o, s, e) EXCEPT
                           !.roles = @ \cup roles(prefix, Span(l, tail, e))], Written(prefix))
  IN IF prefix.kind = "tmp" THEN temp_tail(marked, l, tail, e)
     ELSE IF tail < e THEN split(marked, l, tail, e, 1) ELSE marked

\* A path that is left as written is still annotated.
Annotated(o, path, span) ==
  IF span # NoPath /\ names_file(path)
  THEN [path_slot(o, span.from, span.to) EXCEPT !.roles = @ \cup file_path_roles(path)]
  ELSE o

\* What is left of a chunk, if anything.
RestOfChunk(o, l, s, e) == IF s < e THEN token(o, l, s, e) ELSE [out |-> o, at |-> e]

Rewritten(o, l, s, e, span, prefix) ==
  LET key == RestOfChunk(o, l, s, span.from).out
  IN RestOfChunk(canonical_path(key, l, span.from, span.to, prefix), l, span.to, e)

ChunkWith(o, l, s, e, span, prefix) ==
  IF prefix = NoPrefix THEN token(Annotated(o, Span(l, span.from, span.to), span), l, s, e)
  ELSE Rewritten(o, l, s, e, span, prefix)

PathChunk(o, l, s, e, span) ==
  ChunkWith(o, l, s, e, span,
            IF span = NoPath THEN NoPrefix ELSE canonical(Span(l, span.from, span.to), roots))

chunk(o, l, s) ==
  LET e == TokenEnd(l, IF l[s + 1] = "~" THEN s + 1 ELSE s)
  IN PathChunk(o, l, s, e, path_span(l, s, e))

-----------------------------------------------------------------------------
(* Quotes, and the header of a syslog line.                                 *)

\* Where the quote that opens after n closes, past \x and doubled quotes; None if nowhere.
RECURSIVE Closing(_, _, _)
Closing(l, open, n) ==
  IF n >= Len(l) THEN None
  ELSE IF l[n + 1] = "\\" THEN Closing(l, open, n + 2)
  ELSE IF l[n + 1] # l[open + 1] THEN Closing(l, open, n + 1)
  ELSE IF n > open + 1 /\ n + 1 < Len(l) /\ l[n + 2] = l[open + 1] THEN Closing(l, open, n + 2)
  ELSE n + 1

closing_quote(l, open) == Closing(l, open, open + 1)

Before(l, n) == Upto(l, Trimmed(l, 0, n, {" "}))

\* After an operator or list punctuation, or a keyword that takes a value.
sql_value_context(l, n) ==
  LET before == Before(l, n)
  IN before # <<>> /\ Last(before) \in {"=", "(", ",", "<", ">", "[", "<TOKEN_1>", "<TOKEN_2>", "IN"}

single_quote(o, l, open) ==
  LET close == closing_quote(l, open)
  IN IF sql_value_context(l, open) /\ close # None
     THEN [out |-> Slot(o, "Quoted", open, close), at |-> close]
     ELSE [out |-> Literal(o, <<"'">>), at |-> open + 1]

\* Only a value is masked: a bind, or what => or a key's colon precedes.
double_quote(o, l, open) ==
  LET before == Before(l, open)
      close == closing_quote(l, open)
      bind == before # <<>> /\ Last(before) = ","
      value == IsSuffix(<<"=", ">">>, before) \/ IsSuffix(<<"\"", ":">>, before)
  IN IF /\ bind \/ value
        /\ close # None
        /\ bind => close < Len(l) /\ l[close + 1] = "]"
     THEN [out |-> Slot(o, "Quoted", open, close), at |-> close]
     ELSE [out |-> Literal(o, <<"\"">>), at |-> open + 1]

\* The number of a masked credential is its run's.
Unnumbered == [x \in {"<TOKEN_1>", "<TOKEN_2>"} |-> "<TOKEN>"]

MONTHS == {"Sep"}
DAYS   == {"Thu"}

space_after(l, n) == n # None /\ n + 1 < Len(l) /\ l[n + 1] = " " /\ l[n + 2] # " "

word_end(l, n) == Min({Len(l)} \cup {k \in n..(Len(l) - 1) : l[k + 1] = " "})

\* Where a time after a space ends; None when there is none.
TimeAfter(l, n) ==
  IF space_after(l, n) /\ is_time(Span(l, n + 1, word_end(l, n + 1)))
  THEN word_end(l, n + 1) ELSE None

iso(l, n) == IF n + 5 <= Len(l) /\ is_date(Span(l, n, n + 5)) THEN TimeAfter(l, n + 5) ELSE None

\* Sep 12 12:45:12, whose day may be padded.
ctime(l, n) ==
  LET month == IF n + 2 <= Len(l) /\ l[n + 1] \in DAYS /\ l[n + 2] = " " THEN n + 2 ELSE n
      padded == IF month + 3 <= Len(l) /\ l[month + 3] = " " THEN 1 ELSE 0
      day == month + 2 + padded
  IN IF /\ day + 1 <= Len(l) /\ l[month + 1] \in MONTHS /\ l[month + 2] = " "
        /\ l[day + 1] \in {"7", "12"}
     THEN TimeAfter(l, day + 1) ELSE None

\* Where a process's name ends, which may hold single spaces and has its pid in brackets.
process_end(l, n) ==
  LET end == Min({Len(l)} \cup {k \in n..(Len(l) - 1) : l[k + 1] \in {"[", "]", ":", "esc"}})
      spaces == \E k \in (n + 1)..end : l[k] = " " /\ (k = Len(l) \/ l[k + 1] \in {" ", "["})
  IN IF /\ end > n /\ ~spaces
        /\ end + 4 <= Len(l)
        /\ l[end + 1] = "[" /\ l[end + 2] \in Ints /\ l[end + 3] = "]" /\ l[end + 4] = ":"
        /\ end + 4 = Len(l) \/ l[end + 5] = " "
     THEN end ELSE None

NoTail == [host_end |-> None, proc_end |-> None]

host_and_process(l, n) ==
  LET host == Min({Len(l)} \cup {k \in (n + 1)..(Len(l) - 1) :
                      ~(Alnum(l[k + 1]) \/ l[k + 1] \in {".", "-", "_", ":"})})
      syslogd == IsPrefix(<<"-", "-", "-", " ", "last">>, From(l, host + 1))
      proc == IF syslogd THEN host + 1 ELSE process_end(l, host + 1)
  IN IF space_after(l, n) /\ host > n + 1 /\ space_after(l, host) /\ proc # None
     THEN [host_end |-> host, proc_end |-> proc] ELSE NoTail

\* What a line starts with may be prose until the host and process, or a weekday, confirm it.
header(l, n) ==
  LET time_end == IF iso(l, n) # None THEN iso(l, n) ELSE ctime(l, n)
      tail == IF time_end = None THEN NoTail ELSE host_and_process(l, time_end)
      weekday == n < Len(l) /\ l[n + 1] \in DAYS
  IN IF tail = NoTail /\ ~weekday THEN None ELSE time_end

HeaderUpto(o, l, n, time_end, tail) ==
  LET stamped == Slot(o, "Timestamp", n, time_end)
      host == Slot(Literal(stamped, <<" ">>), "Host", time_end + 1, tail.host_end)
  IN IF time_end = None THEN [out |-> o, at |-> n]
     ELSE IF tail = NoTail THEN [out |-> stamped, at |-> time_end]
     ELSE [out |-> Literal(host, <<" ">> \o Span(l, tail.host_end + 1, tail.proc_end)),
           at |-> tail.proc_end]

syslog_header(o, l, n) ==
  LET time_end == header(l, n)
  IN HeaderUpto(o, l, n, time_end, host_and_process(l, time_end))

-----------------------------------------------------------------------------
(* Normalizer::normalize.                                                   *)

\* A line as a machine writes it.
On(t, machine) ==
  FlattenSeq([i \in DOMAIN t |-> CASE t[i] = "$root" -> machine.says
                                   [] t[i] = "$home" -> machine.home
                                   [] t[i] = "$tmp"  -> machine.tmp
                                   [] OTHER -> <<t[i]>>])

Escapes(l) == Min({Len(l)} \cup {n \in 0..(Len(l) - 1) : l[n + 1] # "esc"})

Init ==
  /\ text \in Texts
  /\ roots = CHOOSE machine \in Machines : TRUE   \* which all others are compared with
  /\ line = <<>> /\ at = None /\ out = NewOut /\ results = <<>>

Normalize(machine) ==
  /\ at = None /\ Len(results) < 2
  /\ (machine = roots) = (results = <<>>)
  /\ LET l == On(text, machine)
         opened == syslog_header(NewOut, l, Escapes(l))
     IN line' = l /\ out' = opened.out /\ at' = opened.at
  /\ roots' = machine
  /\ UNCHANGED <<text, results>>

Reading == at # None /\ at < Len(line)

Byte == line[at + 1]

Wrote(step) == out' = step.out /\ at' = step.at /\ UNCHANGED <<text, roots, line, results>>

\* ~/ opens a path.
OpensChunk == Token(Byte) \/ (Byte = "~" /\ at + 2 <= Len(line) /\ line[at + 2] = "/")

Chunk == Reading /\ OpensChunk /\ Wrote(chunk(out, line, at))

Space ==
  /\ Reading /\ Byte = " "
  /\ LET needed == out.template # <<>> /\ Last(out.template) # " "
     IN Wrote([out |-> IF needed THEN Literal(out, <<" ">>) ELSE out, at |-> at + 1])

Escape == Reading /\ Byte = "esc" /\ Wrote([out |-> out, at |-> at + 1])

Quote ==
  \/ Reading /\ Byte = "'"  /\ Wrote(single_quote(out, line, at))
  \/ Reading /\ Byte = "\"" /\ Wrote(double_quote(out, line, at))

Placeholder ==
  /\ Reading /\ Byte \in DOMAIN Unnumbered
  /\ Wrote([out |-> Literal(out, <<Unnumbered[Byte]>>), at |-> at + 1])

Mark ==
  /\ Reading /\ ~OpensChunk /\ Byte \notin {" ", "esc", "'", "\""} \cup DOMAIN Unnumbered
  /\ Wrote([out |-> Literal(out, <<Byte>>), at |-> at + 1])

\* Normalized. The template has no space at its end.
Finish ==
  /\ at = Len(line)
  /\ LET t == out.template
     IN results' = Append(results,
          [roots |-> roots, line |-> line, slots |-> out.slots, roles |-> out.roles,
           template |-> IF t # <<>> /\ Last(t) = " " THEN Front(t) ELSE t])
  /\ at' = None
  /\ UNCHANGED <<text, roots, line, out>>

Rest == at = None /\ Len(results) = 2 /\ UNCHANGED vars

Next ==
  \/ \E machine \in Machines : Normalize(machine)
  \/ Chunk \/ Space \/ Escape \/ Quote \/ Placeholder \/ Mark
  \/ Finish \/ Rest

Spec == Init /\ [][Next]_vars

-----------------------------------------------------------------------------
(* Properties. *)

\* What has just been normalized.
Fresh == IF at = None /\ results # <<>> THEN {Last(results)} ELSE {}

KindsOf(r) == [i \in DOMAIN r.slots |-> r.slots[i].kind]

\* The slot that starts after n, or the path.
SlotsAt(r, n, paths) == {i \in DOMAIN r.slots : r.slots[i].from = n /\ (KindsOf(r)[i] = "Path") = paths}

\* What one lexeme adds to a template: no escapes, no number of a credential, one space
\* for several, __ for more of them.
Adds(t, x) ==
  IF x = "esc" \/ (x = " " /\ (t = <<>> \/ Last(t) = " ")) \/ IsSuffix(<<"_", "_", x>>, t \o <<"_">>)
  THEN t
  ELSE Append(t, IF x \in DOMAIN Unnumbered THEN Unnumbered[x] ELSE x)

PrefixAt(r, n) ==
  LET paths == SlotsAt(r, n, TRUE)
  IN IF paths = {} THEN NoPrefix
     ELSE canonical(Span(r.line, n, r.slots[Min(paths)].to), r.roots)

\* The line r is of with what its slots hide hidden, from n on.
RECURSIVE Hidden(_, _, _, _)
Hidden(r, n, prefix, t) ==
  LET masked == SlotsAt(r, n, FALSE)
      i == CHOOSE i \in masked : TRUE
      Go(end, u) == Hidden(r, end, PrefixAt(r, end), u)
  IN IF prefix # NoPrefix THEN Go(n + prefix.end, t \o Written(prefix))
     ELSE IF masked # {} THEN Go(r.slots[i].to, Append(t, KindsOf(r)[i]))
     ELSE IF n = Len(r.line) THEN IF t # <<>> /\ Last(t) = " " THEN Front(t) ELSE t
     ELSE Go(n + 1, Adds(t, r.line[n + 1]))

Squeezed(t) == FoldLeft(LAMBDA acc, x : Adds(acc, x), <<>>, t)

\* A template is its line with what the slots say they hide hidden, and nothing more: a
\* behavior's values, which the slots give, are all that its lines differ in.
SlotsTellTheLine == \A r \in Fresh : Squeezed(r.template) = Squeezed(Hidden(r, 0, PrefixAt(r, 0), <<>>))

\* A slot of a number, an address or a time covers no word but its unit or zone: words
\* are never masked, so two lines that say different things stay two behaviors.
WordsKept ==
  \A r \in Fresh : \A i \in DOMAIN r.slots :
    LET slot == r.slots[i]
        words == {x \in ToSet(Span(r.line, slot.from, slot.to)) : Word(x)}
    IN CASE slot.kind \in {"Int", "Float", "Hex", "Uuid", "Ip"} -> words = {}
         [] slot.kind \in {"Duration", "Size"} ->
              \A x \in words : x \in DOMAIN spaced_unit /\ spaced_unit[x] = slot.kind
         [] slot.kind = "Timestamp" -> words \subseteq {"UTC"} \cup MONTHS \cup DAYS
         [] OTHER -> TRUE

\* What is hidden of a line is told by its slots, and is its values: no word, and nothing
\* that no slot gives.
ValuesHidden == SlotsTellTheLine /\ WordsKept

\* Values of a kind that only commas and spaces part are one slot, and so are durations
\* that only spaces part: how many values a list has is not what its lines say.
ListsAreOne ==
  \A r \in Fresh : \A i \in 1..(Len(r.slots) - 1) :
    LET a == r.slots[i]
        b == r.slots[i + 1]
        gap == ToSet(Span(r.line, a.to, b.from)) \ {"esc"}
    IN a.kind = b.kind /\ a.kind # "Path" =>
         ~(gap # {} /\ gap \subseteq {",", " "} /\ ("," \in gap \/ a.kind = "Duration"))

\* Where a run happened is not part of a behavior: a line that names a file of the project,
\* the home or the temp dir has one template and one set of roles on every machine. Paths
\* are found only where a word or a key's value starts, and none has a query or an address.
Placed(t) ==
  \A i \in DOMAIN t : t[i] \in {"$root", "$home", "$tmp"} =>
     /\ i = 1 \/ ~Token(t[i - 1]) \/ t[i - 1] = "="
     /\ i = Len(t) \/ ~Token(t[i + 1]) \/ t[i + 1] \in {"/", ":"}
     /\ \A j \in DOMAIN t : t[j] \notin {"?", "&"} /\ ~At(t[j])

SameEverywhere ==
  Len(results) = 2 /\ Placed(text) =>
    /\ results[1].template = results[2].template
    /\ results[1].roles = results[2].roles

=============================================================================
