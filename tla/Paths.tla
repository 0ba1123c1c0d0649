-------------------------------- MODULE Paths --------------------------------
(***************************************************************************)
(* Where a path of a line lies and what it names (normalize/path.rs). A     *)
(* path is a sequence of lexemes. An offset counts the lexemes before it;   *)
(* None stands for no offset.                                               *)
(***************************************************************************)
EXTENDS Lexemes

None == -1

Upto(path, n) == SubSeq(path, 1, n)
From(path, n) == SubSeq(path, n + 1, Len(path))

\* The length of a prefix of whole segments.
under(path, prefix) ==
  IF IsPrefix(prefix, path) /\ (Len(path) = Len(prefix) \/ path[Len(prefix) + 1] = "/")
  THEN Len(prefix) ELSE None

segment_end(path, start) ==
  Min({Len(path)} \cup {n \in start..(Len(path) - 1) : path[n + 1] = "/"})

\* The end of the segment that follows the one that ends at n.
Next_segment(path, n) ==
  IF n = None \/ n + 1 > Len(path) \/ segment_end(path, n + 1) = n + 1
  THEN None ELSE segment_end(path, n + 1)

\* Where the k segments below base end.
below(path, base, k) ==
  LET end[i \in 0..k] ==
        IF i = 0 THEN under(path, base) ELSE Next_segment(path, end[i - 1])
  IN end[k]

Starts(path) == {0} \cup {n \in 1..Len(path) : path[n] = "/"}

last_segment(path) == From(path, Max(Starts(path)))

-----------------------------------------------------------------------------
(* Installed packages. *)

\* The name of a directory such as rack-3.1 or rails-6595e60af5, or <<>>.
package_name(dir) ==
  LET Dashes(Version(_)) ==
        {i \in 2..(Len(dir) - 1) : dir[i] = "-" /\ Version(SubSeq(dir, i + 1, Len(dir)))}
      versioned == Dashes(LAMBDA v : Len(v) > 1 /\ v[1] \in Ints /\ v[2] = ".")
      revision  == Dashes(LAMBDA v : Len(v) = 1 /\ v[1] \in Hexes)
  IN IF versioned # {} THEN Upto(dir, Min(versioned) - 1)
     ELSE IF revision # {} THEN Upto(dir, Max(revision) - 1) ELSE <<>>

NoPrefix == [kind |-> "", name |-> <<>>, end |-> None]

Package(kind, name, end) ==
  IF name = <<>> THEN NoPrefix ELSE [kind |-> kind, name |-> name, end |-> end]

package(path, kind, at, end) ==
  Package(kind, IF end = None THEN <<>> ELSE package_name(SubSeq(path, at + 2, end)), end)

npm(path, at, first) ==
  LET end == IF first # None /\ At(path[at + 2]) THEN Next_segment(path, first) ELSE first
  IN Package("npm", IF end = None THEN <<>> ELSE SubSeq(path, at + 2, end), end)

RUBIES == {<<"ruby">>, <<"jruby">>, <<"truffleruby">>}

\* The package in the directory that is path's segment from start to end; next is where
\* the segment after it ends. A crate is below its registry's index.
PackageIn(path, start, end, next) ==
  LET directory == SubSeq(path, start + 1, end)
      in_registry == start >= 2 /\ path[start - 1] = "registry"
                     /\ (start = 2 \/ path[start - 2] = "/")
      gem == package(path, "gem", end, next)
  IN IF directory = <<"node_modules">> THEN npm(path, end, next)
     ELSE IF directory = <<"gems">> THEN IF gem.name \in RUBIES THEN NoPrefix ELSE gem
     ELSE IF directory = <<"src">> /\ in_registry
     THEN package(path, "crate", next, Next_segment(path, next))
     ELSE NoPrefix

Innermost(packages) ==
  LET found == {s \in DOMAIN packages : packages[s] # NoPrefix}
  IN IF found = {} THEN NoPrefix ELSE packages[Max(found)]

dependency(path) ==
  LET end(start) == segment_end(path, start)
  IN Innermost([s \in Starts(path) \ {Len(path)} |->
                  PackageIn(path, s, end(s), Next_segment(path, end(s)))])

-----------------------------------------------------------------------------
(* What a file is, by its name. *)

MANIFESTS == {<<"Gemfile">>, <<"Gemfile", ".", "lock">>}

\* "" when the name has no extension.
extension(name) ==
  LET dots == {i \in 2..(Len(name) - 1) : name[i] = "."}
  IN IF dots # {} /\ Max(dots) = Len(name) - 1 /\ (Word(Last(name)) \/ Last(name) \in Names)
     THEN Last(name) ELSE ""

ByExtension ==
  "gemspec" :> "manifest" @@ "sqlite" :> "database" @@ "db" :> "database"
    @@ "lock" :> "lock" @@ "pid" :> "lock" @@ "log" :> "log" @@ "erb" :> "view"
    @@ "haml" :> "view" @@ "yml" :> "config" @@ "yaml" :> "config"

NoFile == {"no file"}

\* A file's roles.
file_roles(name) ==
  LET ext == extension(name)
      by_name == IF name \in MANIFESTS THEN {"manifest"}
                 ELSE IF ext \in DOMAIN ByExtension THEN {ByExtension[ext]} ELSE {}
      env == IF name = <<".", "env">> \/ IsPrefix(<<".", "env", ".">>, name)
             THEN {"config"} ELSE {}
      test == IF \E t \in {"spec", "test"} : IsSuffix(<<"_", t, ".", "rb">>, name)
              THEN {"test"} ELSE {}
      roles == by_name \cup env \cup test
  IN IF ext # "" \/ roles # {} THEN roles ELSE NoFile

names_file(path) == file_roles(last_segment(path)) # NoFile

FileRoles(path) == file_roles(last_segment(path)) \ NoFile

\* The path below any / or ./ it starts with.
RECURSIVE Inner(_)
Inner(tail) ==
  IF IsPrefix(<<"/">>, tail) THEN Inner(From(tail, 1))
  ELSE IF IsPrefix(<<".", "/">>, tail) THEN Inner(From(tail, 2))
  ELSE tail

project_roles(tail) ==
  LET rest == Inner(tail)
      top == Upto(rest, segment_end(rest, 0))
  IN IF top \in {<<"spec">>, <<"test">>, <<"tests">>} THEN {"test"}
     ELSE IF top \in {<<"app">>, <<"lib">>, <<"src">>} THEN {"source"}
     ELSE IF top = <<"config">> THEN {"config"}
     ELSE IF top = <<"db">> /\ extension(last_segment(rest)) = "sql" THEN {"database"}
     ELSE {}

\* The roles of a path left as written; a route is none.
file_path_roles(path) ==
  IF path[1] = "/" \/ IsPrefix(<<".", ".">>, path) THEN FileRoles(path)
  ELSE FileRoles(path) \cup project_roles(path)

-----------------------------------------------------------------------------
(* Where a path lies. roots holds this machine's project, home and temp     *)
(* dir; <<>> is an unknown one.                                             *)

In(path, dir) == IF dir = <<>> THEN None ELSE under(path, dir)

\* The first of some offsets that is one.
First(offsets) ==
  LET found == {i \in DOMAIN offsets : offsets[i] # None}
  IN IF found = {} THEN None ELSE offsets[Min(found)]

home_len(path, roots) ==
  IF path # <<>> /\ path[1] = "~" THEN under(path, <<"~">>)
  ELSE LET linux == below(path, <<"/", "home">>, 1)
       IN First(<<In(path, roots.home), below(path, <<"/", "Users">>, 1),
                  IF linux < Len(path) /\ names_file(path) THEN linux ELSE None>>)

tmp_len(path, roots) ==
  LET folders(base) ==
        LET cache == below(path, base, 3)
        IN IF cache # None /\ path[cache] = "T" /\ path[cache - 1] = "/" THEN cache ELSE None
  IN First(<<In(path, roots.tmp), under(path, <<"/", "tmp">>),
             under(path, <<"/", "private", "/", "tmp">>),
             folders(<<"/", "var", "/", "folders">>),
             folders(<<"/", "private", "/", "var", "/", "folders">>)>>)

\* The project below a home, as a path of that home spells it.
InHome(roots) ==
  LET home == IF roots.project = <<>> THEN None ELSE home_len(roots.project, roots)
  IN IF home = None THEN <<>> ELSE From(roots.project, home)

Prefix(kind, end) ==
  IF end = None THEN NoPrefix ELSE [kind |-> kind, name |-> <<>>, end |-> end]

FirstPrefix(prefixes) ==
  LET found == SelectSeq(prefixes, LAMBDA prefix : prefix # NoPrefix)
  IN IF found = <<>> THEN NoPrefix ELSE Head(found)

\* Mutant: a home wins over the project in it.
canonical_HomeFirst(path, roots) ==
  FirstPrefix(<<dependency(path), Prefix("home", home_len(path, roots)),
                Prefix("root", In(path, roots.project)), Prefix("tmp", tmp_len(path, roots))>>)

\* A path's prefix, and where its tail starts. A vendored gem is the gem, and
\* another user's checkout at the same place of a home is the project.
canonical(path, roots) ==
  LET home == home_len(path, roots)
      in_home == IF home = None THEN None ELSE In(From(path, home), InHome(roots))
  IN FirstPrefix(<<dependency(path),
                   Prefix("root", In(path, roots.project)),
                   Prefix("root", IF in_home = None THEN None ELSE home + in_home),
                   Prefix("home", home),
                   Prefix("tmp", tmp_len(path, roots))>>)

roles(prefix, tail) ==
  IF prefix.kind \in {"gem", "crate", "npm"} THEN {"dependency"}
  ELSE IF prefix.kind = "tmp" THEN FileRoles(tail) \cup {"temp"}
  ELSE IF prefix.kind = "home" THEN FileRoles(tail)
  ELSE FileRoles(tail) \cup project_roles(tail)

\* Prefix::write.
Written(prefix) ==
  IF prefix.kind = "root" THEN <<"<root>">>
  ELSE IF prefix.kind = "home" THEN <<"~">>
  ELSE IF prefix.kind = "tmp" THEN <<"<tmp>">>
  ELSE <<"<" \o prefix.kind \o ":">> \o prefix.name \o <<">">>

\* An @ opens a segment; inside one it is an address.
ats_open_segments(path) ==
  \A i \in DOMAIN path : /\ path[i] \notin Emails
                         /\ path[i] \in Scopes => i = 1 \/ path[i - 1] = "/"

\* A name something generated.
is_generated(stem) ==
  \/ \E i \in DOMAIN stem : Digit(stem[i])
  \/ IsPrefix(<<"tmp", ".", "aBcDeFgHiJ">>, stem) \/ IsPrefix(<<".", "tmpaBcDeF">>, stem)

=============================================================================
