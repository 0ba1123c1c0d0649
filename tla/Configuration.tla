----------------------------- MODULE Configuration -----------------------------
(***************************************************************************)
(* Where a run happens, and what its configuration says (project.rs and    *)
(* config.rs): the project the working directory lies in, the nearest       *)
(* .siftr.toml no higher than that project, and the user's own file, which  *)
(* settles what the project's leaves unset.                                 *)
(*                                                                         *)
(* A working directory is the sequence of the directories from it upwards.  *)
(* A file is absent, is not TOML, or gives each source it names a value,    *)
(* which may be no boolean.                                                 *)
(***************************************************************************)
EXTENDS Integers, Sequences, SequencesExt

SOURCES == {"rspec", "rails_log", "rusage"}

Absent == [toml |-> FALSE, there |-> FALSE]
NotTOML == [toml |-> FALSE, there |-> TRUE]
TOML(values) == [toml |-> TRUE, there |-> TRUE, values |-> values]

\* The first place of dirs with the property, or none.
Nearest(dirs, Has(_)) == {i \in DOMAIN dirs : Has(dirs[i]) /\ \A j \in 1..(i - 1) : ~ Has(dirs[j])}

\* The nearest directory with a manifest inside the repository, else the working one.
root_of(dirs) ==
  LET repo == Nearest(dirs, LAMBDA d : d.git)
      inside == {i \in DOMAIN dirs : \E r \in repo : i <= r}
      first == Nearest(SubSeq(dirs, 1, IF inside = {} THEN 0 ELSE CHOOSE r \in repo : TRUE),
                       LAMBDA d : d.manifest)
  IN IF first = {} THEN 1 ELSE CHOOSE i \in first : TRUE

\* The nearest configuration file from the working directory to the project.
project_file(dirs) ==
  LET found == Nearest(SubSeq(dirs, 1, root_of(dirs)), LAMBDA d : d.config.there)
  IN IF found = {} THEN Absent ELSE dirs[CHOOSE i \in found : TRUE].config

\* What a file sets: a value that is not true or false, or of no source, sets nothing.
Settings(file) ==
  LET named == IF file.toml
               THEN {name \in DOMAIN file.values \cap SOURCES : file.values[name] \in {"true", "false"}}
               ELSE {}
  IN [name \in named |-> file.values[name] = "true"]

\* The first file to set a source wins; a source no file sets is on.
read(paths) ==
  [name \in SOURCES |->
     LET set == Nearest(paths, LAMBDA f : name \in DOMAIN Settings(f))
     IN IF set = {} THEN TRUE ELSE Settings(paths[CHOOSE i \in set : TRUE])[name]]

load(dirs, user) == read(<<project_file(dirs), user>>)
=============================================================================
