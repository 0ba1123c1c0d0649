------------------------------ MODULE MCSources ------------------------------
(* Three commands in two directories, over three runs of each. *)
EXTENDS Sources

Streams == [example |-> "events", query |-> "log"]

AllRead == TOML([rspec |-> "true", rails_log |-> "true", typo |-> "false"])

Dir(git, manifest, config) == [git |-> git, manifest |-> manifest, config |-> config]

\* An application in its repository with a file above it, and no repository.
Directories ==
  {<<Dir(FALSE, FALSE, Absent), Dir(TRUE, TRUE, Absent), Dir(FALSE, FALSE, AllRead)>>,
   <<Dir(FALSE, FALSE, Absent), Dir(FALSE, TRUE, Absent)>>}

Commands == {<<"bundle", "exec", "rake", "spec:models">>, <<"rails", "test">>,
             <<"bundle", "install">>}

Configurations ==
  {NotTOML, AllRead, TOML([rspec |-> "false"]), TOML([rails_log |-> "false", rspec |-> "yes"])}
=============================================================================
