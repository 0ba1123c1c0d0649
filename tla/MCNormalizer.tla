----------------------------- MODULE MCNormalizer -----------------------------
(* Normalizer on short lines of every kind. *)
EXTENDS Normalizer

Marks == Seps \cup Others

\* Up to n lexemes, no two of them next to each other without a mark.
RECURSIVE Lines(_, _)
Lines(lexemes, n) ==
  IF n = 0 THEN {<<>>}
  ELSE LET shorter == Lines(lexemes, n - 1)
       IN shorter \cup {Append(t, x) : x \in lexemes \cap Marks, t \in shorter}
            \cup {Append(t, x) : x \in lexemes \ Marks,
                                 t \in {s \in shorter : s = <<>> \/ Last(s) \in Marks}}

Parts(heads, tails) == {h \o t : h \in heads, t \in tails}

laptop == [project |-> <<"/", "Users", "/", "dana", "/", "code", "/", "app">>,
           says |-> <<"~", "/", "code", "/", "app">>,
           home |-> <<"/", "Users", "/", "dana">>,
           tmp |-> <<"/", "var", "/", "folders", "/", "yr", "/", "s3", "/", "T">>]

ci == [project |-> <<"/", "home", "/", "runner", "/", "work", "/", "app", "/", "app">>,
       says |-> <<"/", "home", "/", "runner", "/", "work", "/", "app", "/", "app">>,
       home |-> <<"/", "home", "/", "runner">>,
       tmp |-> <<"/", "tmp">>]

docker == [project |-> <<"/", "tmp", "/", "s3">>,
           says |-> <<"/", "tmp", "/", "s3">>,
           home |-> <<"/", "root">>,
           tmp |-> <<"/", "private", "/", "tmp">>]

MCMachines == {laptop, ci, docker}

MCTexts ==
  \* Lists, units and ends of sentences.
  Lines({"7", "seconds", " ", ","}, 5) \cup Lines({"3ms", "7", " ", ","}, 4) \cup Lines({"7", "user", " ", ",", "."}, 4)
  \* What a token is, and how it is split.
    \cup Lines({"7", "s3", "-", "_", ":", "."}, 4)
    \cup Parts({<<>>, <<"user", "-">>, <<"12", " ">>, <<"2024", ":">>},
               Parts({<<"2024", "-", "12", "-", "12">>, <<"12", ":", "45", ":", "12">>,
                      <<"6513270e-269e-0d37-f2a7-4de452e6b438">>, <<"7", ".", "12", ".", "7">>,
                      <<"7", ".", "7", ".", "7", ".", "45">>, <<":", ":", "7">>, <<"a@b.co">>,
                      <<"user", ".", "0x7f1c">>, <<"v1", ".", "7">>, <<"6595e60af5">>},
                     {<<>>, <<".">>, <<"-", "user">>, <<"_", "7">>, <<"/", "user">>,
                      <<" ", "12", ":", "12", ":", "45", " ", "+", "2024">>,
                      <<" ", "2024", "-", "12", "-", "12", ".">>, <<" ", "UTC">>,
                      <<" ", "2024", "-", "12", "-", "45">>, <<"+", "12">>}))
  \* Quotes.
    \cup Lines({"'", "7", "=", " ", "\\", "IN"}, 4)
    \cup Lines({"\"", "7", "=", ">", ",", "]"}, 4)
    \cup Parts({<<"\"", "user", "\"", ":">>, <<"\"", ":", "esc">>},
               Lines({"\"", "user", ",", " ", "<TOKEN_1>"}, 4))
  \* Headers of syslog lines.
    \cup Parts({<<"esc">>, <<"Thu", " ">>, <<>>},
          Parts({<<"Sep", " ", "12", " ">>, <<"Sep", " ", " ", "7", " ">>, <<"Sep", " ", "45", " ">>,
                 <<"2024", "-", "12", "-", "12", " ">>},
          Parts({<<"12", ":", "45", ":", "12", " ">>, <<"12", ":", "45", " ">>},
                {<<"s3", " ", "user", " ", "app", "[", "7", "]", ":", " ", "7">>,
                 <<"s3", ".", "user", " ", "app", ":", "7">>,
                 <<"s3", " ", "-", "-", "-", " ", "last", " ", "7">>,
                 <<"user", " ", "[", "7", "]", ":">>, <<"user">>})))
  \* Paths.
    \cup Parts({<<>>, <<"db", "=">>, <<"12", ",", " ">>, <<"(">>, <<"-">>},
          Parts({<<"$root">>, <<"$home">>, <<"$tmp">>, <<"$root", "/", "tmp">>, <<"user">>, <<"/", "etc">>,
                 <<"$root", "/", "gems", "/", "rack", "-", "7", ".", "12">>,
                 <<"$home", "/", "gems", "/", "ruby", "-", "7", ".", "12">>,
                 <<"$home", "/", "registry", "/", "src", "/", "index", "/", "rack", "-", "7", ".", "7">>,
                 <<"node_modules", "/", "@babel", "/", "core">>,
                 <<"$tmp", "/", "user", "-", "7">>, <<"$tmp", "/", "tmp", ".", "aBcDeFgHiJ">>},
                {<<>>, <<"/">>, <<"/", "app">>, <<"-", "7">>, <<"/", "app", "/", "user", ".", "log">>,
                 <<"/", "spec", "/", "s3", "_", "spec", ".", "rb", ":", "7">>,
                 <<"/", "7">>, <<"/", "s3", ".", "db", " ", "7">>, <<"/", "Gemfile", ".">>,
                 <<"/", "user", "?", "7", "=", "7">>, <<"/", "a@b.co">>, <<"/", ".", "env">>}))
  \* A line more.
    \cup {<<"esc", "user", " ", "<", "<TOKEN_2>", " ", " ", "7", "esc", ",", "7", " ">>}

=============================================================================
