------------------------------- MODULE MCSuite -------------------------------
(* Suite with two examples of one file, one of them unnamed and one from a     *)
(* shared group, and with a query whose binds vary in number.                 *)
EXTENDS Suite

Example(n, unnamed, file) ==
  [id |-> [file |-> "a_spec", n |-> n], file_path |-> file, unnamed |-> unnamed,
   group |-> IF unnamed THEN "unnamed" ELSE "named"]

MCExamples == {Example(1, FALSE, "shared"), Example(2, TRUE, "a_spec")}

Line(text, points_at) == [text |-> text, points_at |-> points_at]

MCOutside ==
  {[context |-> [text |-> "while loading", loading |-> "a_spec"], class |-> "SyntaxError",
    message |-> <<Line("unexpected", NoExample), Line("| ^", ""), Line("| ^~ end", "end")>>]}

Query(name, sql, asks) == [name |-> name, sql |-> sql, asks |-> asks]

MCStatements ==
  {Query("Load", <<"in", "$n">>, "load"), Query("Load", <<"in", "?", ",", "$n", ",", "?">>, "load"),
   Query("TRANSACTION", <<"begin">>, "transaction")}

MCDrawn == <<1, 0, 2, 1, 0, 1, 2, 0>>

MCOverflow == <<"overflow">>

Processes == Permutations(Workers)
=============================================================================
