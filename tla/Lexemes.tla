------------------------------- MODULE Lexemes -------------------------------
(***************************************************************************)
(* What a token is taken for (normalize/recognize.rs). A line is a sequence *)
(* of lexemes: a run of letters, a number, or one other character. Of the   *)
(* tokens without inner structure that siftr tells apart there is one of    *)
(* each kind, and of numbers as many as their ranges distinguish.           *)
(***************************************************************************)
EXTENDS Integers, SequencesExt

Ints == {"7", "12", "45", "2024"}

TwoDigits  == {"12", "45"}
FourDigits == {"2024"}

\* duration_ms and size_bytes, of a unit written on to its number.
Attached == [x \in {"3ms", "2KB"} |-> IF x = "3ms" THEN "Duration" ELSE "Size"]

\* A unit that is a word of its own. A letter alone is none.
spaced_unit == [x \in {"seconds", "bytes"} |-> IF x = "seconds" THEN "Duration" ELSE "Size"]

Uuids     == {"6513270e-269e-0d37-f2a7-4de452e6b438"}
Hexes     == {"6595e60af5"}
Addresses == {"0x7f1c"}
Emails    == {"a@b.co"}
Scopes    == {"@babel"}      \* an @ that makes no address
V1        == {"v1"}
Names     == {"s3"}          \* a digit that makes no number

\* The classes of a token's bytes, for the table CLASS.
Digit(x) == x \in Ints \cup DOMAIN Attached \cup Uuids \cup Hexes \cup Addresses \cup V1 \cup Names
At(x)    == x \in Emails \cup Scopes

SEP_PATH  == {"/", "?", "&", "="}
SEP_COLON == {":"}
SEP_WORD  == {"-", "_", "+"}

Seps   == SEP_PATH \cup SEP_COLON \cup SEP_WORD \cup {"."}
Others == {" ", ",", "(", ")", "[", "]", "<", ">", "'", "\"", "\\", "~", "esc",
           "<TOKEN_1>", "<TOKEN_2>"}

Token(x)  == x \notin Others
Word(x)   == Token(x) /\ x \notin Seps /\ ~Digit(x) /\ ~At(x)
Alnum(x)  == Token(x) /\ x \notin Seps /\ ~At(x)

-----------------------------------------------------------------------------

\* t starts with k numbers joined by dots: 7.12.45 does for 1 to 3.
Dotted(t, k) ==
  /\ Len(t) >= 2 * k - 1
  /\ \A i \in 1..(2 * k - 1) : IF i % 2 = 1 THEN t[i] \in Ints ELSE t[i] = "."

Dots(t) == Max({0} \cup {k \in 1..Len(t) : Dotted(t, k)})

\* A number, or one with a unit attached; "None" otherwise.
number(t) ==
  LET whole == IF Len(t) = 3 /\ t[1] \in Ints /\ t[2] = "." THEN 3 ELSE 1
  IN IF whole # Len(t) THEN "None"
     ELSE IF t[whole] \in DOMAIN Attached THEN Attached[t[whole]]
     ELSE IF t[whole] \notin Ints THEN "None"
     ELSE IF whole = 3 THEN "Float" ELSE "Int"

\* A month is at most 12, a day 31, an hour 23 and a minute 59.
is_date(t) ==
  /\ Len(t) = 5
  /\ t[1] \in FourDigits /\ t[2] = "-" /\ t[3] = "12" /\ t[4] = "-" /\ t[5] = "12"

\* How much of t a zone such as +0000, -05 or +05:30 takes.
zone_len(t) ==
  IF Len(t) < 2 \/ t[1] \notin {"+", "-"} THEN 0
  ELSE IF Len(t) >= 4 /\ t[2] \in TwoDigits /\ t[3] = ":" /\ t[4] \in TwoDigits THEN 4
  ELSE IF t[2] \in TwoDigits \cup FourDigits THEN 2 ELSE 0

time_len(t) ==
  IF \/ Len(t) < 5 \/ t[1] # "12" \/ t[2] # ":" \/ t[3] \notin TwoDigits
     \/ t[4] # ":" \/ t[5] \notin TwoDigits
  THEN 0
  ELSE IF Len(t) >= 7 /\ t[6] = "." /\ t[7] \in Ints THEN 7 ELSE 5

is_time(t) ==
  LET n == time_len(t)
  IN n > 0 /\ n + zone_len(SubSeq(t, n + 1, Len(t))) = Len(t)

is_zone_word(t) == t = <<"UTC">> \/ (t # <<>> /\ zone_len(t) = Len(t))

is_timestamp(t) == is_date(t) \/ is_time(t)

is_ipv4(t) == Len(t) = 7 /\ Dotted(t, 4) /\ \A i \in 1..7 : t[i] \notin FourDigits

\* 1.2.3, 1.2.3-beta, and with a v before it 1.2.
is_version(t) ==
  LET prefixed == t[1] \in V1
      ints == Dots(IF prefixed THEN <<"12">> \o Tail(t) ELSE t)
      rest == SubSeq(t, 2 * ints, Len(t))
  IN /\ ints >= (IF prefixed THEN 2 ELSE 3)
     /\ \/ rest = <<>>
        \/ /\ Len(rest) > 1 /\ rest[1] \in {"-", "+", "."} /\ Alnum(rest[2])
           /\ rest[1] = "." => Word(rest[2]) \/ rest[2] \in Names
           /\ \A i \in DOMAIN rest : Alnum(rest[i]) \/ rest[i] \in {"-", "+", "."}

is_email(t) ==
  /\ Last(t) \in Emails
  /\ \A i \in 1..(Len(t) - 1) : Alnum(t[i]) \/ t[i] \in {".", "_", "+", "-"}

is_ipv6(t) ==
  LET colons == Len(SelectSeq(t, LAMBDA x : x = ":"))
      compressed == \E i \in 1..(Len(t) - 1) : t[i] = ":" /\ t[i + 1] = ":"
  IN /\ \A i \in DOMAIN t : t[i] \in Ints \cup {":"}
     /\ \E i \in DOMAIN t : t[i] \in Ints
     /\ colons = 7 \/ (compressed /\ colons \in 2..7)

\* What a run of token lexemes is as a whole, or "None".
recognize(t) ==
  LET signed == t[1] = "-"
      value == number(IF signed THEN Tail(t) ELSE t)
  IN IF signed /\ (Len(t) = 1 \/ t[2] \notin Ints \cup DOMAIN Attached) THEN "None"
     ELSE IF signed \/ value # "None" THEN value
     ELSE IF is_timestamp(t) THEN "Timestamp"
     ELSE IF is_ipv4(t) THEN "Ip"
     ELSE IF is_version(t) THEN "Version"
     ELSE IF Len(t) = 1 /\ t[1] \in Uuids THEN "Uuid"
     ELSE IF is_email(t) THEN "Email"
     ELSE IF is_ipv6(t) THEN "Ip"
     ELSE IF Len(t) = 1 /\ t[1] \in Hexes \cup Addresses THEN "Hex"
     ELSE "None"

=============================================================================
