------------------------------- MODULE MCIngest -------------------------------
(* Ingest with short inputs. *)
EXTENDS Ingest

Byte(kind, value) == [kind |-> kind, value |-> value]

x      == Byte("text", 1)
y      == Byte("text", 2)
token1 == Byte("token", 1)
token2 == Byte("token", 2)
begin  == Byte("BEGIN", 0)

MCRNG == <<1, 0, 2, 1, 0, 1, 2>>

MCOverflow == <<Byte("overflow", 0)>>

Upto(bytes, n) == UNION {[1..k -> bytes] : k \in 0..n}

Stream(stream, bytes) == [stream |-> stream, bytes |-> bytes]

Log(bytes) == [dir |-> FALSE, streams |-> <<Stream("stdout", bytes)>>,
               redact |-> "secrets", fails |-> 0]

Scenarios(streams, redacts, fails) ==
  [dir : {TRUE}, streams : streams, redact : redacts, fails : fails]

Outs(bytes) == {<<Stream("stdout", b)>> : b \in bytes}

MCInputs ==
  \* Streams: nothing, a behavior that comes back, and one more than are told apart.
  {Log(b) : b \in {<<>>, <<x, Newline, x>>, <<Newline, x, Newline, y>>,
                   <<x, x, x, Newline>>}}
  \* Lines of every length and ending, in a capture that fails, or not.
    \cup Scenarios(Outs(Upto({Newline, Return, x}, 4)), {"off"}, {0, 2})
  \* Credentials and addresses, more of them than are remembered.
    \cup Scenarios(Outs(Upto({Newline, token1, token2, Byte("address", 1)}, 4)), Modes, {0})
  \* Private keys that end, in a string, on another line, or never.
    \cup Scenarios(Outs({<<begin>> \o s :
                          s \in Upto({Newline, Byte("END", 0), Byte("quote", 0), x}, 4)}
                        \cup {<<begin, Newline, x, Newline, x, Newline, x, Newline>>}),
                   {"secrets"}, {0})
  \* Two streams, with values they share.
    \cup Scenarios({<<Stream("stdout", o), Stream("stderr", e)>> :
                     o \in {<<token1>>, <<token1, token2, Newline>>, <<x, Newline>>},
                     e \in {<<>>, <<token2>>, <<Newline, Byte("password", 1), token1>>}},
                   Modes, {0, 2})

=============================================================================
