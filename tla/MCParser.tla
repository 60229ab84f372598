------------------------------ MODULE MCParser ------------------------------
(* Instances of the parser for TLC: which token sequences there are. *)
EXTENDS Parser

\* Everything that is short, of the tokens at which errors are recovered.
ShortTokens == {"type", "id", "=", "SEMICOLON", "LBRACE", "RBRACE", "bad"}
ShortInputs == [1 .. 4 -> ShortTokens]

\* Programs, and what becomes of them when one token is changed: left out,
\* put in or replaced.
Loop == <<"while", "LPAREN", "not", "id", "op", "lit", "RPAREN",
          "LBRACE", "type", "id", "=", "id", "op", "lit", "SEMICOLON",
          "print", "id", "SEMICOLON", "RBRACE">>
Branches == <<"if", "LPAREN", "LPAREN", "id", "RPAREN", "RPAREN",
              "LBRACE", "LBRACE", "RBRACE", "RBRACE",
              "else", "LBRACE", "type", "id", "SEMICOLON", "RBRACE",
              "id", "=", "lit", "SEMICOLON">>

Changed(s) ==
  LET cut(i, j, t) == SubSeq(s, 1, i) \o t \o SubSeq(s, j, Len(s))
      new == {<<t>> : t \in Tokens \cup {"bad"}}
  IN  {cut(i - 1, i + 1, << >>) : i \in DOMAIN s}
        \cup {cut(i, i + 1, t) : i \in 0 .. Len(s), t \in new}
        \cup {cut(i - 1, i + 1, t) : i \in DOMAIN s, t \in new}

ChangedInputs == Changed(Loop) \cup Changed(Branches)

\* A program of each kind of statement, with an error in it or none.
Plain == <<"LBRACE", "type", "id", "SEMICOLON", "id", "=", "lit", "op", "id", "SEMICOLON",
           "if", "LPAREN", "id", "RPAREN", "LBRACE", "RBRACE", "RBRACE",
           "print", "id", "SEMICOLON">>
FailureInputs ==
  {Plain, ReplaceAt(Plain, 3, "bad"), ReplaceAt(Plain, 7, "bad"),
   ReplaceAt(ReplaceAt(Plain, 6, "bad"), 9, "bad"),
   ReplaceAt(Plain, 15, "SEMICOLON")}

MCInputs == ShortInputs \cup ChangedInputs \cup FailureInputs

\* Two errors the second of which is none of the lexer's.
SilentInputs == {<<"type", "bad", "bad", "SEMICOLON", "type", "=", "SEMICOLON">>}
=============================================================================
