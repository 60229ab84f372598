------------------------------ MODULE MCLexer -------------------------------
(* Instances of the scanner for TLC: short sources. *)
EXTENDS Lexer

Numbers == [1 .. 5 -> {"1", "9", ".", "e", "+", ";"}]
Layout == [1 .. 5 -> {"i", "f", "1", "/", "=", " ", "\r", "\n"}]

Fractions == [1 .. 5 -> {"0", "1", "9", ".", ";"}]

MCSources == Numbers \cup Layout \cup Fractions

\* What is read after another source: with an error, out of range, plain, two
\* numbers of which the first is too small.
MCLater == {<<"9", "9">>, <<"9", ".", ";", "1">>, <<"i", "\n", "f">>,
            <<"&", "&", "&", "a">>,
            <<"0", ".", "0", "1", ";", "0", ".", "0", ";", "1", ".", "1">>}
Nothing == {}

Float == {<<"1", ".", "9", "e", "1">>}
=============================================================================
