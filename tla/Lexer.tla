------------------------------- MODULE Lexer --------------------------------
(***************************************************************************)
(* lexer.l and the scanner that Flex makes of it: of the rules that match  *)
(* at the present place one with the longest match is taken, the first of  *)
(* them.                                                                   *)
(*                                                                         *)
(* A source is a sequence of characters, written as strings; "r" and "n"   *)
(* with a backslash are the carriage return and the newline.  yylex is     *)
(* called again and again, and one match is one step.  What happens when   *)
(* the text of an identifier cannot be copied is in module Parser.         *)
(***************************************************************************)
EXTENDS Integers, SequencesExt, FiniteSetsExt

CONSTANTS Sources,      \* what is read first
          Later,        \* what can be read after another source
          MaxRestarts,  \* how often lexer_set_input is called again
          MaxInteger,   \* LLONG_MAX
          Places,       \* after the point, of the smallest normal double
          MaxFloat      \* DBL_MAX, in units of the last of these places

ASSUME SourcesAssumption == Sources # {} /\ IsFiniteSet(Later)
ASSUME BoundsAssumption == MaxRestarts \in Nat
ASSUME RangesAssumption == MaxInteger \in Nat /\ Places \in Nat /\ MaxFloat \in Nat

VARIABLES
  source, at,   \* the place of the next character
  yylineno,
  errno,
  lexical_error_count,
  tokens,       \* what yylex has returned
  ended, calls  \* of lexer_set_input

vars == <<source, at, yylineno, errno, lexical_error_count, tokens, ended, calls>>

-----------------------------------------------------------------------------
(* The patterns. *)

Digits == <<"0", "1", "2", "3", "4", "5", "6", "7", "8", "9">>
Letters == {"a", "e", "f", "i"}  \* those that are used
Keywords == {<<"i", "f">>}

All(s, characters) == s # << >> /\ Range(s) \subseteq characters
IsInteger(s) == All(s, Range(Digits))

\* What is before and after a c in s.
Cuts(s, c) ==
  {[before |-> SubSeq(s, 1, i - 1), after |-> SubSeq(s, i + 1, Len(s))] :
     i \in {k \in DOMAIN s : s[k] = c}}

IsExponent(s) == \/ IsInteger(s)
                 \/ s # << >> /\ s[1] \in {"+", "-"} /\ IsInteger(Tail(s))

\* In the order of the file.  Every other character is a rule of its own.
Rules == <<"keyword", "exponent", "trailing_dot", "leading_dot", "float", "integer",
           "identifier", "double", "single", "comment", "blank", "newline", "invalid">>

\* A variant of Matches where the carriage return is not blank.
MatchesUnix(rule, s) ==
  CASE rule = "keyword" -> s \in Keywords
    [] rule = "exponent" -> \E u \in Cuts(s, "e") : IsInteger(u.before) /\ IsExponent(u.after)
    [] rule = "trailing_dot" -> \E u \in Cuts(s, ".") : IsInteger(u.before) /\ u.after = << >>
    [] rule = "leading_dot" -> \E u \in Cuts(s, ".") : u.before = << >> /\ IsInteger(u.after)
    [] rule = "float" -> \E u \in Cuts(s, ".") : IsInteger(u.before) /\ IsInteger(u.after)
    [] rule = "integer" -> IsInteger(s)
    [] rule = "identifier" -> All(s, Range(Digits) \cup Letters) /\ s[1] \in Letters
    [] rule = "double" -> s \in {<<"=", "=">>, <<"&", "&">>}
    [] rule = "single" -> s \in {<<"+">>, <<"-">>, <<"/">>, <<"=">>, <<";">>}
    [] rule = "comment" -> /\ Len(s) >= 2 /\ s[1] = "/" /\ s[2] = "/"
                           /\ \A i \in DOMAIN s : s[i] \notin {"\r", "\n"}
    [] rule = "blank" -> All(s, {" "})
    [] rule = "newline" -> s = <<"\n">>
    [] rule = "invalid" -> Len(s) = 1 /\ s[1] # "\n"

Matches(rule, s) ==
  CASE rule = "keyword" -> s \in Keywords
    [] rule = "exponent" -> \E u \in Cuts(s, "e") : IsInteger(u.before) /\ IsExponent(u.after)
    [] rule = "trailing_dot" -> \E u \in Cuts(s, ".") : IsInteger(u.before) /\ u.after = << >>
    [] rule = "leading_dot" -> \E u \in Cuts(s, ".") : u.before = << >> /\ IsInteger(u.after)
    [] rule = "float" -> \E u \in Cuts(s, ".") : IsInteger(u.before) /\ IsInteger(u.after)
    [] rule = "integer" -> IsInteger(s)
    [] rule = "identifier" -> All(s, Range(Digits) \cup Letters) /\ s[1] \in Letters
    [] rule = "double" -> s \in {<<"=", "=">>, <<"&", "&">>}
    [] rule = "single" -> s \in {<<"+">>, <<"-">>, <<"/">>, <<"=">>, <<";">>}
    [] rule = "comment" -> /\ Len(s) >= 2 /\ s[1] = "/" /\ s[2] = "/"
                           /\ \A i \in DOMAIN s : s[i] \notin {"\r", "\n"}
    [] rule = "blank" -> All(s, {" ", "\r"})
    [] rule = "newline" -> s = <<"\n">>
    [] rule = "invalid" -> Len(s) = 1 /\ s[1] # "\n"

Lexeme(s, i, n) == SubSeq(s, i, i + n - 1)
Lengths(s, i) ==
  {n \in 1 .. Len(s) - i + 1 : \E rule \in Range(Rules) : Matches(rule, Lexeme(s, i, n))}

RuleOf(text) == Rules[Min({k \in DOMAIN Rules : Matches(Rules[k], text)})]

\* What is matched at i.
Match(s, i) ==
  LET text == Lexeme(s, i, Max(Lengths(s, i)))
  IN  [rule |-> RuleOf(text), text |-> text]

Silent == {"comment", "blank", "newline"}
Unsupported == {"exponent", "trailing_dot", "leading_dot", "invalid"}

\* The value of digits.
Value(s) == FoldLeft(LAMBDA v, c : 10 * v + (CHOOSE d \in 0 .. 9 : Digits[d + 1] = c),
                     0, s)

-----------------------------------------------------------------------------
(* The scanner. *)

Token(kind, text, value) ==
  [kind |-> kind, text |-> text, value |-> value, line |-> yylineno, at |-> at]

Kinds == (Range(Rules) \ (Silent \cup Unsupported)) \cup {"undef", "end"}

\* The type invariant.
TypeOK ==
  /\ source = << >> \/ source \in Sources \cup Later
  /\ at \in 1 .. Len(source) + 1
  /\ yylineno \in Nat /\ errno \in {"0", "ERANGE"}
  /\ lexical_error_count \in Nat
  /\ \A i \in DOMAIN tokens : /\ tokens[i].kind \in Kinds /\ tokens[i].line \in Nat
                              /\ tokens[i].value \in 0 .. Max({MaxInteger, MaxFloat})
  /\ ended \in BOOLEAN
  /\ calls \in 0 .. MaxRestarts + 1

Init ==
  /\ source = << >>
  /\ at = 1 /\ yylineno = 1 /\ errno = "0"
  /\ lexical_error_count = 0
  /\ tokens = << >> /\ ended = TRUE /\ calls = 0

\* A variant of SetInput that keeps the line.
SetInputSameLine(s) ==
  /\ calls <= MaxRestarts
  /\ calls' = calls + 1
  /\ source' = s /\ at' = 1
  /\ lexical_error_count' = 0
  /\ tokens' = << >> /\ ended' = FALSE
  /\ UNCHANGED <<yylineno, errno>>

\* lexer_set_input, whether or not the last source was read to its end.
SetInput(s) ==
  /\ calls <= MaxRestarts
  /\ calls' = calls + 1
  /\ source' = s /\ at' = 1
  /\ yylineno' = 1
  /\ lexical_error_count' = 0
  /\ tokens' = << >> /\ ended' = FALSE
  /\ UNCHANGED errno

Take(rules) ==
  /\ at <= Len(source)
  /\ Match(source, at).rule \in rules
  /\ at' = at + Len(Match(source, at).text)
  /\ UNCHANGED <<source, ended, calls>>

Matched == Match(source, at)
Return(kind, value) == tokens' = Append(tokens, Token(kind, Matched.text, value))

ReturnWord ==
  /\ Take({"keyword", "identifier", "double", "single"})
  /\ Return(Matched.rule, 0)
  /\ UNCHANGED <<yylineno, errno, lexical_error_count>>

\* report_invalid_token
Report == /\ Return("undef", 0)
          /\ lexical_error_count' = lexical_error_count + 1

ReturnInvalid ==
  /\ Take(Unsupported)
  /\ Report
  /\ UNCHANGED <<yylineno, errno>>

\* strtoll, and strtod with so many places for its precision.
Converted(s) ==
  IF IsInteger(s) THEN Value(s)
  ELSE LET point == SelectInSeq(s, LAMBDA c : c = ".")
           padded == s \o [k \in 1 .. Places |-> "0"]
       IN  Value(SubSeq(s, 1, point - 1) \o SubSeq(padded, point + 1, point + Places))

IsZero(s) == Range(s) \subseteq {"0", "."}

\* They set errno when the number is too large, strtod also when it is so small
\* that it comes to nothing, and leave it alone otherwise.
OutOfRange(s) ==
  IF IsInteger(s) THEN Converted(s) > MaxInteger
  ELSE Converted(s) > MaxFloat \/ (Converted(s) = 0 /\ ~IsZero(s))

\* A variant of ReturnNumber that does not clear errno first.
ReturnNumberStale ==
  /\ Take({"integer", "float"})
  /\ errno' = IF OutOfRange(Matched.text) THEN "ERANGE" ELSE errno
  /\ IF errno' = "ERANGE"
     THEN Report
     ELSE /\ Return(Matched.rule, Converted(Matched.text))
          /\ UNCHANGED lexical_error_count
  /\ UNCHANGED yylineno

\* return_integer_literal, return_float_literal
ReturnNumber ==
  /\ Take({"integer", "float"})
  /\ errno' = IF OutOfRange(Matched.text) THEN "ERANGE" ELSE "0"
  /\ IF errno' = "ERANGE"
     THEN Report
     ELSE /\ Return(Matched.rule, Converted(Matched.text))
          /\ UNCHANGED lexical_error_count
  /\ UNCHANGED yylineno

Skip ==
  /\ Take(Silent)
  /\ yylineno' = IF Matched.rule = "newline" THEN yylineno + 1 ELSE yylineno
  /\ UNCHANGED <<errno, lexical_error_count, tokens>>

ReturnEnd ==
  /\ at > Len(source) /\ ~ended
  /\ tokens' = Append(tokens, Token("end", << >>, 0))
  /\ ended' = TRUE
  /\ UNCHANGED <<source, at, yylineno, errno, lexical_error_count, calls>>

yylex == ReturnWord \/ ReturnInvalid \/ ReturnNumber \/ Skip \/ ReturnEnd

Next ==
  \/ yylex
  \/ \E s \in IF calls = 0 THEN Sources ELSE Later : SetInput(s)

Spec == Init /\ [][Next]_vars

-----------------------------------------------------------------------------
(* Properties. *)

\* What yylex returns for a source that is read from the start.
Scan(s) ==
  LET scan[i \in 1 .. Len(s) + 1, line \in 1 .. Len(s) + 1] ==
        IF i > Len(s) THEN << >>
        ELSE LET m == Match(s, i)
                 after == i + Len(m.text)
             IN  CASE m.rule = "newline" -> scan[after, line + 1]
                   [] m.rule \in Silent \ {"newline"} -> scan[after, line]
                   [] OTHER -> <<[text |-> m.text, line |-> line]>> \o scan[after, line]
  IN  scan[1, 1]

Texts == [i \in 1 .. Len(tokens) - 1 |-> [text |-> tokens[i].text, line |-> tokens[i].line]]

\* The line of a token, of an error and of the end is the line of the file it
\* is in, whatever was skipped before it and whatever was read before this
\* source.  (yylineno; LANGUAGE_SPEC.md 2.1.)
LinesTrue ==
  \A i \in DOMAIN tokens :
    tokens[i].line = 1 + Cardinality({k \in 1 .. tokens[i].at - 1 : source[k] = "\n"})

\* Every error was answered by one token YYUNDEF, and none of another source
\* is counted: what parser.y derives from lexer_error_count.
ErrorsCounted ==
  lexical_error_count = Cardinality({i \in DOMAIN tokens : tokens[i].kind = "undef"})

\* Lines, errors and tokens are those of this source.
OfThisSource == TypeOK /\ LinesTrue /\ ErrorsCounted

\* A source with CRLF for every newline gives the same tokens on the same
\* lines, comments included.  (ARCHITECTURE.md: LF counts once for both.)
EndsOfLine ==
  LET crlf == FlattenSeq([i \in DOMAIN source |->
                            IF source[i] = "\n" THEN <<"\r", "\n">> ELSE <<source[i]>>])
  IN  ended => Scan(crlf) = Texts

\* A number has the value that is written, or it is an error: it is neither
\* saturated nor flushed to zero, and not blamed for the one before it, whose
\* errno is still set.  (D-408 of DECISIONS.md.)
ValuesExact ==
  \A i \in DOMAIN tokens :
    LET t == tokens[i]
    IN  /\ t.kind = "integer" => t.value = Value(t.text) /\ t.value <= MaxInteger
        /\ t.kind = "float" => /\ t.value = Converted(t.text) /\ t.value <= MaxFloat
                              /\ t.value = 0 <=> IsZero(t.text)
        /\ t.kind = "undef" /\ (IsInteger(t.text) \/ Matches("float", t.text)) =>
             OutOfRange(t.text)

-----------------------------------------------------------------------------
(* What the documents say, and the code does not do. *)

\* No number in exponent form is taken for a float and something after it.
\* (LANGUAGE_SPEC.md 2.2; the pattern for exponents has no dot.)
ExponentsDiagnosed ==
  \A i \in DOMAIN tokens :
    LET t == tokens[i]
        IsMantissa(s) == Matches("integer", s) \/ Matches("float", s)
    IN  t.kind \in {"integer", "float"} =>
          ~\E n \in 1 .. Len(source) - t.at + 1 :
             \E u \in Cuts(Lexeme(source, t.at, n), "e") :
               IsMantissa(u.before) /\ IsExponent(u.after)
=============================================================================
