------------------------------ MODULE Grammar -------------------------------
(***************************************************************************)
(* The language of parser.y, as a set of token sequences: what a program   *)
(* is, without a parser.  The three type keywords are one token here, the  *)
(* literals another, the binary operators that can be chained another: how *)
(* operators group, and which cannot be chained, is the matter of module   *)
(* Expressions.  The productions with the error token are not part of the  *)
(* language.                                                               *)
(***************************************************************************)
EXTENDS Integers, Sequences, FiniteSets

Tokens == {"type", "if", "else", "while", "print", "id", "lit", "op", "not",
           "=", "LBRACE", "RBRACE", "LPAREN", "RPAREN", "SEMICOLON"}

\* An expression is known by its neighbours, and by its parentheses: what ends
\* an operand is followed by an operator, anything else by an operand.
BeginsOperand == {"id", "lit", "not", "LPAREN"}
EndsOperand == {"id", "lit", "RPAREN"}

MayFollow(a, b) ==
  IF a \in EndsOperand THEN b \in {"op", "RPAREN"} ELSE b \in BeginsOperand

Balanced(s) ==
  LET open(i) == Cardinality({k \in 1 .. i : s[k] = "LPAREN"})
                 - Cardinality({k \in 1 .. i : s[k] = "RPAREN"})
  IN  open(Len(s)) = 0 /\ \A i \in DOMAIN s : open(i) >= 0

IsExpression(s) ==
  /\ s # << >>
  /\ s[1] \in BeginsOperand /\ s[Len(s)] \in EndsOperand
  /\ \A i \in 1 .. Len(s) - 1 : MayFollow(s[i], s[i + 1])
  /\ Balanced(s)

\* The statements that end in a semicolon: declaration, assignment, print.
IsSimple(s) ==
  LET n == Len(s)
      from(i) == IsExpression(SubSeq(s, i, n - 1))
  IN  /\ n >= 3 /\ s[n] = "SEMICOLON"
      /\ \/ s = <<"type", "id", "SEMICOLON">>
         \/ s = <<"print", "id", "SEMICOLON">>
         \/ s[1] = "type" /\ s[2] = "id" /\ s[3] = "=" /\ from(4)
         \/ s[1] = "id" /\ s[2] = "=" /\ from(3)

\* list[i, j]: the tokens from i to j are a sequence of statements.
IsProgram(s) ==
  LET list[i \in 1 .. Len(s) + 1, j \in 0 .. Len(s)] ==
        LET block(a, b) == /\ a < b
                           /\ s[a] = "LBRACE" /\ s[b] = "RBRACE"
                           /\ list[a + 1, b - 1]
            \* a keyword and its condition, from a to c
            head(keyword, a, c) == /\ a + 3 <= c
                                   /\ s[a] = keyword
                                   /\ s[a + 1] = "LPAREN" /\ s[c] = "RPAREN"
                                   /\ IsExpression(SubSeq(s, a + 2, c - 1))
            statement(a, b) ==
              \/ IsSimple(SubSeq(s, a, b))
              \/ block(a, b)
              \/ \E c \in a .. b - 1 :
                   \/ head("while", a, c) /\ block(c + 1, b)
                   \/ /\ head("if", a, c)
                      /\ \/ block(c + 1, b)
                         \/ \E e \in c + 1 .. b - 1 : /\ s[e] = "else"
                                                      /\ block(c + 1, e - 1)
                                                      /\ block(e + 1, b)
        IN  i > j \/ \E k \in i .. j : statement(i, k) /\ list[k + 1, j]
  IN  s # << >> /\ list[1, Len(s)]
=============================================================================
