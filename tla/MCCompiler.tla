----------------------------- MODULE MCCompiler -----------------------------
(* Instances of the compiler for TLC: which programs there are. *)
EXTENDS Compiler

MCTypes == {"int", "float", "bool"}

\* A variable that is called like the first temporary, and another one.
t1 == <<"t", 1>>
x == <<"x", 0>>
MCNames == {t1, x}

\* Names in blocks.
ScopeVocabulary ==
  {Declaration(n, "int", i) : n \in MCNames, i \in BOOLEAN}
    \cup {Literal("int"), Identifier(t1), Identifier(x), Binary("+")}
    \cup {PrintOf(x), Assignment(t1), Block, EndBlock}

\* A little of everything, for failures at every point.
FailureVocabulary ==
  {Declaration(x, "int", FALSE), Declaration(x, "bool", TRUE)}
    \cup {Literal("bool"), Identifier(x), Unary, Binary("+")}
    \cup {PrintOf(x), Assignment(x), If(FALSE), While, Block, EndBlock}

MCVocabularies == {ScopeVocabulary, FailureVocabulary}
=============================================================================
