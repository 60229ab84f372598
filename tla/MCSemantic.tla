----------------------------- MODULE MCSemantic -----------------------------
(* Instances of the semantic analysis for TLC: which programs there are. *)
EXTENDS Semantic

CONSTANTS x, y

MCTypes == {"int", "float", "bool"}

Conditions == {If(TRUE), While, Block, EndBlock}

\* Names and blocks; one type, so that nothing else can be wrong.
ScopeVocabulary ==
  {Declaration(n, "int", i) : n \in {x, y}, i \in BOOLEAN}
    \cup {Identifier(n) : n \in {x, y}} \cup {PrintOf(x), Assignment(x)}
    \cup {Binary("+"), Block, EndBlock}

\* Types: one operator of each kind, a variable of each type.
TypeVocabulary ==
  {Declaration(x, ty, TRUE) : ty \in {"int", "bool"}}
    \cup {Literal(ty) : ty \in {"float", "bool"}}
    \cup {Identifier(x), Assignment(x), Unary}
    \cup {Binary(op) : op \in {"+", "%", "<", "==", "&&"}}

\* Every kind of statement, for failures at every point.
FailureVocabulary ==
  {Declaration(x, "int", i) : i \in BOOLEAN}
    \cup {Declaration(y, "bool", TRUE), PrintOf(y)}
    \cup {Identifier(x), Assignment(x), Literal("bool"), Binary("+"), Unary}
    \cup Conditions

MCVocabularies == {ScopeVocabulary, TypeVocabulary, FailureVocabulary}
=============================================================================
