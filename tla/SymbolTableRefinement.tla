----------------------- MODULE SymbolTableRefinement ------------------------
(***************************************************************************)
(* The symbol table implements the lexical scopes its header promises: the *)
(* stack is the chain of active frames, a closed scope is an inactive      *)
(* frame, and the loops of the searches are stutters that end in an answer. *)
(***************************************************************************)
EXTENDS SymbolTable

\* What a frame of table t and the list it owns amount to.
ScopeOf(t, s) ==
  [birth |-> t.frames[s].id,
   bound |-> [n \in Names |-> LET i == LookupInScope(t, s, n)
                              IN  IF i = Null THEN BadType
                                  ELSE t.symbols[i].type]]

ActiveAt(t, d) == CHOOSE s \in DOMAIN t.frames :
                    t.frames[s].active /\ t.frames[s].depth = d

OpenScopes(t) == [d \in 1 .. CurrentFrame(t).depth + 1 |->
                    ScopeOf(t, ActiveAt(t, d - 1))]

ClosedScopes(t) == {ScopeOf(t, s) : s \in {r \in DOMAIN t.frames :
                                             ~t.frames[r].active}}

\* The question that the last call was; a search for no name is none.
Asked ==
  LET question == CASE result.op = "lookup_current" -> "innermost"
                    [] result.op = "lookup_active" -> "open"
                    [] result.op = "lookup_history" -> "closed"
  IN  IF result.op \in Lookups /\ result.name # NoName
        THEN <<question, result.name>> ELSE <<"nothing">>

\* The symbol that the last call returned, as its scope and its type.
Answered ==
  IF result.symbol = Null
    THEN [birth |-> 0, type |-> BadType]
    ELSE [birth |-> table.symbols[result.symbol].scope_id,
          type  |-> table.symbols[result.symbol].type]

Scopes == INSTANCE LexicalScopes
            WITH Unbound <- BadType, open <- OpenScopes(table),
                 closed <- ClosedScopes(table), born <- table.next_scope_id,
                 asked <- Asked, answer <- Answered

\* The symbol table implements the lexical scopes.
ImplementsScopes == Scopes!Spec
=============================================================================
