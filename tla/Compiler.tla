------------------------------ MODULE Compiler ------------------------------
(***************************************************************************)
(* The phases that follow parsing, one after the other, as a driver runs   *)
(* them: semantic_analyze, and tac_generate on the same tree if and only   *)
(* if the analysis answered SUCCESS.  Each phase builds a symbol table of  *)
(* its own; nothing but the tree is handed on, and what the generator      *)
(* takes for granted of it the analysis has to have checked.               *)
(*                                                                         *)
(* The analysis chooses the program as it goes, so that the generator is   *)
(* given every accepted program within the bound.                          *)
(***************************************************************************)
EXTENDS Source, ScopeTable, SequencesExt

CONSTANTS Vocabularies, Failures, MaxVisits, SizeMax

\* What the phases assume.
ASSUME TypesAssumption == Types = {"int", "float", "bool"}
ASSUME NamesAssumption ==
  \A n \in Names : n \in {n[1]} \X Nat /\ n[1] \notin {"1", ""}
ASSUME VocabulariesAssumption == \A V \in Vocabularies : V \subseteq Visits
ASSUME FailuresAssumption == Failures \subseteq {"allocation", "output"}
ASSUME BoundsAssumption == MaxVisits \in Nat /\ SizeMax \in Nat \ {0}

VARIABLES
  ast, todo, operands, context, status,       \* of the analysis
  program, next, tacTodo, tacOperands, tacContext, code, tacStatus, output

semanticVars == <<ast, todo, operands, context, status>>
tacVars == <<program, next, tacTodo, tacOperands, tacContext, code, tacStatus, output>>
vars == <<semanticVars, tacVars>>

Semantic == INSTANCE Semantic
Tac == INSTANCE Tac WITH Programs <- Seq(Visits), todo <- tacTodo,
                         operands <- tacOperands, context <- tacContext,
                         status <- tacStatus

Init == Semantic!Init /\ Tac!Init

Analyze ==
  /\ Semantic!VisitNode \/ Semantic!Finish \/ Semantic!End
  /\ UNCHANGED tacVars

\* The driver is done with a program, or gave up on it, and is called on another.
Begin ==
  /\ Semantic!Begin
  /\ \/ Tac!Destroy
     \/ /\ status # "SUCCESS" /\ tacStatus = "none"
        /\ UNCHANGED tacVars

\* The gate between the phases.
HandOver ==
  /\ status = "SUCCESS"
  /\ Tac!Begin(ast) \/ Tac!BeginFails(ast)
  /\ UNCHANGED semanticVars

Generate ==
  /\ Tac!Step
  /\ UNCHANGED semanticVars

Next == Begin \/ Analyze \/ HandOver \/ Generate

Spec == Init /\ [][Next]_vars

-----------------------------------------------------------------------------
\* The numbers of temporaries or those of labels are used up.
Exhausted == \/ Tac!Temporaries(tacContext) = {}
             \/ tacContext.next_label + 1 >= SizeMax

\* What the analysis accepts the generator never finds amiss: it takes for
\* granted that names resolve and that no scope declares a name twice, and
\* turns any lapse into INTERNAL_ERROR (tac.c:300, :306, :775, :794).
AcceptedIsGenerated ==
  tacStatus = "INTERNAL_ERROR" => Exhausted

\* The storage of the declaration that n denotes at position p of the text.
StorageOf(n, p) ==
  LET d == Denoted(ast, n, p)
  IN  Tac!StorageName(n, Ordinal(ast, BlockAt(ast, d)))

\* Where the text of the program uses a name, the generator uses the storage
\* of the declaration that the name denotes there: the scope IDs it counts
\* again tell apart the declarations of one name in several blocks.
\* (resolve_storage_name at an identifier, an assignment and a print.)
UsesDenoted ==
  tacStatus = "running" /\ next > 1 =>
    LET p == next - 1
        v == ast[p]
    IN  /\ v.kind = "identifier" /\ tacOperands # << >>
             => Last(tacOperands) = StorageOf(v.name, p)
        /\ v.kind = "assignment" /\ Tac!At("assignment")
             => Last(tacTodo).target = StorageOf(v.name, p)
        /\ v.kind = "print" /\ Tac!At("list")
             => Last(code).first = StorageOf(v.name, p)

\* The generator ends with the table that the analysis ended with: the same
\* scopes with the same IDs, and the same symbols in the same scopes.
SameScopes ==
  tacStatus = "SUCCESS" => tacContext.symbols = context.symbols

\* Two declarations never share their storage, and a temporary is never the
\* storage of a declaration, of one that is still to come either, nor used
\* twice: not even when the program has global variables called t1 or t2.
\* (reserve_global_storage_names, make_temporary, make_storage_name.)
TextsDistinct ==
  tacStatus \in {"running", "SUCCESS"} =>
    LET storages == {Tac!StorageName(ast[d].name, Ordinal(ast, BlockAt(ast, d))) :
                       d \in {e \in DOMAIN ast : Declares(ast[e])}}
        defines(i) == code[i].kind \in {"UNARY", "BINARY"}
        bindings == tacContext.bindings
    IN  /\ \A i, j \in DOMAIN bindings :
             bindings[i].storage = bindings[j].storage => i = j
        /\ \A i \in DOMAIN code : defines(i) => code[i].result \notin storages
        /\ \A i, j \in DOMAIN code :
             defines(i) /\ defines(j) /\ code[i].result = code[j].result => i = j

\* The program that is handed out is a whole one: every print, every operator,
\* every value that is stored and every condition has its instruction, also
\* when memory ran out on the way to it, and then there is no program.
\* (Every status is looked at before the next part is generated.)
WholeProgram ==
  output # << >> =>
    LET visits(S) == Cardinality({p \in DOMAIN ast : ast[p].kind \in S})
        instructions(kind) == Cardinality({i \in DOMAIN code : code[i].kind = kind})
        initialized == Cardinality({d \in DOMAIN ast : Declares(ast[d])
                                                       /\ ast[d].initialized})
    IN  /\ instructions("PRINT") = visits({"print"})
        /\ instructions("UNARY") = visits({"unary"})
        /\ instructions("BINARY") = visits({"binary"})
        /\ instructions("ASSIGNMENT") = visits({"assignment"}) + initialized
        /\ instructions("JUMP_IF_FALSE") = visits({"if", "while"})
=============================================================================
