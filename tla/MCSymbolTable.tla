---------------------------- MODULE MCSymbolTable ----------------------------
(* Instances of the symbol table for TLC. *)
EXTENDS SymbolTableRefinement

CONSTANTS x, y

MCNames == {x, y}
=============================================================================
