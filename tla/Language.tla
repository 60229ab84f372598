------------------------------ MODULE Language ------------------------------
(* What the phases of the compiler share: names and value types. *)

CONSTANTS Names,  \* the identifiers a source program uses
          Types   \* the value types (value_type.h)
=============================================================================
