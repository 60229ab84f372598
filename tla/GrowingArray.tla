---------------------------- MODULE GrowingArray ----------------------------
(***************************************************************************)
(* The arrays that double: the scopes of symbol_table.c, the instructions, *)
(* bindings and reserved names of tac.c, the statements of ast.c and of    *)
(* parser.y.  size_t wraps around after SizeMax.                           *)
(***************************************************************************)
EXTENDS Integers

CONSTANTS SizeMax,      \* SIZE_MAX
          ElementSize,  \* sizeof of an element
          Initial       \* the first capacity, 4 or 8

ASSUME SizeAssumption ==
  /\ SizeMax \in Nat
  /\ ElementSize \in 1 .. SizeMax
  /\ Initial \in 1 .. SizeMax

VARIABLES count, capacity,
          room,    \* how many bytes realloc was last asked for
          answer   \* of the last append

vars == <<count, capacity, room, answer>>

\* The type invariant.
TypeOK ==
  /\ capacity \in 0 .. SizeMax
  /\ count \in 0 .. capacity
  /\ room \in 0 .. SizeMax
  /\ answer \in BOOLEAN

Init == count = 0 /\ capacity = 0 /\ room = 0 /\ answer = TRUE

Wrapped(n) == n % (SizeMax + 1)

NewCapacity(c) == IF c = 0 THEN Initial ELSE Wrapped(c * 2)

\* The two forms of the guard: ast.c and parser.y look before they double,
\* symbol_table.c and tac.c see that the product has wrapped around.
Forms == {"before", "after"}

CannotDouble(form, c) ==
  \/ form = "before" /\ c > SizeMax \div 2
  \/ form = "after" /\ NewCapacity(c) < c

\* A variant of CannotAllocate that counts elements instead of bytes.
CannotCount(c) == c > SizeMax

CannotAllocate(c) == c > SizeMax \div ElementSize

Store == count' = Wrapped(count + 1) /\ answer' = TRUE

Append == count < capacity /\ Store /\ UNCHANGED <<capacity, room>>

\* There is memory for it, and realloc keeps what was there.
GrowAndAppend(form) ==
  /\ count = capacity
  /\ ~CannotDouble(form, capacity) /\ ~CannotAllocate(NewCapacity(capacity))
  /\ capacity' = NewCapacity(capacity)
  /\ room' = Wrapped(NewCapacity(capacity) * ElementSize)
  /\ Store

\* It is refused, or realloc fails.
Fail ==
  /\ count = capacity
  /\ answer' = FALSE
  /\ UNCHANGED <<count, capacity, room>>

Next == Append \/ (\E form \in Forms : GrowAndAppend(form)) \/ Fail

Spec == Init /\ [][Next]_vars

-----------------------------------------------------------------------------
(* Properties. *)

\* What was stored lies within what was allocated: no product of the growth
\* has wrapped around, at any size of the array.  (symbol_table.c:84-94.)
Inside == capacity * ElementSize = room

\* The array is refused before the number of its elements can wrap around: so
\* scope_count, next_scope_id and depth, of which none is checked, count truly.
\* (symbol_table.c:177-181; the elements are pointers, of several bytes.)
CountsTruly == ElementSize > 1 => count + 1 <= SizeMax

\* Neither a product nor a counter wraps around.
NothingWraps == TypeOK /\ Inside /\ CountsTruly

\* The two forms of the guard refuse the same.
FormsAgree == CannotDouble("before", capacity) <=> CannotDouble("after", capacity)
=============================================================================
