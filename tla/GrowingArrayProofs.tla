------------------------- MODULE GrowingArrayProofs -------------------------
(* Proofs about the arrays that double, for every width of size_t. *)
EXTENDS GrowingArray, TLAPS

(* A number below the modulus is its own remainder. *)
LEMMA SmallIsItself ==
  ASSUME NEW n \in 0 .. SizeMax
  PROVE  Wrapped(n) = n
  BY SizeAssumption DEF Wrapped

(* A number that passed the modulus once comes back lower by it. *)
LEMMA WrapsOnce ==
  ASSUME NEW n \in Nat, n > SizeMax, n < 2 * (SizeMax + 1)
  PROVE  Wrapped(n) = n - (SizeMax + 1)
  BY SizeAssumption DEF Wrapped

(* What is not above the quotient, times the divisor is not above the number. *)
LEMMA QuotientBound ==
  ASSUME NEW c \in Nat, ~CannotAllocate(c)
  PROVE  c * ElementSize <= SizeMax
<1> DEFINE q == SizeMax \div ElementSize
<1>1. q \in Nat /\ q * ElementSize <= SizeMax
  BY SizeAssumption
<1>2. c <= q
  BY <1>1, SizeAssumption DEF CannotAllocate
<1>3. c * ElementSize <= q * ElementSize
  BY <1>1, <1>2, SizeAssumption
<1> QED
  BY <1>1, <1>3, SizeAssumption

(* The guard of ast.c and parser.y and that of symbol_table.c and tac.c refuse
   the same capacities, whatever the width of size_t. *)
THEOREM GuardsAgree ==
  ASSUME NEW c \in 0 .. SizeMax
  PROVE  CannotDouble("before", c) <=> CannotDouble("after", c)
<1>1. CASE c = 0
  BY <1>1, SizeAssumption DEF CannotDouble, NewCapacity
<1>2. CASE c # 0 /\ c * 2 <= SizeMax
  <2>1. NewCapacity(c) = c * 2
    BY <1>2, SmallIsItself, SizeAssumption DEF NewCapacity
  <2> QED
    BY <1>2, <2>1, SizeAssumption DEF CannotDouble
<1>3. CASE c * 2 > SizeMax
  <2>1. c # 0 /\ NewCapacity(c) = c * 2 - (SizeMax + 1)
    BY <1>3, WrapsOnce, SizeAssumption DEF NewCapacity
  <2> QED
    BY <1>3, <2>1, SizeAssumption DEF CannotDouble
<1> QED
  BY <1>1, <1>2, <1>3, SizeAssumption

(* What is counted and what is allocated: the invariant of the array.  Inside
   says that no multiplication of the growth has wrapped around. *)
IInv == TypeOK /\ Inside

LEMMA InitInvariant == Init => IInv
  BY SizeAssumption DEF Init, IInv, TypeOK, Inside

(* Growing keeps the invariant: neither product wraps around. *)
LEMMA GrowthInvariant ==
  ASSUME IInv, NEW form \in Forms, GrowAndAppend(form)
  PROVE  IInv'
<1> DEFINE c == NewCapacity(capacity)
<1>1. capacity \in 0 .. SizeMax /\ count = capacity
  BY DEF IInv, TypeOK, GrowAndAppend
<1>2. ~CannotDouble("before", capacity)
  BY <1>1, GuardsAgree DEF GrowAndAppend, Forms
<1>3. c \in capacity + 1 .. SizeMax
  <2>1. CASE capacity = 0
    BY <2>1, SizeAssumption DEF NewCapacity
  <2>2. CASE capacity # 0
    <3>1. capacity * 2 \in 0 .. SizeMax
      BY <1>1, <1>2, SizeAssumption DEF CannotDouble
    <3> QED
      BY <1>1, <2>2, <3>1, SmallIsItself DEF NewCapacity
  <2> QED
    BY <2>1, <2>2
<1>4. c * ElementSize \in 0 .. SizeMax
  <2>1. ~CannotAllocate(c) /\ c \in Nat
    BY <1>1, <1>3, SizeAssumption DEF GrowAndAppend
  <2>2. c * ElementSize <= SizeMax
    BY <2>1, QuotientBound
  <2>3. c * ElementSize \in Nat
    BY <2>1, SizeAssumption
  <2> QED
    BY <2>2, <2>3, SizeAssumption
<1>5. capacity' = c /\ room' = c * ElementSize
  BY <1>4, SmallIsItself DEF GrowAndAppend
<1>6. count' = count + 1 /\ answer' = TRUE
  <2>1. count + 1 \in 0 .. SizeMax
    BY <1>1, <1>3, SizeAssumption
  <2> QED
    BY <2>1, SmallIsItself DEF GrowAndAppend, Store
<1> HIDE DEF c
<1> QED
  BY <1>1, <1>3, <1>4, <1>5, <1>6, SizeAssumption DEF IInv, TypeOK, Inside

(* Every step keeps the invariant. *)
LEMMA NextInvariant ==
  ASSUME IInv, [Next]_vars
  PROVE  IInv'
<1>1. CASE Append
  <2>1. count + 1 \in 0 .. SizeMax /\ count \in 0 .. capacity /\ count < capacity
    BY <1>1, SizeAssumption DEF IInv, TypeOK, Append
  <2>2. count' = count + 1 /\ answer' = TRUE
    BY <1>1, <2>1, SmallIsItself DEF Append, Store
  <2> QED
    BY <1>1, <2>1, <2>2, SizeAssumption DEF IInv, TypeOK, Inside, Append
<1>2. ASSUME NEW form \in Forms, GrowAndAppend(form)
      PROVE  IInv'
  BY <1>2, GrowthInvariant
<1>3. CASE Fail
  BY <1>3 DEF IInv, TypeOK, Inside, Fail
<1>4. CASE UNCHANGED vars
  BY <1>4 DEF IInv, TypeOK, Inside, vars
<1> QED
  BY <1>1, <1>2, <1>3, <1>4 DEF Next

(* The invariant holds at all times. *)
THEOREM GrowingArrayInvariant == Spec => []IInv
  BY InitInvariant, NextInvariant, PTL DEF Spec

(* The fields of an array are counts, and no more is stored than there is
   capacity for. *)
THEOREM GrowingArrayTypes == Spec => []TypeOK
<1>1. IInv => TypeOK
  BY DEF IInv
<1> QED
  BY <1>1, GrowingArrayInvariant, PTL

(* What is allocated is what the capacity says, for every width of size_t, every
   size of an element and every first capacity: growing never wraps around. *)
THEOREM AllocatedAsCounted == Spec => []Inside
<1>1. IInv => Inside
  BY DEF IInv
<1> QED
  BY <1>1, GrowingArrayInvariant, PTL

(* No number of elements comes near the end of size_t, so a counter that goes
   along with an array need not be checked: scope_count, next_scope_id, depth. *)
THEOREM CountersNeverWrap == Spec => []CountsTruly
<1>1. IInv => CountsTruly
  <2> SUFFICES ASSUME IInv, ElementSize > 1
               PROVE  count + 1 <= SizeMax
    BY DEF CountsTruly
  <2>1. /\ capacity \in Nat /\ count \in 0 .. capacity
        /\ capacity * ElementSize <= SizeMax
    BY DEF IInv, TypeOK, Inside
  <2>2. capacity * 2 <= capacity * ElementSize
    BY <2>1, SizeAssumption
  <2> QED
    BY <2>1, <2>2, SizeAssumption
<1> QED
  BY <1>1, GrowingArrayInvariant, PTL

(* No product and no counter wraps around, in arrays of any element size, on
   machines of any width. *)
THEOREM NeverWraps == Spec => []NothingWraps
<1>1. TypeOK /\ Inside /\ CountsTruly => NothingWraps
  BY DEF NothingWraps
<1> QED
  BY <1>1, GrowingArrayTypes, AllocatedAsCounted, CountersNeverWrap, PTL

(* In every state of an array it is all the same which form its guard has. *)
THEOREM FormsAlwaysAgree == Spec => []FormsAgree
<1>1. IInv => FormsAgree
  BY GuardsAgree DEF IInv, TypeOK, FormsAgree
<1> QED
  BY <1>1, GrowingArrayInvariant, PTL
=============================================================================
