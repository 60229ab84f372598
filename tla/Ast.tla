-------------------------------- MODULE Ast ---------------------------------
(***************************************************************************)
(* ast.c: the nodes on the heap, with the names and the arrays they own,   *)
(* allocation by allocation and free by free.                              *)
(*                                                                         *)
(* An address stands for a live allocation and can be used again once it   *)
(* was freed.  The client passes roots that it owns, each once; what a     *)
(* constructor refuses changes nothing and is no step.  Every allocation   *)
(* may fail.  ast_destroy calls itself: frames is its stack of calls.      *)
(***************************************************************************)
EXTENDS AstKinds, FiniteSets, SequencesExt

CONSTANTS Addresses,       \* what malloc can return
          Kinds,           \* the nodes that the client makes
          InitialCapacity  \* 4 in the code

ASSUME AddressesAssumption == Addresses \subseteq Nat \ {0} /\ IsFiniteSet(Addresses)
ASSUME KindsAssumption == Kinds \subseteq AllKinds
ASSUME CapacityAssumption == InitialCapacity \in Nat \ {0}

VARIABLES
  heap,    \* address -> node, text or array
  owned,   \* the nodes that the client has to destroy
  call,    \* the constructor or ast_add_statement that runs
  frames   \* the calls of ast_destroy: the node, how many of its children are done

vars == <<heap, owned, call, frames>>

Null == 0
Text == [kind |-> "text"]
Array == [kind |-> "array"]

\* children: the items of a list, or the pointers to the children in order.
Nodes == [kind : AllKinds, name : Addresses \cup {Null},
          children : Seq(Addresses \cup {Null}),
          array : Addresses \cup {Null}, capacity : Nat]

Idle == [op |-> "none"]
Calls == [op : {"new"}, kind : Kinds, arguments : Seq(owned \cup {Null}),
          text : DOMAIN heap \cup {Null}]
         \cup [op : {"add"}, container : owned, statement : owned]
         \cup {Idle}

\* The type invariant; a list holds no more than its array has room for.
TypeOK ==
  /\ DOMAIN heap \subseteq Addresses
  /\ \A a \in DOMAIN heap :
       \/ heap[a] \in {Text, Array}
       \/ /\ heap[a] \in Nodes
          /\ heap[a].kind \in Containers => Len(heap[a].children) <= heap[a].capacity
          /\ heap[a].capacity = 0 <=> heap[a].array = Null
  /\ owned \subseteq DOMAIN heap
  /\ call \in Calls
  /\ frames \in Seq([node : DOMAIN heap, done : Nat])

Init ==
  /\ heap = [a \in {} |-> Text]
  /\ owned = {}
  /\ call = Idle
  /\ frames = << >>

Ready == call = Idle /\ frames = << >>

Fresh == CHOOSE a \in Addresses : a \notin DOMAIN heap
HasRoom == DOMAIN heap # Addresses
Allocated(a, object) == [b \in DOMAIN heap \cup {a} |-> IF b = a THEN object ELSE heap[b]]
Freed(gone) == [b \in DOMAIN heap \ gone |-> heap[b]]

KindOf(a) == IF a = Null THEN "null" ELSE heap[a].kind
Count(a) == Len(heap[a].children)

-----------------------------------------------------------------------------
(* The constructors. *)

Distinct(s) == \A i, j \in DOMAIN s : s[i] = s[j] /\ s[i] # Null => i = j

New(kind, arguments) ==
  /\ Ready
  /\ Distinct(arguments)
  /\ Fit(kind, [i \in DOMAIN arguments |-> KindOf(arguments[i])])
  /\ call' = [op |-> "new", kind |-> kind, arguments |-> arguments, text |-> Null]
  /\ UNCHANGED <<heap, owned, frames>>

NeedsText == call.op = "new" /\ call.kind \in Named /\ call.text = Null

\* copy_text
CopyText ==
  /\ NeedsText
  /\ \/ /\ HasRoom
        /\ heap' = Allocated(Fresh, Text)
        /\ call' = [call EXCEPT !.text = Fresh]
     \/ /\ call' = Idle
        /\ UNCHANGED heap
  /\ UNCHANGED <<owned, frames>>

\* A variant of NewNode that takes the children in another order.
NewNodeReversed(c) ==
  [kind |-> c.kind, name |-> c.text, children |-> Reverse(c.arguments),
   array |-> Null, capacity |-> 0]

NewNode(c) ==
  [kind |-> c.kind, name |-> c.text, children |-> c.arguments,
   array |-> Null, capacity |-> 0]

\* A variant of Abandoned that forgets the copied name.
AbandonedName(c) == {}

\* What is freed when there is no memory for the node.
Abandoned(c) == {c.text}

AllocateNode ==
  /\ call.op = "new" /\ ~NeedsText
  /\ \/ /\ HasRoom
        /\ heap' = Allocated(Fresh, NewNode(call))
        /\ owned' = (owned \ Range(call.arguments)) \cup {Fresh}
     \/ /\ heap' = Freed(Abandoned(call))
        /\ UNCHANGED owned
  /\ call' = Idle
  /\ UNCHANGED frames

-----------------------------------------------------------------------------
(* ast_add_statement, append_to_list *)

AddStatement(container, statement) ==
  /\ Ready
  /\ container # statement
  /\ KindOf(container) \in Containers /\ KindOf(statement) \in Statements
  /\ call' = [op |-> "add", container |-> container, statement |-> statement]
  /\ UNCHANGED <<heap, owned, frames>>

IsFull(a) == Count(a) = heap[a].capacity

\* realloc leaves the array where it is or moves it, or it fails.
Grow ==
  /\ call.op = "add"
  /\ LET c == call.container
         list == heap[c]
         grown(a) == [list EXCEPT !.array = a,
                                  !.capacity = IF @ = 0 THEN InitialCapacity ELSE @ * 2]
     IN  /\ IsFull(c)
         /\ \/ /\ list.array # Null
               /\ heap' = [heap EXCEPT ![c] = grown(list.array)]
               /\ UNCHANGED call
            \/ /\ HasRoom
               /\ heap' = [b \in (DOMAIN heap \ {list.array}) \cup {Fresh} |->
                             IF b = Fresh THEN Array
                             ELSE IF b = c THEN grown(Fresh) ELSE heap[b]]
               /\ UNCHANGED call
            \/ /\ call' = Idle
               /\ UNCHANGED heap
  /\ UNCHANGED <<owned, frames>>

Store ==
  /\ call.op = "add"
  /\ ~IsFull(call.container)
  /\ heap' = [heap EXCEPT ![call.container].children = Append(@, call.statement)]
  /\ owned' = owned \ {call.statement}
  /\ call' = Idle
  /\ UNCHANGED frames

-----------------------------------------------------------------------------
(* ast_destroy, destroy_list *)

\* The name is freed before any child is destroyed.
Entered(a) == [node |-> a, done |-> 0]
FreedName(a) == Freed({heap[a].name})

Destroy(a) ==
  /\ Ready
  /\ a \in owned
  /\ owned' = owned \ {a}
  /\ frames' = <<Entered(a)>>
  /\ heap' = FreedName(a)
  /\ UNCHANGED call

Frame == Last(frames)
Children == heap[Frame.node].children

\* A variant of DestroyChild that does not get past a child that is NULL.
DestroyChildOnce ==
  /\ frames # << >>
  /\ Frame.done < Len(Children)
  /\ LET child == Children[Frame.done + 1]
         next == [frames EXCEPT ![Len(frames)].done = @ + 1]
     IN  IF child = Null
         THEN UNCHANGED <<heap, frames>>
         ELSE /\ heap' = FreedName(child)
              /\ frames' = Append(next, Entered(child))
  /\ UNCHANGED <<owned, call>>

DestroyChild ==
  /\ frames # << >>
  /\ Frame.done < Len(Children)
  /\ LET child == Children[Frame.done + 1]
         next == [frames EXCEPT ![Len(frames)].done = @ + 1]
     IN  IF child = Null
         THEN /\ frames' = next
              /\ UNCHANGED heap
         ELSE /\ heap' = FreedName(child)
              /\ frames' = Append(next, Entered(child))
  /\ UNCHANGED <<owned, call>>

\* The children are gone: the array goes, and the node.
Leave ==
  /\ frames # << >>
  /\ Frame.done = Len(Children)
  /\ heap' = Freed({heap[Frame.node].array, Frame.node})
  /\ frames' = Front(frames)
  /\ UNCHANGED <<owned, call>>

-----------------------------------------------------------------------------
Step == CopyText \/ AllocateNode \/ Grow \/ Store \/ DestroyChild \/ Leave

Next ==
  \/ \E kind \in Kinds : \E arguments \in [DOMAIN Slots(kind) -> owned \cup {Null}] :
       New(kind, arguments)
  \/ \E container, statement \in owned : AddStatement(container, statement)
  \/ \E a \in owned : Destroy(a)
  \/ Step

Spec == Init /\ [][Next]_vars

\* A call that was made runs on.
FairSpec == Spec /\ WF_vars(Step)

-----------------------------------------------------------------------------
(* Properties. *)

IsNode(a) == heap[a].kind \in AllKinds

\* How many children of a node were destroyed, and whether its name was freed.
Entering(a) == \E i \in DOMAIN frames : frames[i].node = a
Gone(a) == IF Entering(a) THEN (CHOOSE f \in Range(frames) : f.node = a).done ELSE 0

\* Who has to free what: <<owner, place, address>>; the client and the running
\* calls are owner 0.
Claims ==
  LET nodes == {a \in DOMAIN heap : IsNode(a)}
      children == UNION {{<<a, i, heap[a].children[i]>> : i \in Gone(a) + 1 .. Count(a)} :
                           a \in nodes}
      names == {<<a, -1, heap[a].name>> : a \in {b \in nodes : ~Entering(b)}}
      arrays == {<<a, -2, heap[a].array>> : a \in nodes}
      roots == {<<0, -3, a>> : a \in owned}
      running == {<<0, i, frames[i].node>> : i \in DOMAIN frames}
      texts == IF call.op = "new" THEN {<<0, -4, call.text>>} ELSE {}
      all == children \cup names \cup arrays \cup roots \cup running \cup texts
  IN  {c \in all : c[3] # Null}

\* At every moment everything that is allocated has one owner, and nobody has
\* a pointer that he will still use to something that was freed.  So nothing
\* is freed twice, nothing is lost when an allocation fails, and the client
\* owns what he owned before.  (ast.h: ownership remains with the caller.)
OwnedOnce ==
  /\ {c[3] : c \in Claims} = DOMAIN heap
  /\ \A c, d \in Claims : c[3] = d[3] => c = d

\* A node has the children that its readers (semantic.c, tac.c, ast_print.c)
\* take for granted without a look at their kinds, until it is destroyed.
ChildrenFit ==
  \A a \in {b \in DOMAIN heap : IsNode(b) /\ ~Entering(b)} :
    LET kind == heap[a].kind
        kindOf(i) == KindOf(heap[a].children[i])
    IN  /\ kind \in Containers => \A i \in 1 .. Count(a) : kindOf(i) \in Statements
        /\ kind \in {"if", "while"} =>
             /\ kindOf(1) \in Expressions /\ kindOf(2) = "block"
             /\ \A i \in 3 .. Count(a) : kindOf(i) \in {"block", "null"}
        /\ kind \notin Containers \cup {"if", "while"} =>
             \A i \in 1 .. Count(a) :
               kindOf(i) \in Expressions \/ (kindOf(i) = "null" /\ kind = "declaration")

\* When the client has destroyed all that he owned there is nothing left.
NothingRemains == Ready /\ owned = {} => DOMAIN heap = {}

\* What is allocated has one owner at each moment, and none at the end.
Ownership == TypeOK /\ OwnedOnce /\ NothingRemains

\* A call comes to its end; that of ast_destroy although it calls itself.
CallsReturn == ~Ready ~> Ready
=============================================================================
