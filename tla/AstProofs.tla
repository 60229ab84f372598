----------------------------- MODULE AstProofs ------------------------------
(***************************************************************************)
(* Whatever fails, whatever grows and whatever is destroyed, each          *)
(* allocation of ast.c has one owner, and the nodes have the children that *)
(* their readers take for granted: for all Addresses, Kinds and capacities.*)
(*                                                                         *)
(* Claims is a set of triples.  The proof reads it as a relation between   *)
(* the two ends of a pointer, Holds, and shows for each action which       *)
(* pointers it takes away and which it makes.                              *)
(***************************************************************************)
EXTENDS Ast, SequenceTheorems, TLAPS

-----------------------------------------------------------------------------
(* Definitions. *)

NodeIn(h, a) == a \in DOMAIN h /\ h[a].kind \in AllKinds
EnteredIn(f, a) == \E k \in DOMAIN f : f[k].node = a

\* The pointers that will be used again.  h is the heap, w what the client
\* owns, t the text of the call and f the frames.
HoldsChild(h, f, o, p, x) ==
  /\ NodeIn(h, o)
  /\ p \in 1 .. Len(h[o].children)
  /\ \A k \in DOMAIN f : f[k].node = o => f[k].done < p
  /\ x = h[o].children[p]
HoldsName(h, f, o, p, x) ==
  NodeIn(h, o) /\ ~EnteredIn(f, o) /\ p = -1 /\ x = h[o].name
HoldsArray(h, o, p, x) == NodeIn(h, o) /\ p = -2 /\ x = h[o].array
HoldsRoot(w, o, p, x) == o = 0 /\ p = -3 /\ x \in w
HoldsText(t, o, p, x) == o = 0 /\ p = -4 /\ x = t
HoldsFrame(f, o, p, x) == o = 0 /\ p \in DOMAIN f /\ x = f[p].node

Holds(h, w, t, f, o, p, x) ==
  /\ x # Null
  /\ \/ HoldsChild(h, f, o, p, x)
     \/ HoldsName(h, f, o, p, x)
     \/ HoldsArray(h, o, p, x)
     \/ HoldsRoot(w, o, p, x)
     \/ HoldsText(t, o, p, x)
     \/ HoldsFrame(f, o, p, x)

\* Who holds something is the only one, it is allocated, and nothing that is
\* allocated is held by nobody.
HeldOnce(h, w, t, f) ==
  /\ \A o, p, x : Holds(h, w, t, f, o, p, x) => x \in DOMAIN h
  /\ \A x \in DOMAIN h : \E o, p : Holds(h, w, t, f, o, p, x)
  /\ \A o, p, q, r, x : Holds(h, w, t, f, o, p, x) /\ Holds(h, w, t, f, q, r, x)
                          => o = q /\ p = r

\* What is held as a node is one, what is held as a name is a text.
AsHeld(h, w, t, f, o, p, x) ==
  /\ HoldsChild(h, f, o, p, x) => h[x].kind \in AllKinds
  /\ HoldsName(h, f, o, p, x) => h[x] = Text
  /\ HoldsArray(h, o, p, x) => h[x] = Array
  /\ HoldsRoot(w, o, p, x) => h[x].kind \in AllKinds
  /\ HoldsText(t, o, p, x) => h[x] = Text
  /\ HoldsFrame(f, o, p, x) => h[x].kind \in AllKinds
HeldAs(h, w, t, f) ==
  \A o, p, x : Holds(h, w, t, f, o, p, x) => AsHeld(h, w, t, f, o, p, x)

\* Among any nodes there is one that is no child of another: there is no cycle.
Rooted(h, f) ==
  \A S \in SUBSET DOMAIN h : S # {} =>
    \E a \in S : \A b, p : b \in S => ~HoldsChild(h, f, b, p, a)

\* The node a has children that its readers accept.
KindIn(h, a) == IF a = Null THEN "null" ELSE h[a].kind
Fits(h, a) ==
  LET n == Len(h[a].children)
      kindOf(i) == KindIn(h, h[a].children[i])
  IN  /\ h[a].kind \in Containers => \A i \in 1 .. n : kindOf(i) \in Statements
      /\ h[a].kind \in {"if", "while"} =>
           /\ n >= 2
           /\ kindOf(1) \in Expressions /\ kindOf(2) = "block"
           /\ \A i \in 3 .. n : kindOf(i) \in {"block", "null"}
      /\ h[a].kind \notin Containers \cup {"if", "while"} =>
           \A i \in 1 .. n :
             kindOf(i) \in Expressions \/ (kindOf(i) = "null" /\ h[a].kind = "declaration")
AllFit(h, f) == \A a : NodeIn(h, a) /\ ~EnteredIn(f, a) => Fits(h, a)

\* The arguments of the call that runs are those that were accepted, and only
\* one of a constructor, ast_add_statement and ast_destroy runs.
Accepted ==
  /\ call # Idle => frames = << >>
  /\ call.op = "new" =>
       /\ Distinct(call.arguments)
       /\ Fit(call.kind, [i \in DOMAIN call.arguments |-> KindOf(call.arguments[i])])
       /\ DOMAIN call.arguments = DOMAIN Slots(call.kind)
       /\ call.text # Null => call.kind \in Named
  /\ call.op = "add" =>
       /\ call.container # call.statement
       /\ KindOf(call.container) \in Containers /\ KindOf(call.statement) \in Statements

TextOf(c) == IF c.op = "new" THEN c.text ELSE Null

IInv ==
  /\ TypeOK
  /\ Accepted
  /\ HeldOnce(heap, owned, TextOf(call), frames)
  /\ HeldAs(heap, owned, TextOf(call), frames)
  /\ Rooted(heap, frames)
  /\ AllFit(heap, frames)

-----------------------------------------------------------------------------
(* What the types say. *)

\* What an address may stand for.
ObjectOK(o) ==
  \/ o \in {Text, Array}
  \/ /\ o \in Nodes
     /\ o.kind \in Containers => Len(o.children) <= o.capacity
     /\ o.capacity = 0 <=> o.array = Null
HeapOK(h) == DOMAIN h \subseteq Addresses /\ \A a \in DOMAIN h : ObjectOK(h[a])
FramesOK(h, f) == f \in Seq([node : DOMAIN h, done : Nat])

LEMMA TypesOfParts ==
  TypeOK <=> /\ HeapOK(heap)
             /\ owned \subseteq DOMAIN heap
             /\ call \in Calls
             /\ FramesOK(heap, frames)
  BY DEF TypeOK, HeapOK, ObjectOK, FramesOK

\* No node is a text, an array or a pointer that is NULL.
LEMMA KindsOfNodes ==
  /\ Text.kind \notin AllKinds /\ Array.kind \notin AllKinds /\ "null" \notin AllKinds
  /\ Text # Array
  /\ \A n \in Nodes : n # Text /\ n # Array
  <1>1. Text.kind = "text" /\ Array.kind = "array"
    BY DEF Text, Array
  <1>2. \A k \in AllKinds : k # "text" /\ k # "array" /\ k # "null"
    BY DEF AllKinds, Expressions, Literals, Statements, Containers
  <1>3. \A n \in Nodes : n.kind \in AllKinds
    BY DEF Nodes
  <1> QED BY <1>1, <1>2, <1>3

LEMMA NodeFields ==
  ASSUME NEW o, ObjectOK(o), o.kind \in AllKinds
  PROVE  /\ o \in Nodes
         /\ o.children \in Seq(Addresses \cup {Null})
         /\ Len(o.children) \in Nat /\ DOMAIN o.children = 1 .. Len(o.children)
         /\ o.name \in Addresses \cup {Null} /\ o.array \in Addresses \cup {Null}
         /\ o.capacity \in Nat
         /\ o.kind \in Containers => Len(o.children) <= o.capacity
         /\ o.capacity = 0 <=> o.array = Null
  <1>1. o \in Nodes
    BY KindsOfNodes DEF ObjectOK
  <1>2. o \notin {Text, Array}
    BY KindsOfNodes
  <1> QED BY <1>1, <1>2 DEF ObjectOK, Nodes

\* An address is not NULL.
LEMMA NullIsNoAddress == Null \notin Addresses
  BY AddressesAssumption DEF Null

LEMMA FreshIsFree ==
  ASSUME HeapOK(heap), HasRoom
  PROVE  Fresh \in Addresses /\ Fresh \notin DOMAIN heap /\ Fresh # Null
  <1>1. \E a \in Addresses : a \notin DOMAIN heap
    BY DEF HasRoom, HeapOK
  <1> QED BY <1>1, NullIsNoAddress DEF Fresh

LEMMA CallOfType ==
  ASSUME TypeOK
  PROVE  /\ call.op \in {"new", "add", "none"}
         /\ call.op = "none" <=> call = Idle
         /\ call.op = "new" =>
              /\ call = [op |-> "new", kind |-> call.kind,
                         arguments |-> call.arguments, text |-> call.text]
              /\ call.kind \in Kinds
              /\ call.arguments \in Seq(owned \cup {Null})
              /\ call.text \in DOMAIN heap \cup {Null}
         /\ call.op = "add" =>
              /\ call.container \in owned /\ call.statement \in owned
  <1>1. \/ call \in [op : {"new"}, kind : Kinds, arguments : Seq(owned \cup {Null}),
                     text : DOMAIN heap \cup {Null}]
        \/ call \in [op : {"add"}, container : owned, statement : owned]
        \/ call = Idle
    BY DEF TypeOK, Calls
  <1>2. Idle.op = "none"
    BY DEF Idle
  <1> QED BY <1>1, <1>2

LEMMA FrameOfType ==
  ASSUME NEW h, NEW f, FramesOK(h, f)
  PROVE  /\ Len(f) \in Nat /\ DOMAIN f = 1 .. Len(f)
         /\ \A k \in DOMAIN f : f[k].node \in DOMAIN h /\ f[k].done \in Nat
                                /\ f[k] = [node |-> f[k].node, done |-> f[k].done]
  <1> DEFINE F == [node : DOMAIN h, done : Nat]
  <1>1. f \in Seq(F)
    BY DEF FramesOK
  <1>2. \A r \in F : /\ r.node \in DOMAIN h /\ r.done \in Nat
                     /\ r = [node |-> r.node, done |-> r.done]
    OBVIOUS
  <1> HIDE DEF F
  <1>3. \A k \in DOMAIN f : f[k] \in F
    BY <1>1
  <1> QED BY <1>1, <1>2, <1>3

-----------------------------------------------------------------------------
(* Claims as a relation. *)

Held(o, p, x) == Holds(heap, owned, TextOf(call), frames, o, p, x)

\* A node is in at most one frame, so Gone is what that frame has done.
LEMMA FramesApart ==
  ASSUME NEW h, NEW w, NEW t, NEW f, HeapOK(h), FramesOK(h, f), HeldOnce(h, w, t, f)
  PROVE  \A i, j \in DOMAIN f : f[i].node = f[j].node => i = j
  <1> SUFFICES ASSUME NEW i \in DOMAIN f, NEW j \in DOMAIN f, f[i].node = f[j].node
               PROVE  i = j
    OBVIOUS
  <1>1. f[i].node # Null
    BY FrameOfType, NullIsNoAddress DEF HeapOK
  <1>2. /\ Holds(h, w, t, f, 0, i, f[i].node)
        /\ Holds(h, w, t, f, 0, j, f[i].node)
    BY <1>1 DEF Holds, HoldsFrame
  <1> QED BY <1>2 DEF HeldOnce

LEMMA GoneIsDone ==
  ASSUME FramesOK(heap, frames),
         \A i, j \in DOMAIN frames : frames[i].node = frames[j].node => i = j,
         NEW a
  PROVE  /\ Gone(a) \in Nat
         /\ \A p \in Nat : p > Gone(a) <=>
              p > 0 /\ \A k \in DOMAIN frames : frames[k].node = a => frames[k].done < p
  <1>1. CASE Entering(a)
    <2>1. PICK k \in DOMAIN frames : frames[k].node = a
      BY <1>1 DEF Entering
    <2>2. \A g \in Range(frames) : g.node = a => g = frames[k]
      BY <2>1 DEF Range
    <2>3. frames[k] \in Range(frames)
      BY <2>1 DEF Range
    <2>4. Gone(a) = frames[k].done
      BY <1>1, <2>1, <2>2, <2>3 DEF Gone
    <2>5. \A j \in DOMAIN frames : frames[j].node = a => j = k
      BY <2>1
    <2>6. frames[k].done \in Nat
      BY <2>1, FrameOfType
    <2> QED BY <2>1, <2>4, <2>5, <2>6
  <1>2. CASE ~Entering(a)
    BY <1>2 DEF Gone, Entering
  <1> QED BY <1>1, <1>2

LEMMA ClaimsAreHeld ==
  ASSUME TypeOK, \A i, j \in DOMAIN frames : frames[i].node = frames[j].node => i = j
  PROVE  \A c : c \in Claims <=> \E o, p, x : c = <<o, p, x>> /\ Held(o, p, x)
  <1> DEFINE nodes == {a \in DOMAIN heap : IsNode(a)}
             children == UNION {{<<a, i, heap[a].children[i]>> : i \in Gone(a) + 1 .. Count(a)} :
                                  a \in nodes}
             names == {<<a, -1, heap[a].name>> : a \in {b \in nodes : ~Entering(b)}}
             arrays == {<<a, -2, heap[a].array>> : a \in nodes}
             roots == {<<0, -3, a>> : a \in owned}
             running == {<<0, i, frames[i].node>> : i \in DOMAIN frames}
             texts == IF call.op = "new" THEN {<<0, -4, call.text>>} ELSE {}
             all == children \cup names \cup arrays \cup roots \cup running \cup texts
  <1>1. \A a : a \in nodes <=> NodeIn(heap, a)
    BY DEF IsNode, NodeIn
  <1>2. \A o, p, x : <<o, p, x>> \in children <=> HoldsChild(heap, frames, o, p, x)
    <2>1. \A a : NodeIn(heap, a) => Len(heap[a].children) \in Nat
      BY TypesOfParts, NodeFields DEF HeapOK, NodeIn
    <2>2. \A a : Gone(a) \in Nat /\ \A p \in Nat : p > Gone(a) <=>
                 p > 0 /\ \A k \in DOMAIN frames : frames[k].node = a => frames[k].done < p
      BY TypesOfParts, GoneIsDone
    <2>3. \A a : NodeIn(heap, a) => \A p :
            p \in Gone(a) + 1 .. Count(a) <=>
              /\ p \in 1 .. Len(heap[a].children)
              /\ \A k \in DOMAIN frames : frames[k].node = a => frames[k].done < p
      <3> SUFFICES ASSUME NEW a, NodeIn(heap, a), NEW p
                   PROVE  p \in Gone(a) + 1 .. Count(a) <=>
                            /\ p \in 1 .. Len(heap[a].children)
                            /\ \A k \in DOMAIN frames : frames[k].node = a => frames[k].done < p
        OBVIOUS
      <3> DEFINE n == Len(heap[a].children)
                 g == Gone(a)
                 Past == \A k \in DOMAIN frames : frames[k].node = a => frames[k].done < p
      <3>1. n \in Nat /\ g \in Nat /\ Count(a) = n
        BY <2>1, <2>2 DEF Count
      <3>2. p \in Nat => (p > g <=> p > 0 /\ Past)
        BY <2>2
      <3> HIDE DEF n, g, Past
      <3>3. p \in g + 1 .. n <=> p \in 1 .. n /\ Past
        BY <3>1, <3>2
      <3> QED BY <3>1, <3>3 DEF n, g, Past
    <2>4. \A o, p, x : <<o, p, x>> \in children <=>
            o \in nodes /\ p \in Gone(o) + 1 .. Count(o) /\ x = heap[o].children[p]
      <3> DEFINE Of(a) == {<<a, i, heap[a].children[i]>> : i \in Gone(a) + 1 .. Count(a)}
      <3>1. \A c : c \in children <=> \E a \in nodes : c \in Of(a)
        BY Zenon
      <3>2. \A a, o, p, x : <<o, p, x>> \in Of(a) <=>
              o = a /\ p \in Gone(a) + 1 .. Count(a) /\ x = heap[a].children[p]
        OBVIOUS
      <3> HIDE DEF children, nodes, Of
      <3> SUFFICES ASSUME NEW o, NEW p, NEW x
                   PROVE  <<o, p, x>> \in children <=>
                            o \in nodes /\ p \in Gone(o) + 1 .. Count(o) /\ x = heap[o].children[p]
        OBVIOUS
      <3> DEFINE c == <<o, p, x>>
      <3>3. c \in children <=> \E a \in nodes : c \in Of(a)
        BY <3>1
      <3>4. \A a : c \in Of(a) <=>
              o = a /\ p \in Gone(a) + 1 .. Count(a) /\ x = heap[a].children[p]
        BY <3>2
      <3> HIDE DEF c
      <3> QED BY <3>3, <3>4 DEF c
    <2> HIDE DEF children, nodes
    <2> QED BY <1>1, <2>3, <2>4 DEF HoldsChild
  <1>3. \A o, p, x : <<o, p, x>> \in names <=> HoldsName(heap, frames, o, p, x)
    BY <1>1 DEF HoldsName, EnteredIn, Entering
  <1>4. \A o, p, x : <<o, p, x>> \in arrays <=> HoldsArray(heap, o, p, x)
    BY <1>1 DEF HoldsArray
  <1>5. \A o, p, x : <<o, p, x>> \in roots <=> HoldsRoot(owned, o, p, x)
    BY DEF HoldsRoot
  <1>6. \A o, p, x : <<o, p, x>> \in running <=> HoldsFrame(frames, o, p, x)
    BY DEF HoldsFrame
  <1>7. \A o, p, x : x # Null =>
          (<<o, p, x>> \in texts <=> HoldsText(TextOf(call), o, p, x))
    BY DEF HoldsText, TextOf
  <1>8. \A c \in all : \E o, p, x : c = <<o, p, x>>
    <2>1. \A c \in children : \E o, p, x : c = <<o, p, x>>
      OBVIOUS
    <2>2. \A c \in names \cup arrays \cup roots \cup running \cup texts :
            \E o, p, x : c = <<o, p, x>>
      OBVIOUS
    <2> QED BY <2>1, <2>2
  <1>9. Claims = {c \in all : c[3] # Null}
    BY DEF Claims
  <1> HIDE DEF children, names, arrays, roots, running, texts
  <1>10. \A o, p, x : <<o, p, x>> \in all /\ x # Null <=> Held(o, p, x)
    BY <1>2, <1>3, <1>4, <1>5, <1>6, <1>7 DEF Held, Holds
  <1>11. \A o, p, x : <<o, p, x>>[3] = x
    OBVIOUS
  <1> HIDE DEF all
  <1> QED BY <1>8, <1>9, <1>10, <1>11

-----------------------------------------------------------------------------
(* What the invariant implies. *)

LEMMA InvOwnedOnce ==
  ASSUME IInv
  PROVE  OwnedOnce
  <1>1. /\ TypeOK /\ HeapOK(heap) /\ FramesOK(heap, frames)
        /\ HeldOnce(heap, owned, TextOf(call), frames)
    BY TypesOfParts DEF IInv
  <1>2. \A i, j \in DOMAIN frames : frames[i].node = frames[j].node => i = j
    BY <1>1, FramesApart
  <1>3. \A c : c \in Claims <=> \E o, p, x : c = <<o, p, x>> /\ Held(o, p, x)
    BY <1>1, <1>2, ClaimsAreHeld
  <1>4. /\ \A o, p, x : Held(o, p, x) => x \in DOMAIN heap
        /\ \A x \in DOMAIN heap : \E o, p : Held(o, p, x)
        /\ \A o, p, q, r, x : Held(o, p, x) /\ Held(q, r, x) => o = q /\ p = r
    BY <1>1 DEF HeldOnce, Held
  <1>5. \A c \in Claims : c[3] \in DOMAIN heap
    <2> SUFFICES ASSUME NEW c \in Claims PROVE c[3] \in DOMAIN heap
      OBVIOUS
    <2>1. PICK o, p, x : c = <<o, p, x>> /\ Held(o, p, x)
      BY <1>3
    <2> QED BY <1>4, <2>1
  <1>6. \A x \in DOMAIN heap : \E c \in Claims : c[3] = x
    <2> SUFFICES ASSUME NEW x \in DOMAIN heap PROVE \E c \in Claims : c[3] = x
      OBVIOUS
    <2>1. PICK o, p : Held(o, p, x)
      BY <1>4
    <2>2. <<o, p, x>> \in Claims /\ <<o, p, x>>[3] = x
      BY <1>3, <2>1
    <2> QED BY <2>2
  <1>7. \A c, d \in Claims : c[3] = d[3] => c = d
    <2> SUFFICES ASSUME NEW c \in Claims, NEW d \in Claims, c[3] = d[3]
                 PROVE  c = d
      OBVIOUS
    <2>1. PICK o, p, x : c = <<o, p, x>> /\ Held(o, p, x)
      BY <1>3
    <2>2. PICK q, r, y : d = <<q, r, y>> /\ Held(q, r, y)
      BY <1>3
    <2>3. x = y
      BY <2>1, <2>2
    <2> QED BY <1>4, <2>1, <2>2, <2>3
  <1> DEFINE held == {c[3] : c \in Claims}
  <1>8. held \subseteq DOMAIN heap
    BY <1>5
  <1>9. DOMAIN heap \subseteq held
    BY <1>6
  <1>10. held = DOMAIN heap
    BY <1>8, <1>9
  <1> QED BY <1>7, <1>10 DEF OwnedOnce

\* With nobody else to hold it, every node would be the child of a node.
LEMMA InvNothingRemains ==
  ASSUME IInv
  PROVE  NothingRemains
  <1> SUFFICES ASSUME Ready, owned = {}, DOMAIN heap # {}
               PROVE  FALSE
    BY DEF NothingRemains
  <1>1. /\ HeapOK(heap)
        /\ HeldOnce(heap, owned, TextOf(call), frames)
        /\ Rooted(heap, frames)
    BY TypesOfParts DEF IInv
  <1>2. TextOf(call) = Null /\ frames = << >>
    BY DEF Ready, TextOf, Idle
  <1> DEFINE nodes == {a \in DOMAIN heap : NodeIn(heap, a)}
  <1>3. \A o, p, x : Held(o, p, x) =>
          /\ o \in nodes
          /\ \/ HoldsChild(heap, frames, o, p, x)
             \/ HoldsName(heap, frames, o, p, x)
             \/ HoldsArray(heap, o, p, x)
    <2> SUFFICES ASSUME NEW o, NEW p, NEW x, Held(o, p, x)
                 PROVE  /\ o \in nodes
                        /\ \/ HoldsChild(heap, frames, o, p, x)
                           \/ HoldsName(heap, frames, o, p, x)
                           \/ HoldsArray(heap, o, p, x)
      OBVIOUS
    <2>1. ~HoldsRoot(owned, o, p, x) /\ ~HoldsFrame(frames, o, p, x)
      BY <1>2 DEF HoldsRoot, HoldsFrame
    <2>2. x # Null /\ ~HoldsText(TextOf(call), o, p, x)
      BY <1>2 DEF Held, Holds, HoldsText
    <2>3. \/ HoldsChild(heap, frames, o, p, x)
          \/ HoldsName(heap, frames, o, p, x)
          \/ HoldsArray(heap, o, p, x)
      BY <2>1, <2>2 DEF Held, Holds
    <2> QED BY <2>3 DEF HoldsChild, HoldsName, HoldsArray, NodeIn
  <1>4. nodes # {}
    <2>1. PICK x \in DOMAIN heap : TRUE
      OBVIOUS
    <2>2. \E o, p : Held(o, p, x)
      BY <1>1 DEF HeldOnce, Held
    <2> QED BY <1>3, <2>2
  <1>5. PICK a \in nodes : \A b, p : b \in nodes => ~HoldsChild(heap, frames, b, p, a)
    BY <1>1, <1>4 DEF Rooted
  <1>6. PICK o, p : Held(o, p, a)
    BY <1>1 DEF HeldOnce, Held
  <1>7. HoldsName(heap, frames, o, p, a) \/ HoldsArray(heap, o, p, a)
    BY <1>3, <1>5, <1>6
  <1>8. heap[a] = Text \/ heap[a] = Array
    BY <1>6, <1>7 DEF IInv, HeldAs, AsHeld, Held
  <1> QED BY <1>8, KindsOfNodes DEF NodeIn

LEMMA InvChildrenFit ==
  ASSUME IInv
  PROVE  ChildrenFit
  <1>1. \A a \in DOMAIN heap : IsNode(a) /\ ~Entering(a) => Fits(heap, a)
    BY DEF IInv, AllFit, NodeIn, IsNode, Entering, EnteredIn
  <1>2. \A a : KindOf(a) = KindIn(heap, a)
    BY DEF KindOf, KindIn
  <1> HIDE DEF IInv
  <1> QED BY <1>1, <1>2 DEF ChildrenFit, Fits, Count

-----------------------------------------------------------------------------
(* Lemmas for the steps. *)

\* h and g have the same nodes.
SameNodes(h, g) ==
  \A a : /\ NodeIn(g, a) <=> NodeIn(h, a)
         /\ NodeIn(h, a) => /\ g[a].kind = h[a].kind
                            /\ g[a].name = h[a].name
                            /\ g[a].children = h[a].children

SameArrays(h, g) == \A a : NodeIn(h, a) => g[a].array = h[a].array

LEMMA SameNodesHold ==
  ASSUME NEW h, NEW g, NEW f, SameNodes(h, g)
  PROVE  \A o, p, x : /\ HoldsChild(g, f, o, p, x) <=> HoldsChild(h, f, o, p, x)
                      /\ HoldsName(g, f, o, p, x) <=> HoldsName(h, f, o, p, x)
                      /\ SameArrays(h, g) =>
                           (HoldsArray(g, o, p, x) <=> HoldsArray(h, o, p, x))
  <1> SUFFICES ASSUME NEW o, NEW p, NEW x
               PROVE  /\ HoldsChild(g, f, o, p, x) <=> HoldsChild(h, f, o, p, x)
                      /\ HoldsName(g, f, o, p, x) <=> HoldsName(h, f, o, p, x)
                      /\ SameArrays(h, g) =>
                           (HoldsArray(g, o, p, x) <=> HoldsArray(h, o, p, x))
    OBVIOUS
  <1>1. /\ NodeIn(g, o) <=> NodeIn(h, o)
        /\ NodeIn(h, o) => /\ g[o].name = h[o].name
                           /\ g[o].children = h[o].children
                           /\ SameArrays(h, g) => g[o].array = h[o].array
    BY DEF SameNodes, SameArrays
  <1> QED BY <1>1 DEF HoldsChild, HoldsName, HoldsArray

\* The client, the call and the frames are no node.
LEMMA OwnerKinds ==
  ASSUME NEW h, NEW f, HeapOK(h)
  PROVE  \A o, p, x :
           /\ HoldsChild(h, f, o, p, x) => NodeIn(h, o) /\ o # 0 /\ p \in Nat \ {0}
           /\ HoldsName(h, f, o, p, x) => NodeIn(h, o) /\ o # 0 /\ p = -1
           /\ HoldsArray(h, o, p, x) => NodeIn(h, o) /\ o # 0 /\ p = -2
           /\ FramesOK(h, f) /\ HoldsFrame(f, o, p, x) => o = 0 /\ p \in Nat \ {0}
  <1> SUFFICES ASSUME NEW o, NEW p, NEW x
               PROVE
           /\ HoldsChild(h, f, o, p, x) => NodeIn(h, o) /\ o # 0 /\ p \in Nat \ {0}
           /\ HoldsName(h, f, o, p, x) => NodeIn(h, o) /\ o # 0 /\ p = -1
           /\ HoldsArray(h, o, p, x) => NodeIn(h, o) /\ o # 0 /\ p = -2
           /\ FramesOK(h, f) /\ HoldsFrame(f, o, p, x) => o = 0 /\ p \in Nat \ {0}
    OBVIOUS
  <1>1. \A a : NodeIn(h, a) => a # 0
    BY AddressesAssumption DEF NodeIn, HeapOK
  <1>2. HoldsChild(h, f, o, p, x) => NodeIn(h, o) /\ p \in Nat \ {0}
    <2>1. NodeIn(h, o) => Len(h[o].children) \in Nat
      BY NodeFields DEF HeapOK, NodeIn
    <2> QED BY <2>1 DEF HoldsChild
  <1>3. FramesOK(h, f) /\ HoldsFrame(f, o, p, x) => o = 0 /\ p \in Nat \ {0}
    BY FrameOfType DEF HoldsFrame
  <1> QED BY <1>1, <1>2, <1>3 DEF HoldsName, HoldsArray

\* New children of nodes that are nobody's children close no cycle.
LEMMA RootedKept ==
  ASSUME NEW h, NEW g, NEW f, NEW e, NEW R, Rooted(h, f),
         \A b, p, a : HoldsChild(g, e, b, p, a) => HoldsChild(h, f, b, p, a) \/ b \in R,
         \A b, p, r : r \in R => ~HoldsChild(g, e, b, p, r)
  PROVE  Rooted(g, e)
  <1> SUFFICES ASSUME NEW S \in SUBSET DOMAIN g, S # {}
               PROVE  \E a \in S : \A b, p : b \in S => ~HoldsChild(g, e, b, p, a)
    BY DEF Rooted
  <1>1. CASE \E r \in R : r \in S
    BY <1>1
  <1>2. CASE \A r \in R : r \notin S
    <2> DEFINE T == S \cap DOMAIN h
    <2>1. CASE T = {}
      <3>1. \A a, b, p : b \in S => ~HoldsChild(g, e, b, p, a)
        BY <1>2, <2>1 DEF HoldsChild, NodeIn
      <3> QED BY <3>1
    <2>2. CASE T # {}
      <3>1. PICK a \in T : \A b, p : b \in T => ~HoldsChild(h, f, b, p, a)
        BY <2>2 DEF Rooted
      <3>2. \A b, p : b \in S => ~HoldsChild(g, e, b, p, a)
        BY <1>2, <3>1 DEF HoldsChild, NodeIn
      <3> QED BY <3>1, <3>2
    <2> QED BY <2>1, <2>2
  <1> QED BY <1>1, <1>2

LEMMA RootedStill ==
  ASSUME NEW h, NEW g, NEW f, NEW e, Rooted(h, f),
         \A b, p, a : HoldsChild(g, e, b, p, a) => HoldsChild(h, f, b, p, a)
  PROVE  Rooted(g, e)
  <1> DEFINE R == {}
  <1>1. \A b, p, a : HoldsChild(g, e, b, p, a) => HoldsChild(h, f, b, p, a) \/ b \in R
    OBVIOUS
  <1>2. \A b, p, r : r \in R => ~HoldsChild(g, e, b, p, r)
    OBVIOUS
  <1> HIDE DEF R
  <1> QED BY <1>1, <1>2, RootedKept

\* The nodes that are being destroyed are still allocated.
LEMMA FramesKept ==
  ASSUME NEW h, NEW g, NEW w, NEW t, NEW f, HeapOK(h), FramesOK(h, f), HeldOnce(g, w, t, f)
  PROVE  FramesOK(g, f)
  <1> DEFINE F == [node : DOMAIN g, done : Nat]
  <1>1. \A k \in DOMAIN f : f[k].node \in DOMAIN g
    <2> SUFFICES ASSUME NEW k \in DOMAIN f PROVE f[k].node \in DOMAIN g
      OBVIOUS
    <2>1. f[k].node # Null
      BY FrameOfType, NullIsNoAddress DEF HeapOK
    <2>2. Holds(g, w, t, f, 0, k, f[k].node)
      BY <2>1 DEF Holds, HoldsFrame
    <2> QED BY <2>2 DEF HeldOnce
  <1>2. \A k \in DOMAIN f : f[k] \in F
    BY <1>1, FrameOfType
  <1>3. Len(f) \in Nat /\ DOMAIN f = 1 .. Len(f)
    BY FrameOfType
  <1>4. f = [k \in 1 .. Len(f) |-> f[k]]
    BY <1>3 DEF FramesOK
  <1> HIDE DEF F
  <1>5. f \in Seq(F)
    BY <1>2, <1>3, <1>4
  <1> QED BY <1>5 DEF FramesOK, F

\* What the call that runs was given is of the kind it was.
LEMMA AcceptedStill ==
  ASSUME TypeOK, Accepted, UNCHANGED frames, call.op = "new",
         \A a \in owned : heap'[a].kind = heap[a].kind,
         call' = [op |-> "new", kind |-> call.kind, arguments |-> call.arguments,
                  text |-> call'.text],
         call'.text # Null => call.kind \in Named
  PROVE  Accepted'
  <1>1. call.arguments \in Seq(owned \cup {Null})
    BY CallOfType
  <1>2. \A a \in owned \cup {Null} : KindOf(a)' = KindOf(a)
    BY DEF KindOf
  <1> DEFINE A == call.arguments
             K == [i \in DOMAIN A |-> KindOf(A[i])]
  <1>3. A \in Seq(owned \cup {Null}) /\ \A i \in DOMAIN A : A[i] \in owned \cup {Null}
    BY <1>1
  <1>4. [i \in DOMAIN A |-> KindOf(A[i])'] = K
    BY <1>2, <1>3
  <1>5. Distinct(A) /\ Fit(call.kind, K) /\ DOMAIN A = DOMAIN Slots(call.kind)
        /\ frames = << >>
    BY DEF Accepted, Idle
  <1>6. call'.arguments = A /\ call'.kind = call.kind /\ call'.op = "new"
    OBVIOUS
  <1>7. [i \in DOMAIN call.arguments |-> KindOf(call.arguments[i])]' = K
    BY <1>4, <1>6
  <1> HIDE DEF A, K
  <1>8. Fit(call.kind, [i \in DOMAIN call.arguments |-> KindOf(call.arguments[i])])'
    BY <1>5, <1>6, <1>7
  <1> QED BY <1>5, <1>6, <1>8 DEF Accepted

\* A node that has the children it had, of the kinds they had.
LEMMA FitsKept ==
  ASSUME NEW h, NEW g, NEW a, Fits(h, a), g[a].kind = h[a].kind,
         Len(h[a].children) \in Nat,
         g[a].children = h[a].children,
         \A i \in 1 .. Len(h[a].children) :
           KindIn(g, h[a].children[i]) = KindIn(h, h[a].children[i])
  PROVE  Fits(g, a)
  BY DEF Fits

\* Nodes that are not destroyed and did not change fit still.
LEMMA AllFitKept ==
  ASSUME NEW h, NEW w, NEW t, NEW f, HeapOK(h), HeldOnce(h, w, t, f), AllFit(h, f),
         NEW g, NEW v, NEW s, NEW e, HeldOnce(g, v, s, e),
         \A a : NodeIn(g, a) /\ ~EnteredIn(e, a) =>
           (NodeIn(h, a) /\ ~EnteredIn(f, a)) \/ Fits(g, a),
         \A a \in DOMAIN g \cap DOMAIN h :
           /\ g[a].kind = h[a].kind
           /\ NodeIn(h, a) => g[a].children = h[a].children
  PROVE  AllFit(g, e)
  <1> SUFFICES ASSUME NEW a, NodeIn(g, a), ~EnteredIn(e, a), ~Fits(g, a)
               PROVE  FALSE
    BY DEF AllFit
  <1>1. NodeIn(h, a) /\ ~EnteredIn(f, a) /\ Fits(h, a) /\ a \in DOMAIN g \cap DOMAIN h
    BY DEF AllFit, NodeIn
  <1>2. g[a].kind = h[a].kind /\ g[a].children = h[a].children
    BY <1>1
  <1>3. Len(h[a].children) \in Nat
    BY <1>1, NodeFields DEF HeapOK, NodeIn
  <1>4. ASSUME NEW i \in 1 .. Len(h[a].children)
        PROVE  KindIn(g, h[a].children[i]) = KindIn(h, h[a].children[i])
    <2> DEFINE x == h[a].children[i]
    <2>1. HoldsChild(h, f, a, i, x) /\ HoldsChild(g, e, a, i, x)
      BY <1>1, <1>2 DEF HoldsChild, EnteredIn
    <2> HIDE DEF x
    <2>2. CASE x # Null
      <3>1. Holds(h, w, t, f, a, i, x) /\ Holds(g, v, s, e, a, i, x)
        BY <2>1, <2>2 DEF Holds
      <3>2. x \in DOMAIN g \cap DOMAIN h
        BY <3>1 DEF HeldOnce
      <3> QED BY <2>2, <3>2 DEF KindIn, x
    <2>3. CASE x = Null
      BY <2>3 DEF KindIn, x
    <2> QED BY <2>2, <2>3
  <1> QED BY <1>1, <1>2, <1>3, <1>4, FitsKept

-----------------------------------------------------------------------------
(* Calls begin, and fail. *)

\* A step that changes what a call is about to do and nothing else.
LEMMA QuietStepKeeps ==
  ASSUME IInv, UNCHANGED <<heap, owned, frames>>, TextOf(call') = TextOf(call),
         call' \in Calls, Accepted'
  PROVE  IInv'
  <1>1. TypeOK'
    <2>1. Calls' = Calls
      BY DEF Calls
    <2> QED BY <2>1 DEF IInv, TypeOK
  <1>2. TextOf(call)' = TextOf(call)
    BY DEF TextOf
  <1> QED BY <1>1, <1>2 DEF IInv

\* The constructors have at most three children.
LEMMA SlotsOfKinds ==
  ASSUME NEW kind
  PROVE  Len(Slots(kind)) \in 0 .. 3 /\ DOMAIN Slots(kind) = 1 .. Len(Slots(kind))
  <1>1. \/ Slots(kind) = <<Expressions \cup {"null"}>>
        \/ Slots(kind) = <<Expressions, {"block"}, {"block", "null"}>>
        \/ Slots(kind) = <<Expressions, {"block"}>>
        \/ Slots(kind) = <<Expressions, Expressions>>
        \/ Slots(kind) = <<Expressions>>
        \/ Slots(kind) = << >>
    BY DEF Slots
  <1>2. \A A, B, C :
          /\ Len(<<A, B, C>>) = 3 /\ DOMAIN <<A, B, C>> = 1 .. 3
          /\ Len(<<A, B>>) = 2 /\ DOMAIN <<A, B>> = 1 .. 2
          /\ Len(<<A>>) = 1 /\ DOMAIN <<A>> = 1 .. 1
          /\ Len(<< >>) = 0 /\ DOMAIN << >> = 1 .. 0
    OBVIOUS
  <1> QED BY <1>1, <1>2

LEMMA NewKeeps ==
  ASSUME IInv, NEW kind \in Kinds,
         NEW arguments \in [DOMAIN Slots(kind) -> owned \cup {Null}],
         New(kind, arguments)
  PROVE  IInv'
  <1>1. /\ call = Idle /\ frames = << >>
        /\ Distinct(arguments)
        /\ Fit(kind, [i \in DOMAIN arguments |-> KindOf(arguments[i])])
        /\ call' = [op |-> "new", kind |-> kind, arguments |-> arguments, text |-> Null]
        /\ UNCHANGED <<heap, owned, frames>>
    BY DEF New, Ready
  <1>2. arguments \in Seq(owned \cup {Null})
    BY KindsAssumption, SlotsOfKinds
  <1>3. call' \in Calls
    BY <1>1, <1>2 DEF Calls
  <1>4. TextOf(call') = Null /\ TextOf(call) = Null
    BY <1>1 DEF TextOf, Idle
  <1>5. \A a : KindOf(a)' = KindOf(a)
    BY <1>1 DEF KindOf
  <1>6. Accepted'
    BY <1>1, <1>5 DEF Accepted, KindOf
  <1> QED BY <1>1, <1>3, <1>4, <1>6, QuietStepKeeps

LEMMA AddStatementKeeps ==
  ASSUME IInv, NEW container \in owned, NEW statement \in owned,
         AddStatement(container, statement)
  PROVE  IInv'
  <1>1. /\ call = Idle /\ frames = << >>
        /\ container # statement
        /\ KindOf(container) \in Containers /\ KindOf(statement) \in Statements
        /\ call' = [op |-> "add", container |-> container, statement |-> statement]
        /\ UNCHANGED <<heap, owned, frames>>
    BY DEF AddStatement, Ready
  <1>2. call' \in Calls
    BY <1>1 DEF Calls
  <1>3. TextOf(call') = Null /\ TextOf(call) = Null
    BY <1>1 DEF TextOf, Idle
  <1>4. Accepted'
    BY <1>1 DEF Accepted, KindOf
  <1> QED BY <1>1, <1>2, <1>3, <1>4, QuietStepKeeps

\* A call that gives up before it has allocated anything.
LEMMA GivingUpKeeps ==
  ASSUME IInv, TextOf(call) = Null, call' = Idle, UNCHANGED <<heap, owned, frames>>
  PROVE  IInv'
  <1>1. call' \in Calls /\ TextOf(call') = Null
    BY DEF Calls, TextOf, Idle
  <1>2. Accepted'
    BY DEF Accepted, Idle
  <1> QED BY <1>1, <1>2, QuietStepKeeps

-----------------------------------------------------------------------------
(* The constructors. *)

\* The parts of the invariant as facts of one state.
LEMMA InvParts ==
  ASSUME IInv
  PROVE  /\ TypeOK /\ Accepted
         /\ HeapOK(heap) /\ owned \subseteq DOMAIN heap /\ FramesOK(heap, frames)
         /\ HeldOnce(heap, owned, TextOf(call), frames)
         /\ HeldAs(heap, owned, TextOf(call), frames)
         /\ Rooted(heap, frames) /\ AllFit(heap, frames)
         /\ \A i, j \in DOMAIN frames : frames[i].node = frames[j].node => i = j
  BY TypesOfParts, FramesApart DEF IInv

\* The first allocation: the name is held by the call.
LEMMA CopyTextKeeps ==
  ASSUME IInv, NeedsText, HasRoom,
         heap' = Allocated(Fresh, Text),
         call' = [call EXCEPT !.text = Fresh],
         UNCHANGED <<owned, frames>>
  PROVE  IInv'
  <1> DEFINE F == Fresh
             c == call'
  <1>1. /\ HeapOK(heap) /\ owned \subseteq DOMAIN heap /\ FramesOK(heap, frames)
        /\ HeldOnce(heap, owned, TextOf(call), frames)
        /\ HeldAs(heap, owned, TextOf(call), frames)
        /\ Rooted(heap, frames) /\ AllFit(heap, frames)
        /\ TypeOK /\ Accepted
    BY InvParts
  <1>2. F \in Addresses /\ F \notin DOMAIN heap /\ F # Null
    BY <1>1, FreshIsFree
  <1>3. /\ DOMAIN heap' = DOMAIN heap \cup {F} /\ heap'[F] = Text
        /\ \A a \in DOMAIN heap : heap'[a] = heap[a]
    BY <1>2 DEF Allocated
  <1>4. /\ call.op = "new" /\ call.kind \in Named /\ call.text = Null
        /\ call = [op |-> "new", kind |-> call.kind,
                   arguments |-> call.arguments, text |-> Null]
        /\ call.kind \in Kinds /\ call.arguments \in Seq(owned \cup {Null})
        /\ c = [op |-> "new", kind |-> call.kind, arguments |-> call.arguments, text |-> F]
    BY <1>1, CallOfType DEF NeedsText
  <1> HIDE DEF F, c
  <1>5. TextOf(call) = Null /\ TextOf(c) = F
    BY <1>4 DEF TextOf
  <1>6. SameNodes(heap, heap') /\ SameArrays(heap, heap')
    BY <1>2, <1>3, KindsOfNodes DEF SameNodes, SameArrays, NodeIn
  <1>7. \A o, p, x : Holds(heap', owned, F, frames, o, p, x) <=>
          \/ Holds(heap, owned, Null, frames, o, p, x)
          \/ o = 0 /\ p = -4 /\ x = F
    BY <1>2, <1>6, SameNodesHold DEF Holds, HoldsText
  <1>8. HeldOnce(heap', owned, F, frames)
    BY <1>1, <1>2, <1>3, <1>5, <1>7 DEF HeldOnce
  <1>9. HeldAs(heap', owned, F, frames)
    <2> SUFFICES ASSUME NEW o, NEW p, NEW x, Holds(heap', owned, F, frames, o, p, x)
                 PROVE  AsHeld(heap', owned, F, frames, o, p, x)
      BY DEF HeldAs
    <2>1. CASE Holds(heap, owned, Null, frames, o, p, x)
      <3>1. x \in DOMAIN heap
        BY <1>1, <1>5, <2>1 DEF HeldOnce
      <3>2. x # F /\ heap'[x] = heap[x]
        BY <1>2, <1>3, <3>1
      <3>3. AsHeld(heap, owned, Null, frames, o, p, x)
        BY <1>1, <1>5, <2>1 DEF HeldAs
      <3>4. HoldsText(F, o, p, x) => FALSE
        BY <3>2 DEF HoldsText
      <3> QED BY <1>6, <3>2, <3>3, <3>4, SameNodesHold DEF AsHeld
    <2>2. CASE o = 0 /\ p = -4 /\ x = F
      <3>1. HeapOK(heap) /\ FramesOK(heap, frames)
        BY <1>1
      <3>2. /\ ~HoldsChild(heap, frames, o, p, x) /\ ~HoldsRoot(owned, o, p, x)
            /\ ~HoldsFrame(frames, o, p, x) /\ ~HoldsArray(heap, o, p, x)
            /\ ~HoldsName(heap, frames, o, p, x)
        BY <2>2, <3>1, OwnerKinds DEF HoldsRoot
      <3> QED BY <1>3, <1>6, <2>2, <3>2, SameNodesHold DEF AsHeld
    <2> QED BY <1>7, <2>1, <2>2
  <1>10. Rooted(heap', frames)
    BY <1>1, <1>6, SameNodesHold, RootedStill
  <1>11. AllFit(heap', frames)
    BY <1>1, <1>2, <1>3, <1>6, <1>8, AllFitKept DEF SameNodes, NodeIn
  <1>12. TypeOK'
    <2>1. HeapOK(heap')
      BY <1>1, <1>2, <1>3 DEF HeapOK, ObjectOK
    <2>2. FramesOK(heap', frames)
      BY <1>1, <1>8, FramesKept
    <2>3. owned \subseteq DOMAIN heap'
      BY <1>1, <1>3
    <2>4. c \in Calls'
      BY <1>3, <1>4 DEF Calls
    <2> QED BY <2>1, <2>2, <2>3, <2>4, TypesOfParts DEF TypeOK, HeapOK, ObjectOK, FramesOK, c
  <1>13. Accepted'
    BY <1>1, <1>3, <1>4, AcceptedStill DEF c
  <1> QED BY <1>5, <1>8, <1>9, <1>10, <1>11, <1>12, <1>13 DEF IInv, c

LEMMA TypesOfPartsNext ==
  TypeOK' <=> /\ HeapOK(heap')
              /\ owned' \subseteq DOMAIN heap'
              /\ call' \in Calls'
              /\ FramesOK(heap', frames')
  BY DEF TypeOK, HeapOK, ObjectOK, FramesOK

\* The invariant of the next state from its parts, when no call runs there.
LEMMA IdleInv ==
  ASSUME HeapOK(heap'), owned' \subseteq DOMAIN heap', FramesOK(heap', frames'),
         call' = Idle,
         HeldOnce(heap', owned', Null, frames'), HeldAs(heap', owned', Null, frames'),
         Rooted(heap', frames'), AllFit(heap', frames')
  PROVE  IInv'
  <1>1. TextOf(call') = Null
    BY DEF TextOf, Idle
  <1>2. Accepted'
    BY DEF Accepted, Idle
  <1>3. TypeOK'
    BY TypesOfPartsNext DEF Calls
  <1> QED BY <1>1, <1>2, <1>3 DEF IInv

\* Nothing that is held is held as two things.
LEMMA HeldText ==
  ASSUME NEW h, NEW w, NEW t, NEW f, HeapOK(h), FramesOK(h, f)
  PROVE  \A o, p, x : o = 0 /\ p = -4 =>
           (Holds(h, w, t, f, o, p, x) <=> x # Null /\ x = t)
  BY OwnerKinds DEF Holds, HoldsRoot, HoldsText

LEMMA HeldRoot ==
  ASSUME NEW h, NEW w, NEW t, NEW f, HeapOK(h), FramesOK(h, f)
  PROVE  \A o, p, x : o = 0 /\ p = -3 =>
           (Holds(h, w, t, f, o, p, x) <=> x # Null /\ x \in w)
  BY OwnerKinds DEF Holds, HoldsRoot, HoldsText

\* No memory for the node: the name that was copied for it is freed.
LEMMA AbandonKeeps ==
  ASSUME IInv, call.op = "new", heap' = Freed(Abandoned(call)), call' = Idle,
         UNCHANGED <<owned, frames>>
  PROVE  IInv'
  <1> DEFINE t == call.text
  <1>1. /\ HeapOK(heap) /\ owned \subseteq DOMAIN heap /\ FramesOK(heap, frames)
        /\ HeldOnce(heap, owned, t, frames) /\ HeldAs(heap, owned, t, frames)
        /\ Rooted(heap, frames) /\ AllFit(heap, frames)
    BY InvParts DEF TextOf
  <1>2. /\ DOMAIN heap' = DOMAIN heap \ {t}
        /\ \A a \in DOMAIN heap' : heap'[a] = heap[a]
    BY DEF Freed, Abandoned
  <1> HIDE DEF t
  <1>3. t # Null => heap[t] = Text
    <2> SUFFICES ASSUME t # Null PROVE heap[t] = Text
      OBVIOUS
    <2>1. Holds(heap, owned, t, frames, 0, -4, t) /\ HoldsText(t, 0, -4, t)
      BY DEF Holds, HoldsText
    <2> QED BY <1>1, <2>1 DEF HeldAs, AsHeld
  <1>4. Null \notin DOMAIN heap
    BY <1>1, NullIsNoAddress DEF HeapOK
  <1>5. SameNodes(heap, heap') /\ SameArrays(heap, heap')
    BY <1>2, <1>3, <1>4, KindsOfNodes DEF SameNodes, SameArrays, NodeIn
  <1>6. \A o, p, x : Holds(heap', owned, Null, frames, o, p, x) <=>
          Holds(heap, owned, t, frames, o, p, x) /\ ~(o = 0 /\ p = -4)
    <2>1. \A o, p, x : o = 0 /\ p = -4 =>
             ~HoldsChild(heap, frames, o, p, x) /\ ~HoldsName(heap, frames, o, p, x)
             /\ ~HoldsArray(heap, o, p, x) /\ ~HoldsFrame(frames, o, p, x)
             /\ ~HoldsRoot(owned, o, p, x)
      BY <1>1, OwnerKinds DEF HoldsRoot
    <2> QED BY <1>5, <2>1, SameNodesHold DEF Holds, HoldsText
  <1>7. \A x : Holds(heap, owned, t, frames, 0, -4, x) => x = t
    BY <1>1, HeldText
  <1>8. t # Null => Holds(heap, owned, t, frames, 0, -4, t)
    BY <1>1, HeldText
  <1>9. HeldOnce(heap', owned, Null, frames)
    BY <1>1, <1>2, <1>4, <1>6, <1>7, <1>8 DEF HeldOnce
  <1>10. HeldAs(heap', owned, Null, frames)
    <2> SUFFICES ASSUME NEW o, NEW p, NEW x, Holds(heap', owned, Null, frames, o, p, x)
                 PROVE  AsHeld(heap', owned, Null, frames, o, p, x)
      BY DEF HeldAs
    <2>1. AsHeld(heap, owned, t, frames, o, p, x) /\ x \in DOMAIN heap' /\ x # Null
      BY <1>1, <1>6, <1>9 DEF HeldAs, HeldOnce, Holds
    <2> QED BY <1>2, <1>5, <2>1, SameNodesHold DEF AsHeld, HoldsText
  <1>11. Rooted(heap', frames)
    BY <1>1, <1>5, SameNodesHold, RootedStill
  <1>12. AllFit(heap', frames)
    BY <1>1, <1>2, <1>5, <1>9, AllFitKept DEF SameNodes
  <1>13. HeapOK(heap')
    BY <1>1, <1>2 DEF HeapOK
  <1>14. owned \subseteq DOMAIN heap'
    <2> SUFFICES ASSUME NEW a \in owned PROVE a \in DOMAIN heap'
      OBVIOUS
    <2>1. a # Null
      BY <1>1, <1>4
    <2>2. Holds(heap', owned, Null, frames, 0, -3, a)
      BY <2>1 DEF Holds, HoldsRoot
    <2> QED BY <1>9, <2>2 DEF HeldOnce
  <1>15. FramesOK(heap', frames)
    BY <1>1, <1>9, FramesKept
  <1> QED BY <1>9, <1>10, <1>11, <1>12, <1>13, <1>14, <1>15, IdleInv

\* What the constructor of a kind accepts is what the readers of it expect.
LEMMA FitMeans ==
  ASSUME NEW kind \in AllKinds, NEW K, DOMAIN K = DOMAIN Slots(kind), Fit(kind, K)
  PROVE  LET n == Len(Slots(kind))
         IN  /\ kind \in Containers => n = 0
             /\ kind \in {"if", "while"} =>
                  /\ n >= 2 /\ K[1] \in Expressions /\ K[2] = "block"
                  /\ \A i \in 3 .. n : K[i] \in {"block", "null"}
             /\ kind \notin Containers \cup {"if", "while"} =>
                  \A i \in 1 .. n :
                    K[i] \in Expressions \/ (K[i] = "null" /\ kind = "declaration")
  <1> DEFINE S == Slots(kind)
             n == Len(S)
  <1>1. DOMAIN K = 1 .. n /\ n \in Nat
    BY SlotsOfKinds
  <1>2. kind \notin Containers => \A i \in 1 .. n : K[i] \in S[i]
    BY <1>1 DEF Fit
  <1>3. CASE kind = "declaration"
    <2>1. S = <<Expressions \cup {"null"}>> /\ kind \notin Containers \cup {"if", "while"}
      BY <1>3 DEF Slots, Containers
    <2>2. n = 1 /\ S[1] = Expressions \cup {"null"}
      BY <2>1
    <2> QED BY <1>2, <1>3, <2>1, <2>2
  <1>4. CASE kind = "if"
    <2>1. S = <<Expressions, {"block"}, {"block", "null"}>> /\ kind \notin Containers
      BY <1>4 DEF Slots, Containers
    <2>2. n = 3 /\ S[1] = Expressions /\ S[2] = {"block"} /\ S[3] = {"block", "null"}
      BY <2>1
    <2> QED BY <1>2, <1>4, <2>1, <2>2
  <1>5. CASE kind = "while"
    <2>1. S = <<Expressions, {"block"}>> /\ kind \notin Containers
      BY <1>5 DEF Slots, Containers
    <2>2. n = 2 /\ S[1] = Expressions /\ S[2] = {"block"}
      BY <2>1
    <2> QED BY <1>2, <1>5, <2>1, <2>2
  <1>6. CASE kind \in {"binary_expression", "assignment", "unary_expression"}
    <2>1. (S = <<Expressions, Expressions>> \/ S = <<Expressions>>)
          /\ kind \notin Containers \cup {"if", "while"}
      BY <1>6 DEF Slots, Containers
    <2>2. \A i \in 1 .. n : S[i] = Expressions
      BY <2>1
    <2> QED BY <1>2, <2>1, <2>2
  <1>7. CASE kind \notin {"declaration", "if", "while", "binary_expression",
                          "assignment", "unary_expression"}
    <2>1. S = << >>
      BY <1>7 DEF Slots
    <2>2. n = 0
      BY <2>1
    <2> QED BY <1>7, <2>2
  <1> QED BY <1>3, <1>4, <1>5, <1>6, <1>7

\* The client owns what is allocated.
LEMMA OwnedKept ==
  ASSUME NEW g, NEW w, NEW t, NEW f, HeldOnce(g, w, t, f), Null \notin w
  PROVE  w \subseteq DOMAIN g
  <1> SUFFICES ASSUME NEW a \in w PROVE a \in DOMAIN g
    OBVIOUS
  <1>1. Holds(g, w, t, f, 0, -3, a)
    BY DEF Holds, HoldsRoot
  <1> QED BY <1>1 DEF HeldOnce

\* The second allocation: the name and the arguments go to the new node.
LEMMA AllocateNodeKeeps ==
  ASSUME IInv, call.op = "new", ~NeedsText, HasRoom,
         heap' = Allocated(Fresh, NewNode(call)),
         owned' = (owned \ Range(call.arguments)) \cup {Fresh},
         call' = Idle, UNCHANGED frames
  PROVE  IInv'
  <1> DEFINE F == Fresh
             A == call.arguments
             t == call.text
             kind == call.kind
             N == NewNode(call)
             w == owned'
  <1>1. /\ HeapOK(heap) /\ owned \subseteq DOMAIN heap /\ frames = << >>
        /\ FramesOK(heap, frames)
        /\ HeldOnce(heap, owned, t, frames) /\ HeldAs(heap, owned, t, frames)
        /\ Rooted(heap, frames) /\ AllFit(heap, frames)
    BY InvParts DEF TextOf, Accepted, Idle
  <1>2. F \in Addresses /\ F \notin DOMAIN heap /\ F # Null /\ F # 0
    BY <1>1, FreshIsFree DEF Null
  <1>3. /\ DOMAIN heap' = DOMAIN heap \cup {F} /\ heap'[F] = N
        /\ \A a \in DOMAIN heap : heap'[a] = heap[a]
    BY <1>2 DEF Allocated
  <1>4. kind \in AllKinds /\ A \in Seq(owned \cup {Null}) /\ t \in DOMAIN heap \cup {Null}
    BY InvParts, CallOfType, KindsAssumption
  <1>5. /\ \A i, j \in DOMAIN A : A[i] = A[j] /\ A[i] # Null => i = j
        /\ Fit(kind, [i \in DOMAIN A |-> KindOf(A[i])])
        /\ DOMAIN A = DOMAIN Slots(kind)
    BY InvParts DEF Accepted, Distinct
  <1>6. /\ N.kind = kind /\ N.name = t /\ N.children = A /\ N.array = Null
        /\ N.capacity = 0
        /\ N \in Nodes
    <2>1. A \in Seq(Addresses \cup {Null})
      <3>1. owned \cup {Null} \subseteq Addresses \cup {Null}
        BY <1>1 DEF HeapOK
      <3> QED BY <1>4, <3>1
    <2>2. t \in Addresses \cup {Null}
      BY <1>1, <1>4 DEF HeapOK
    <2> QED BY <1>4, <2>1, <2>2 DEF NewNode, Nodes
  <1>7. \A x : x \in w <=> x = F \/ (x \in owned /\ ~\E i \in DOMAIN A : x = A[i])
    BY DEF Range
  <1>8. Len(A) \in Nat /\ DOMAIN A = 1 .. Len(A)
        /\ \A i \in 1 .. Len(A) : A[i] = Null \/ A[i] \in owned
    BY <1>4
  <1> HIDE DEF F, A, t, kind, N, w
  <1>9. Null \notin DOMAIN heap
    BY <1>1, NullIsNoAddress DEF HeapOK
  <1>10. /\ NodeIn(heap', F) /\ ~NodeIn(heap, F)
         /\ \A a : a # F => (NodeIn(heap', a) <=> NodeIn(heap, a))
         /\ \A a : NodeIn(heap, a) => heap'[a] = heap[a]
    BY <1>2, <1>3, <1>4, <1>6 DEF NodeIn
  <1>11. \A o, p, x :
           /\ HoldsChild(heap', frames, o, p, x) <=>
                \/ HoldsChild(heap, frames, o, p, x)
                \/ o = F /\ p \in 1 .. Len(A) /\ x = A[p]
           /\ HoldsName(heap', frames, o, p, x) <=>
                HoldsName(heap, frames, o, p, x) \/ (o = F /\ p = -1 /\ x = t)
           /\ HoldsArray(heap', o, p, x) <=>
                HoldsArray(heap, o, p, x) \/ (o = F /\ p = -2 /\ x = Null)
    <2> SUFFICES ASSUME NEW o, NEW p, NEW x
                 PROVE
           /\ HoldsChild(heap', frames, o, p, x) <=>
                \/ HoldsChild(heap, frames, o, p, x)
                \/ o = F /\ p \in 1 .. Len(A) /\ x = A[p]
           /\ HoldsName(heap', frames, o, p, x) <=>
                HoldsName(heap, frames, o, p, x) \/ (o = F /\ p = -1 /\ x = t)
           /\ HoldsArray(heap', o, p, x) <=>
                HoldsArray(heap, o, p, x) \/ (o = F /\ p = -2 /\ x = Null)
      OBVIOUS
    <2>1. CASE o = F
      BY <1>1, <1>3, <1>6, <1>10, <2>1 DEF HoldsChild, HoldsName, HoldsArray, EnteredIn
    <2>2. CASE o # F
      BY <1>10, <2>2 DEF HoldsChild, HoldsName, HoldsArray
    <2> QED BY <2>1, <2>2
  <1>12. /\ \A o, p, x : HoldsRoot(w, o, p, x) <=> o = 0 /\ p = -3 /\ x \in w
         /\ \A o, p, x : ~HoldsFrame(frames, o, p, x)
    BY <1>1 DEF HoldsRoot, HoldsFrame
  <1> DEFINE Before(o, p, x) == Holds(heap, owned, t, frames, o, p, x)
             After(o, p, x) == Holds(heap', w, Null, frames, o, p, x)
  <1>13. \A o, p, x : After(o, p, x) <=>
           /\ x # Null
           /\ \/ Before(o, p, x) /\ ~(o = 0 /\ p = -3) /\ ~(o = 0 /\ p = -4)
              \/ o = F /\ p \in 1 .. Len(A) /\ x = A[p]
              \/ o = F /\ p = -1 /\ x = t
              \/ o = 0 /\ p = -3 /\ x \in w
    <2>1. \A o, p, x : o = 0 =>
             ~HoldsChild(heap, frames, o, p, x) /\ ~HoldsName(heap, frames, o, p, x)
             /\ ~HoldsArray(heap, o, p, x)
      BY <1>1, OwnerKinds
    <2> QED BY <1>11, <1>12, <2>1 DEF Holds, HoldsText, HoldsRoot
  <1>14. \A x : /\ Before(0, -3, x) <=> x # Null /\ x \in owned
                /\ Before(0, -4, x) <=> x # Null /\ x = t
    BY <1>1, HeldText, HeldRoot
  <1>15. \A o, p, x : Before(o, p, x) => o # F /\ x \in DOMAIN heap
    <2>1. \A o, p, x : Before(o, p, x) => o # F
      BY <1>1, <1>2, <1>10, OwnerKinds DEF Holds, HoldsRoot, HoldsText
    <2> QED BY <1>1, <2>1 DEF HeldOnce
  <1>16. /\ \A x \in DOMAIN heap : \E o, p : Before(o, p, x)
         /\ \A o, p, q, r, x : Before(o, p, x) /\ Before(q, r, x) => o = q /\ p = r
    BY <1>1 DEF HeldOnce
  <1> HIDE DEF Before, After
  <1>17. \A o, p, x : After(o, p, x) => x \in DOMAIN heap'
    BY <1>1, <1>3, <1>4, <1>7, <1>8, <1>9, <1>13, <1>15
  <1>18. \A x \in DOMAIN heap' : \E o, p : After(o, p, x)
    <2> SUFFICES ASSUME NEW x \in DOMAIN heap' PROVE \E o, p : After(o, p, x)
      OBVIOUS
    <2>1. CASE x = F
      <3>1. After(0, -3, F)
        BY <1>2, <1>7, <1>13
      <3> QED BY <2>1, <3>1
    <2>2. CASE x # F
      <3>1. x \in DOMAIN heap /\ x # Null
        BY <1>3, <1>9, <2>2
      <3>2. PICK o, p : Before(o, p, x)
        BY <1>16, <3>1
      <3>3. CASE o = 0 /\ p = -3
        <4>1. x \in owned
          BY <1>14, <3>2, <3>3
        <4>2. CASE \E i \in DOMAIN A : x = A[i]
          <5>1. PICK i \in 1 .. Len(A) : x = A[i]
            BY <1>8, <4>2
          <5>2. After(F, i, x)
            BY <1>13, <3>1, <5>1
          <5> QED BY <5>2
        <4>3. CASE ~\E i \in DOMAIN A : x = A[i]
          <5>1. After(0, -3, x)
            BY <1>7, <1>13, <3>1, <4>1, <4>3
          <5> QED BY <5>1
        <4> QED BY <4>2, <4>3
      <3>4. CASE o = 0 /\ p = -4
        <4>1. After(F, -1, x)
          BY <1>13, <1>14, <3>1, <3>2, <3>4
        <4> QED BY <4>1
      <3>5. CASE ~(o = 0 /\ p = -3) /\ ~(o = 0 /\ p = -4)
        BY <1>13, <3>1, <3>2, <3>5
      <3> QED BY <3>3, <3>4, <3>5
    <2> QED BY <2>1, <2>2
  <1>19. \A o, p, q, r, x : After(o, p, x) /\ After(q, r, x) => o = q /\ p = r
    <2>1. \A o, p, x : After(o, p, x) => x # Null /\
            \/ o = 0 /\ p = -3 /\ x = F
            \/ Before(o, p, x) /\ ~(o = 0 /\ p = -3) /\ ~(o = 0 /\ p = -4)
            \/ o = F /\ p \in 1 .. Len(A) /\ x = A[p] /\ Before(0, -3, x)
            \/ o = F /\ p = -1 /\ x = t /\ Before(0, -4, x)
            \/ o = 0 /\ p = -3 /\ x \in w /\ Before(0, -3, x)
      BY <1>7, <1>8, <1>13, <1>14
    <2> SUFFICES ASSUME NEW o, NEW p, NEW q, NEW r, NEW x, After(o, p, x), After(q, r, x)
                 PROVE  o = q /\ p = r
      OBVIOUS
    <2>2. CASE x = F
      BY <1>2, <1>15, <2>1, <2>2
    <2>3. CASE x # F /\ x \in w
      <3>1. x \in owned /\ x # Null /\ ~\E i \in DOMAIN A : x = A[i]
        BY <1>7, <2>1, <2>3
      <3>2. Before(0, -3, x)
        BY <1>14, <3>1
      <3>3. o = 0 /\ p = -3
        BY <1>8, <1>16, <2>1, <3>1, <3>2
      <3>4. q = 0 /\ r = -3
        BY <1>8, <1>16, <2>1, <3>1, <3>2
      <3> QED BY <3>3, <3>4
    <2>4. CASE x # F /\ x \notin w
      <3>1. CASE Before(0, -3, x)
        <4>1. o = F /\ p \in 1 .. Len(A) /\ x = A[p]
          BY <1>16, <2>1, <2>4, <3>1
        <4>2. q = F /\ r \in 1 .. Len(A) /\ x = A[r]
          BY <1>16, <2>1, <2>4, <3>1
        <4> QED BY <1>5, <1>8, <2>1, <4>1, <4>2
      <3>2. CASE Before(0, -4, x)
        BY <1>16, <2>1, <2>4, <3>2
      <3>3. CASE ~Before(0, -3, x) /\ ~Before(0, -4, x)
        BY <1>16, <2>1, <2>4, <3>3
      <3> QED BY <3>1, <3>2, <3>3
    <2> QED BY <2>2, <2>3, <2>4
  <1>20. HeldOnce(heap', w, Null, frames)
    BY <1>17, <1>18, <1>19 DEF HeldOnce, After
  <1>21. HeldAs(heap', w, Null, frames)
    <2> SUFFICES ASSUME NEW o, NEW p, NEW x, After(o, p, x)
                 PROVE  AsHeld(heap', w, Null, frames, o, p, x)
      BY DEF HeldAs, After
    <2>1. x # Null
      BY <1>13
    <2>2. CASE Before(o, p, x) /\ ~(o = 0 /\ p = -3) /\ ~(o = 0 /\ p = -4)
      <3>1. AsHeld(heap, owned, t, frames, o, p, x) /\ heap'[x] = heap[x] /\ o # F
        BY <1>1, <1>3, <1>15, <2>2 DEF HeldAs, Before
      <3> QED BY <1>11, <1>12, <2>1, <2>2, <3>1 DEF AsHeld, HoldsText
    <2>3. CASE o = F /\ p \in 1 .. Len(A) /\ x = A[p]
      <3>1. x \in owned
        BY <1>8, <2>1, <2>3
      <3>2. Before(0, -3, x) /\ HoldsRoot(owned, 0, -3, x)
        BY <1>14, <2>1, <3>1 DEF HoldsRoot
      <3>3. heap[x].kind \in AllKinds /\ heap'[x] = heap[x]
        BY <1>1, <1>3, <3>1, <3>2 DEF HeldAs, AsHeld, Before
      <3>4. p # -1 /\ p # -2 /\ o # 0
        BY <1>2, <1>8, <2>3
      <3> QED BY <3>3, <3>4 DEF AsHeld, HoldsName, HoldsArray, HoldsRoot, HoldsText, HoldsFrame
    <2>4. CASE o = F /\ p = -1 /\ x = t
      <3>1. Before(0, -4, x) /\ HoldsText(t, 0, -4, x)
        BY <1>14, <2>1, <2>4 DEF HoldsText
      <3>2. heap[x] = Text /\ heap'[x] = heap[x]
        BY <1>1, <1>3, <1>15, <3>1 DEF HeldAs, AsHeld, Before
      <3>3. ~HoldsChild(heap', frames, o, p, x) /\ o # 0 /\ p # -2
        BY <1>2, <1>8, <1>10, <1>11, <2>4 DEF HoldsChild
      <3> QED BY <3>2, <3>3 DEF AsHeld, HoldsName, HoldsArray, HoldsRoot, HoldsText, HoldsFrame
    <2>5. CASE o = 0 /\ p = -3 /\ x \in w
      <3>1. heap'[x].kind \in AllKinds
        <4>1. CASE x = F
          BY <1>3, <1>4, <1>6, <4>1
        <4>2. CASE x # F
          <5>1. Before(0, -3, x) /\ HoldsRoot(owned, 0, -3, x)
            BY <1>7, <1>14, <2>1, <2>5, <4>2 DEF HoldsRoot
          <5> QED BY <1>1, <1>3, <1>15, <5>1 DEF HeldAs, AsHeld, Before
        <4> QED BY <4>1, <4>2
      <3>2. /\ ~HoldsChild(heap, frames, o, p, x) /\ ~HoldsName(heap, frames, o, p, x)
            /\ ~HoldsArray(heap, o, p, x)
        BY <1>1, <2>5, OwnerKinds
      <3>3. o # F
        BY <1>2, <2>5 DEF Null
      <3> QED BY <1>11, <1>12, <2>5, <3>1, <3>2, <3>3 DEF AsHeld, HoldsText
    <2> QED BY <1>13, <2>2, <2>3, <2>4, <2>5
  <1>22. Rooted(heap', frames)
    <2>1. \A o, p, x : HoldsChild(heap', frames, o, p, x) =>
            HoldsChild(heap, frames, o, p, x) \/ o \in {F}
      BY <1>11
    <2>2. \A o, p, x : x \in {F} => ~HoldsChild(heap', frames, o, p, x)
      <3> SUFFICES ASSUME NEW o, NEW p, HoldsChild(heap', frames, o, p, F)
                   PROVE  FALSE
        OBVIOUS
      <3>1. After(o, p, F)
        BY <1>2 DEF After, Holds
      <3>2. After(0, -3, F)
        BY <1>2, <1>7, <1>13
      <3>3. o = 0
        BY <1>19, <3>1, <3>2
      <3>4. NodeIn(heap', 0)
        BY <3>3 DEF HoldsChild
      <3> QED BY <1>2, <1>3, <1>9, <3>4 DEF NodeIn, Null
    <2> DEFINE R == {F}
    <2> HIDE DEF R
    <2>3. /\ \A o, p, x : HoldsChild(heap', frames, o, p, x) =>
               HoldsChild(heap, frames, o, p, x) \/ o \in R
          /\ \A o, p, x : x \in R => ~HoldsChild(heap', frames, o, p, x)
      BY <2>1, <2>2 DEF R
    <2> QED BY <1>1, <2>3, RootedKept
  <1>23. Fits(heap', F)
    <2> DEFINE K == [i \in DOMAIN A |-> KindOf(A[i])]
    <2>1. \A i \in DOMAIN A : KindIn(heap', A[i]) = K[i]
      BY <1>1, <1>3, <1>8 DEF KindIn, KindOf
    <2>2. DOMAIN K = DOMAIN Slots(kind) /\ Fit(kind, K) /\ Len(A) = Len(Slots(kind))
      <3>1. DOMAIN A = 1 .. Len(Slots(kind)) /\ Len(Slots(kind)) \in Nat
        BY <1>5, SlotsOfKinds
      <3> QED BY <1>5, <1>8, <3>1
    <2> HIDE DEF K
    <2>3. /\ kind \in Containers => Len(A) = 0
          /\ kind \in {"if", "while"} =>
               /\ Len(A) >= 2 /\ K[1] \in Expressions /\ K[2] = "block"
               /\ \A i \in 3 .. Len(A) : K[i] \in {"block", "null"}
          /\ kind \notin Containers \cup {"if", "while"} =>
               \A i \in 1 .. Len(A) :
                 K[i] \in Expressions \/ (K[i] = "null" /\ kind = "declaration")
      BY <1>4, <2>2, FitMeans
    <2>4. heap'[F].kind = kind /\ heap'[F].children = A
      BY <1>3, <1>6
    <2>5. kind \in Containers =>
            \A i \in 1 .. Len(A) : KindIn(heap', A[i]) \in Statements
      BY <1>8, <2>3
    <2>6. kind \in {"if", "while"} =>
            /\ Len(A) >= 2
            /\ KindIn(heap', A[1]) \in Expressions /\ KindIn(heap', A[2]) = "block"
            /\ \A i \in 3 .. Len(A) : KindIn(heap', A[i]) \in {"block", "null"}
      BY <1>8, <2>1, <2>3
    <2>7. kind \notin Containers \cup {"if", "while"} =>
            \A i \in 1 .. Len(A) : KindIn(heap', A[i]) \in Expressions
                                   \/ (KindIn(heap', A[i]) = "null" /\ kind = "declaration")
      BY <1>8, <2>1, <2>3
    <2> QED BY <2>4, <2>5, <2>6, <2>7 DEF Fits
  <1>24. AllFit(heap', frames)
    BY <1>1, <1>3, <1>10, <1>20, <1>23, AllFitKept
  <1>25. HeapOK(heap')
    <2>1. ObjectOK(N)
      <3>1. kind \in Containers => Len(A) <= 0
        <4>1. kind \in Containers => Slots(kind) = << >>
          BY DEF Slots, Containers
        <4>2. DOMAIN << >> = {}
          OBVIOUS
        <4>3. kind \in Containers => 1 .. Len(A) = {}
          BY <1>5, <1>8, <4>1, <4>2
        <4> QED BY <1>8, <4>3
      <3> QED BY <1>6, <3>1 DEF ObjectOK
    <2> QED BY <1>1, <1>2, <1>3, <2>1 DEF HeapOK
  <1>26. w \subseteq DOMAIN heap' /\ FramesOK(heap', frames)
    <2>1. Null \notin w
      BY <1>1, <1>2, <1>7, <1>9
    <2> QED BY <1>1, <1>20, <2>1, OwnedKept, FramesKept
  <1> QED BY <1>20, <1>21, <1>22, <1>24, <1>25, <1>26, IdleInv DEF w

-----------------------------------------------------------------------------
(* ast_add_statement. *)

LEMMA AddingFacts ==
  ASSUME IInv, call.op = "add"
  PROVE  /\ call.container \in owned /\ call.statement \in owned
         /\ call.container # call.statement
         /\ NodeIn(heap, call.container) /\ NodeIn(heap, call.statement)
         /\ heap[call.container].kind \in Containers
         /\ heap[call.statement].kind \in Statements
         /\ call.container # Null /\ call.statement # Null
         /\ TextOf(call) = Null /\ frames = << >>
  <1>1. /\ TypeOK /\ Accepted /\ HeapOK(heap) /\ owned \subseteq DOMAIN heap
    BY InvParts
  <1>2. call.container \in owned /\ call.statement \in owned
    BY <1>1, CallOfType
  <1>3. Null \notin DOMAIN heap
    BY <1>1, NullIsNoAddress DEF HeapOK
  <1>4. /\ call.container # call.statement
        /\ KindOf(call.container) \in Containers /\ KindOf(call.statement) \in Statements
        /\ frames = << >>
    BY <1>1 DEF Accepted, Idle
  <1>5. Containers \subseteq AllKinds /\ Statements \subseteq AllKinds
    BY DEF AllKinds
  <1> QED BY <1>1, <1>2, <1>3, <1>4, <1>5 DEF KindOf, NodeIn, TextOf

\* The list with the array a in place of its own.
Grown(list, a) ==
  [list EXCEPT !.array = a, !.capacity = IF @ = 0 THEN InitialCapacity ELSE @ * 2]

LEMMA GrownIsNode ==
  ASSUME NEW list, ObjectOK(list), list.kind \in AllKinds, NEW a \in Addresses
  PROVE  /\ ObjectOK(Grown(list, a)) /\ Grown(list, a).kind = list.kind
         /\ Grown(list, a).name = list.name /\ Grown(list, a).children = list.children
         /\ Grown(list, a).array = a
  <1> DEFINE G == Grown(list, a)
             n == list.capacity
             m == IF n = 0 THEN InitialCapacity ELSE n * 2
  <1>1. /\ list \in Nodes /\ n \in Nat /\ Len(list.children) \in Nat
        /\ list.kind \in Containers => Len(list.children) <= n
    BY NodeFields
  <1>2. m \in Nat /\ m # 0 /\ n <= m
    BY <1>1, CapacityAssumption
  <1>3. list = [kind |-> list.kind, name |-> list.name, children |-> list.children,
                array |-> list.array, capacity |-> n]
        /\ list.name \in Addresses \cup {Null}
        /\ list.children \in Seq(Addresses \cup {Null})
    BY <1>1 DEF Nodes
  <1> HIDE DEF n, m
  <1>4. G = [kind |-> list.kind, name |-> list.name, children |-> list.children,
             array |-> a, capacity |-> m]
    <2>1. PICK k, e, s, r : list = [kind |-> k, name |-> e, children |-> s,
                                    array |-> r, capacity |-> n]
      BY <1>3
    <2>2. list.kind = k /\ list.name = e /\ list.children = s /\ list.capacity = n
      BY <2>1
    <2>3. m = IF list.capacity = 0 THEN InitialCapacity ELSE list.capacity * 2
      BY DEF m, n
    <2>4. G = [list EXCEPT !.array = a, !.capacity = m]
      BY <2>3 DEF Grown
    <2> QED BY <2>1, <2>2, <2>4
  <1> HIDE DEF G
  <1>5. G \in Nodes
    BY <1>2, <1>3, <1>4 DEF Nodes
  <1>6. /\ G.kind = list.kind /\ G.children = list.children /\ G.capacity = m
        /\ G.array = a /\ G.name = list.name
    BY <1>4
  <1>7. G.kind \in Containers => Len(G.children) <= G.capacity
    BY <1>1, <1>2, <1>6
  <1>8. G.capacity # 0 /\ G.array # Null
    BY <1>2, <1>6, NullIsNoAddress
  <1> QED BY <1>5, <1>6, <1>7, <1>8 DEF ObjectOK, G

\* realloc left the array where it was.
LEMMA GrowInPlaceKeeps ==
  ASSUME IInv, call.op = "add", heap[call.container].array # Null,
         heap' = [heap EXCEPT ![call.container] =
                    Grown(heap[call.container], heap[call.container].array)],
         UNCHANGED <<call, owned, frames>>
  PROVE  IInv'
  <1> DEFINE c == call.container
             list == heap[c]
             G == Grown(list, list.array)
  <1>1. /\ HeapOK(heap) /\ owned \subseteq DOMAIN heap /\ FramesOK(heap, frames)
        /\ HeldOnce(heap, owned, Null, frames) /\ HeldAs(heap, owned, Null, frames)
        /\ Rooted(heap, frames) /\ AllFit(heap, frames)
        /\ TypeOK /\ Accepted
    BY InvParts, AddingFacts
  <1>2. NodeIn(heap, c) /\ c \in DOMAIN heap /\ ObjectOK(list) /\ list.kind \in AllKinds
    BY <1>1, AddingFacts DEF NodeIn, HeapOK
  <1>3. list.array \in Addresses
    BY <1>2, NodeFields
  <1>4. /\ ObjectOK(G) /\ G.kind = list.kind /\ G.name = list.name
        /\ G.children = list.children /\ G.array = list.array
    BY <1>2, <1>3, GrownIsNode
  <1> HIDE DEF G
  <1>5. /\ DOMAIN heap' = DOMAIN heap /\ heap'[c] = G
        /\ \A a \in DOMAIN heap : a # c => heap'[a] = heap[a]
    BY <1>2 DEF G
  <1> HIDE DEF c, list
  <1>6. \A a \in DOMAIN heap : heap'[a].kind = heap[a].kind
    BY <1>4, <1>5 DEF list
  <1>7. SameNodes(heap, heap') /\ SameArrays(heap, heap')
    BY <1>4, <1>5, <1>6 DEF SameNodes, SameArrays, NodeIn, list
  <1>8. \A o, p, x : Holds(heap', owned, Null, frames, o, p, x) <=>
                     Holds(heap, owned, Null, frames, o, p, x)
    BY <1>7, SameNodesHold DEF Holds
  <1>9. HeldOnce(heap', owned, Null, frames)
    <2> DEFINE Before(o, p, x) == Holds(heap, owned, Null, frames, o, p, x)
               After(o, p, x) == Holds(heap', owned, Null, frames, o, p, x)
    <2>1. /\ \A o, p, x : Before(o, p, x) => x \in DOMAIN heap
          /\ \A x \in DOMAIN heap : \E o, p : Before(o, p, x)
          /\ \A o, p, q, r, x : Before(o, p, x) /\ Before(q, r, x) => o = q /\ p = r
      BY <1>1 DEF HeldOnce
    <2>2. \A o, p, x : After(o, p, x) <=> Before(o, p, x)
      BY <1>8
    <2> HIDE DEF Before, After
    <2>3. /\ \A o, p, x : After(o, p, x) => x \in DOMAIN heap'
          /\ \A x \in DOMAIN heap' : \E o, p : After(o, p, x)
          /\ \A o, p, q, r, x : After(o, p, x) /\ After(q, r, x) => o = q /\ p = r
      BY <1>5, <2>1, <2>2
    <2> QED BY <2>3 DEF HeldOnce, After
  <1>10. HeldAs(heap', owned, Null, frames)
    <2> SUFFICES ASSUME NEW o, NEW p, NEW x, Holds(heap', owned, Null, frames, o, p, x)
                 PROVE  AsHeld(heap', owned, Null, frames, o, p, x)
      BY DEF HeldAs
    <2>1. AsHeld(heap, owned, Null, frames, o, p, x) /\ x \in DOMAIN heap
      BY <1>1, <1>8 DEF HeldAs, HeldOnce
    <2>2. /\ heap[x] = Text => heap'[x] = Text
          /\ heap[x] = Array => heap'[x] = Array
      BY <1>2, <1>5, <2>1, KindsOfNodes DEF list
    <2>3. heap[x].kind \in AllKinds => heap'[x].kind \in AllKinds
      BY <1>6, <2>1
    <2> QED BY <1>7, <2>1, <2>2, <2>3, SameNodesHold DEF AsHeld
  <1>11. Rooted(heap', frames)
    BY <1>1, <1>7, SameNodesHold, RootedStill
  <1>12. AllFit(heap', frames)
    BY <1>1, <1>6, <1>7, <1>9, AllFitKept DEF SameNodes
  <1>13. HeapOK(heap')
    BY <1>1, <1>4, <1>5 DEF HeapOK
  <1>14. TypeOK'
    <2>1. Calls' = Calls /\ FramesOK(heap', frames)
      BY <1>5, <1>1, <1>9, FramesKept DEF Calls
    <2> QED BY <1>1, <1>5, <1>13, <2>1, TypesOfPartsNext DEF TypeOK
  <1>15. Accepted'
    <2>1. \A a \in owned : KindOf(a)' = KindOf(a)
      BY <1>1, <1>6 DEF KindOf
    <2> QED BY <1>1, <2>1, AddingFacts DEF Accepted
  <1>16. TextOf(call') = Null
    BY AddingFacts
  <1> QED BY <1>9, <1>10, <1>11, <1>12, <1>14, <1>15, <1>16 DEF IInv

\* What a node holds as its array.
LEMMA HeldArray ==
  ASSUME NEW h, NEW w, NEW t, NEW f, HeapOK(h), FramesOK(h, f), NEW c, NodeIn(h, c)
  PROVE  \A x : Holds(h, w, t, f, c, -2, x) <=> x # Null /\ x = h[c].array
  <1>1. c # 0
    BY AddressesAssumption DEF NodeIn, HeapOK
  <1>2. \A x : ~HoldsChild(h, f, c, -2, x) /\ ~HoldsName(h, f, c, -2, x)
    BY OwnerKinds
  <1> QED BY <1>1, <1>2 DEF Holds, HoldsArray, HoldsRoot, HoldsText, HoldsFrame

\* realloc moved the array: the old one is gone.
LEMMA GrowMovedKeeps ==
  ASSUME IInv, call.op = "add", HasRoom,
         heap' = [b \in (DOMAIN heap \ {heap[call.container].array}) \cup {Fresh} |->
                    IF b = Fresh THEN Array
                    ELSE IF b = call.container THEN Grown(heap[call.container], Fresh)
                    ELSE heap[b]],
         UNCHANGED <<call, owned, frames>>
  PROVE  IInv'
  <1> DEFINE c == call.container
             F == Fresh
             list == heap[c]
             old == list.array
             G == Grown(list, F)
  <1>1. /\ HeapOK(heap) /\ owned \subseteq DOMAIN heap /\ FramesOK(heap, frames)
        /\ HeldOnce(heap, owned, Null, frames) /\ HeldAs(heap, owned, Null, frames)
        /\ Rooted(heap, frames) /\ AllFit(heap, frames)
        /\ TypeOK /\ Accepted
    BY InvParts, AddingFacts
  <1>2. NodeIn(heap, c) /\ c \in DOMAIN heap /\ ObjectOK(list) /\ list.kind \in AllKinds
    BY <1>1, AddingFacts DEF NodeIn, HeapOK
  <1>3. F \in Addresses /\ F \notin DOMAIN heap /\ F # Null
    BY <1>1, FreshIsFree
  <1>4. /\ ObjectOK(G) /\ G.kind = list.kind /\ G.name = list.name
        /\ G.children = list.children /\ G.array = F
    BY <1>2, <1>3, GrownIsNode
  <1>5. \A x : Holds(heap, owned, Null, frames, c, -2, x) <=> x # Null /\ x = old
    BY <1>1, <1>2, HeldArray
  <1>6. Null \notin DOMAIN heap
    BY <1>1, NullIsNoAddress DEF HeapOK
  <1>7. old \in DOMAIN heap => heap[old] = Array /\ old # c
    <2> SUFFICES ASSUME old \in DOMAIN heap PROVE heap[old] = Array /\ old # c
      OBVIOUS
    <2>1. Holds(heap, owned, Null, frames, c, -2, old) /\ HoldsArray(heap, c, -2, old)
      BY <1>2, <1>5, <1>6 DEF HoldsArray
    <2>2. heap[old] = Array
      BY <1>1, <2>1 DEF HeldAs, AsHeld
    <2> QED BY <1>2, <2>2, KindsOfNodes
  <1>8. /\ DOMAIN heap' = (DOMAIN heap \ {old}) \cup {F}
        /\ heap'[F] = Array
        /\ c # F /\ c \in DOMAIN heap' /\ heap'[c] = G
        /\ \A a \in DOMAIN heap \ {old} : a # c => heap'[a] = heap[a]
    <2>1. c # F /\ c # old
      BY <1>2, <1>3, <1>7
    <2> QED BY <1>2, <1>3, <2>1
  <1> HIDE DEF c, F, list, old, G
  <1>9. \A a \in DOMAIN heap \ {old} : heap'[a].kind = heap[a].kind
    BY <1>4, <1>8 DEF list
  <1>10. \A a : NodeIn(heap, a) => a \in DOMAIN heap \ {old} /\ a # F
    BY <1>3, <1>7, KindsOfNodes DEF NodeIn
  <1>11. SameNodes(heap, heap')
    <2>1. ASSUME NEW a, NodeIn(heap', a) PROVE NodeIn(heap, a)
      <3>1. a # F
        BY <1>8, <2>1, KindsOfNodes DEF NodeIn
      <3> QED BY <1>8, <1>9, <2>1, <3>1 DEF NodeIn
    <2>2. ASSUME NEW a, NodeIn(heap, a)
          PROVE  /\ NodeIn(heap', a)
                 /\ heap'[a].kind = heap[a].kind
                 /\ heap'[a].name = heap[a].name
                 /\ heap'[a].children = heap[a].children
      <3>1. a \in DOMAIN heap' /\ heap'[a].kind = heap[a].kind
        BY <1>8, <1>9, <1>10, <2>2
      <3>2. CASE a = c
        BY <1>4, <1>8, <2>2, <3>1, <3>2 DEF list, NodeIn
      <3>3. CASE a # c
        BY <1>8, <1>10, <2>2, <3>1, <3>3 DEF NodeIn
      <3> QED BY <3>2, <3>3
    <2> QED BY <2>1, <2>2 DEF SameNodes
  <1>12. \A o, p, x : HoldsArray(heap', o, p, x) <=>
           \/ HoldsArray(heap, o, p, x) /\ o # c
           \/ o = c /\ p = -2 /\ x = F
    <2> SUFFICES ASSUME NEW o, NEW p, NEW x
                 PROVE  HoldsArray(heap', o, p, x) <=>
                          \/ HoldsArray(heap, o, p, x) /\ o # c
                          \/ o = c /\ p = -2 /\ x = F
      OBVIOUS
    <2>1. NodeIn(heap', o) <=> NodeIn(heap, o)
      BY <1>11 DEF SameNodes
    <2>2. CASE o = c
      BY <1>2, <1>4, <1>8, <2>1, <2>2 DEF HoldsArray
    <2>3. CASE o # c
      BY <1>8, <1>10, <2>1, <2>3 DEF HoldsArray
    <2> QED BY <2>2, <2>3
  <1> DEFINE Before(o, p, x) == Holds(heap, owned, Null, frames, o, p, x)
             After(o, p, x) == Holds(heap', owned, Null, frames, o, p, x)
  <1>13. \A o, p, x : After(o, p, x) <=>
           \/ Before(o, p, x) /\ ~(o = c /\ p = -2)
           \/ o = c /\ p = -2 /\ x = F
    <2>1. \A o, p, x : o = c /\ p = -2 =>
            /\ ~HoldsChild(heap, frames, o, p, x) /\ ~HoldsName(heap, frames, o, p, x)
            /\ ~HoldsRoot(owned, o, p, x) /\ ~HoldsText(Null, o, p, x)
            /\ ~HoldsFrame(frames, o, p, x)
      BY <1>1, OwnerKinds DEF HoldsRoot, HoldsText
    <2>2. \A o, p, x : HoldsArray(heap, o, p, x) => p = -2
      BY DEF HoldsArray
    <2>3. \A o, p, x : /\ HoldsChild(heap', frames, o, p, x) <=>
                          HoldsChild(heap, frames, o, p, x)
                       /\ HoldsName(heap', frames, o, p, x) <=>
                          HoldsName(heap, frames, o, p, x)
      BY <1>11, SameNodesHold
    <2> QED BY <1>3, <1>12, <2>1, <2>2, <2>3 DEF Holds
  <1>14. /\ \A o, p, x : Before(o, p, x) => x \in DOMAIN heap
         /\ \A x \in DOMAIN heap : \E o, p : Before(o, p, x)
         /\ \A o, p, q, r, x : Before(o, p, x) /\ Before(q, r, x) => o = q /\ p = r
         /\ \A x : Before(c, -2, x) <=> x # Null /\ x = old
    BY <1>1, <1>5 DEF HeldOnce
  <1>15. HeldOnce(heap', owned, Null, frames)
    <2> HIDE DEF Before, After
    <2>1. \A o, p, x : After(o, p, x) => x \in DOMAIN heap'
      <3> SUFFICES ASSUME NEW o, NEW p, NEW x, After(o, p, x)
                   PROVE  x \in DOMAIN heap'
        OBVIOUS
      <3>1. CASE o = c /\ p = -2 /\ x = F
        BY <1>8, <3>1
      <3>2. CASE Before(o, p, x) /\ ~(o = c /\ p = -2)
        <4>1. x \in DOMAIN heap
          BY <1>14, <3>2
        <4>2. ~Before(c, -2, x)
          BY <1>14, <3>2
        <4>3. x # old
          BY <1>6, <1>14, <4>1, <4>2
        <4> QED BY <1>8, <4>1, <4>3
      <3> QED BY <1>13, <3>1, <3>2
    <2>2. \A x \in DOMAIN heap' : \E o, p : After(o, p, x)
      <3> SUFFICES ASSUME NEW x \in DOMAIN heap' PROVE \E o, p : After(o, p, x)
        OBVIOUS
      <3>1. CASE x = F
        <4>1. After(c, -2, x)
          BY <1>13, <3>1
        <4> QED BY <4>1
      <3>2. CASE x # F
        <4>1. x \in DOMAIN heap /\ x # old
          BY <1>8, <3>2
        <4>2. PICK o, p : Before(o, p, x)
          BY <1>14, <4>1
        <4> QED BY <1>13, <1>14, <4>1, <4>2
      <3> QED BY <3>1, <3>2
    <2>3. \A o, p, q, r, x : After(o, p, x) /\ After(q, r, x) => o = q /\ p = r
      BY <1>3, <1>13, <1>14
    <2> QED BY <2>1, <2>2, <2>3 DEF HeldOnce, After
  <1>16. HeldAs(heap', owned, Null, frames)
    <2> SUFFICES ASSUME NEW o, NEW p, NEW x, After(o, p, x)
                 PROVE  AsHeld(heap', owned, Null, frames, o, p, x)
      BY DEF HeldAs
    <2>1. CASE o = c /\ p = -2 /\ x = F
      <3>1. /\ ~HoldsChild(heap', frames, o, p, x) /\ ~HoldsName(heap', frames, o, p, x)
            /\ ~HoldsFrame(frames, o, p, x)
        <4>1. /\ ~HoldsChild(heap, frames, o, p, x) /\ ~HoldsName(heap, frames, o, p, x)
              /\ ~HoldsFrame(frames, o, p, x)
          BY <1>1, <2>1, OwnerKinds
        <4> QED BY <1>11, <4>1, SameNodesHold
      <3> QED BY <1>8, <2>1, <3>1 DEF AsHeld, HoldsRoot, HoldsText
    <2>2. CASE Before(o, p, x) /\ ~(o = c /\ p = -2)
      <3>1. AsHeld(heap, owned, Null, frames, o, p, x)
        BY <1>1, <2>2 DEF HeldAs
      <3>2. x \in DOMAIN heap \ {old} /\ x # F
        <4>1. x \in DOMAIN heap /\ x # Null
          BY <1>14, <2>2, <1>6
        <4>2. x = old => Before(c, -2, x)
          BY <1>14, <4>1
        <4> HIDE DEF Before
        <4> QED BY <1>3, <1>14, <2>2, <4>1, <4>2
      <3>3. /\ heap[x] = Text => heap'[x] = Text
            /\ heap[x] = Array => heap'[x] = Array
        BY <1>2, <1>8, <3>2, KindsOfNodes DEF list
      <3>4. heap'[x].kind = heap[x].kind
        BY <1>9, <3>2
      <3>5. x # F
        BY <3>2
      <3> QED BY <1>11, <1>12, <3>1, <3>3, <3>4, <3>5, SameNodesHold DEF AsHeld
    <2> QED BY <1>13, <2>1, <2>2
  <1> HIDE DEF Before, After
  <1>17. Rooted(heap', frames)
    BY <1>1, <1>11, SameNodesHold, RootedStill
  <1>18. AllFit(heap', frames)
    BY <1>1, <1>3, <1>8, <1>9, <1>11, <1>15, AllFitKept DEF SameNodes
  <1>19. HeapOK(heap')
    <2>1. ObjectOK(Array)
      BY DEF ObjectOK
    <2> QED BY <1>1, <1>3, <1>4, <1>8, <2>1 DEF HeapOK
  <1>20. owned \subseteq DOMAIN heap' /\ FramesOK(heap', frames)
    <2>1. Null \notin owned
      BY <1>1, <1>6
    <2> QED BY <1>1, <1>15, <2>1, OwnedKept, FramesKept
  <1>21. TypeOK'
    <2>1. call' \in Calls'
      <3>1. call \in [op : {"add"}, container : owned, statement : owned]
        <4>1. /\ call \in [op : {"new"}, kind : Kinds, arguments : Seq(owned \cup {Null}),
                           text : DOMAIN heap \cup {Null}] => call.op = "new"
              /\ call = Idle => call.op = "none"
          BY DEF Idle
        <4> QED BY <1>1, <4>1 DEF TypeOK, Calls
      <3> QED BY <3>1 DEF Calls
    <2> QED BY <1>19, <1>20, <2>1, TypesOfPartsNext
  <1>22. Accepted'
    <2>1. \A a \in owned : a \in DOMAIN heap \ {old}
      BY <1>1, <1>8, <1>20, <1>3
    <2>2. \A a \in owned : KindOf(a)' = KindOf(a)
      BY <1>9, <2>1 DEF KindOf
    <2> QED BY <1>1, <2>2, AddingFacts DEF Accepted
  <1>23. TextOf(call') = Null
    BY AddingFacts
  <1> QED BY <1>15, <1>16, <1>17, <1>18, <1>21, <1>22, <1>23 DEF IInv

\* The statement goes from the client to the list.
LEMMA StoreKeeps ==
  ASSUME IInv, Store
  PROVE  IInv'
  <1> DEFINE c == call.container
             s == call.statement
             list == heap[c]
             n == Len(list.children)
             G == [list EXCEPT !.children = Append(@, s)]
             w == owned'
  <1>1. /\ HeapOK(heap) /\ owned \subseteq DOMAIN heap /\ FramesOK(heap, frames)
        /\ HeldOnce(heap, owned, Null, frames) /\ HeldAs(heap, owned, Null, frames)
        /\ Rooted(heap, frames) /\ AllFit(heap, frames)
    BY InvParts, AddingFacts DEF Store
  <1>2. /\ NodeIn(heap, c) /\ c \in DOMAIN heap /\ ObjectOK(list)
        /\ list.kind \in Containers /\ list.kind \in AllKinds
        /\ NodeIn(heap, s) /\ s \in DOMAIN heap /\ heap[s].kind \in Statements
        /\ c # s /\ c \in owned /\ s \in owned /\ s # Null
        /\ frames = << >>
    BY <1>1, AddingFacts DEF NodeIn, HeapOK, Store
  <1>3. /\ list = [kind |-> list.kind, name |-> list.name, children |-> list.children,
                   array |-> list.array, capacity |-> list.capacity]
        /\ list \in Nodes
        /\ list.children \in Seq(Addresses \cup {Null}) /\ n \in Nat
        /\ list.capacity \in Nat /\ n <= list.capacity
        /\ list.capacity = 0 <=> list.array = Null
    BY <1>2, NodeFields DEF Nodes
  <1>4. n # list.capacity
    BY DEF Store, IsFull, Count
  <1>5. /\ G.kind = list.kind /\ G.name = list.name /\ G.array = list.array
        /\ G.capacity = list.capacity /\ G.children = Append(list.children, s)
        /\ G \in Nodes
    <2>1. s \in Addresses \cup {Null}
      BY <1>1, <1>2 DEF HeapOK
    <2>2. Append(list.children, s) \in Seq(Addresses \cup {Null})
      BY <1>3, <2>1
    <2>3. PICK k, e, q, r, m : list = [kind |-> k, name |-> e, children |-> q,
                                       array |-> r, capacity |-> m]
      BY <1>3
    <2>4. list.kind = k /\ list.name = e /\ list.children = q /\ list.capacity = m
          /\ list.array = r
      BY <2>3
    <2>5. G = [kind |-> k, name |-> e, children |-> Append(q, s), array |-> r,
               capacity |-> m]
      <3>1. G = [list EXCEPT !.children = Append(q, s)]
        BY <2>4
      <3> HIDE DEF G, list, s
      <3> QED BY <2>3, <3>1
    <2>6. k \in AllKinds /\ e \in Addresses \cup {Null} /\ r \in Addresses \cup {Null}
          /\ m \in Nat
      BY <1>2, <1>3, <2>4 DEF Nodes
    <2> QED BY <2>2, <2>4, <2>5, <2>6 DEF Nodes
  <1>6. /\ Len(G.children) = n + 1 /\ G.children[n + 1] = s
        /\ \A i \in 1 .. n : G.children[i] = list.children[i]
    BY <1>3, <1>5
  <1>7. /\ DOMAIN heap' = DOMAIN heap /\ heap'[c] = G
        /\ \A a \in DOMAIN heap : a # c => heap'[a] = heap[a]
        /\ \A x : x \in w <=> x \in owned /\ x # s
        /\ call' = Idle /\ frames' = << >>
    <2> HIDE DEF G
    <2>1. heap' = [heap EXCEPT ![c] = G]
      BY DEF Store, G
    <2> QED BY <1>2, <2>1 DEF Store
  <1> HIDE DEF c, s, list, n, G, w
  <1>8. \A a \in DOMAIN heap : heap'[a].kind = heap[a].kind
    BY <1>5, <1>7 DEF list
  <1>9. \A a : /\ NodeIn(heap', a) <=> NodeIn(heap, a)
               /\ NodeIn(heap, a) /\ a # c => heap'[a] = heap[a]
    BY <1>7, <1>8 DEF NodeIn
  <1>10. \A o, p, x :
           /\ HoldsChild(heap', frames, o, p, x) <=>
                HoldsChild(heap, frames, o, p, x) \/ (o = c /\ p = n + 1 /\ x = s)
           /\ HoldsName(heap', frames, o, p, x) <=> HoldsName(heap, frames, o, p, x)
           /\ HoldsArray(heap', o, p, x) <=> HoldsArray(heap, o, p, x)
    <2> SUFFICES ASSUME NEW o, NEW p, NEW x
                 PROVE
           /\ HoldsChild(heap', frames, o, p, x) <=>
                HoldsChild(heap, frames, o, p, x) \/ (o = c /\ p = n + 1 /\ x = s)
           /\ HoldsName(heap', frames, o, p, x) <=> HoldsName(heap, frames, o, p, x)
           /\ HoldsArray(heap', o, p, x) <=> HoldsArray(heap, o, p, x)
      OBVIOUS
    <2>1. CASE o # c
      BY <1>9, <2>1 DEF HoldsChild, HoldsName, HoldsArray
    <2>2. CASE o = c
      <3>1. NodeIn(heap, o) /\ NodeIn(heap', o) /\ heap'[o] = G /\ heap[o] = list
        BY <1>2, <1>7, <1>9, <2>2 DEF list
      <3>2. p \in 1 .. n + 1 <=> p \in 1 .. n \/ p = n + 1
        BY <1>3
      <3>3. n = Len(list.children) /\ frames = << >> /\ n + 1 \notin 1 .. n
        BY <1>2, <1>3 DEF n
      <3>4. HoldsChild(heap', frames, o, p, x) <=>
              p \in 1 .. n + 1 /\ x = G.children[p]
        BY <1>6, <3>1, <3>3 DEF HoldsChild
      <3>5. HoldsChild(heap, frames, o, p, x) <=>
              p \in 1 .. n /\ x = list.children[p]
        BY <3>1, <3>3 DEF HoldsChild
      <3>6. HoldsName(heap', frames, o, p, x) <=> HoldsName(heap, frames, o, p, x)
        BY <1>5, <3>1 DEF HoldsName
      <3>7. HoldsArray(heap', o, p, x) <=> HoldsArray(heap, o, p, x)
        BY <1>5, <3>1 DEF HoldsArray
      <3> QED BY <1>6, <2>2, <3>2, <3>3, <3>4, <3>5, <3>6, <3>7
    <2> QED BY <2>1, <2>2
  <1> DEFINE Before(o, p, x) == Holds(heap, owned, Null, frames, o, p, x)
             After(o, p, x) == Holds(heap', w, Null, frames, o, p, x)
  <1>11. \A o, p, x : o = 0 =>
           ~HoldsChild(heap, frames, o, p, x) /\ ~HoldsName(heap, frames, o, p, x)
           /\ ~HoldsArray(heap, o, p, x)
    BY <1>1, OwnerKinds
  <1>12. \A o, p, x : After(o, p, x) <=>
           \/ Before(o, p, x) /\ ~(o = 0 /\ p = -3 /\ x = s)
           \/ o = c /\ p = n + 1 /\ x = s
    <2> SUFFICES ASSUME NEW o, NEW p, NEW x
                 PROVE  After(o, p, x) <=>
                          \/ Before(o, p, x) /\ ~(o = 0 /\ p = -3 /\ x = s)
                          \/ o = c /\ p = n + 1 /\ x = s
      OBVIOUS
    <2>1. HoldsRoot(w, o, p, x) <=> HoldsRoot(owned, o, p, x) /\ x # s
      BY <1>7 DEF HoldsRoot
    <2>2. ~HoldsFrame(frames, o, p, x)
      BY <1>2 DEF HoldsFrame
    <2>3. HoldsRoot(owned, o, p, x) => o = 0 /\ p = -3
      BY DEF HoldsRoot
    <2>4. HoldsText(Null, o, p, x) => x = Null
      BY DEF HoldsText
    <2> QED BY <1>2, <1>10, <1>11, <2>1, <2>2, <2>3, <2>4 DEF Holds
  <1>13. /\ \A o, p, x : Before(o, p, x) => x \in DOMAIN heap
         /\ \A x \in DOMAIN heap : \E o, p : Before(o, p, x)
         /\ \A o, p, q, r, x : Before(o, p, x) /\ Before(q, r, x) => o = q /\ p = r
         /\ Before(0, -3, s) /\ Before(0, -3, c)
    <2>1. c # Null
      BY <1>1, <1>2, NullIsNoAddress DEF HeapOK
    <2>2. Before(0, -3, s) /\ Before(0, -3, c)
      BY <1>1, <1>2, <2>1, HeldRoot
    <2> QED BY <1>1, <2>2 DEF HeldOnce
  <1>14. HeldOnce(heap', w, Null, frames)
    <2> HIDE DEF Before, After
    <2>1. \A o, p, x : After(o, p, x) => x \in DOMAIN heap'
      BY <1>2, <1>7, <1>12, <1>13
    <2>2. \A x \in DOMAIN heap' : \E o, p : After(o, p, x)
      <3> SUFFICES ASSUME NEW x \in DOMAIN heap' PROVE \E o, p : After(o, p, x)
        OBVIOUS
      <3>1. CASE x = s
        <4>1. After(c, n + 1, x)
          BY <1>12, <3>1
        <4> QED BY <4>1
      <3>2. CASE x # s
        BY <1>7, <1>12, <1>13, <3>2
      <3> QED BY <3>1, <3>2
    <2>3. \A o, p, q, r, x : After(o, p, x) /\ After(q, r, x) => o = q /\ p = r
      BY <1>12, <1>13
    <2> QED BY <2>1, <2>2, <2>3 DEF HeldOnce, After
  <1>15. HeldAs(heap', w, Null, frames)
    <2> SUFFICES ASSUME NEW o, NEW p, NEW x, After(o, p, x)
                 PROVE  AsHeld(heap', w, Null, frames, o, p, x)
      BY DEF HeldAs
    <2>1. ~HoldsFrame(frames, o, p, x)
      BY <1>2 DEF HoldsFrame
    <2>2. CASE o = c /\ p = n + 1 /\ x = s
      <3>1. heap'[x].kind \in AllKinds
        BY <1>2, <1>7, <2>2 DEF NodeIn
      <3>2. p \in Nat \ {0} /\ o # 0
        BY <1>1, <1>2, <1>3, <2>2, NullIsNoAddress DEF HeapOK, Null
      <3>3. p # -1 /\ p # -2
        BY <3>2
      <3> QED BY <2>1, <3>1, <3>2, <3>3 DEF AsHeld, HoldsName, HoldsArray, HoldsText
    <2>3. CASE Before(o, p, x) /\ ~(o = c /\ p = n + 1 /\ x = s)
      <3>1. AsHeld(heap, owned, Null, frames, o, p, x) /\ x \in DOMAIN heap
        BY <1>1, <1>13, <2>3 DEF HeldAs
      <3>2. /\ heap[x] = Text => heap'[x] = Text
            /\ heap[x] = Array => heap'[x] = Array
        BY <1>2, <1>7, <3>1, KindsOfNodes DEF list
      <3>3. heap'[x].kind = heap[x].kind
        BY <1>8, <3>1
      <3>4. HoldsRoot(w, o, p, x) => HoldsRoot(owned, o, p, x)
        BY <1>7 DEF HoldsRoot
      <3> QED BY <1>10, <2>3, <3>1, <3>2, <3>3, <3>4 DEF AsHeld
    <2> QED BY <1>12, <2>2, <2>3
  <1> HIDE DEF Before
  <1>16. Rooted(heap', frames)
    <2> DEFINE R == {c}
    <2>1. \A o, p, x : HoldsChild(heap', frames, o, p, x) =>
            HoldsChild(heap, frames, o, p, x) \/ o \in R
      BY <1>10
    <2>2. \A o, p, x : x = c => ~HoldsChild(heap', frames, o, p, x)
      <3> SUFFICES ASSUME NEW o, NEW p, HoldsChild(heap', frames, o, p, c)
                   PROVE  FALSE
        OBVIOUS
      <3>1. HoldsChild(heap, frames, o, p, c) /\ c # Null
        BY <1>1, <1>2, <1>10, NullIsNoAddress DEF HeapOK
      <3>2. Before(o, p, c)
        BY <3>1 DEF Before, Holds
      <3>3. o = 0
        BY <1>13, <3>2
      <3> QED BY <1>11, <3>1, <3>3
    <2>3. \A o, p, x : x \in R => ~HoldsChild(heap', frames, o, p, x)
      BY <2>2
    <2> HIDE DEF R
    <2> QED BY <1>1, <2>1, <2>3, RootedKept
  <1>17. Fits(heap', c)
    <2>1. Fits(heap, c)
      BY <1>1, <1>2 DEF AllFit, EnteredIn
    <2>2. \A i \in 1 .. n : KindIn(heap, list.children[i]) \in Statements
      BY <1>2, <2>1 DEF Fits, list, n
    <2>3. KindIn(heap', s) \in Statements
      BY <1>2, <1>8 DEF KindIn
    <2>4. \A i \in 1 .. n : KindIn(heap', list.children[i]) \in Statements
      <3> SUFFICES ASSUME NEW i \in 1 .. n, list.children[i] # Null
                   PROVE  KindIn(heap', list.children[i]) \in Statements
        BY <2>2 DEF KindIn
      <3>1. Before(c, i, list.children[i])
        BY <1>2 DEF Before, Holds, HoldsChild, list, n
      <3>2. list.children[i] \in DOMAIN heap
        BY <1>13, <3>1
      <3> QED BY <1>8, <2>2, <3>2 DEF KindIn
    <2>5. \A i \in 1 .. n + 1 : KindIn(heap', G.children[i]) \in Statements
      <3> SUFFICES ASSUME NEW i \in 1 .. n + 1
                   PROVE  KindIn(heap', G.children[i]) \in Statements
        OBVIOUS
      <3>1. CASE i = n + 1
        BY <1>6, <2>3, <3>1
      <3>2. CASE i # n + 1
        <4>1. i \in 1 .. n
          BY <1>3, <3>2
        <4> QED BY <1>6, <2>4, <4>1
      <3> QED BY <3>1, <3>2
    <2>6. heap'[c].kind \in Containers /\ heap'[c].kind \notin {"if", "while"}
      BY <1>2, <1>5, <1>7 DEF Containers
    <2>7. heap'[c].children = G.children /\ Len(G.children) = n + 1
      BY <1>6, <1>7
    <2> QED BY <2>5, <2>6, <2>7 DEF Fits
  <1>18. AllFit(heap', frames)
    <2>1. \A a \in DOMAIN heap : NodeIn(heap, a) => a = c \/ heap'[a].children = heap[a].children
      BY <1>9
    <2> SUFFICES ASSUME NEW a, NodeIn(heap', a), ~EnteredIn(frames, a), a # c
                 PROVE  Fits(heap', a)
      BY <1>17 DEF AllFit
    <2>2. NodeIn(heap, a) /\ heap'[a] = heap[a] /\ Fits(heap, a) /\ a \in DOMAIN heap
      BY <1>1, <1>9 DEF AllFit, NodeIn
    <2>3. Len(heap[a].children) \in Nat
      BY <1>1, <2>2, NodeFields DEF HeapOK, NodeIn
    <2>4. ASSUME NEW i \in 1 .. Len(heap[a].children)
          PROVE  KindIn(heap', heap[a].children[i]) = KindIn(heap, heap[a].children[i])
      <3> DEFINE x == heap[a].children[i]
      <3>1. x # Null => Before(a, i, x)
        BY <2>2 DEF Before, Holds, HoldsChild, EnteredIn
      <3> HIDE DEF x
      <3>2. x # Null => x \in DOMAIN heap
        BY <1>13, <3>1
      <3> QED BY <1>8, <3>2 DEF KindIn, x
    <2> QED BY <2>2, <2>3, <2>4, FitsKept
  <1>19. HeapOK(heap')
    <2>1. ObjectOK(G)
      <3>1. Len(G.children) <= G.capacity
        BY <1>3, <1>4, <1>5, <1>6
      <3> QED BY <1>3, <1>5, <3>1 DEF ObjectOK
    <2> QED BY <1>1, <1>7, <2>1 DEF HeapOK
  <1>20. w \subseteq DOMAIN heap' /\ FramesOK(heap', frames)
    <2>1. Null \notin w
      BY <1>1, <1>7, NullIsNoAddress DEF HeapOK
    <2> QED BY <1>1, <1>14, <2>1, OwnedKept, FramesKept
  <1>21. frames' = frames
    BY <1>2, <1>7
  <1> QED BY <1>7, <1>14, <1>15, <1>16, <1>18, <1>19, <1>20, <1>21, IdleInv DEF w

-----------------------------------------------------------------------------
(* ast_destroy. *)

\* A node that the client or its parent held is entered: it is held by a new
\* frame, and its name is freed.
LEMMA EnterKeeps ==
  ASSUME IInv, call = Idle, call' = Idle, NEW a, NodeIn(heap, a), ~EnteredIn(frames, a),
         heap' = FreedName(a),
         FramesOK(heap, frames'),
         \A o, p, x : HoldsChild(heap, frames', o, p, x) <=>
                        HoldsChild(heap, frames, o, p, x) /\ x # a,
         \A o, p, x : HoldsRoot(owned', o, p, x) <=> HoldsRoot(owned, o, p, x) /\ x # a,
         \A o, p, x : HoldsFrame(frames', o, p, x) <=>
                        \/ HoldsFrame(frames, o, p, x)
                        \/ o = 0 /\ p = Len(frames) + 1 /\ x = a,
         \A x : EnteredIn(frames', x) <=> EnteredIn(frames, x) \/ x = a,
         Null \notin owned'
  PROVE  IInv'
  <1> DEFINE e == heap[a].name
             w == owned'
             f == frames'
             L == Len(frames)
  <1>1. /\ HeapOK(heap) /\ owned \subseteq DOMAIN heap /\ FramesOK(heap, frames)
        /\ HeldOnce(heap, owned, Null, frames) /\ HeldAs(heap, owned, Null, frames)
        /\ Rooted(heap, frames) /\ AllFit(heap, frames)
    BY InvParts DEF TextOf, Idle
  <1>2. a \in DOMAIN heap /\ a # Null /\ a # 0 /\ heap[a].kind \in AllKinds
    BY <1>1, NullIsNoAddress DEF NodeIn, HeapOK, Null
  <1>3. Null \notin DOMAIN heap
    BY <1>1, NullIsNoAddress DEF HeapOK
  <1>4. /\ DOMAIN heap' = DOMAIN heap \ {e}
        /\ \A b \in DOMAIN heap' : heap'[b] = heap[b]
    BY DEF FreedName, Freed
  <1> HIDE DEF e, w, f, L
  <1> DEFINE Before(o, p, x) == Holds(heap, owned, Null, frames, o, p, x)
             After(o, p, x) == Holds(heap', w, Null, f, o, p, x)
  <1>5. \A x : Before(a, -1, x) <=> x # Null /\ x = e
    <2>1. \A x : HoldsName(heap, frames, a, -1, x) <=> x = e
      BY DEF HoldsName, e
    <2>2. \A x : /\ ~HoldsChild(heap, frames, a, -1, x) /\ ~HoldsArray(heap, a, -1, x)
                 /\ ~HoldsRoot(owned, a, -1, x) /\ ~HoldsText(Null, a, -1, x)
                 /\ ~HoldsFrame(frames, a, -1, x)
      BY <1>1, <1>2, OwnerKinds DEF HoldsRoot, HoldsText
    <2> QED BY <2>1, <2>2 DEF Holds
  <1>6. e # Null => heap[e] = Text
    <2> SUFFICES ASSUME e # Null PROVE heap[e] = Text
      OBVIOUS
    <2>1. Before(a, -1, e) /\ HoldsName(heap, frames, a, -1, e)
      BY <1>5 DEF HoldsName, e
    <2> QED BY <1>1, <2>1 DEF HeldAs, AsHeld
  <1>7. SameNodes(heap, heap') /\ SameArrays(heap, heap')
    BY <1>3, <1>4, <1>6, KindsOfNodes DEF SameNodes, SameArrays, NodeIn
  <1>8. \A o, p, x : HoldsName(heap, frames, o, p, x) \/ HoldsArray(heap, o, p, x)
                     \/ HoldsFrame(frames, o, p, x) => x # a
    <2> SUFFICES ASSUME NEW o, NEW p,
                        HoldsName(heap, frames, o, p, a) \/ HoldsArray(heap, o, p, a)
                          \/ HoldsFrame(frames, o, p, a)
                 PROVE  FALSE
      OBVIOUS
    <2>1. Before(o, p, a)
      BY <1>2 DEF Holds
    <2>2. AsHeld(heap, owned, Null, frames, o, p, a)
      BY <1>1, <2>1 DEF HeldAs
    <2>3. ~HoldsFrame(frames, o, p, a)
      BY DEF HoldsFrame, EnteredIn
    <2> QED BY <1>2, <2>2, <2>3, KindsOfNodes DEF AsHeld
  <1>9. \A o, p, x : After(o, p, x) <=>
          \/ Before(o, p, x) /\ x # a /\ ~(o = a /\ p = -1)
          \/ o = 0 /\ p = L + 1 /\ x = a
    <2> SUFFICES ASSUME NEW o, NEW p, NEW x
                 PROVE  After(o, p, x) <=>
                          \/ Before(o, p, x) /\ x # a /\ ~(o = a /\ p = -1)
                          \/ o = 0 /\ p = L + 1 /\ x = a
      OBVIOUS
    <2>1. HoldsChild(heap', f, o, p, x) <=> HoldsChild(heap, frames, o, p, x) /\ x # a
      BY <1>7, SameNodesHold DEF f
    <2>2. HoldsName(heap', f, o, p, x) <=> HoldsName(heap, frames, o, p, x) /\ o # a
      <3>1. HoldsName(heap', f, o, p, x) <=> HoldsName(heap, f, o, p, x)
        BY <1>7, SameNodesHold
      <3>2. EnteredIn(f, o) <=> EnteredIn(frames, o) \/ o = a
        BY DEF f
      <3> QED BY <3>1, <3>2 DEF HoldsName
    <2>3. HoldsArray(heap', o, p, x) <=> HoldsArray(heap, o, p, x)
      BY <1>7, SameNodesHold
    <2>4. HoldsRoot(w, o, p, x) <=> HoldsRoot(owned, o, p, x) /\ x # a
      BY DEF w
    <2>5. HoldsFrame(f, o, p, x) <=>
            HoldsFrame(frames, o, p, x) \/ (o = 0 /\ p = L + 1 /\ x = a)
      BY DEF f, L
    <2>6. HoldsText(Null, o, p, x) => x = Null
      BY DEF HoldsText
    <2>7. o = a /\ p = -1 => /\ ~HoldsChild(heap, frames, o, p, x)
                             /\ ~HoldsArray(heap, o, p, x)
                             /\ ~HoldsRoot(owned, o, p, x)
                             /\ ~HoldsFrame(frames, o, p, x)
      BY <1>1, <1>2, OwnerKinds DEF HoldsRoot
    <2>8. HoldsName(heap, frames, o, p, x) => p = -1
      BY DEF HoldsName
    <2> QED BY <1>2, <1>8, <2>1, <2>2, <2>3, <2>4, <2>5, <2>6, <2>7, <2>8 DEF Holds
  <1>10. /\ \A o, p, x : Before(o, p, x) => x \in DOMAIN heap
         /\ \A x \in DOMAIN heap : \E o, p : Before(o, p, x)
         /\ \A o, p, q, r, x : Before(o, p, x) /\ Before(q, r, x) => o = q /\ p = r
    BY <1>1 DEF HeldOnce
  <1>11. a # e
    BY <1>2, <1>6, KindsOfNodes
  <1>12. HeldOnce(heap', w, Null, f)
    <2> HIDE DEF Before, After
    <2>1. \A o, p, x : After(o, p, x) => x \in DOMAIN heap'
      <3> SUFFICES ASSUME NEW o, NEW p, NEW x, After(o, p, x), x \notin DOMAIN heap'
                   PROVE  FALSE
        OBVIOUS
      <3>1. CASE x = a
        BY <1>2, <1>4, <1>11, <3>1
      <3>2. CASE x # a
        <4>1. Before(o, p, x) /\ ~(o = a /\ p = -1)
          BY <1>9, <3>2
        <4>2. x \in DOMAIN heap /\ x = e /\ x # Null
          BY <1>3, <1>4, <1>10, <4>1
        <4>3. Before(a, -1, x)
          BY <1>5, <4>2
        <4> QED BY <1>10, <4>1, <4>3
      <3> QED BY <3>1, <3>2
    <2>2. \A x \in DOMAIN heap' : \E o, p : After(o, p, x)
      <3> SUFFICES ASSUME NEW x \in DOMAIN heap' PROVE \E o, p : After(o, p, x)
        OBVIOUS
      <3>1. CASE x = a
        <4>1. After(0, L + 1, x)
          BY <1>9, <3>1
        <4> QED BY <4>1
      <3>2. CASE x # a
        <4>1. x \in DOMAIN heap /\ x # e
          BY <1>4
        <4>2. PICK o, p : Before(o, p, x)
          BY <1>10, <4>1
        <4>3. ~(o = a /\ p = -1)
          BY <1>5, <4>1, <4>2
        <4> QED BY <1>9, <3>2, <4>2, <4>3
      <3> QED BY <3>1, <3>2
    <2>3. \A o, p, q, r, x : After(o, p, x) /\ After(q, r, x) => o = q /\ p = r
      BY <1>9, <1>10
    <2> QED BY <2>1, <2>2, <2>3 DEF HeldOnce, After
  <1>13. HeldAs(heap', w, Null, f)
    <2> SUFFICES ASSUME NEW o, NEW p, NEW x, After(o, p, x)
                 PROVE  AsHeld(heap', w, Null, f, o, p, x)
      BY DEF HeldAs
    <2>1. x \in DOMAIN heap' /\ heap'[x] = heap[x]
      BY <1>4, <1>12 DEF HeldOnce
    <2>2. x = a => heap'[x].kind \in AllKinds
      BY <1>2, <2>1
    <2>3. CASE x = a
      <3>1. o = 0 /\ p = L + 1
        BY <1>9, <2>3
      <3>2. ~HoldsName(heap', f, o, p, x) /\ ~HoldsArray(heap', o, p, x)
        <4>1. ~HoldsName(heap, f, o, p, x) /\ ~HoldsArray(heap, o, p, x)
          BY <1>1, <3>1, OwnerKinds
        <4> QED BY <1>7, <4>1, SameNodesHold
      <3>3. ~HoldsText(Null, o, p, x)
        BY <1>2, <2>3 DEF HoldsText
      <3> QED BY <2>2, <2>3, <3>2, <3>3 DEF AsHeld
    <2>4. CASE x # a
      <3>1. AsHeld(heap, owned, Null, frames, o, p, x)
        BY <1>1, <1>9, <2>4 DEF HeldAs
      <3>2. /\ HoldsChild(heap', f, o, p, x) => HoldsChild(heap, frames, o, p, x)
            /\ HoldsRoot(w, o, p, x) => HoldsRoot(owned, o, p, x)
            /\ HoldsFrame(f, o, p, x) => HoldsFrame(frames, o, p, x)
        BY <1>7, <2>4, SameNodesHold DEF f, w
      <3>3. /\ HoldsName(heap', f, o, p, x) => HoldsName(heap, frames, o, p, x)
            /\ HoldsArray(heap', o, p, x) => HoldsArray(heap, o, p, x)
        <4>1. EnteredIn(frames, o) => EnteredIn(f, o)
          BY DEF f
        <4>2. HoldsName(heap', f, o, p, x) => HoldsName(heap, f, o, p, x)
          BY <1>7, SameNodesHold
        <4> QED BY <1>7, <4>1, <4>2, SameNodesHold DEF HoldsName
      <3> QED BY <2>1, <3>1, <3>2, <3>3 DEF AsHeld
    <2> QED BY <2>3, <2>4
  <1> HIDE DEF Before, After
  <1>14. Rooted(heap', f)
    <2>1. \A b, p, x : HoldsChild(heap', f, b, p, x) => HoldsChild(heap, frames, b, p, x)
      BY <1>7, SameNodesHold DEF f
    <2> QED BY <1>1, <2>1, RootedStill
  <1>15. AllFit(heap', f)
    <2>1. \A b : NodeIn(heap', b) /\ ~EnteredIn(f, b) => NodeIn(heap, b) /\ ~EnteredIn(frames, b)
      BY <1>7 DEF f, SameNodes
    <2> QED BY <1>1, <1>4, <1>12, <2>1, AllFitKept
  <1>16. HeapOK(heap')
    BY <1>1, <1>4 DEF HeapOK
  <1>17. w \subseteq DOMAIN heap'
    BY <1>12, OwnedKept DEF w
  <1>18. FramesOK(heap', f)
    BY <1>1, <1>12, FramesKept DEF f
  <1> QED BY <1>12, <1>13, <1>14, <1>15, <1>16, <1>17, <1>18, IdleInv DEF f, w

LEMMA DestroyKeeps ==
  ASSUME IInv, NEW a \in owned, Destroy(a)
  PROVE  IInv'
  <1>1. /\ HeapOK(heap) /\ owned \subseteq DOMAIN heap /\ FramesOK(heap, frames)
        /\ HeldOnce(heap, owned, TextOf(call), frames)
        /\ HeldAs(heap, owned, TextOf(call), frames)
    BY InvParts
  <1>2. call = Idle /\ call' = Idle /\ frames = << >> /\ owned' = owned \ {a}
        /\ heap' = FreedName(a) /\ frames' = <<Entered(a)>> /\ TextOf(call) = Null
    BY DEF Destroy, Ready, TextOf, Idle
  <1>3. Null \notin owned
    BY <1>1, NullIsNoAddress DEF HeapOK
  <1>4. Holds(heap, owned, Null, frames, 0, -3, a)
    BY <1>3 DEF Holds, HoldsRoot
  <1>5. NodeIn(heap, a)
    BY <1>1, <1>2, <1>4 DEF HeldAs, AsHeld, HoldsRoot, NodeIn
  <1>6. ~EnteredIn(frames, a)
    BY <1>2 DEF EnteredIn
  <1>7. /\ DOMAIN frames' = {1} /\ frames'[1].node = a /\ frames'[1].done = 0
        /\ Len(frames) = 0 /\ DOMAIN frames = {}
    BY <1>2 DEF Entered
  <1>8. FramesOK(heap, frames')
    BY <1>1, <1>2 DEF FramesOK, Entered
  <1>9. \A o, p, x : HoldsChild(heap, frames', o, p, x) <=>
                       HoldsChild(heap, frames, o, p, x) /\ x # a
    <2> SUFFICES ASSUME NEW o, NEW p, NEW x
                 PROVE  HoldsChild(heap, frames', o, p, x) <=>
                          HoldsChild(heap, frames, o, p, x) /\ x # a
      OBVIOUS
    <2>1. HoldsChild(heap, frames, o, p, x) => p \in Nat \ {0} /\ o # 0
      BY <1>1, OwnerKinds
    <2>2. HoldsChild(heap, frames', o, p, x) => HoldsChild(heap, frames, o, p, x)
      BY <1>7 DEF HoldsChild
    <2>3. HoldsChild(heap, frames, o, p, x) => HoldsChild(heap, frames', o, p, x)
      BY <1>7, <2>1 DEF HoldsChild
    <2>4. HoldsChild(heap, frames, o, p, a) => FALSE
      <3> SUFFICES ASSUME HoldsChild(heap, frames, o, p, a) PROVE FALSE
        OBVIOUS
      <3>1. Holds(heap, owned, Null, frames, o, p, a) /\ o # 0
        BY <1>1, <1>3, OwnerKinds DEF Holds
      <3> QED BY <1>1, <1>2, <1>4, <3>1 DEF HeldOnce
    <2> QED BY <2>2, <2>3, <2>4
  <1>10. \A o, p, x : HoldsRoot(owned', o, p, x) <=> HoldsRoot(owned, o, p, x) /\ x # a
    BY <1>2 DEF HoldsRoot
  <1>11. \A o, p, x : HoldsFrame(frames', o, p, x) <=>
                        \/ HoldsFrame(frames, o, p, x)
                        \/ o = 0 /\ p = Len(frames) + 1 /\ x = a
    BY <1>7 DEF HoldsFrame
  <1>12. \A x : EnteredIn(frames', x) <=> EnteredIn(frames, x) \/ x = a
    BY <1>7 DEF EnteredIn
  <1>13. Null \notin owned'
    BY <1>2, <1>3
  <1> QED BY <1>2, <1>5, <1>6, <1>8, <1>9, <1>10, <1>11, <1>12, <1>13, EnterKeeps

\* The innermost call of ast_destroy.
LEMMA TopFrame ==
  ASSUME IInv, frames # << >>
  PROVE  /\ Len(frames) \in Nat \ {0} /\ Frame = frames[Len(frames)]
         /\ call = Idle
         /\ NodeIn(heap, Frame.node) /\ Frame.done \in Nat
         /\ \A k \in DOMAIN frames : frames[k].node = Frame.node => k = Len(frames)
         /\ \A k \in DOMAIN frames : NodeIn(heap, frames[k].node)
  <1>1. /\ HeapOK(heap) /\ FramesOK(heap, frames) /\ Accepted
        /\ HeldOnce(heap, owned, TextOf(call), frames)
        /\ HeldAs(heap, owned, TextOf(call), frames)
        /\ \A i, j \in DOMAIN frames : frames[i].node = frames[j].node => i = j
    BY InvParts
  <1>2. /\ Len(frames) \in Nat /\ DOMAIN frames = 1 .. Len(frames)
        /\ \A k \in DOMAIN frames : frames[k].node \in DOMAIN heap /\ frames[k].done \in Nat
    BY <1>1, FrameOfType
  <1>3. Len(frames) # 0
    BY <1>1 DEF FramesOK
  <1>4. Frame = frames[Len(frames)] /\ Len(frames) \in DOMAIN frames
    BY <1>2, <1>3 DEF Frame, Last
  <1>5. ASSUME NEW k \in DOMAIN frames PROVE NodeIn(heap, frames[k].node)
    <2>1. frames[k].node \in DOMAIN heap /\ frames[k].node # Null
      BY <1>1, <1>2, NullIsNoAddress DEF HeapOK
    <2>2. /\ HoldsFrame(frames, 0, k, frames[k].node)
          /\ Holds(heap, owned, TextOf(call), frames, 0, k, frames[k].node)
      BY <2>1 DEF Holds, HoldsFrame
    <2> QED BY <1>1, <2>1, <2>2 DEF HeldAs, AsHeld, NodeIn
  <1>6. call = Idle
    BY <1>1 DEF Accepted
  <1> QED BY <1>1, <1>2, <1>3, <1>4, <1>5, <1>6

\* The frames when the innermost call has done one more child.
Passed == [frames EXCEPT ![Len(frames)].done = @ + 1]

LEMMA PassedFrames ==
  ASSUME IInv, frames # << >>
  PROVE  /\ FramesOK(heap, Passed) /\ Len(Passed) = Len(frames)
         /\ DOMAIN Passed = DOMAIN frames
         /\ \A k \in DOMAIN frames :
              /\ Passed[k].node = frames[k].node
              /\ Passed[k].done = IF k = Len(frames) THEN Frame.done + 1 ELSE frames[k].done
         /\ \A o, p, x : HoldsChild(heap, Passed, o, p, x) <=>
              HoldsChild(heap, frames, o, p, x) /\ ~(o = Frame.node /\ p = Frame.done + 1)
         /\ \A o, p, x : HoldsFrame(Passed, o, p, x) <=> HoldsFrame(frames, o, p, x)
         /\ \A x : EnteredIn(Passed, x) <=> EnteredIn(frames, x)
  <1> DEFINE P == Passed
             L == Len(frames)
             d == Frame.done
  <1>1. /\ L \in Nat \ {0} /\ Frame = frames[L] /\ d \in Nat
        /\ \A k \in DOMAIN frames : frames[k].node = Frame.node => k = L
    BY TopFrame
  <1>2. /\ FramesOK(heap, frames) /\ HeapOK(heap)
    BY InvParts
  <1>3. /\ DOMAIN frames = 1 .. L
        /\ \A k \in DOMAIN frames : frames[k].node \in DOMAIN heap /\ frames[k].done \in Nat
                                    /\ frames[k] = [node |-> frames[k].node,
                                                    done |-> frames[k].done]
    BY <1>2, FrameOfType
  <1>4. L \in DOMAIN frames
    BY <1>1, <1>3
  <1>5. /\ DOMAIN P = DOMAIN frames
        /\ P[L] = [frames[L] EXCEPT !.done = @ + 1]
        /\ \A k \in DOMAIN frames : k # L => P[k] = frames[k]
    BY <1>4 DEF Passed
  <1>6. P[L] = [node |-> frames[L].node, done |-> d + 1]
    <2>1. PICK n, m : frames[L] = [node |-> n, done |-> m]
      BY <1>3, <1>4
    <2>2. frames[L].node = n /\ frames[L].done = m /\ d = m
      BY <1>1, <2>1
    <2>3. [frames[L] EXCEPT !.done = @ + 1] = [node |-> n, done |-> m + 1]
      BY <2>1
    <2> QED BY <1>5, <2>2, <2>3
  <1>7. \A k \in DOMAIN frames :
          /\ P[k].node = frames[k].node
          /\ P[k].done = IF k = L THEN d + 1 ELSE frames[k].done
    BY <1>5, <1>6
  <1> DEFINE F == [node : DOMAIN heap, done : Nat]
  <1>8. \A k \in DOMAIN frames : P[k] \in F
    BY <1>1, <1>3, <1>4, <1>5, <1>6
  <1>9. P = [k \in DOMAIN frames |-> P[k]]
    BY DEF Passed
  <1> HIDE DEF F, P, L, d
  <1>10. P \in Seq(F) /\ Len(P) = L
    BY <1>1, <1>3, <1>8, <1>9
  <1>11. \A o, p, x : HoldsChild(heap, P, o, p, x) <=>
              HoldsChild(heap, frames, o, p, x) /\ ~(o = Frame.node /\ p = d + 1)
    <2> SUFFICES ASSUME NEW o, NEW p, NodeIn(heap, o), p \in 1 .. Len(heap[o].children)
                 PROVE  (\A k \in DOMAIN P : P[k].node = o => P[k].done < p) <=>
                          /\ \A k \in DOMAIN frames : frames[k].node = o => frames[k].done < p
                          /\ ~(o = Frame.node /\ p = d + 1)
      BY DEF HoldsChild
    <2>1. p \in Nat
      OBVIOUS
    <2>2. CASE o = Frame.node
      <3>1. (\A k \in DOMAIN P : P[k].node = o => P[k].done < p) <=> d + 1 < p
        BY <1>1, <1>4, <1>5, <1>7, <2>2
      <3>2. (\A k \in DOMAIN frames : frames[k].node = o => frames[k].done < p) <=> d < p
        BY <1>1, <1>4, <2>2 DEF d
      <3> QED BY <1>1, <2>1, <2>2, <3>1, <3>2
    <2>3. CASE o # Frame.node
      <3>1. \A k \in DOMAIN frames : frames[k].node = o => k # L
        BY <1>1, <2>3
      <3> QED BY <1>5, <1>7, <2>3, <3>1
    <2> QED BY <2>2, <2>3
  <1>12. \A o, p, x : HoldsFrame(P, o, p, x) <=> HoldsFrame(frames, o, p, x)
    BY <1>5, <1>7 DEF HoldsFrame
  <1>13. \A x : EnteredIn(P, x) <=> EnteredIn(frames, x)
    BY <1>5, <1>7 DEF EnteredIn
  <1> QED BY <1>5, <1>7, <1>10, <1>11, <1>12, <1>13 DEF FramesOK, F, P, L, d

LEMMA DestroyChildKeeps ==
  ASSUME IInv, DestroyChild
  PROVE  IInv'
  <1> DEFINE N == Frame.node
             d == Frame.done
             child == heap[N].children[d + 1]
             L == Len(frames)
  <1>1. frames # << >> /\ d < Len(heap[N].children) /\ UNCHANGED <<owned, call>>
    BY DEF DestroyChild, Children
  <1>2. /\ HeapOK(heap) /\ owned \subseteq DOMAIN heap /\ FramesOK(heap, frames)
        /\ HeldOnce(heap, owned, Null, frames) /\ HeldAs(heap, owned, Null, frames)
        /\ Rooted(heap, frames) /\ AllFit(heap, frames)
        /\ call = Idle /\ call' = Idle
    BY <1>1, InvParts, TopFrame DEF TextOf, Idle
  <1>3. /\ L \in Nat \ {0} /\ NodeIn(heap, N) /\ d \in Nat
        /\ \A k \in DOMAIN frames : frames[k].node = N => k = L
        /\ Frame = frames[L]
    BY <1>1, TopFrame
  <1>4. Len(heap[N].children) \in Nat
    BY <1>2, <1>3, NodeFields DEF HeapOK, NodeIn
  <1>5. HoldsChild(heap, frames, N, d + 1, child)
    <2>1. d + 1 \in 1 .. Len(heap[N].children)
      BY <1>1, <1>3, <1>4
    <2>2. \A k \in DOMAIN frames : frames[k].node = N => frames[k].done < d + 1
      BY <1>3
    <2> QED BY <1>3, <2>1, <2>2 DEF HoldsChild
  <1>6. Null \notin owned
    BY <1>2, NullIsNoAddress DEF HeapOK
  <1>7. /\ FramesOK(heap, Passed) /\ Len(Passed) = L
        /\ \A o, p, x : HoldsChild(heap, Passed, o, p, x) <=>
             HoldsChild(heap, frames, o, p, x) /\ ~(o = N /\ p = d + 1)
        /\ \A o, p, x : HoldsFrame(Passed, o, p, x) <=> HoldsFrame(frames, o, p, x)
        /\ \A x : EnteredIn(Passed, x) <=> EnteredIn(frames, x)
    BY <1>1, PassedFrames
  <1>8. CASE child = Null
    <2>1. frames' = Passed /\ heap' = heap /\ owned' = owned
      BY <1>1, <1>8 DEF DestroyChild, Children, Passed
    <2> HIDE DEF N, d, child, L
    <2>2. \A o, p, x : Holds(heap, owned, Null, Passed, o, p, x) <=>
                       Holds(heap, owned, Null, frames, o, p, x)
      <3> SUFFICES ASSUME NEW o, NEW p, NEW x, x # Null
                   PROVE  Holds(heap, owned, Null, Passed, o, p, x) <=>
                          Holds(heap, owned, Null, frames, o, p, x)
        BY DEF Holds
      <3>1. HoldsChild(heap, Passed, o, p, x) <=> HoldsChild(heap, frames, o, p, x)
        <4>1. o = N /\ p = d + 1 => ~HoldsChild(heap, frames, o, p, x)
          BY <1>5, <1>8 DEF HoldsChild
        <4> QED BY <1>7, <4>1
      <3>2. HoldsName(heap, Passed, o, p, x) <=> HoldsName(heap, frames, o, p, x)
        BY <1>7 DEF HoldsName
      <3> QED BY <1>7, <3>1, <3>2 DEF Holds
    <2>3. HeldOnce(heap, owned, Null, Passed)
      BY <1>2, <2>2 DEF HeldOnce
    <2>4. HeldAs(heap, owned, Null, Passed)
      <3> SUFFICES ASSUME NEW o, NEW p, NEW x, Holds(heap, owned, Null, Passed, o, p, x)
                   PROVE  AsHeld(heap, owned, Null, Passed, o, p, x)
        BY DEF HeldAs
      <3>1. AsHeld(heap, owned, Null, frames, o, p, x)
        BY <1>2, <2>2 DEF HeldAs
      <3>2. HoldsName(heap, Passed, o, p, x) <=> HoldsName(heap, frames, o, p, x)
        BY <1>7 DEF HoldsName
      <3> QED BY <1>7, <3>1, <3>2 DEF AsHeld
    <2>5. Rooted(heap, Passed)
      BY <1>2, <1>7, RootedStill
    <2>6. AllFit(heap, Passed)
      BY <1>2, <1>7 DEF AllFit
    <2> QED BY <1>2, <1>7, <2>1, <2>3, <2>4, <2>5, <2>6, IdleInv
  <1>9. CASE child # Null
    <2>1. /\ frames' = Append(Passed, Entered(child)) /\ heap' = FreedName(child)
          /\ owned' = owned
      BY <1>1, <1>9 DEF DestroyChild, Children, Passed
    <2> HIDE DEF N, d, child, L
    <2>2. Holds(heap, owned, Null, frames, N, d + 1, child)
      BY <1>5, <1>9 DEF Holds
    <2>3. NodeIn(heap, child)
      BY <1>2, <1>5, <2>2 DEF HeldAs, AsHeld, HeldOnce, NodeIn
    <2>4. N # 0
      BY <1>2, <1>5, OwnerKinds
    <2>5. \A o, p, x : x = child /\ Holds(heap, owned, Null, frames, o, p, x) =>
                       o = N /\ p = d + 1
      BY <1>2, <2>2 DEF HeldOnce
    <2>6. ~EnteredIn(frames, child)
      <3> SUFFICES ASSUME NEW k \in DOMAIN frames, frames[k].node = child
                   PROVE  FALSE
        BY DEF EnteredIn
      <3>1. Holds(heap, owned, Null, frames, 0, k, child)
        BY <1>9 DEF Holds, HoldsFrame
      <3> QED BY <2>4, <2>5, <3>1
    <2>7. /\ DOMAIN frames' = DOMAIN Passed \cup {L + 1} /\ L + 1 \notin DOMAIN Passed
          /\ frames'[L + 1].node = child /\ frames'[L + 1].done = 0
          /\ \A k \in DOMAIN Passed : frames'[k] = Passed[k]
      <3>1. /\ DOMAIN Passed = 1 .. L
            /\ Len(Passed) = L /\ Passed \in Seq([node : DOMAIN heap, done : Nat])
        BY <1>7, FrameOfType DEF FramesOK
      <3>2. /\ DOMAIN frames' = 1 .. L + 1 /\ frames'[L + 1] = Entered(child)
            /\ \A k \in 1 .. L : frames'[k] = Passed[k]
        BY <2>1, <3>1
      <3>3. 1 .. L + 1 = 1 .. L \cup {L + 1} /\ L + 1 \notin 1 .. L
        BY <1>3
      <3> QED BY <3>1, <3>2, <3>3 DEF Entered
    <2>8. FramesOK(heap, frames')
      <3> DEFINE F == [node : DOMAIN heap, done : Nat]
      <3>1. Entered(child) \in F
        BY <2>3 DEF Entered, NodeIn
      <3>2. Passed \in Seq(F)
        BY <1>7 DEF FramesOK
      <3> HIDE DEF F
      <3>3. frames' \in Seq(F)
        BY <2>1, <3>1, <3>2
      <3> QED BY <3>3 DEF FramesOK, F
    <2>9. \A o, p, x : HoldsChild(heap, frames', o, p, x) <=>
                         HoldsChild(heap, frames, o, p, x) /\ x # child
      <3> SUFFICES ASSUME NEW o, NEW p, NEW x
                   PROVE  HoldsChild(heap, frames', o, p, x) <=>
                            HoldsChild(heap, frames, o, p, x) /\ x # child
        OBVIOUS
      <3>1. HoldsChild(heap, Passed, o, p, x) => p \in Nat \ {0}
        BY <1>2, OwnerKinds
      <3>2. HoldsChild(heap, frames', o, p, x) <=> HoldsChild(heap, Passed, o, p, x)
        <4>1. HoldsChild(heap, frames', o, p, x) => HoldsChild(heap, Passed, o, p, x)
          BY <2>7 DEF HoldsChild
        <4>2. HoldsChild(heap, Passed, o, p, x) => HoldsChild(heap, frames', o, p, x)
          BY <2>7, <3>1 DEF HoldsChild
        <4> QED BY <4>1, <4>2
      <3>3. HoldsChild(heap, frames, o, p, x) /\ x = child => o = N /\ p = d + 1
        BY <1>9, <2>5 DEF Holds
      <3>4. HoldsChild(heap, frames, o, p, x) /\ o = N /\ p = d + 1 => x = child
        BY <1>5 DEF HoldsChild
      <3> QED BY <1>7, <3>2, <3>3, <3>4
    <2>10. \A o, p, x : HoldsRoot(owned', o, p, x) <=> HoldsRoot(owned, o, p, x) /\ x # child
      <3> SUFFICES ASSUME NEW o, NEW p, HoldsRoot(owned, o, p, child) PROVE FALSE
        BY <2>1 DEF HoldsRoot
      <3>1. Holds(heap, owned, Null, frames, o, p, child) /\ o = 0
        BY <1>9 DEF Holds, HoldsRoot
      <3> QED BY <2>4, <2>5, <3>1
    <2>11. \A o, p, x : HoldsFrame(frames', o, p, x) <=>
                          \/ HoldsFrame(frames, o, p, x)
                          \/ o = 0 /\ p = L + 1 /\ x = child
      <3>1. \A o, p, x : HoldsFrame(frames', o, p, x) <=>
                          \/ HoldsFrame(Passed, o, p, x)
                          \/ o = 0 /\ p = L + 1 /\ x = child
        BY <2>7 DEF HoldsFrame
      <3> QED BY <1>7, <3>1
    <2>12. \A x : EnteredIn(frames', x) <=> EnteredIn(frames, x) \/ x = child
      <3>1. \A x : EnteredIn(frames', x) <=> EnteredIn(Passed, x) \/ x = child
        BY <2>7 DEF EnteredIn
      <3> QED BY <1>7, <3>1
    <2>13. Null \notin owned'
      BY <1>6, <2>1
    <2> QED BY <1>2, <2>1, <2>3, <2>6, <2>8, <2>9, <2>10, <2>11, <2>12, <2>13, EnterKeeps DEF L
  <1> QED BY <1>8, <1>9

\* A node without children left: its array and it are freed, and nothing that
\* it holds is lost.
LEMMA LeaveKeeps ==
  ASSUME IInv, Leave
  PROVE  IInv'
  <1> DEFINE N == Frame.node
             d == Frame.done
             L == Len(frames)
             old == heap[N].array
             f == frames'
  <1>1. frames # << >> /\ d = Len(heap[N].children) /\ UNCHANGED <<owned, call>>
        /\ heap' = Freed({old, N}) /\ f = Front(frames)
    BY DEF Leave, Children
  <1>2. /\ HeapOK(heap) /\ owned \subseteq DOMAIN heap /\ FramesOK(heap, frames)
        /\ HeldOnce(heap, owned, Null, frames) /\ HeldAs(heap, owned, Null, frames)
        /\ Rooted(heap, frames) /\ AllFit(heap, frames)
        /\ call = Idle /\ call' = Idle
    BY <1>1, InvParts, TopFrame DEF TextOf, Idle
  <1>3. /\ L \in Nat \ {0} /\ NodeIn(heap, N) /\ d \in Nat
        /\ \A k \in DOMAIN frames : frames[k].node = N => k = L
        /\ Frame = frames[L]
        /\ DOMAIN frames = 1 .. L
    BY <1>1, <1>2, TopFrame, FrameOfType
  <1>4. /\ DOMAIN heap' = DOMAIN heap \ {old, N}
        /\ \A b \in DOMAIN heap' : heap'[b] = heap[b]
    BY <1>1 DEF Freed
  <1>5. /\ f \in Seq([node : DOMAIN heap, done : Nat])
        /\ DOMAIN f = 1 .. L - 1
        /\ \A k \in 1 .. L - 1 : f[k] = frames[k]
    <2> DEFINE F == [node : DOMAIN heap, done : Nat]
    <2>1. frames \in Seq(F)
      BY <1>2 DEF FramesOK
    <2> HIDE DEF F
    <2>2. f = SubSeq(frames, 1, L - 1)
      BY <1>1 DEF Front
    <2>3. f \in Seq(F) /\ DOMAIN f = 1 .. L - 1 /\ \A k \in 1 .. L - 1 : f[k] = frames[k]
      BY <1>3, <2>1, <2>2
    <2> QED BY <2>3 DEF F
  <1>6. Null \notin DOMAIN heap
    BY <1>2, NullIsNoAddress DEF HeapOK
  <1>7. N \in DOMAIN heap /\ N # Null /\ N # 0 /\ heap[N].kind \in AllKinds
    BY <1>3, <1>6 DEF NodeIn, Null
  <1> HIDE DEF N, d, L, old, f
  <1> DEFINE Before(o, p, x) == Holds(heap, owned, Null, frames, o, p, x)
             After(o, p, x) == Holds(heap', owned, Null, f, o, p, x)
  <1>8. \A x : Before(N, -2, x) <=> x # Null /\ x = old
    BY <1>2, <1>3, HeldArray DEF old
  <1>9. Before(0, L, N)
    BY <1>3, <1>7 DEF Holds, HoldsFrame, N
  <1>10. \A x : Before(0, L, x) => x = N
    <2>1. \A x : /\ ~HoldsChild(heap, frames, 0, L, x) /\ ~HoldsName(heap, frames, 0, L, x)
                 /\ ~HoldsArray(heap, 0, L, x)
      BY <1>2, OwnerKinds
    <2>2. L # -3 /\ L # -4
      BY <1>3
    <2> QED BY <1>3, <2>1, <2>2 DEF Holds, HoldsRoot, HoldsText, HoldsFrame, N
  <1>11. old # Null => heap[old] = Array
    <2> SUFFICES ASSUME old # Null PROVE heap[old] = Array
      OBVIOUS
    <2>1. Before(N, -2, old) /\ HoldsArray(heap, N, -2, old)
      BY <1>3, <1>8 DEF HoldsArray, old
    <2> QED BY <1>2, <2>1 DEF HeldAs, AsHeld
  <1>12. old # N
    BY <1>7, <1>11, KindsOfNodes
  <1>13. \A a : /\ NodeIn(heap', a) <=> NodeIn(heap, a) /\ a # N
                /\ NodeIn(heap', a) => heap'[a] = heap[a]
    BY <1>4, <1>6, <1>11, KindsOfNodes DEF NodeIn
  <1>14. EnteredIn(frames, N)
    BY <1>3 DEF EnteredIn, N
  <1>15. \A k \in DOMAIN frames : k = L \/ (k \in 1 .. L - 1 /\ f[k] = frames[k])
    BY <1>3, <1>5
  <1>16. \A k \in DOMAIN f : k \in DOMAIN frames /\ k # L /\ f[k] = frames[k]
    BY <1>3, <1>5
  <1>17. \A o, p, x :
           /\ HoldsChild(heap', f, o, p, x) <=> HoldsChild(heap, frames, o, p, x)
           /\ HoldsName(heap', f, o, p, x) <=> HoldsName(heap, frames, o, p, x)
           /\ HoldsArray(heap', o, p, x) <=> HoldsArray(heap, o, p, x) /\ o # N
           /\ HoldsFrame(f, o, p, x) <=> HoldsFrame(frames, o, p, x) /\ p # L
    <2> SUFFICES ASSUME NEW o, NEW p, NEW x
                 PROVE
           /\ HoldsChild(heap', f, o, p, x) <=> HoldsChild(heap, frames, o, p, x)
           /\ HoldsName(heap', f, o, p, x) <=> HoldsName(heap, frames, o, p, x)
           /\ HoldsArray(heap', o, p, x) <=> HoldsArray(heap, o, p, x) /\ o # N
           /\ HoldsFrame(f, o, p, x) <=> HoldsFrame(frames, o, p, x) /\ p # L
      OBVIOUS
    <2>1. HoldsFrame(f, o, p, x) <=> HoldsFrame(frames, o, p, x) /\ p # L
      BY <1>5, <1>15, <1>16 DEF HoldsFrame
    <2>2. HoldsArray(heap', o, p, x) <=> HoldsArray(heap, o, p, x) /\ o # N
      BY <1>13 DEF HoldsArray
    <2>3. CASE o = N
      <3>1. ~HoldsChild(heap', f, o, p, x) /\ ~HoldsName(heap', f, o, p, x)
        BY <1>13, <2>3 DEF HoldsChild, HoldsName
      <3>2. ~HoldsName(heap, frames, o, p, x)
        BY <1>14, <2>3 DEF HoldsName
      <3>3. ~HoldsChild(heap, frames, o, p, x)
        <4> SUFFICES ASSUME HoldsChild(heap, frames, o, p, x) PROVE FALSE
          OBVIOUS
        <4>1. p \in 1 .. d /\ frames[L].done < p
          BY <1>1, <1>3, <2>3 DEF HoldsChild, N
        <4>2. d < p /\ p <= d
          BY <1>3, <4>1 DEF d
        <4> QED BY <1>3, <4>1, <4>2
      <3> QED BY <2>1, <2>2, <3>1, <3>2, <3>3
    <2>4. CASE o # N
      <3>1. EnteredIn(f, o) <=> EnteredIn(frames, o)
        <4>1. frames[L].node # o
          BY <1>3, <2>4 DEF N
        <4> QED BY <1>5, <1>15, <1>16, <4>1 DEF EnteredIn
      <3>2. HoldsName(heap', f, o, p, x) <=> HoldsName(heap, frames, o, p, x)
        BY <1>13, <2>4, <3>1 DEF HoldsName
      <3>3. HoldsChild(heap', f, o, p, x) <=> HoldsChild(heap, frames, o, p, x)
        <4>1. frames[L].node # o
          BY <1>3, <2>4 DEF N
        <4>2. (\A k \in DOMAIN f : f[k].node = o => f[k].done < p) <=>
              (\A k \in DOMAIN frames : frames[k].node = o => frames[k].done < p)
          BY <1>5, <1>15, <1>16, <4>1
        <4> QED BY <1>13, <2>4, <4>2 DEF HoldsChild
      <3> QED BY <2>1, <2>2, <3>2, <3>3
    <2> QED BY <2>3, <2>4
  <1>18. \A o, p, x : After(o, p, x) <=>
           Before(o, p, x) /\ ~(o = N /\ p = -2) /\ ~(o = 0 /\ p = L)
    <2> SUFFICES ASSUME NEW o, NEW p, NEW x
                 PROVE  After(o, p, x) <=>
                          Before(o, p, x) /\ ~(o = N /\ p = -2) /\ ~(o = 0 /\ p = L)
      OBVIOUS
    <2>1. /\ HoldsChild(heap, frames, o, p, x) => o # 0 /\ p # -2
          /\ HoldsName(heap, frames, o, p, x) => o # 0 /\ p # -2
          /\ HoldsArray(heap, o, p, x) => o # 0 /\ p = -2
          /\ HoldsFrame(frames, o, p, x) => o = 0
      <3>1. -1 # -2 /\ \A i \in Nat : i # -2
        OBVIOUS
      <3> QED BY <1>2, <3>1, OwnerKinds
    <2>2. HoldsRoot(owned, o, p, x) => o = 0 /\ p # L
      BY <1>3 DEF HoldsRoot
    <2>3. HoldsText(Null, o, p, x) => x = Null
      BY DEF HoldsText
    <2> QED BY <1>7, <1>17, <2>1, <2>2, <2>3 DEF Holds
  <1>19. /\ \A o, p, x : Before(o, p, x) => x \in DOMAIN heap
         /\ \A x \in DOMAIN heap : \E o, p : Before(o, p, x)
         /\ \A o, p, q, r, x : Before(o, p, x) /\ Before(q, r, x) => o = q /\ p = r
    BY <1>2 DEF HeldOnce
  <1>20. HeldOnce(heap', owned, Null, f)
    <2> HIDE DEF Before, After
    <2>1. \A o, p, x : After(o, p, x) => x \in DOMAIN heap'
      <3> SUFFICES ASSUME NEW o, NEW p, NEW x, After(o, p, x), x \notin DOMAIN heap'
                   PROVE  FALSE
        OBVIOUS
      <3>1. Before(o, p, x) /\ ~(o = N /\ p = -2) /\ ~(o = 0 /\ p = L)
        BY <1>18
      <3>2. x \in DOMAIN heap /\ x # Null
        BY <1>6, <1>19, <3>1
      <3>3. x = N \/ x = old
        BY <1>4, <3>2
      <3> QED BY <1>8, <1>9, <1>19, <3>1, <3>2, <3>3
    <2>2. \A x \in DOMAIN heap' : \E o, p : After(o, p, x)
      <3> SUFFICES ASSUME NEW x \in DOMAIN heap' PROVE \E o, p : After(o, p, x)
        OBVIOUS
      <3>1. x \in DOMAIN heap /\ x # N /\ x # old
        BY <1>4
      <3>2. PICK o, p : Before(o, p, x)
        BY <1>19, <3>1
      <3>3. ~(o = N /\ p = -2) /\ ~(o = 0 /\ p = L)
        BY <1>8, <1>10, <3>1, <3>2
      <3> QED BY <1>18, <3>2, <3>3
    <2>3. \A o, p, q, r, x : After(o, p, x) /\ After(q, r, x) => o = q /\ p = r
      BY <1>18, <1>19
    <2> QED BY <2>1, <2>2, <2>3 DEF HeldOnce, After
  <1>21. HeldAs(heap', owned, Null, f)
    <2> SUFFICES ASSUME NEW o, NEW p, NEW x, After(o, p, x)
                 PROVE  AsHeld(heap', owned, Null, f, o, p, x)
      BY DEF HeldAs
    <2>1. AsHeld(heap, owned, Null, frames, o, p, x) /\ x \in DOMAIN heap'
      BY <1>2, <1>18, <1>20 DEF HeldAs, HeldOnce
    <2> QED BY <1>4, <1>17, <2>1 DEF AsHeld
  <1> HIDE DEF Before, After
  <1>22. Rooted(heap', f)
    BY <1>2, <1>17, RootedStill
  <1>23. AllFit(heap', f)
    <2>1. \A a : NodeIn(heap', a) /\ ~EnteredIn(f, a) =>
                   NodeIn(heap, a) /\ ~EnteredIn(frames, a)
      <3> SUFFICES ASSUME NEW a, NodeIn(heap', a), ~EnteredIn(f, a)
                   PROVE  NodeIn(heap, a) /\ ~EnteredIn(frames, a)
        OBVIOUS
      <3>1. NodeIn(heap, a) /\ frames[L].node # a
        BY <1>3, <1>13 DEF N
      <3> QED BY <1>5, <1>15, <3>1 DEF EnteredIn
    <2> QED BY <1>2, <1>4, <1>20, <2>1, AllFitKept
  <1>24. HeapOK(heap')
    BY <1>2, <1>4 DEF HeapOK
  <1>25. owned \subseteq DOMAIN heap'
    <2>1. Null \notin owned
      BY <1>2, <1>6
    <2> QED BY <1>20, <2>1, OwnedKept
  <1>26. FramesOK(heap', f)
    <2>1. FramesOK(heap, f)
      BY <1>5 DEF FramesOK
    <2> QED BY <1>2, <1>20, <2>1, FramesKept
  <1>27. owned' = owned
    BY <1>1
  <1> QED BY <1>2, <1>20, <1>21, <1>22, <1>23, <1>24, <1>25, <1>26, <1>27, IdleInv DEF f

-----------------------------------------------------------------------------
(* The theorems. *)

LEMMA InitInv ==
  ASSUME Init
  PROVE  IInv
  <1>1. heap = [a \in {} |-> Text] /\ owned = {} /\ call = Idle /\ frames = << >>
    BY DEF Init
  <1>2. DOMAIN heap = {} /\ DOMAIN frames = {} /\ TextOf(call) = Null
    BY <1>1 DEF TextOf, Idle
  <1>3. \A o, p, x : ~Holds(heap, owned, Null, frames, o, p, x)
    BY <1>1, <1>2 DEF Holds, HoldsChild, HoldsName, HoldsArray, HoldsRoot, HoldsText,
                      HoldsFrame, NodeIn
  <1>4. TypeOK
    BY <1>1, <1>2 DEF TypeOK, Calls
  <1>5. Accepted
    BY <1>1 DEF Accepted, Idle
  <1>6. /\ HeldOnce(heap, owned, Null, frames)
        /\ HeldAs(heap, owned, Null, frames)
    BY <1>2, <1>3 DEF HeldOnce, HeldAs
  <1>7. Rooted(heap, frames) /\ AllFit(heap, frames)
    BY <1>2 DEF Rooted, AllFit, NodeIn
  <1> QED BY <1>2, <1>4, <1>5, <1>6, <1>7 DEF IInv

LEMMA NextKeepsInv ==
  ASSUME IInv, [Next]_vars
  PROVE  IInv'
  <1>1. CASE UNCHANGED vars
    <2>1. UNCHANGED <<heap, owned, call, frames>>
      BY <1>1 DEF vars
    <2>2. call' \in Calls /\ TextOf(call') = TextOf(call)
      BY <2>1, InvParts DEF TypeOK
    <2>3. Accepted'
      BY <2>1, InvParts DEF Accepted, KindOf
    <2> QED BY <2>1, <2>2, <2>3, QuietStepKeeps
  <1>2. ASSUME NEW kind \in Kinds, NEW arguments \in [DOMAIN Slots(kind) -> owned \cup {Null}],
               New(kind, arguments)
        PROVE  IInv'
    BY <1>2, NewKeeps
  <1>3. ASSUME NEW container \in owned, NEW statement \in owned,
               AddStatement(container, statement)
        PROVE  IInv'
    BY <1>3, AddStatementKeeps
  <1>4. ASSUME NEW a \in owned, Destroy(a)
        PROVE  IInv'
    BY <1>4, DestroyKeeps
  <1>5. CASE CopyText
    <2>1. TextOf(call) = Null
      BY <1>5 DEF CopyText, NeedsText, TextOf
    <2> QED BY <1>5, <2>1, CopyTextKeeps, GivingUpKeeps DEF CopyText
  <1>6. CASE AllocateNode
    BY <1>6, AllocateNodeKeeps, AbandonKeeps DEF AllocateNode
  <1>7. CASE Grow
    <2>1. call.op = "add" /\ TextOf(call) = Null /\ UNCHANGED <<owned, frames>>
      BY <1>7, AddingFacts DEF Grow
    <2>2. \/ /\ heap[call.container].array # Null
             /\ heap' = [heap EXCEPT ![call.container] =
                           Grown(heap[call.container], heap[call.container].array)]
             /\ UNCHANGED call
          \/ /\ HasRoom
             /\ heap' = [b \in (DOMAIN heap \ {heap[call.container].array}) \cup {Fresh} |->
                           IF b = Fresh THEN Array
                           ELSE IF b = call.container
                                THEN Grown(heap[call.container], Fresh)
                                ELSE heap[b]]
             /\ UNCHANGED call
          \/ call' = Idle /\ UNCHANGED heap
      BY <1>7 DEF Grow, Grown
    <2> QED BY <2>1, <2>2, GrowInPlaceKeeps, GrowMovedKeeps, GivingUpKeeps
  <1>8. CASE Store
    BY <1>8, StoreKeeps
  <1>9. CASE DestroyChild
    BY <1>9, DestroyChildKeeps
  <1>10. CASE Leave
    BY <1>10, LeaveKeeps
  <1> QED BY <1>1, <1>2, <1>3, <1>4, <1>5, <1>6, <1>7, <1>8, <1>9, <1>10 DEF Next, Step

LEMMA Invariance == Spec => []IInv
  <1>1. Init => IInv
    BY InitInv
  <1>2. IInv /\ [Next]_vars => IInv'
    BY NextKeepsInv
  <1> QED BY <1>1, <1>2, PTL DEF Spec

\* At every moment, through every failure, growth and destruction, everything
\* that is allocated has one owner, and when the client has destroyed what he
\* owned nothing is left.
THEOREM OneOwner == Spec => []Ownership
  <1>1. IInv => Ownership
    BY InvParts, InvOwnedOnce, InvNothingRemains DEF Ownership
  <1> QED BY <1>1, Invariance, PTL

\* The phases that read a tree meet only children of the kinds they expect.
THEOREM ChildrenAsExpected == Spec => []ChildrenFit
  <1>1. IInv => ChildrenFit
    BY InvChildrenFit
  <1> QED BY <1>1, Invariance, PTL
=============================================================================
