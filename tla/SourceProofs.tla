---------------------------- MODULE SourceProofs ----------------------------
(***************************************************************************)
(* What both passes, and the table they look names up in, rest on.         *)
(*                                                                         *)
(* The operations of the symbol table keep it well formed, and the answers *)
(* of a search, found by a loop, are determined by what the loop has seen. *)
(*                                                                         *)
(* And how the blocks and declarations of a program change when one more   *)
(* visit comes: what was before it stays as it was.                        *)
(*                                                                         *)
(* And which part of a text an expression or a statement takes, and what a *)
(* text is whose operators find their operands.                            *)
(***************************************************************************)
EXTENDS Source, ScopeTable, SequencesExt,
        SequenceTheorems, FiniteSetTheorems, TLAPS

\* A set of natural numbers that is not empty has a least element.
LEMMA LeastOfSet ==
  ASSUME NEW S \in SUBSET Nat, S # {}
  PROVE  \E i \in S : \A j \in S : i <= j
  <1> DEFINE R == OpToRel(<, Nat)
  <1>1. \A i, j \in Nat : i < j => <<i, j>> \in R
    BY DEF OpToRel
  <1>2. IsWellFoundedOn(R, Nat)
    BY NatLessThanWellFounded
  <1> HIDE DEF R
  <1>3. PICK i \in S : \A j \in S : ~(<<j, i>> \in R)
    BY <1>2, WFMin
  <1>4. \A j \in S : i \in Nat /\ j \in Nat /\ ~(j < i)
    BY <1>1, <1>3
  <1>5. \A j \in S : i <= j
    BY <1>4
  <1> QED BY <1>5

\* One that is bounded as well has a greatest.
LEMMA GreatestOfSet ==
  ASSUME NEW S \in SUBSET Nat, S # {}, NEW n \in Nat, \A i \in S : i <= n
  PROVE  \E i \in S : \A j \in S : j <= i
  <1> DEFINE T == {m \in Nat : \A j \in S : j <= m}
  <1>1. T # {} /\ T \in SUBSET Nat
    OBVIOUS
  <1>2. PICK m \in T : \A k \in T : m <= k
    <2> HIDE DEF T
    <2> QED BY <1>1, LeastOfSet
  <1>3. m \in Nat /\ \A j \in S : j \in Nat /\ j <= m
    BY <1>2 DEF T
  <1>4. m \in S
    <2> SUFFICES ASSUME m \notin S PROVE FALSE
      OBVIOUS
    <2>1. \A j \in S : j # m /\ j \in Nat /\ j <= m
      BY <1>3
    <2>2. m # 0 /\ \A j \in S : j <= m - 1
      <3>1. PICK j \in S : TRUE
        OBVIOUS
      <3> QED BY <1>3, <2>1, <3>1
    <2>3. m - 1 \in T
      BY <1>3, <2>2 DEF T
    <2> QED BY <1>2, <1>3, <2>3
  <1> QED BY <1>3, <1>4

\* The fields of the frames of a table have their types.
LEMMA FrameFields ==
  ASSUME NEW t \in Table
  PROVE  /\ t.frames \in Seq(Frame) /\ Len(t.frames) \in Nat
         /\ DOMAIN t.frames = 1 .. Len(t.frames)
         /\ \A s \in DOMAIN t.frames :
              /\ t.frames[s] \in Frame
              /\ t.frames[s].id \in Nat /\ t.frames[s].depth \in Nat
              /\ t.frames[s].active \in BOOLEAN /\ t.frames[s].parent \in Nat
  <1>1. t.frames \in Seq(Frame)
    BY DEF Table
  <1>2. \A s \in DOMAIN t.frames : t.frames[s] \in Frame
    BY <1>1
  <1> QED BY <1>1, <1>2 DEF Frame

\* The positions of a well-formed table, and the depth of its current frame.
LEMMA WellFormedIndices ==
  ASSUME NEW t, WellFormed(t)
  PROVE  /\ Len(t.frames) \in Nat /\ DOMAIN t.frames = 1 .. Len(t.frames)
         /\ t.current \in DOMAIN t.frames /\ t.frames[t.current].active
         /\ CurrentFrame(t).depth \in Nat
  BY FrameFields DEF WellFormed, Nested, CurrentFrame

\* Leaving a scope changes the active flag of the current frame, and no other
\* field of a frame.
LEMMA ExitFrames ==
  ASSUME NEW t \in Table, t.current \in DOMAIN t.frames,
         CurrentFrame(t).parent \in Nat
  PROVE  LET c == t.current
             u == ExitScope(t)
         IN  /\ u \in Table
             /\ u.symbols = t.symbols /\ u.current = t.frames[c].parent
             /\ u.next_scope_id = t.next_scope_id
             /\ Len(u.frames) = Len(t.frames)
             /\ DOMAIN u.frames = DOMAIN t.frames
             /\ \A s \in DOMAIN t.frames :
                  /\ u.frames[s].id = t.frames[s].id
                  /\ u.frames[s].depth = t.frames[s].depth
                  /\ u.frames[s].parent = t.frames[s].parent
                  /\ u.frames[s].active <=> (t.frames[s].active /\ s # c)
  <1> DEFINE c == t.current
             p == t.frames[c].parent
             left == [t.frames[c] EXCEPT !.active = FALSE]
             v == [t.frames EXCEPT ![c].active = FALSE]
             u == ExitScope(t)
  <1>1. /\ left \in Frame /\ ~left.active /\ left.id = t.frames[c].id
        /\ left.depth = t.frames[c].depth /\ left.parent = t.frames[c].parent
    BY FrameFields DEF Frame
  <1>2. v = [t.frames EXCEPT ![c] = left]
    OBVIOUS
  <1>3. u = [t EXCEPT !.frames = v, !.current = p] /\ p \in Nat
    BY DEF ExitScope, CurrentFrame
  <1> HIDE DEF left, v, u, p
  <1>4. /\ v \in Seq(Frame) /\ Len(v) = Len(t.frames)
        /\ \A s \in DOMAIN t.frames :
             v[s] = IF s = c THEN left ELSE t.frames[s]
    BY <1>1, <1>2, FrameFields, ExceptSeq
  <1>5. /\ u \in Table /\ u.frames = v /\ u.symbols = t.symbols
        /\ u.current = p /\ u.next_scope_id = t.next_scope_id
    BY <1>3, <1>4 DEF Table
  <1>6. DOMAIN u.frames = DOMAIN t.frames
    BY <1>4, <1>5, FrameFields
  <1> QED BY <1>1, <1>4, <1>5, <1>6 DEF u, p

\* symbol_table_create makes a well-formed table.
LEMMA NewIsWellFormed == WellFormed(NewTable)
  <1>1. NewTable \in Table
    BY DEF NewTable, Table, Frame, Symbol, GlobalFrame, Null
  <1>2. Rooted(NewTable) /\ Nested(NewTable) /\ Owned(NewTable)
    BY DEF NewTable, Rooted, Nested, Owned, GlobalFrame, Null
  <1> QED BY <1>1, <1>2 DEF WellFormed

\* Entering a scope keeps the table well formed: the new frame is the newest,
\* and its parent is the frame that was the newest active one.
LEMMA EnterKeepsWellFormed ==
  ASSUME NEW t, WellFormed(t)
  PROVE  WellFormed(EnterScope(t))
  <1> DEFINE f == [id |-> t.next_scope_id, depth |-> CurrentFrame(t).depth + 1,
                   active |-> TRUE, parent |-> t.current]
             u == EnterScope(t)
             n == Len(t.frames)
  <1>1. /\ t \in Table /\ Rooted(t) /\ Nested(t) /\ Owned(t)
        /\ t.current \in 1 .. n /\ n \in Nat /\ t.current \in Nat
        /\ t.frames \in Seq(Frame)
    BY DEF WellFormed, Nested, Table
  <1>2. f \in Frame
    <2>1. CurrentFrame(t) \in Frame
      BY <1>1 DEF CurrentFrame
    <2>2. CurrentFrame(t).depth + 1 \in Nat
      BY <2>1 DEF Frame
    <2>3. t.next_scope_id \in Nat /\ t.current \in Nat
      BY <1>1 DEF Table
    <2> QED BY <2>2, <2>3 DEF Frame
  <1> HIDE DEF f
  <1>3. /\ u.frames = Append(t.frames, f) /\ u.symbols = t.symbols
        /\ u.current = n + 1 /\ u.next_scope_id = t.next_scope_id + 1
    BY DEF EnterScope, f
  <1>4. /\ u.frames \in Seq(Frame)
        /\ Len(u.frames) = n + 1
        /\ DOMAIN u.frames = 1 .. n + 1
        /\ \A s \in 1 .. n : u.frames[s] = t.frames[s]
        /\ u.frames[n + 1] = f
    BY <1>1, <1>2, <1>3
  <1>5. u \in Table
    BY <1>1, <1>3, <1>4 DEF Table, EnterScope
  <1>6. f.id = n /\ f.parent = t.current /\ f.active
        /\ f.depth = t.frames[t.current].depth + 1
    BY <1>1 DEF f, Rooted, CurrentFrame
  <1>7. /\ \A s \in 1 .. n :
             /\ t.frames[s].parent \in 0 .. s - 1
             /\ s # 1 => /\ t.frames[s].parent \in 1 .. n
                         /\ u.frames[t.frames[s].parent] =
                            t.frames[t.frames[s].parent]
    <2>1. \A s \in 1 .. n :
            /\ t.frames[s].parent \in 0 .. s - 1
            /\ s # 1 => t.frames[s].parent \in 1 .. n
      BY <1>1 DEF Rooted, Null
    <2> QED BY <1>4, <2>1
  <1> HIDE DEF u
  <1>8. Rooted(u)
    <2>1. u.next_scope_id = Len(u.frames)
      BY <1>1, <1>3, <1>4 DEF Rooted
    <2>2. ASSUME NEW s \in DOMAIN u.frames
          PROVE  /\ u.frames[s].id = s - 1
                 /\ u.frames[s].parent \in 0 .. s - 1
                 /\ u.frames[s].parent = Null <=> s = 1
                 /\ s = 1 => u.frames[s].depth = 0
                 /\ s # 1 => u.frames[s].depth =
                              u.frames[u.frames[s].parent].depth + 1
      <3>1. CASE s \in 1 .. n
        <4>1. u.frames[s] = t.frames[s] /\ s \in DOMAIN t.frames
          BY <1>1, <1>4, <3>1
        <4>2. /\ t.frames[s].id = s - 1
              /\ t.frames[s].parent \in 0 .. s - 1
              /\ t.frames[s].parent = Null <=> s = 1
              /\ s = 1 => t.frames[s].depth = 0
              /\ s # 1 => t.frames[s].depth =
                           t.frames[t.frames[s].parent].depth + 1
          BY <1>1, <4>1 DEF Rooted
        <4>3. s # 1 => u.frames[t.frames[s].parent] = t.frames[t.frames[s].parent]
          BY <1>7, <3>1
        <4> QED BY <4>1, <4>2, <4>3
      <3>2. CASE s = n + 1
        <4>1. u.frames[s] = f /\ u.frames[t.current] = t.frames[t.current]
          BY <1>1, <1>4, <3>2
        <4>2. s # 1 /\ s - 1 = n /\ t.current \in 0 .. s - 1 /\ t.current # 0
          BY <1>1, <3>2
        <4> QED BY <1>6, <4>1, <4>2 DEF Null
      <3> QED BY <1>1, <1>4, <3>1, <3>2
    <2> QED BY <2>1, <2>2 DEF Rooted
  <1>9. Nested(u)
    <2>1. ASSUME NEW s \in DOMAIN u.frames, u.frames[s].active
          PROVE  /\ s <= u.current
                 /\ s # 1 => u.frames[u.frames[s].parent].active
      <3>1. CASE s \in 1 .. n
        <4>1. u.frames[s] = t.frames[s] /\ s \in DOMAIN t.frames
          BY <1>1, <1>4, <3>1
        <4>2. /\ s <= t.current
              /\ s # 1 => t.frames[t.frames[s].parent].active
          BY <1>1, <2>1, <4>1 DEF Nested
        <4> QED BY <1>1, <1>3, <1>7, <3>1, <4>1, <4>2
      <3>2. CASE s = n + 1
        BY <1>1, <1>3, <1>4, <1>6, <3>2 DEF Nested
      <3> QED BY <1>1, <1>4, <3>1, <3>2
    <2>2. ASSUME NEW r \in DOMAIN u.frames, NEW s \in DOMAIN u.frames,
                 u.frames[r].active, u.frames[s].active, r < s
          PROVE  r <= u.frames[s].parent
      <3>1. CASE s \in 1 .. n
        <4>1. r \in 1 .. n /\ r \in DOMAIN t.frames /\ s \in DOMAIN t.frames
          BY <1>1, <1>4, <2>2, <3>1
        <4>2. u.frames[r] = t.frames[r] /\ u.frames[s] = t.frames[s]
          BY <1>4, <3>1, <4>1
        <4> QED BY <1>1, <2>2, <4>1, <4>2 DEF Nested
      <3>2. CASE s = n + 1
        <4>1. r \in 1 .. n /\ r \in DOMAIN t.frames
          BY <1>1, <1>4, <2>2, <3>2
        <4>2. u.frames[r] = t.frames[r] /\ u.frames[s].parent = t.current
          BY <1>4, <1>6, <3>2, <4>1
        <4> QED BY <1>1, <2>2, <4>1, <4>2 DEF Nested
      <3> QED BY <1>1, <1>4, <3>1, <3>2
    <2>3. u.current \in DOMAIN u.frames /\ u.frames[u.current].active
      BY <1>1, <1>3, <1>4, <1>6
    <2> QED BY <2>1, <2>2, <2>3 DEF Nested
  <1>10. Owned(u)
    BY <1>1, <1>3, <1>4 DEF Owned
  <1> QED BY <1>5, <1>8, <1>9, <1>10 DEF WellFormed, u

\* Leaving a scope keeps the table well formed: the parent of the frame that
\* was left is the newest frame still active.
LEMMA ExitKeepsWellFormed ==
  ASSUME NEW t, WellFormed(t), ~AtGlobal(t)
  PROVE  WellFormed(ExitScope(t))
  <1> DEFINE c == t.current
             p == t.frames[c].parent
             u == ExitScope(t)
  <1>1. /\ t \in Table /\ Rooted(t) /\ Nested(t) /\ Owned(t)
        /\ c \in 1 .. Len(t.frames) /\ Len(t.frames) \in Nat
        /\ DOMAIN t.frames = 1 .. Len(t.frames)
    BY FrameFields DEF WellFormed, Nested
  <1>2. p \in 1 .. c - 1 /\ p \in DOMAIN t.frames /\ c # 1
    BY <1>1 DEF Rooted, AtGlobal, CurrentFrame, Null
  <1>3. /\ u.symbols = t.symbols /\ u.current = p
        /\ u.next_scope_id = t.next_scope_id
        /\ u \in Table
    BY <1>1, <1>2, ExitFrames DEF CurrentFrame
  <1>4. /\ Len(u.frames) = Len(t.frames)
        /\ DOMAIN u.frames = DOMAIN t.frames
        /\ ~u.frames[c].active
        /\ \A s \in DOMAIN t.frames :
             /\ u.frames[s].id = t.frames[s].id
             /\ u.frames[s].depth = t.frames[s].depth
             /\ u.frames[s].parent = t.frames[s].parent
             /\ u.frames[s].active <=> (t.frames[s].active /\ s # c)
    BY <1>1, <1>2, ExitFrames DEF CurrentFrame
  <1> HIDE DEF u
  <1>6. Rooted(u)
    <2>1. \A s \in DOMAIN t.frames :
            s # 1 => t.frames[s].parent \in DOMAIN t.frames
      BY <1>1 DEF Rooted, Null
    <2>2. \A s \in DOMAIN t.frames :
            s # 1 => u.frames[u.frames[s].parent].depth =
                     t.frames[t.frames[s].parent].depth
      BY <1>4, <2>1
    <2>3. ASSUME NEW s \in DOMAIN t.frames
          PROVE  /\ u.frames[s].id = s - 1
                 /\ u.frames[s].parent \in 0 .. s - 1
                 /\ u.frames[s].parent = Null <=> s = 1
                 /\ s = 1 => u.frames[s].depth = 0
                 /\ s # 1 => u.frames[s].depth =
                              u.frames[u.frames[s].parent].depth + 1
      <3>1. /\ t.frames[s].id = s - 1
            /\ t.frames[s].parent \in 0 .. s - 1
            /\ t.frames[s].parent = Null <=> s = 1
            /\ s = 1 => t.frames[s].depth = 0
            /\ s # 1 => t.frames[s].depth =
                         t.frames[t.frames[s].parent].depth + 1
        BY <1>1 DEF Rooted
      <3> QED BY <1>4, <2>2, <3>1
    <2>4. u.next_scope_id = Len(u.frames)
      BY <1>1, <1>3, <1>4 DEF Rooted
    <2> QED BY <1>4, <2>3, <2>4 DEF Rooted
  <1>7. Nested(u)
    <2>1. \A s \in DOMAIN t.frames :
            u.frames[s].active => t.frames[s].active /\ s # c
      BY <1>4
    <2>2. u.frames[p].active
      <3>1. t.frames[p].active
        BY <1>1, <1>2 DEF Nested
      <3>2. p # c
        BY <1>1, <1>2
      <3> QED BY <1>2, <1>4, <3>1, <3>2
    <2>3. ASSUME NEW s \in DOMAIN u.frames, u.frames[s].active
          PROVE  s <= p
      <3>1. s \in DOMAIN t.frames /\ t.frames[s].active /\ s # c
        BY <1>4, <2>1, <2>3
      <3>2. s < c
        BY <1>1, <3>1 DEF Nested
      <3> QED BY <1>1, <3>1, <3>2 DEF Nested
    <2>4. ASSUME NEW s \in DOMAIN u.frames, u.frames[s].active, s # 1
          PROVE  u.frames[u.frames[s].parent].active
      <3>1. s \in DOMAIN t.frames /\ t.frames[s].active /\ s <= p
        BY <1>4, <2>1, <2>3, <2>4
      <3>2. t.frames[s].parent \in 0 .. s - 1 /\ t.frames[s].parent # 0
        BY <1>1, <2>4, <3>1 DEF Rooted, Null
      <3>3. t.frames[s].parent # c /\ t.frames[s].parent \in DOMAIN t.frames
        <4> DEFINE q == t.frames[s].parent
                   n == Len(t.frames)
        <4>1. s \in 1 .. n /\ n \in Nat
          BY <1>1, <3>1
        <4>2. p < c
          BY <1>1, <1>2
        <4>3. q \in Nat /\ q # 0 /\ q < s
          BY <3>2, <4>1
        <4>4. p \in Nat /\ c \in Nat /\ s <= p
          BY <1>1, <1>2, <3>1
        <4> HIDE DEF q, p, c, n
        <4>5. s \in Nat /\ s <= n
          BY <4>1
        <4>6. q # c
          BY <4>2, <4>3, <4>4, <4>5
        <4>7. q \in 1 .. n
          BY <4>1, <4>3, <4>5
        <4> QED BY <1>1, <4>6, <4>7 DEF q, n
      <3>4. t.frames[t.frames[s].parent].active
        BY <1>1, <2>4, <3>1 DEF Nested
      <3> QED BY <1>4, <3>1, <3>3, <3>4
    <2>5. ASSUME NEW r \in DOMAIN u.frames, NEW s \in DOMAIN u.frames,
                 u.frames[r].active, u.frames[s].active, r < s
          PROVE  r <= u.frames[s].parent
      BY <1>1, <1>4, <2>1, <2>5 DEF Nested
    <2> QED BY <1>2, <1>3, <1>4, <2>2, <2>3, <2>4, <2>5 DEF Nested
  <1>8. Owned(u)
    BY <1>1, <1>3, <1>4 DEF Owned
  <1> QED BY <1>3, <1>6, <1>7, <1>8 DEF WellFormed, u

\* A new table has one active frame, at depth 0.
LEMMA NewIsChain == Chain(NewTable)
  BY DEF Chain, Open, NewTable, GlobalFrame, CurrentFrame

\* Entering a scope adds the next depth to those of the active frames.
LEMMA EnterKeepsChain ==
  ASSUME NEW t, WellFormed(t), Chain(t)
  PROVE  Chain(EnterScope(t))
  <1> DEFINE f == [id |-> t.next_scope_id, depth |-> CurrentFrame(t).depth + 1,
                   active |-> TRUE, parent |-> t.current]
             u == EnterScope(t)
             n == Len(t.frames)
             d == t.frames[t.current].depth
  <1>1. /\ n \in Nat /\ t.current \in 1 .. n
        /\ t.frames \in Seq(Frame) /\ DOMAIN t.frames = 1 .. n
    BY DEF WellFormed, Nested, Table
  <1>2. d \in Nat /\ \A s \in 1 .. n : t.frames[s].depth \in Nat
    BY <1>1, FrameFields DEF WellFormed
  <1>3. /\ u.frames = Append(t.frames, f) /\ u.current = n + 1
        /\ f.active /\ f.depth = d + 1
    BY DEF EnterScope, CurrentFrame
  <1> HIDE DEF f, u
  <1>4. /\ DOMAIN u.frames = 1 .. n + 1
        /\ \A s \in 1 .. n : u.frames[s] = t.frames[s]
        /\ u.frames[n + 1] = f
    BY <1>1, <1>3
  <1>5. Open(u) = Open(t) \cup {n + 1} /\ n + 1 \notin Open(t)
    BY <1>1, <1>3, <1>4 DEF Open
  <1>6. \A s \in Open(t) : /\ s \in 1 .. n
                            /\ u.frames[s].depth = t.frames[s].depth
                            /\ t.frames[s].depth <= d
    BY <1>1, <1>4 DEF Chain, Open, CurrentFrame
  <1>7. CurrentFrame(u).depth = d + 1
    BY <1>3, <1>4 DEF CurrentFrame
  <1>8. \A e \in 0 .. d + 1 : \E s \in Open(u) : u.frames[s].depth = e
    <2>1. \A e \in 0 .. d : \E s \in Open(t) : t.frames[s].depth = e
      BY DEF Chain, CurrentFrame
    <2>2. u.frames[n + 1].depth = d + 1 /\ n + 1 \in Open(u)
      BY <1>3, <1>4, <1>5
    <2>3. \A e \in 0 .. d + 1 : e \in 0 .. d \/ e = d + 1
      BY <1>2
    <2> QED BY <1>5, <1>6, <2>1, <2>2, <2>3
  <1>9. \A s \in Open(u) : u.frames[s].depth <= d + 1
    <2>1. \A s \in Open(t) : u.frames[s].depth <= d + 1
      BY <1>2, <1>6
    <2>2. u.frames[n + 1].depth <= d + 1
      BY <1>2, <1>3, <1>4
    <2> QED BY <1>5, <2>1, <2>2
  <1>10. \A r, s \in Open(u) : r < s => u.frames[r].depth < u.frames[s].depth
    <2>1. \A r, s \in Open(t) : r < s => t.frames[r].depth < t.frames[s].depth
      BY DEF Chain
    <2>2. \A r, s \in Open(t) : r < s => u.frames[r].depth < u.frames[s].depth
      BY <1>6, <2>1
    <2>3. \A r \in Open(t) : /\ r < n + 1
                             /\ u.frames[r].depth < u.frames[n + 1].depth
      BY <1>1, <1>2, <1>3, <1>4, <1>6
    <2> QED BY <1>1, <1>5, <1>6, <2>2, <2>3
  <1>11. Chain(u)
    BY <1>7, <1>8, <1>9, <1>10 DEF Chain
  <1> QED BY <1>11 DEF u

\* Leaving a scope takes the greatest depth away from the active frames: no
\* other active frame has it.
LEMMA ExitKeepsChain ==
  ASSUME NEW t, WellFormed(t), Chain(t), ~AtGlobal(t)
  PROVE  Chain(ExitScope(t))
  <1> DEFINE c == t.current
             p == t.frames[c].parent
             d == t.frames[c].depth
             u == ExitScope(t)
  <1>1. /\ c \in DOMAIN t.frames /\ c \in Open(t) /\ t \in Table
        /\ DOMAIN t.frames \subseteq Nat
        /\ \A s \in Open(t) : s \in DOMAIN t.frames /\ s <= c
    BY FrameFields DEF WellFormed, Nested, Open
  <1>2. d \in Nat /\ \A s \in DOMAIN t.frames : t.frames[s].depth \in Nat
    BY <1>1, FrameFields
  <1>3. c # 1 /\ p \in DOMAIN t.frames /\ p # c /\ d = t.frames[p].depth + 1
        /\ p \in Nat
    BY <1>1 DEF WellFormed, Table, Rooted, AtGlobal, CurrentFrame, Null
  <1>4. u.current = p
    BY <1>1, <1>3, ExitFrames DEF CurrentFrame
  <1>5. /\ DOMAIN u.frames = DOMAIN t.frames
        /\ \A s \in DOMAIN t.frames :
             /\ u.frames[s].depth = t.frames[s].depth
             /\ u.frames[s].active <=> (t.frames[s].active /\ s # c)
    BY <1>1, <1>3, ExitFrames DEF CurrentFrame
  <1> HIDE DEF u
  <1>6. Open(u) = Open(t) \ {c}
    BY <1>5 DEF Open
  <1>7. /\ \A e \in 0 .. d : \E s \in Open(t) : t.frames[s].depth = e
        /\ \A r, s \in Open(t) : r < s => t.frames[r].depth < t.frames[s].depth
    BY DEF Chain, CurrentFrame
  <1>8. \A s \in Open(u) : /\ u.frames[s].depth = t.frames[s].depth
                            /\ t.frames[s].depth < d
    BY <1>1, <1>5, <1>6, <1>7
  <1>9. CurrentFrame(u).depth = d - 1
    BY <1>2, <1>3, <1>4, <1>5 DEF CurrentFrame
  <1>10. ASSUME NEW e \in 0 .. d - 1
         PROVE  \E s \in Open(u) : u.frames[s].depth = e
    <2>1. e \in 0 .. d /\ e # d
      BY <1>2
    <2>2. PICK s \in Open(t) : t.frames[s].depth = e
      BY <1>7, <2>1
    <2> QED BY <1>6, <1>8, <2>1, <2>2
  <1>11. \A s \in Open(u) : u.frames[s].depth <= d - 1
    BY <1>1, <1>2, <1>6, <1>8
  <1>12. \A r, s \in Open(u) : r < s => u.frames[r].depth < u.frames[s].depth
    BY <1>6, <1>7, <1>8
  <1>13. Chain(u)
    BY <1>9, <1>10, <1>11, <1>12 DEF Chain
  <1> QED BY <1>13 DEF u

\* lookup_in_scope answers Null exactly when the scope holds no such symbol,
\* and otherwise the one symbol it holds.
LEMMA LookupInScopeAnswer ==
  ASSUME NEW t, WellFormed(t), NEW s, NEW n
  PROVE  /\ LookupInScope(t, s, n) \in {Null} \cup DOMAIN t.symbols
         /\ LookupInScope(t, s, n) = Null <=> Holding(t, s, n) = {}
         /\ LookupInScope(t, s, n) # Null
              => LookupInScope(t, s, n) \in Holding(t, s, n)
  <1> DEFINE H == Holding(t, s, n)
  <1>1. H \subseteq DOMAIN t.symbols /\ DOMAIN t.symbols \subseteq Nat \ {0}
    BY DEF Holding, WellFormed, Table
  <1>2. CASE H = {}
    BY <1>2 DEF LookupInScope
  <1>3. CASE H # {}
    <2>1. PICK i \in H : TRUE
      BY <1>3
    <2>2. \A j \in H : j = i
      BY <2>1 DEF Holding, WellFormed, Owned
    <2>3. First(H) \in H
      BY <1>1, <2>1, <2>2 DEF First
    <2>4. LookupInScope(t, s, n) = First(H)
      BY <1>3 DEF LookupInScope
    <2> QED BY <1>1, <1>3, <2>3, <2>4 DEF Null
  <1> QED BY <1>2, <1>3

\* Declaring a name that the current scope does not hold keeps the table well
\* formed.
LEMMA InsertKeepsWellFormed ==
  ASSUME NEW t, WellFormed(t), NEW n \in Names, NEW ty \in Types,
         NEW line \in Nat, LookupCurrent(t, n) = Null
  PROVE  WellFormed(Insert(t, n, ty, line))
  <1> DEFINE y == [name |-> n, type |-> ty, line |-> line,
                   scope_id |-> CurrentFrame(t).id,
                   scope_depth |-> CurrentFrame(t).depth, owner |-> t.current]
             u == Insert(t, n, ty, line)
             k == Len(t.symbols)
  <1>1. /\ t \in Table /\ Rooted(t) /\ Nested(t) /\ Owned(t)
        /\ t.current \in DOMAIN t.frames /\ t.current \in Nat
        /\ t.frames \in Seq(Frame) /\ t.symbols \in Seq(Symbol) /\ k \in Nat
    BY DEF WellFormed, Nested, Table
  <1>2. y \in Symbol /\ y.name = n /\ y.owner = t.current
        /\ y.scope_id = t.current - 1
    <2>1. CurrentFrame(t) \in Frame /\ CurrentFrame(t).id = t.current - 1
      BY <1>1 DEF CurrentFrame, Rooted
    <2> QED BY <1>1, <2>1 DEF Symbol, Frame
  <1> HIDE DEF y
  <1>3. /\ u.frames = t.frames /\ u.current = t.current
        /\ u.next_scope_id = t.next_scope_id
        /\ u.symbols = Append(t.symbols, y)
    BY <1>1 DEF Insert, Table, y
  <1>4. /\ u.symbols \in Seq(Symbol)
        /\ DOMAIN u.symbols = 1 .. k + 1
        /\ \A i \in 1 .. k : u.symbols[i] = t.symbols[i]
        /\ u.symbols[k + 1] = y
        /\ DOMAIN t.symbols = 1 .. k
    BY <1>1, <1>2, <1>3
  <1>5. u \in Table
    BY <1>1, <1>3, <1>4 DEF Table, Insert
  <1> HIDE DEF u
  <1>6. Rooted(u) /\ Nested(u)
    BY <1>1, <1>3 DEF Rooted, Nested
  <1>7. \A i \in 1 .. k : ~(/\ t.symbols[i].owner = t.current
                            /\ t.symbols[i].name = n)
    <2>1. Holding(t, t.current, n) = {}
      BY LookupInScopeAnswer DEF LookupCurrent
    <2> QED BY <1>4, <2>1 DEF Holding
  <1>8. Owned(u)
    <2>1. ASSUME NEW i \in 1 .. k + 1
          PROVE  /\ u.symbols[i].owner \in DOMAIN u.frames
                 /\ u.symbols[i].scope_id = u.symbols[i].owner - 1
      <3>1. CASE i \in 1 .. k
        BY <1>1, <1>3, <1>4, <3>1 DEF Owned
      <3>2. CASE i = k + 1
        BY <1>1, <1>2, <1>3, <1>4, <3>2
      <3> QED BY <1>1, <3>1, <3>2
    <2>2. ASSUME NEW i \in 1 .. k + 1, NEW j \in 1 .. k + 1,
                 u.symbols[i].owner = u.symbols[j].owner,
                 u.symbols[i].name = u.symbols[j].name
          PROVE  i = j
      <3>1. CASE i \in 1 .. k /\ j \in 1 .. k
        BY <1>1, <1>4, <2>2, <3>1 DEF Owned
      <3>2. CASE i = k + 1 /\ j \in 1 .. k
        BY <1>2, <1>4, <1>7, <2>2, <3>2
      <3>3. CASE i \in 1 .. k /\ j = k + 1
        BY <1>2, <1>4, <1>7, <2>2, <3>3
      <3>4. i \in 1 .. k \/ i = k + 1
        BY <1>1
      <3>5. j \in 1 .. k \/ j = k + 1
        BY <1>1
      <3> QED BY <3>1, <3>2, <3>3, <3>4, <3>5
    <2> QED BY <1>4, <2>1, <2>2 DEF Owned
  <1> QED BY <1>5, <1>6, <1>8 DEF WellFormed, u

\* Declaring a name changes no frame.
LEMMA InsertKeepsChain ==
  ASSUME NEW t \in Table, NEW n, NEW ty, NEW line, Chain(t)
  PROVE  Chain(Insert(t, n, ty, line))
  <1> DEFINE u == Insert(t, n, ty, line)
  <1>1. u.frames = t.frames /\ u.current = t.current
    BY DEF Insert, Table
  <1> HIDE DEF u
  <1>2. Chain(u)
    BY <1>1 DEF Chain, Open, CurrentFrame
  <1> QED BY <1>2 DEF u

\* A search that has seen every younger frame of the kind it looks for, and
\* none of them holds the name, has its answer in the first one that does.
LEMMA FoundIsNewest ==
  ASSUME NEW t, WellFormed(t), NEW n, NEW kind \in BOOLEAN,
         NEW c \in DOMAIN t.frames, t.frames[c].active = kind,
         Holding(t, c, n) # {},
         \A s \in DOMAIN t.frames :
           t.frames[s].active = kind /\ s > c => Holding(t, s, n) = {}
  PROVE  Find(t, n, kind) = LookupInScope(t, c, n)
  <1> DEFINE D == Declaring(t, n, kind)
  <1>1. c \in D /\ D \subseteq Nat
    BY DEF Declaring, WellFormed, Table
  <1>2. \A s \in D : s <= c
    BY <1>1 DEF Declaring
  <1>3. Newest(D) = c
    <2> HIDE DEF D
    <2>1. \A i \in D : (\A j \in D : j <= i) => i = c
      BY <1>1, <1>2
    <2> QED BY <1>1, <1>2, <2>1 DEF Newest
  <1> QED BY <1>1, <1>3 DEF Find

\* A search that has seen every frame of its kind, in vain, answers Null.
LEMMA NotFoundIsNull ==
  ASSUME NEW t, WellFormed(t), NEW n, NEW kind \in BOOLEAN,
         \A s \in DOMAIN t.frames :
           t.frames[s].active = kind => Holding(t, s, n) = {}
  PROVE  Find(t, n, kind) = Null
  BY DEF Find, Declaring

\* A search over several scopes finds a symbol exactly when one of the scopes
\* holds the name.
LEMMA FindAnswer ==
  ASSUME NEW t, WellFormed(t), NEW n, NEW kind \in BOOLEAN
  PROVE  /\ Find(t, n, kind) # Null <=>
              \E s \in DOMAIN t.frames : /\ t.frames[s].active = kind
                                         /\ Holding(t, s, n) # {}
         /\ Find(t, n, kind) # Null => Find(t, n, kind) \in DOMAIN t.symbols
  <1> DEFINE S == Declaring(t, n, kind)
  <1>1. CASE S = {}
    BY <1>1 DEF Find, Declaring
  <1>2. CASE S # {}
    <2>1. /\ S \in SUBSET Nat /\ \A s \in S : s <= Len(t.frames)
          /\ Len(t.frames) \in Nat
      BY WellFormedIndices DEF Declaring
    <2> HIDE DEF S
    <2>2. PICK s \in S : \A r \in S : r <= s
      BY <1>2, <2>1, GreatestOfSet
    <2>3. Newest(S) \in S
      BY <2>2 DEF Newest
    <2>4. /\ Newest(S) \in DOMAIN t.frames /\ t.frames[Newest(S)].active = kind
          /\ Holding(t, Newest(S), n) # {}
      BY <2>3 DEF S, Declaring
    <2>5. Find(t, n, kind) = LookupInScope(t, Newest(S), n)
      BY <1>2 DEF Find, S
    <2>6. /\ LookupInScope(t, Newest(S), n) # Null
          /\ LookupInScope(t, Newest(S), n) \in DOMAIN t.symbols
      BY <2>4, LookupInScopeAnswer
    <2> QED BY <2>4, <2>5, <2>6
  <1> QED BY <1>1, <1>2

-----------------------------------------------------------------------------
\* Min is the least element of a set of natural numbers that is not empty.
LEMMA MinOfSet ==
  ASSUME NEW S \in SUBSET Nat, S # {}
  PROVE  Min(S) \in S /\ \A i \in S : Min(S) <= i
  <1>1. PICK i \in S : \A j \in S : i <= j
    BY LeastOfSet
  <1> QED BY <1>1 DEF Min

\* And its Max is the greatest of one that is bounded.
LEMMA MaxOfSet ==
  ASSUME NEW S \in SUBSET Nat, S # {}, NEW n \in Nat, \A i \in S : i <= n
  PROVE  Max(S) \in S /\ \A i \in S : i <= Max(S)
  <1>1. PICK i \in S : \A j \in S : j <= i
    BY GreatestOfSet
  <1> QED BY <1>1 DEF Max

-----------------------------------------------------------------------------
(* Counting what precedes a position. *)

\* The positions that Before counts.
Counted(ast, p, kind) == {q \in DOMAIN ast : q < p /\ ast[q].kind = kind}

\* They are finitely many.
LEMMA BeforeCounts ==
  ASSUME NEW V, NEW ast \in Seq(V), NEW p, NEW kind
  PROVE  /\ IsFiniteSet(Counted(ast, p, kind))
         /\ Before(ast, p, kind) = Cardinality(Counted(ast, p, kind))
         /\ Before(ast, p, kind) \in Nat
  <1>1. IsFiniteSet(1 .. Len(ast))
    BY FS_Interval
  <1>2. Counted(ast, p, kind) \in SUBSET (1 .. Len(ast))
    BY DEF Counted
  <1>3. Before(ast, p, kind) = Cardinality(Counted(ast, p, kind))
    BY DEF Before, Counted
  <1> QED BY <1>1, <1>2, <1>3, FS_Subset, FS_CardinalityType

\* A position of the kind is counted once it is passed, and what was counted
\* stays counted.
LEMMA BeforeGrows ==
  ASSUME NEW V, NEW ast \in Seq(V), NEW kind, NEW b \in Nat, NEW p \in Nat,
         b <= p
  PROVE  /\ Before(ast, b, kind) <= Before(ast, p, kind)
         /\ b \in DOMAIN ast /\ b < p /\ ast[b].kind = kind
              => Before(ast, b, kind) < Before(ast, p, kind)
  <1> DEFINE Q == Counted(ast, b, kind)
             R == Counted(ast, p, kind)
  <1>1. /\ IsFiniteSet(Q) /\ Before(ast, b, kind) = Cardinality(Q)
        /\ IsFiniteSet(R) /\ Before(ast, p, kind) = Cardinality(R)
        /\ Cardinality(Q) \in Nat /\ Cardinality(R) \in Nat
    BY BeforeCounts
  <1>2. Q \in SUBSET R
    BY DEF Counted
  <1>3. Cardinality(Q) <= Cardinality(R)
    BY <1>1, <1>2, FS_Subset
  <1>4. ASSUME b \in DOMAIN ast, b < p, ast[b].kind = kind
        PROVE  Cardinality(Q) < Cardinality(R)
    <2>1. b \notin Q /\ Q \cup {b} \in SUBSET R
      BY <1>4 DEF Counted
    <2> HIDE DEF Q, R
    <2>2. Cardinality(Q \cup {b}) = Cardinality(Q) + 1
      BY <1>1, <2>1, FS_AddElement
    <2>3. Cardinality(Q \cup {b}) <= Cardinality(R)
      BY <1>1, <2>1, FS_Subset
    <2> QED BY <1>1, <2>2, <2>3
  <1> QED BY <1>1, <1>3, <1>4

\* A visit that comes is not counted before it ...
LEMMA BeforeStays ==
  ASSUME NEW V, NEW ast \in Seq(V), NEW v \in V, NEW kind, NEW p \in 0 .. Len(ast) + 1
  PROVE  Before(Append(ast, v), p, kind) = Before(ast, p, kind)
  <1>1. Counted(Append(ast, v), p, kind) = Counted(ast, p, kind)
    BY DEF Counted
  <1>2. Append(ast, v) \in Seq(V)
    OBVIOUS
  <1> QED BY <1>1, <1>2, BeforeCounts

\* ... but behind it.
LEMMA BeforeAppend ==
  ASSUME NEW V, NEW ast \in Seq(V), NEW v \in V, NEW kind
  PROVE  LET new == Append(ast, v)
         IN  /\ \A p \in 0 .. Len(ast) + 1 :
                  Before(new, p, kind) = Before(ast, p, kind)
             /\ Before(new, Len(ast) + 2, kind) =
                  Before(ast, Len(ast) + 1, kind)
                    + (IF v.kind = kind THEN 1 ELSE 0)
  <1> DEFINE new == Append(ast, v)
             h == Len(ast) + 1
             Q == Counted(ast, h, kind)
             R == Counted(new, h + 1, kind)
  <1>1. /\ h \in Nat \ {0} /\ DOMAIN ast = 1 .. h - 1 /\ DOMAIN new = 1 .. h
        /\ \A q \in 1 .. h - 1 : new[q] = ast[q]
        /\ new[h] = v /\ new \in Seq(V)
    OBVIOUS
  <1>2. ASSUME NEW p \in 0 .. h
        PROVE  Before(new, p, kind) = Before(ast, p, kind)
    BY BeforeStays
  <1>3. /\ IsFiniteSet(Q) /\ Before(ast, h, kind) = Cardinality(Q)
        /\ Cardinality(Q) \in Nat
        /\ Before(new, h + 1, kind) = Cardinality(R)
    BY <1>1, BeforeCounts
  <1>4. /\ v.kind = kind => R = Q \cup {h} /\ h \notin Q
        /\ v.kind # kind => R = Q
    BY <1>1 DEF Counted
  <1>5. h + 1 = Len(ast) + 2
    OBVIOUS
  <1> HIDE DEF Q, R
  <1>6. Cardinality(R) = Cardinality(Q) + (IF v.kind = kind THEN 1 ELSE 0)
    BY <1>3, <1>4, FS_AddElement
  <1> QED BY <1>2, <1>3, <1>5, <1>6

-----------------------------------------------------------------------------
(* Blocks. *)

\* A block takes the level up, the end of one down, any other visit neither.
LEMMA LevelAppend ==
  ASSUME NEW V, NEW ast \in Seq(V), NEW v \in V
  PROVE  LET new == Append(ast, v)
         IN  /\ \A p \in 0 .. Len(ast) + 1 : /\ Level(ast, p) \in Int
                                             /\ Level(new, p) = Level(ast, p)
             /\ Level(new, Len(ast) + 2) =
                  CASE v.kind = "block" -> Level(ast, Len(ast) + 1) + 1
                    [] v.kind = "end" -> Level(ast, Len(ast) + 1) - 1
                    [] OTHER -> Level(ast, Len(ast) + 1)
  <1>1. \A p : /\ Before(ast, p, "block") \in Nat
               /\ Before(ast, p, "end") \in Nat
    BY BeforeCounts
  <1>2. \A p \in 0 .. Len(ast) + 1 :
          /\ Level(ast, p) \in Int
          /\ Level(Append(ast, v), p) = Level(ast, p)
    <2>1. \A p \in 0 .. Len(ast) + 1 :
            /\ Before(Append(ast, v), p, "block") = Before(ast, p, "block")
            /\ Before(Append(ast, v), p, "end") = Before(ast, p, "end")
      <3>1. \A p \in 0 .. Len(ast) + 1 :
              Before(Append(ast, v), p, "block") = Before(ast, p, "block")
        BY BeforeStays
      <3>2. \A p \in 0 .. Len(ast) + 1 :
              Before(Append(ast, v), p, "end") = Before(ast, p, "end")
        BY BeforeStays
      <3> QED BY <3>1, <3>2
    <2> QED BY <1>1, <2>1 DEF Level
  <1>3. /\ Before(Append(ast, v), Len(ast) + 2, "block") =
             Before(ast, Len(ast) + 1, "block")
               + (IF v.kind = "block" THEN 1 ELSE 0)
        /\ Before(Append(ast, v), Len(ast) + 2, "end") =
             Before(ast, Len(ast) + 1, "end")
               + (IF v.kind = "end" THEN 1 ELSE 0)
    BY BeforeAppend
  <1>4. Len(ast) + 1 \in 0 .. Len(ast) + 1
    OBVIOUS
  <1> QED BY <1>1, <1>2, <1>3, <1>4 DEF Level

\* At a position that has been come to, the blocks are open that were.
LEMMA OpenAppend ==
  ASSUME NEW V, NEW ast \in Seq(V), NEW v \in V, NEW b \in Nat,
         NEW p \in 0 .. Len(ast) + 1
  PROVE  OpenAt(Append(ast, v), b, p) <=> OpenAt(ast, b, p)
  <1> DEFINE new == Append(ast, v)
  <1>1. CASE b = 0 \/ ~(b < p)
    BY <1>1 DEF OpenAt
  <1>2. CASE b # 0 /\ b < p
    <2>1. b \in 1 .. Len(ast) /\ new[b] = ast[b]
      BY <1>2
    <2>2. \A q \in b .. p : Level(new, q) = Level(ast, q)
      <3>1. \A q \in b .. p : q \in 0 .. Len(ast) + 1
        BY <2>1
      <3> QED BY <3>1, LevelAppend
    <2>3. (\A q \in b + 1 .. p : Level(new, q) > Level(new, b))
            <=> (\A q \in b + 1 .. p : Level(ast, q) > Level(ast, b))
      BY <1>2, <2>2
    <2> QED BY <2>1, <2>3 DEF OpenAt
  <1> QED BY <1>1, <1>2

\* Behind a visit the blocks are open that were open at it, if the level is
\* still above theirs, and the block that it opens.
LEMMA OpenBehind ==
  ASSUME NEW V, NEW ast \in Seq(V), NEW v \in V,
         NEW b \in 1 .. Len(ast) + 1
  PROVE  LET new == Append(ast, v)
             h == Len(ast) + 1
         IN  OpenAt(new, b, h + 1) <=>
               IF b = h THEN v.kind = "block"
               ELSE OpenAt(ast, b, h) /\ Level(new, h + 1) > Level(ast, b)
  <1> DEFINE new == Append(ast, v)
             h == Len(ast) + 1
  <1>1. h \in Nat \ {0} /\ new[h] = v /\ b \in Nat \ {0} /\ b <= h
    OBVIOUS
  <1>2. /\ Level(new, h) = Level(ast, h) /\ Level(ast, h) \in Int
        /\ v.kind = "block" => Level(new, h + 1) = Level(ast, h) + 1
    <2>1. h \in 0 .. Len(ast) + 1 /\ h + 1 = Len(ast) + 2
      OBVIOUS
    <2> QED BY <2>1, LevelAppend
  <1>3. CASE b = h
    <2>1. \A q \in b + 1 .. h + 1 : q = h + 1
      BY <1>1, <1>3
    <2> QED BY <1>1, <1>2, <1>3, <2>1 DEF OpenAt
  <1>4. CASE b < h
    <2>1. OpenAt(new, b, h) <=> OpenAt(ast, b, h)
      BY <1>1, OpenAppend
    <2>2. Level(new, b) = Level(ast, b)
      BY <1>1, <1>4, LevelAppend
    <2>3. OpenAt(new, b, h + 1) <=>
            OpenAt(new, b, h) /\ Level(new, h + 1) > Level(new, b)
      <3>1. \A q : q \in b + 1 .. h + 1 <=> q \in b + 1 .. h \/ q = h + 1
        BY <1>1, <1>4
      <3>2. (\A q \in b + 1 .. h + 1 : Level(new, q) > Level(new, b)) <=>
              /\ \A q \in b + 1 .. h : Level(new, q) > Level(new, b)
              /\ Level(new, h + 1) > Level(new, b)
        BY <3>1
      <3> QED BY <1>1, <1>4, <3>2 DEF OpenAt
    <2> QED BY <1>4, <2>1, <2>2, <2>3
  <1> QED BY <1>1, <1>3, <1>4

\* BlockAt is the innermost block that is open.
LEMMA InnermostBlock ==
  ASSUME NEW ast, NEW p \in Nat \ {0}
  PROVE  /\ BlockAt(ast, p) \in 0 .. p - 1
         /\ OpenAt(ast, BlockAt(ast, p), p)
         /\ \A b \in 0 .. p - 1 : OpenAt(ast, b, p) => b <= BlockAt(ast, p)
  <1> DEFINE S == {b \in 0 .. p - 1 : OpenAt(ast, b, p)}
  <1>1. S \in SUBSET Nat /\ 0 \in S /\ \A b \in S : b <= p - 1
    BY DEF OpenAt
  <1>2. p - 1 \in Nat
    OBVIOUS
  <1> HIDE DEF S
  <1>3. Max(S) \in S /\ \A b \in S : b <= Max(S)
    BY <1>1, <1>2, MaxOfSet
  <1> QED BY <1>3 DEF BlockAt, S

\* The block that is the innermost one is BlockAt.
LEMMA InnermostIs ==
  ASSUME NEW ast, NEW p \in Nat \ {0}, NEW m \in 0 .. p - 1,
         OpenAt(ast, m, p), \A b \in 0 .. p - 1 : OpenAt(ast, b, p) => b <= m
  PROVE  BlockAt(ast, p) = m
  <1>1. BlockAt(ast, p) <= m /\ m <= BlockAt(ast, p)
    BY InnermostBlock
  <1> QED BY <1>1, InnermostBlock

\* The innermost block at a position is there to stay.
LEMMA BlockAtAppend ==
  ASSUME NEW V, NEW ast \in Seq(V), NEW v \in V, NEW p \in 1 .. Len(ast) + 1
  PROVE  BlockAt(Append(ast, v), p) = BlockAt(ast, p)
  <1>1. \A b \in 0 .. p - 1 : OpenAt(Append(ast, v), b, p) <=> OpenAt(ast, b, p)
    BY OpenAppend
  <1> QED BY <1>1 DEF BlockAt

\* So is the number of a block.
LEMMA OrdinalAppend ==
  ASSUME NEW V, NEW ast \in Seq(V), NEW v \in V, NEW b \in 0 .. Len(ast) + 1
  PROVE  Ordinal(Append(ast, v), b) = Ordinal(ast, b)
  BY BeforeAppend DEF Ordinal

\* Blocks are numbered in the order of the text.
LEMMA OrdinalGrows ==
  ASSUME NEW V, NEW ast \in Seq(V),
         NEW a \in Nat, NEW b \in 1 .. Len(ast), a < b,
         a = 0 \/ ast[a].kind = "block"
  PROVE  Ordinal(ast, a) < Ordinal(ast, b) /\ Ordinal(ast, b) \in Nat
  <1>1. Before(ast, b, "block") \in Nat /\ Before(ast, a, "block") \in Nat
    BY BeforeCounts
  <1>2. CASE a = 0
    BY <1>1, <1>2 DEF Ordinal
  <1>3. CASE a # 0
    <2>1. a \in DOMAIN ast /\ a <= b /\ b \in Nat
      BY <1>3
    <2>2. Before(ast, a, "block") < Before(ast, b, "block")
      BY <1>3, <2>1, BeforeGrows
    <2> QED BY <1>1, <1>3, <2>2 DEF Ordinal
  <1> QED BY <1>2, <1>3

-----------------------------------------------------------------------------
(* Frames and blocks. *)

BlocksOf(text) == {0} \cup {b \in DOMAIN text : text[b].kind = "block"}

DepthOf(text, b) == IF b = 0 THEN 0 ELSE Level(text, b) + 1

\* Table t has a frame for the program and for each block of the text, in
\* their order, as deep as the block, and active if the block is open.
FramesMatch(text, t) ==
  /\ Len(t.frames) = Before(text, Len(text) + 1, "block") + 1
  /\ CurrentFrame(t).depth = Level(text, Len(text) + 1)
  /\ \A b \in BlocksOf(text) :
       LET f == Ordinal(text, b) + 1
       IN  /\ f \in DOMAIN t.frames
           /\ t.frames[f].active <=> OpenAt(text, b, Len(text) + 1)
           /\ t.frames[f].depth = DepthOf(text, b)
  /\ \A f \in DOMAIN t.frames :
       \E b \in BlocksOf(text) : Ordinal(text, b) + 1 = f

\* Every symbol is owned by the frame of the block that declares it.
SymbolsPlaced(text, t) ==
  \A i \in DOMAIN t.symbols :
    /\ t.symbols[i].line \in DOMAIN text
    /\ t.symbols[i].owner = Ordinal(text, BlockAt(text, t.symbols[i].line)) + 1

PlacedIn(text, t) ==
  WellFormed(t) /\ Chain(t) /\ FramesMatch(text, t) /\ SymbolsPlaced(text, t)

-----------------------------------------------------------------------------
(* Blocks and frames. *)

\* What a visit does to the blocks there were, for any visit.
LEMMA BlocksAppend ==
  ASSUME NEW V, NEW text \in Seq(V), NEW v \in V
  PROVE  LET new == Append(text, v)
             h == Len(text) + 1
         IN  /\ h \in Nat \ {0} /\ Len(new) = h
             /\ BlocksOf(text) \subseteq 0 .. h - 1
             /\ BlocksOf(new) = IF v.kind = "block" THEN BlocksOf(text) \cup {h}
                                ELSE BlocksOf(text)
             /\ \A b \in BlocksOf(text) :
                  /\ Ordinal(new, b) = Ordinal(text, b)
                  /\ DepthOf(new, b) = DepthOf(text, b)
                  /\ DepthOf(text, b) \in Int
                  /\ OpenAt(text, b, h) /\ b # 0 => Level(text, h) >= DepthOf(text, b)
                  /\ OpenAt(new, b, h + 1) <=>
                       /\ OpenAt(text, b, h)
                       /\ b = 0 \/ Level(new, h + 1) >= DepthOf(text, b)
  <1> DEFINE new == Append(text, v)
             h == Len(text) + 1
  <1>1. /\ h \in Nat \ {0} /\ DOMAIN text = 1 .. h - 1
        /\ new \in Seq(V) /\ DOMAIN new = 1 .. h /\ Len(new) = h /\ new[h] = v
        /\ \A b \in 1 .. h - 1 : new[b] = text[b]
    OBVIOUS
  <1>2. /\ BlocksOf(text) \subseteq 0 .. h - 1
        /\ BlocksOf(new) = IF v.kind = "block" THEN BlocksOf(text) \cup {h}
                           ELSE BlocksOf(text)
    BY <1>1 DEF BlocksOf
  <1>3. /\ \A p \in 0 .. h : /\ Level(text, p) \in Int
                             /\ Level(new, p) = Level(text, p)
        /\ Level(new, h + 1) \in Int
    <2>1. \A p \in 0 .. Len(text) + 1 : /\ Level(text, p) \in Int
                                        /\ Level(new, p) = Level(text, p)
      BY LevelAppend
    <2>2. Level(new, h + 1) \in Int
      <3>1. Before(new, h + 1, "block") \in Nat
        BY <1>1, BeforeCounts
      <3>2. Before(new, h + 1, "end") \in Nat
        BY <1>1, BeforeCounts
      <3> HIDE DEF new, h
      <3> QED BY <3>1, <3>2 DEF Level
    <2> QED BY <2>1, <2>2
  <1>4. ASSUME NEW b \in BlocksOf(text)
        PROVE  /\ Ordinal(new, b) = Ordinal(text, b)
               /\ DepthOf(new, b) = DepthOf(text, b)
               /\ DepthOf(text, b) \in Int
    <2>1. b \in 0 .. Len(text) + 1 /\ b \in 0 .. h
      BY <1>1, <1>2
    <2> QED BY <1>3, <2>1, OrdinalAppend DEF DepthOf
  <1>5. ASSUME NEW b \in BlocksOf(text), b # 0
        PROVE  /\ OpenAt(text, b, h) => Level(text, h) >= DepthOf(text, b)
               /\ OpenAt(new, b, h + 1) <=>
                    OpenAt(text, b, h) /\ Level(new, h + 1) >= DepthOf(text, b)
    <2>1. b \in 1 .. Len(text) + 1 /\ b # h /\ b \in 0 .. h /\ b < h
      BY <1>1, <1>2, <1>5
    <2>2. OpenAt(new, b, h + 1) <=>
            OpenAt(text, b, h) /\ Level(new, h + 1) > Level(text, b)
      BY <2>1, OpenBehind
    <2>3. OpenAt(text, b, h) => Level(text, h) > Level(text, b)
      BY <1>1, <1>5, <2>1 DEF OpenAt
    <2>4. Level(text, b) \in Int /\ Level(text, h) \in Int
      BY <1>1, <1>3, <2>1
    <2> QED BY <1>3, <1>5, <2>2, <2>3, <2>4 DEF DepthOf
  <1>6. OpenAt(new, 0, h + 1) /\ OpenAt(text, 0, h)
    BY DEF OpenAt
  <1> QED BY <1>1, <1>2, <1>4, <1>5, <1>6

\* Symbols stay placed when the text grows.
LEMMA TextKeepsSymbols ==
  ASSUME NEW V, NEW text \in Seq(V), NEW v \in V, NEW t,
         SymbolsPlaced(text, t)
  PROVE  SymbolsPlaced(Append(text, v), t)
  <1> DEFINE new == Append(text, v)
  <1>1. ASSUME NEW p \in DOMAIN text
        PROVE  /\ p \in DOMAIN new
               /\ Ordinal(new, BlockAt(new, p)) = Ordinal(text, BlockAt(text, p))
    <2>1. p \in 1 .. Len(text) + 1 /\ p \in Nat \ {0} /\ p \in DOMAIN new
      OBVIOUS
    <2>2. BlockAt(new, p) = BlockAt(text, p)
      BY <2>1, BlockAtAppend
    <2>3. BlockAt(text, p) \in 0 .. Len(text) + 1
      BY <2>1, InnermostBlock
    <2> QED BY <2>1, <2>2, <2>3, OrdinalAppend
  <1> QED BY <1>1 DEF SymbolsPlaced

\* A visit that opens or closes no block leaves all the frames right.
LEMMA TextKeepsFrames ==
  ASSUME NEW V, NEW text \in Seq(V), NEW v \in V, NEW t,
         FramesMatch(text, t), v.kind \notin {"block", "end"}
  PROVE  FramesMatch(Append(text, v), t)
  <1> DEFINE new == Append(text, v)
             h == Len(text) + 1
  <1>1. /\ Before(new, h + 1, "block") = Before(text, h, "block")
        /\ Level(new, h + 1) = Level(text, h)
    <2>1. h + 1 = Len(text) + 2
      OBVIOUS
    <2>2. Before(text, h, "block") \in Nat
      BY BeforeCounts
    <2> QED BY <2>1, <2>2, BeforeAppend, LevelAppend
  <1>2. /\ Len(new) = h /\ BlocksOf(new) = BlocksOf(text)
        /\ \A b \in BlocksOf(text) :
             /\ Ordinal(new, b) = Ordinal(text, b)
             /\ DepthOf(new, b) = DepthOf(text, b)
             /\ OpenAt(new, b, h + 1) <=> OpenAt(text, b, h)
    BY <1>1, BlocksAppend
  <1> HIDE DEF new
  <1>3. FramesMatch(new, t)
    BY <1>1, <1>2 DEF FramesMatch
  <1> QED BY <1>3 DEF new

\* A block and the scope that is entered for it go together.
LEMMA EnterKeepsFrames ==
  ASSUME NEW V, NEW text \in Seq(V), NEW v \in V, v.kind = "block",
         NEW t, WellFormed(t), Chain(t), FramesMatch(text, t)
  PROVE  FramesMatch(Append(text, v), EnterScope(t))
  <1> DEFINE new == Append(text, v)
             h == Len(text) + 1
             u == EnterScope(t)
             n == Len(t.frames)
             k == CurrentFrame(t).depth
             f == [id |-> t.next_scope_id, depth |-> k + 1, active |-> TRUE,
                   parent |-> t.current]
  <1>1. /\ n \in Nat /\ DOMAIN t.frames = 1 .. n /\ t.frames \in Seq(Frame)
        /\ k \in Nat
    BY WellFormedIndices DEF WellFormed, Table
  <1>2. u.frames = Append(t.frames, f) /\ u.current = n + 1
        /\ f.active /\ f.depth = k + 1
    BY DEF EnterScope
  <1> HIDE DEF f, u
  <1>3. /\ DOMAIN u.frames = 1 .. n + 1 /\ Len(u.frames) = n + 1
        /\ \A s \in 1 .. n : u.frames[s] = t.frames[s]
        /\ u.frames[n + 1] = f
    BY <1>1, <1>2
  <1>4. /\ Before(text, h, "block") + 1 = n /\ Level(text, h) = k
        /\ \A b \in BlocksOf(text) :
             LET g == Ordinal(text, b) + 1
             IN  /\ g \in DOMAIN t.frames
                 /\ t.frames[g].active <=> OpenAt(text, b, h)
                 /\ t.frames[g].depth = DepthOf(text, b)
        /\ \A g \in DOMAIN t.frames :
             \E b \in BlocksOf(text) : Ordinal(text, b) + 1 = g
    BY DEF FramesMatch
  <1>5. /\ Before(new, h + 1, "block") = Before(text, h, "block") + 1
        /\ Before(new, h, "block") = Before(text, h, "block")
        /\ Before(text, h, "block") \in Nat
        /\ Level(new, h + 1) = k + 1 /\ Level(new, h) = k
    <2>1. h + 1 = Len(text) + 2 /\ h \in 0 .. Len(text) + 1
      OBVIOUS
    <2>2. Before(text, h, "block") \in Nat
      BY BeforeCounts
    <2> QED BY <1>4, <2>1, <2>2, BeforeAppend, LevelAppend
  <1>6. /\ h \in Nat \ {0} /\ Len(new) = h
        /\ BlocksOf(new) = BlocksOf(text) \cup {h} /\ h \notin BlocksOf(text)
        /\ \A b \in BlocksOf(text) :
             /\ Ordinal(new, b) = Ordinal(text, b)
             /\ DepthOf(new, b) = DepthOf(text, b)
             /\ OpenAt(new, b, h + 1) <=> OpenAt(text, b, h)
    <2>1. h \in Nat \ {0} /\ Len(new) = h /\ BlocksOf(text) \subseteq 0 .. h - 1
          /\ BlocksOf(new) = BlocksOf(text) \cup {h}
      BY BlocksAppend
    <2>2. ASSUME NEW b \in BlocksOf(text)
          PROVE  /\ Ordinal(new, b) = Ordinal(text, b)
                 /\ DepthOf(new, b) = DepthOf(text, b)
                 /\ OpenAt(new, b, h + 1) <=> OpenAt(text, b, h)
      <3>1. /\ DepthOf(text, b) \in Int
            /\ OpenAt(text, b, h) /\ b # 0 => k >= DepthOf(text, b)
        BY <1>4, BlocksAppend
      <3>2. OpenAt(text, b, h) /\ b # 0 => k + 1 >= DepthOf(text, b)
        BY <1>1, <3>1
      <3> QED BY <1>5, <3>2, BlocksAppend
    <2> QED BY <2>1, <2>2
  <1>7. /\ Ordinal(new, h) + 1 = n + 1 /\ DepthOf(new, h) = k + 1
        /\ OpenAt(new, h, h + 1)
    <2>1. Ordinal(new, h) = n
      BY <1>4, <1>5, <1>6 DEF Ordinal
    <2>2. DepthOf(new, h) = k + 1
      BY <1>5, <1>6 DEF DepthOf
    <2>3. OpenAt(new, h, h + 1)
      <3>1. h \in 1 .. Len(text) + 1
        OBVIOUS
      <3> QED BY <3>1, OpenBehind
    <2> QED BY <1>1, <2>1, <2>2, <2>3
  <1>8. CurrentFrame(u).depth = k + 1
    BY <1>2, <1>3 DEF CurrentFrame
  <1> HIDE DEF new, h, k, n
  <1>9. FramesMatch(new, u)
    <2>1. ASSUME NEW b \in BlocksOf(new)
          PROVE  LET g == Ordinal(new, b) + 1
                 IN  /\ g \in DOMAIN u.frames
                     /\ u.frames[g].active <=> OpenAt(new, b, h + 1)
                     /\ u.frames[g].depth = DepthOf(new, b)
      <3>1. CASE b = h
        BY <1>1, <1>2, <1>3, <1>7, <3>1
      <3>2. CASE b \in BlocksOf(text)
        BY <1>1, <1>3, <1>4, <1>6, <3>2
      <3> QED BY <1>6, <3>1, <3>2
    <2>2. ASSUME NEW g \in DOMAIN u.frames
          PROVE  \E b \in BlocksOf(new) : Ordinal(new, b) + 1 = g
      <3>1. CASE g = n + 1
        BY <1>6, <1>7, <3>1
      <3>2. CASE g \in DOMAIN t.frames
        BY <1>4, <1>6, <3>2
      <3> QED BY <1>1, <1>3, <3>1, <3>2
    <2>3. /\ Len(u.frames) = Before(new, Len(new) + 1, "block") + 1
          /\ CurrentFrame(u).depth = Level(new, Len(new) + 1)
      BY <1>3, <1>4, <1>5, <1>6, <1>8
    <2>4. Len(new) = h
      BY <1>6
    <2> QED BY <2>1, <2>2, <2>3, <2>4 DEF FramesMatch
  <1> QED BY <1>9 DEF new, u

\* The end of a block and the exit of its scope go together: of the frames
\* only the current one is as deep as the text is.
LEMMA ExitKeepsFrames ==
  ASSUME NEW V, NEW text \in Seq(V), NEW v \in V, v.kind = "end",
         NEW t, WellFormed(t), Chain(t), ~AtGlobal(t), FramesMatch(text, t)
  PROVE  FramesMatch(Append(text, v), ExitScope(t))
  <1> DEFINE new == Append(text, v)
             h == Len(text) + 1
             u == ExitScope(t)
             c == t.current
             p == t.frames[c].parent
             k == CurrentFrame(t).depth
  <1>1. /\ c \in DOMAIN t.frames /\ DOMAIN t.frames = 1 .. Len(t.frames)
        /\ Len(t.frames) \in Nat /\ t.frames[c].active
        /\ k \in Nat /\ k = t.frames[c].depth /\ p # Null /\ t \in Table
    BY WellFormedIndices DEF WellFormed, AtGlobal, CurrentFrame
  <1>2. /\ p \in DOMAIN t.frames /\ t.frames[p].depth + 1 = k
        /\ t.frames[p].depth \in Nat /\ p \in Nat
    <2>1. p \in 1 .. c - 1 /\ c # 1
      BY <1>1 DEF WellFormed, Rooted, Null
    <2>2. p \in DOMAIN t.frames
      BY <1>1, <2>1
    <2>3. t.frames[p].depth \in Nat
      BY <1>1, <2>2, FrameFields
    <2>4. k = t.frames[p].depth + 1
      BY <1>1, <2>1 DEF WellFormed, Rooted
    <2> QED BY <2>1, <2>2, <2>3, <2>4
  <1>3. /\ u.current = p
        /\ Len(u.frames) = Len(t.frames) /\ DOMAIN u.frames = DOMAIN t.frames
        /\ \A s \in DOMAIN t.frames :
             /\ u.frames[s].depth = t.frames[s].depth
             /\ u.frames[s].active <=> (t.frames[s].active /\ s # c)
    <2>1. CurrentFrame(t).parent \in Nat
      BY <1>2 DEF CurrentFrame
    <2> QED BY <1>1, <2>1, ExitFrames
  <1>4. CurrentFrame(u).depth = k - 1
    <2> HIDE DEF u, p, k
    <2>1. CurrentFrame(u).depth = u.frames[p].depth
      BY <1>3 DEF CurrentFrame
    <2>2. u.frames[p].depth = t.frames[p].depth
      BY <1>2, <1>3
    <2> QED BY <1>2, <2>1, <2>2
  <1>5. \A s \in DOMAIN t.frames : /\ t.frames[s].active \in BOOLEAN
                                   /\ t.frames[s].depth \in Nat
    BY <1>1, FrameFields
  <1>6. \A s \in DOMAIN t.frames :
          t.frames[s].active => (s # c <=> t.frames[s].depth <= k - 1)
    <2> SUFFICES ASSUME NEW s \in DOMAIN t.frames, t.frames[s].active, s # c
                 PROVE  t.frames[s].depth <= k - 1
      BY <1>1
    <2>1. s < c
      BY <1>1 DEF WellFormed, Nested
    <2>2. t.frames[s].depth < k
      BY <1>1, <2>1 DEF Chain, Open
    <2> QED BY <1>1, <1>5, <2>2
  <1>7. /\ Len(t.frames) = Before(text, h, "block") + 1 /\ Level(text, h) = k
        /\ \A b \in BlocksOf(text) :
             LET g == Ordinal(text, b) + 1
             IN  /\ g \in DOMAIN t.frames
                 /\ t.frames[g].active <=> OpenAt(text, b, h)
                 /\ t.frames[g].depth = DepthOf(text, b)
        /\ \A g \in DOMAIN t.frames :
             \E b \in BlocksOf(text) : Ordinal(text, b) + 1 = g
    BY DEF FramesMatch
  <1>8. /\ Before(new, h + 1, "block") = Before(text, h, "block")
        /\ Level(new, h + 1) = k - 1
    <2>1. h + 1 = Len(text) + 2
      OBVIOUS
    <2>2. Before(text, h, "block") \in Nat
      BY BeforeCounts
    <2>3. Level(new, h + 1) = Level(text, h) - 1
      BY <2>1, LevelAppend
    <2>4. Before(new, h + 1, "block") = Before(text, h, "block")
      BY <2>1, <2>2, BeforeAppend
    <2> QED BY <1>7, <2>3, <2>4
  <1>9. /\ Len(new) = h /\ BlocksOf(new) = BlocksOf(text)
        /\ \A b \in BlocksOf(text) :
             /\ Ordinal(new, b) = Ordinal(text, b)
             /\ DepthOf(new, b) = DepthOf(text, b)
             /\ OpenAt(new, b, h + 1) <=>
                  OpenAt(text, b, h) /\ (b = 0 \/ k - 1 >= DepthOf(text, b))
    BY <1>8, BlocksAppend
  <1>10. ASSUME NEW b \in BlocksOf(text)
         PROVE  u.frames[Ordinal(text, b) + 1].active <=> OpenAt(new, b, h + 1)
    <2> DEFINE g == Ordinal(text, b) + 1
    <2>1. /\ g \in DOMAIN t.frames
          /\ t.frames[g].active <=> OpenAt(text, b, h)
          /\ t.frames[g].depth = DepthOf(text, b)
      BY <1>7
    <2>2. b = 0 => k - 1 >= DepthOf(text, b)
      BY <1>2 DEF DepthOf
    <2> HIDE DEF g, k, c, h, u, new
    <2>3. t.frames[g].depth \in Nat /\ k \in Nat
      BY <1>1, <1>5, <2>1
    <2>4. u.frames[g].active <=> t.frames[g].active /\ t.frames[g].depth <= k - 1
      BY <1>3, <1>6, <2>1
    <2>5. OpenAt(new, b, h + 1) <=> OpenAt(text, b, h) /\ k - 1 >= DepthOf(text, b)
      BY <1>9, <2>2
    <2>6. t.frames[g].depth <= k - 1 <=> k - 1 >= t.frames[g].depth
      BY <2>3
    <2> QED BY <2>1, <2>4, <2>5, <2>6 DEF g
  <1> HIDE DEF new, h, k, c, p, u
  <1>11. FramesMatch(new, u)
    <2>1. /\ Len(u.frames) = Before(new, Len(new) + 1, "block") + 1
          /\ CurrentFrame(u).depth = Level(new, Len(new) + 1)
      BY <1>3, <1>4, <1>7, <1>8, <1>9
    <2>2. ASSUME NEW b \in BlocksOf(new)
          PROVE  LET g == Ordinal(new, b) + 1
                 IN  /\ g \in DOMAIN u.frames
                     /\ u.frames[g].active <=> OpenAt(new, b, Len(new) + 1)
                     /\ u.frames[g].depth = DepthOf(new, b)
      BY <1>3, <1>7, <1>9, <1>10
    <2>3. \A g \in DOMAIN u.frames :
            \E b \in BlocksOf(new) : Ordinal(new, b) + 1 = g
      BY <1>3, <1>7, <1>9
    <2> QED BY <2>1, <2>2, <2>3 DEF FramesMatch
  <1> QED BY <1>11 DEF new, u

\* The frame that belongs to the innermost open block is the current one.
LEMMA CurrentIsInnermost ==
  ASSUME NEW V, NEW text \in Seq(V), NEW t, WellFormed(t), FramesMatch(text, t)
  PROVE  t.current = Ordinal(text, BlockAt(text, Len(text) + 1)) + 1
  <1> DEFINE h == Len(text) + 1
             m == BlockAt(text, h)
  <1>1. /\ t.current \in DOMAIN t.frames /\ t.frames[t.current].active
        /\ t.current \in Nat
        /\ \A s \in DOMAIN t.frames : t.frames[s].active => s <= t.current
    BY WellFormedIndices DEF WellFormed, Nested
  <1>2. h \in Nat \ {0} /\ h - 1 = Len(text) /\ DOMAIN text = 1 .. Len(text)
    OBVIOUS
  <1>3. /\ m \in 0 .. h - 1 /\ OpenAt(text, m, h)
        /\ \A b \in 0 .. h - 1 : OpenAt(text, b, h) => b <= m
    BY <1>2, InnermostBlock
  <1>4. m \in BlocksOf(text)
    BY <1>2, <1>3 DEF BlocksOf, OpenAt
  <1>5. PICK b \in BlocksOf(text) : Ordinal(text, b) + 1 = t.current
    BY <1>1 DEF FramesMatch
  <1>6. OpenAt(text, b, h) /\ b \in 0 .. h - 1
    BY <1>1, <1>2, <1>5 DEF FramesMatch, BlocksOf
  <1>7. t.frames[Ordinal(text, m) + 1].active /\ Ordinal(text, m) + 1 \in DOMAIN t.frames
    BY <1>3, <1>4 DEF FramesMatch
  <1>8. CASE b = m
    BY <1>5, <1>8
  <1>9. CASE b # m
    <2>1. b < m /\ b \in Nat /\ m \in 1 .. Len(text)
      BY <1>2, <1>3, <1>6, <1>9
    <2>2. b = 0 \/ text[b].kind = "block"
      BY DEF BlocksOf
    <2>3. Ordinal(text, b) < Ordinal(text, m) /\ Ordinal(text, m) \in Nat
      BY <2>1, <2>2, OrdinalGrows
    <2>4. Ordinal(text, m) + 1 <= t.current
      BY <1>1, <1>7
    <2>5. Ordinal(text, b) \in Nat
      BY <2>3, <1>1, <1>5, BeforeCounts DEF Ordinal
    <2> QED BY <1>5, <2>3, <2>4, <2>5
  <1> QED BY <1>8, <1>9 DEF h

\* A symbol that is inserted for a declaration in the innermost block is in
\* its place.
LEMMA InsertKeepsPlaces ==
  ASSUME NEW V, NEW text \in Seq(V), NEW t, PlacedIn(text, t),
         NEW n \in Names, NEW ty \in Types, NEW line \in DOMAIN text,
         BlockAt(text, line) = BlockAt(text, Len(text) + 1),
         LookupCurrent(t, n) = Null
  PROVE  LET u == Insert(t, n, ty, line)
         IN  PlacedIn(text, u) /\ CurrentFrame(u) = CurrentFrame(t)
  <1> DEFINE u == Insert(t, n, ty, line)
  <1>1. PICK s : /\ u.symbols = Append(t.symbols, s)
                 /\ s.line = line /\ s.owner = t.current
    BY DEF Insert
  <1>2. t.symbols \in Seq(Symbol) /\ WellFormed(t) /\ t \in Table
    BY DEF PlacedIn, WellFormed, Table
  <1>3. u.frames = t.frames /\ u.current = t.current
    BY <1>2 DEF Insert, Table
  <1>4. s.owner = Ordinal(text, BlockAt(text, s.line)) + 1
    BY <1>1, CurrentIsInnermost DEF PlacedIn
  <1>5. WellFormed(u) /\ Chain(u)
    <2>1. line \in Nat
      OBVIOUS
    <2>2. WellFormed(u)
      BY <1>2, <2>1, InsertKeepsWellFormed
    <2>3. Chain(u)
      BY <1>2, InsertKeepsChain DEF PlacedIn
    <2> QED BY <2>2, <2>3
  <1> HIDE DEF u
  <1>6. FramesMatch(text, u)
    BY <1>3 DEF PlacedIn, FramesMatch, CurrentFrame
  <1>7. \A i \in DOMAIN u.symbols : u.symbols[i] = s \/
          (i \in DOMAIN t.symbols /\ u.symbols[i] = t.symbols[i])
    BY <1>1, <1>2
  <1>8. SymbolsPlaced(text, u)
    BY <1>1, <1>4, <1>7 DEF PlacedIn, SymbolsPlaced
  <1>9. CurrentFrame(u) = CurrentFrame(t)
    BY <1>3 DEF CurrentFrame
  <1> QED BY <1>5, <1>6, <1>8, <1>9 DEF u, PlacedIn

\* What is placed stays placed by a visit that opens and closes no block.
LEMMA TextKeepsPlaces ==
  ASSUME NEW V, NEW text \in Seq(V), NEW v \in V, NEW t,
         PlacedIn(text, t), v.kind \notin {"block", "end"}
  PROVE  PlacedIn(Append(text, v), t)
  BY TextKeepsFrames, TextKeepsSymbols DEF PlacedIn

\* The innermost block stays innermost until one is opened or closed.
LEMMA InnermostStays ==
  ASSUME NEW V, NEW text \in Seq(V), NEW v \in V, v.kind \notin {"block", "end"}
  PROVE  LET new == Append(text, v)
         IN  BlockAt(new, Len(text) + 2) = BlockAt(text, Len(text) + 1)
  <1> DEFINE new == Append(text, v)
             h == Len(text) + 1
             m == BlockAt(text, h)
  <1>1. /\ h \in Nat \ {0} /\ h + 1 \in Nat \ {0} /\ h + 1 = Len(text) + 2
        /\ DOMAIN text = 1 .. h - 1 /\ DOMAIN new = 1 .. h
        /\ \A b \in 1 .. h - 1 : new[b] = text[b]
    OBVIOUS
  <1>2. /\ m \in 0 .. h - 1 /\ OpenAt(text, m, h)
        /\ \A b \in 0 .. h - 1 : OpenAt(text, b, h) => b <= m
    BY <1>1, InnermostBlock
  <1>3. m \in BlocksOf(text)
    BY <1>1, <1>2 DEF BlocksOf, OpenAt
  <1>4. Level(new, h + 1) = Level(text, h)
    BY <1>1, LevelAppend
  <1>5. OpenAt(new, m, h + 1)
    BY <1>2, <1>3, <1>4, BlocksAppend
  <1>6. ASSUME NEW b \in 0 .. h, OpenAt(new, b, h + 1)
        PROVE  b <= m
    <2>1. CASE b = 0
      BY <1>2, <2>1
    <2>2. CASE b # 0
      <3>1. b # h /\ b \in 1 .. Len(text) + 1 /\ b \in 0 .. h - 1
        <4>1. b \in 1 .. Len(text) + 1
          BY <1>1, <2>2
        <4>2. b # h
          BY <1>6, <4>1, OpenBehind
        <4> QED BY <1>1, <4>1, <4>2
      <3>2. OpenAt(text, b, h)
        BY <1>6, <3>1, OpenBehind
      <3> QED BY <1>2, <3>1, <3>2
    <2> QED BY <2>1, <2>2
  <1> HIDE DEF new, m, h
  <1>7. BlockAt(new, h + 1) = m
    <2>1. h + 1 - 1 = h /\ m \in 0 .. h
      BY <1>1, <1>2
    <2> QED BY <1>1, <1>5, <1>6, <2>1, InnermostIs
  <1> QED BY <1>1, <1>7 DEF new, m, h

-----------------------------------------------------------------------------
\* The new table has the frame of a program without blocks.
LEMMA NewIsPlaced ==
  PlacedIn(<< >>, NewTable) /\ CurrentFrame(NewTable).depth = 0
  <1>1. WellFormed(NewTable) /\ Chain(NewTable)
    BY NewIsWellFormed, NewIsChain
  <1>2. /\ NewTable.frames = <<GlobalFrame>> /\ NewTable.current = 1
        /\ NewTable.symbols = << >>
        /\ GlobalFrame.depth = 0 /\ GlobalFrame.active
    BY DEF NewTable, GlobalFrame
  <1>3. CurrentFrame(NewTable).depth = 0
    BY <1>2 DEF CurrentFrame
  <1>4. \A kind : Before(<< >>, 1, kind) = 0
    <2> TAKE kind
    <2>1. {q \in DOMAIN << >> : q < 1 /\ << >>[q].kind = kind} = {}
      OBVIOUS
    <2> QED BY <2>1, FS_EmptySet DEF Before
  <1>5. BlocksOf(<< >>) = {0} /\ Len(<< >>) + 1 = 1
    BY DEF BlocksOf
  <1>6. /\ Ordinal(<< >>, 0) = 0 /\ DepthOf(<< >>, 0) = 0
        /\ OpenAt(<< >>, 0, 1) /\ Level(<< >>, 1) = 0
    BY <1>4 DEF Ordinal, DepthOf, OpenAt, Level
  <1>7. FramesMatch(<< >>, NewTable)
    BY <1>2, <1>3, <1>4, <1>5, <1>6 DEF FramesMatch
  <1>8. SymbolsPlaced(<< >>, NewTable)
    BY <1>2 DEF SymbolsPlaced
  <1> QED BY <1>1, <1>3, <1>7, <1>8 DEF PlacedIn

-----------------------------------------------------------------------------
(* Declarations and symbols. *)

\* Those of the declarations D that have the name n.
NamedIn(text, D, n) == {d \in D : text[d].name = n}

\* Every symbol is that of one of the declarations D.
SymbolsDeclared(text, t, D) ==
  \A i \in DOMAIN t.symbols :
    t.symbols[i].line \in D /\ text[t.symbols[i].line].name = t.symbols[i].name

\* Each of D has a symbol of its name in its scope.
DeclaredBound(text, t, D) ==
  \A d \in D :
    \E i \in DOMAIN t.symbols :
      /\ t.symbols[i].name = text[d].name
      /\ t.symbols[i].owner = Ordinal(text, BlockAt(text, d)) + 1

\* What the text says about its positions does not change when it grows.
LEMMA SaidStays ==
  ASSUME NEW V, NEW text \in Seq(V), NEW v \in V, NEW p \in DOMAIN text, NEW n
  PROVE  LET new == Append(text, v)
         IN  /\ DeclarationsOf(new, n, p) = DeclarationsOf(text, n, p)
             /\ InScope(new, n, p) = InScope(text, n, p)
             /\ Repeats(new, p) <=> Repeats(text, p)
  <1> DEFINE new == Append(text, v)
  <1>1. /\ DOMAIN text = 1 .. Len(text) /\ DOMAIN new = 1 .. Len(text) + 1
        /\ Len(text) \in Nat /\ p \in 1 .. Len(text)
        /\ \A q \in DOMAIN text : q \in DOMAIN new /\ new[q] = text[q]
    OBVIOUS
  <1>2. ASSUME NEW d \in DOMAIN text
        PROVE  Over(new, d, p) <=> Over(text, d, p)
    <2>1. \A q \in d + 1 .. p : q \in DOMAIN text
      BY <1>1
    <2> QED BY <1>1, <2>1 DEF Over
  <1>3. \A m : DeclarationsOf(new, m, p) = DeclarationsOf(text, m, p)
    <2> TAKE m
    <2>1. \A d \in DOMAIN new : d < p => d \in DOMAIN text
      BY <1>1
    <2> HIDE DEF new
    <2> QED BY <1>1, <1>2, <2>1 DEF DeclarationsOf
  <1>4. \A d \in DOMAIN text : BlockAt(new, d) = BlockAt(text, d)
                                 /\ BlockAt(text, d) \in Nat
    <2> TAKE d \in DOMAIN text
    <2>1. d \in 1 .. Len(text) + 1 /\ d \in Nat \ {0}
      BY <1>1
    <2>2. BlockAt(text, d) \in Nat
      BY <2>1, InnermostBlock
    <2> QED BY <2>1, <2>2, BlockAtAppend
  <1>5. \A b \in Nat : OpenAt(new, b, p) <=> OpenAt(text, b, p)
    <2>1. p \in 0 .. Len(text) + 1
      BY <1>1
    <2> QED BY <2>1, OpenAppend
  <1>6. \A m : DeclarationsOf(text, m, p) \subseteq DOMAIN text
    BY DEF DeclarationsOf
  <1>7. new[p] = text[p]
    BY <1>1
  <1> HIDE DEF new
  <1>8. InScope(new, n, p) = InScope(text, n, p)
    BY <1>3, <1>4, <1>5, <1>6 DEF InScope
  <1>9. Repeats(new, p) <=> Repeats(text, p)
    BY <1>3, <1>4, <1>6, <1>7 DEF Repeats
  <1> QED BY <1>3, <1>8, <1>9 DEF new

\* What the text says about the visit that comes next, when D are the
\* declarations that are over then.
LEMMA NextSees ==
  ASSUME NEW V, NEW text \in Seq(V), NEW v \in V, NEW n,
         NEW D \in SUBSET DOMAIN text,
         \A d \in DOMAIN text :
           d \in D <=> /\ Declares(text[d])
                       /\ Over(Append(text, v), d, Len(text) + 1)
  PROVE  LET new == Append(text, v)
             h == Len(text) + 1
         IN  /\ DeclarationsOf(new, n, h) = NamedIn(text, D, n)
             /\ InScope(new, n, h) =
                  {d \in NamedIn(text, D, n) : OpenAt(text, BlockAt(text, d), h)}
             /\ Declares(v) /\ v.name = n =>
                  (Repeats(new, h) <=>
                     \E d \in NamedIn(text, D, n) :
                       BlockAt(text, d) = BlockAt(text, h))
  <1> DEFINE new == Append(text, v)
             h == Len(text) + 1
  <1>1. /\ h \in Nat \ {0} /\ DOMAIN text = 1 .. h - 1 /\ DOMAIN new = 1 .. h
        /\ \A q \in DOMAIN text : q \in DOMAIN new /\ new[q] = text[q]
        /\ new[h] = v
    OBVIOUS
  <1>2. DeclarationsOf(new, n, h) = NamedIn(text, D, n)
    <2>1. \A d \in DOMAIN new : d < h => d \in DOMAIN text
      BY <1>1
    <2>2. \A d \in DOMAIN text : d < h
      BY <1>1
    <2> HIDE DEF new, h
    <2> QED BY <1>1, <2>1, <2>2 DEF DeclarationsOf, NamedIn, h, new
  <1>3. \A d \in 1 .. h : BlockAt(new, d) = BlockAt(text, d)
                            /\ BlockAt(text, d) \in Nat
    <2> TAKE d \in 1 .. h
    <2>1. d \in 1 .. Len(text) + 1 /\ d \in Nat \ {0}
      BY <1>1
    <2>2. BlockAt(text, d) \in Nat
      BY <2>1, InnermostBlock
    <2> QED BY <2>1, <2>2, BlockAtAppend
  <1>4. \A b \in Nat : OpenAt(new, b, h) <=> OpenAt(text, b, h)
    <2>1. h \in 0 .. Len(text) + 1
      BY <1>1
    <2> QED BY <2>1, OpenAppend
  <1>5. \A d \in NamedIn(text, D, n) : d \in 1 .. h
    BY <1>1 DEF NamedIn
  <1>6. h \in 1 .. h
    BY <1>1
  <1> HIDE DEF new, h
  <1>7. InScope(new, n, h) = {d \in NamedIn(text, D, n) : OpenAt(text, BlockAt(text, d), h)}
    BY <1>2, <1>3, <1>4, <1>5 DEF InScope
  <1>8. ASSUME Declares(v), v.name = n
        PROVE  Repeats(new, h) <=>
                 \E d \in NamedIn(text, D, n) : BlockAt(text, d) = BlockAt(text, h)
    BY <1>1, <1>2, <1>3, <1>5, <1>6, <1>8 DEF Repeats
  <1> QED BY <1>2, <1>7, <1>8 DEF new, h

\* What a name denotes is in scope, in the innermost block that has the name.
LEMMA DenotedIsInnermost ==
  ASSUME NEW V, NEW text \in Seq(V), NEW n, NEW p, InScope(text, n, p) # {}
  PROVE  LET e == Denoted(text, n, p)
         IN  /\ e \in InScope(text, n, p)
             /\ \A d \in InScope(text, n, p) : BlockAt(text, d) <= BlockAt(text, e)
  <1> DEFINE S == InScope(text, n, p)
             B == {BlockAt(text, d) : d \in S}
             innermost == Max(B)
             T == {d \in S : BlockAt(text, d) = innermost}
  <1>1. S \subseteq DOMAIN text /\ DOMAIN text = 1 .. Len(text) /\ Len(text) \in Nat
    BY DEF InScope, DeclarationsOf
  <1>2. \A d \in S : d \in Nat \ {0} /\ d <= Len(text)
    BY <1>1
  <1>3. \A b \in B : b \in Nat /\ b <= Len(text)
    <2> SUFFICES ASSUME NEW d \in S
                 PROVE  BlockAt(text, d) \in Nat /\ BlockAt(text, d) <= Len(text)
      OBVIOUS
    <2>1. BlockAt(text, d) \in 0 .. d - 1
      BY <1>2, InnermostBlock
    <2> QED BY <1>1, <1>2, <2>1
  <1>4. B # {}
    OBVIOUS
  <1> HIDE DEF S
  <1>5. innermost \in B /\ \A b \in B : b <= innermost
    <2>1. B \in SUBSET Nat
      BY <1>3
    <2> HIDE DEF B
    <2> QED BY <1>1, <1>3, <1>4, <2>1, MaxOfSet
  <1>6. T # {} /\ T \in SUBSET Nat
    BY <1>2, <1>5
  <1>7. Min(T) \in T
    BY <1>6, MinOfSet
  <1>8. S # {} => Denoted(text, n, p) = Min(T)
    BY DEF Denoted, S
  <1>9. \A d \in S : BlockAt(text, d) <= innermost
    BY <1>5
  <1> HIDE DEF B, innermost
  <1> QED BY <1>7, <1>8, <1>9 DEF S

\* A name that is in scope denotes a declaration.
LEMMA InScopeIsDenoted ==
  ASSUME NEW V, NEW text \in Seq(V), NEW n, NEW p, InScope(text, n, p) # {}
  PROVE  Denoted(text, n, p) # 0
  <1>1. Denoted(text, n, p) \in InScope(text, n, p)
    BY DenotedIsInnermost
  <1>2. InScope(text, n, p) \subseteq 1 .. Len(text)
    BY DEF InScope, DeclarationsOf
  <1> QED BY <1>1, <1>2

\* ... and the other way round, for positions start with 1.
LEMMA DenotedIsInScope ==
  ASSUME NEW text, NEW n, NEW p, Denoted(text, n, p) # 0
  PROVE  InScope(text, n, p) # {}
  BY DEF Denoted

\* The three searches answer what the text says: whether a declaration is in
\* the blocks still open, in any block, in the innermost one.
LEMMA SearchesSee ==
  ASSUME NEW V, NEW text \in Seq(V), NEW t, PlacedIn(text, t), NEW n,
         NEW D \in SUBSET DOMAIN text,
         SymbolsDeclared(text, t, D), DeclaredBound(text, t, D)
  PROVE  LET h == Len(text) + 1
         IN  /\ LookupActive(t, n) # Null <=>
                  \E d \in NamedIn(text, D, n) : OpenAt(text, BlockAt(text, d), h)
             /\ LookupActive(t, n) = Null =>
                  (LookupHistory(t, n) # Null <=> NamedIn(text, D, n) # {})
             /\ LookupCurrent(t, n) # Null <=>
                  \E d \in NamedIn(text, D, n) : BlockAt(text, d) = BlockAt(text, h)
  <1> DEFINE B(d) == BlockAt(text, d)
             F(d) == Ordinal(text, B(d)) + 1
             h == Len(text) + 1
  <1>1. /\ WellFormed(t) /\ FramesMatch(text, t)
        /\ SymbolsPlaced(text, t) /\ t \in Table
        /\ h \in Nat \ {0} /\ Len(text) \in Nat
    BY DEF PlacedIn, WellFormed
  <1>2. ASSUME NEW d \in 1 .. h
        PROVE  B(d) \in BlocksOf(text) /\ B(d) \in 0 .. d - 1
    <2>1. B(d) \in 0 .. d - 1 /\ OpenAt(text, B(d), d)
      BY <1>1, InnermostBlock
    <2>2. B(d) # 0 => B(d) \in DOMAIN text /\ text[B(d)].kind = "block"
      BY <1>1, <2>1 DEF OpenAt
    <2> QED BY <2>1, <2>2 DEF BlocksOf
  <1>3. \A d \in NamedIn(text, D, n) : d \in 1 .. h /\ d \in DOMAIN text
    BY <1>1 DEF NamedIn
  <1>4. ASSUME NEW d \in NamedIn(text, D, n)
        PROVE  /\ F(d) \in DOMAIN t.frames
               /\ t.frames[F(d)].active <=> OpenAt(text, B(d), h)
    BY <1>1, <1>2, <1>3 DEF FramesMatch
  <1>5. \A s : Holding(t, s, n) # {} <=> \E d \in NamedIn(text, D, n) : F(d) = s
    <2> TAKE s
    <2>1. ASSUME NEW i \in Holding(t, s, n)
          PROVE  \E d \in NamedIn(text, D, n) : F(d) = s
      <3>1. /\ i \in DOMAIN t.symbols /\ t.symbols[i].owner = s
            /\ t.symbols[i].name = n
        BY DEF Holding
      <3>2. t.symbols[i].line \in NamedIn(text, D, n)
        BY <3>1 DEF SymbolsDeclared, NamedIn
      <3>3. F(t.symbols[i].line) = s
        BY <1>1, <3>1 DEF SymbolsPlaced
      <3> QED BY <3>2, <3>3
    <2>2. ASSUME NEW d \in NamedIn(text, D, n), F(d) = s
          PROVE  Holding(t, s, n) # {}
      <3>1. d \in D /\ text[d].name = n
        BY DEF NamedIn
      <3>2. PICK i \in DOMAIN t.symbols : /\ t.symbols[i].name = text[d].name
                                          /\ t.symbols[i].owner = F(d)
        BY <3>1 DEF DeclaredBound
      <3> QED BY <2>2, <3>1, <3>2 DEF Holding
    <2> QED BY <2>1, <2>2
  <1>6. \A s \in DOMAIN t.frames : t.frames[s].active \in BOOLEAN
    BY <1>1, FrameFields
  <1> HIDE DEF F, B
  <1>7. LookupActive(t, n) # Null <=> \E d \in NamedIn(text, D, n) : OpenAt(text, B(d), h)
    <2>1. LookupActive(t, n) # Null <=>
            \E s \in DOMAIN t.frames : /\ t.frames[s].active = TRUE
                                       /\ Holding(t, s, n) # {}
      BY <1>1, FindAnswer DEF LookupActive
    <2> QED BY <1>4, <1>5, <1>6, <2>1
  <1>8. LookupHistory(t, n) # Null <=> \E d \in NamedIn(text, D, n) : ~OpenAt(text, B(d), h)
    <2>1. LookupHistory(t, n) # Null <=>
            \E s \in DOMAIN t.frames : /\ t.frames[s].active = FALSE
                                       /\ Holding(t, s, n) # {}
      BY <1>1, FindAnswer DEF LookupHistory
    <2> QED BY <1>4, <1>5, <1>6, <2>1
  <1>9. LookupCurrent(t, n) # Null <=> \E d \in NamedIn(text, D, n) : B(d) = B(h)
    <2>1. t.current = F(h)
      BY <1>1, CurrentIsInnermost DEF F, B
    <2>2. LookupCurrent(t, n) # Null <=> \E d \in NamedIn(text, D, n) : F(d) = F(h)
      BY <1>1, <1>5, <2>1, LookupInScopeAnswer DEF LookupCurrent
    <2>3. ASSUME NEW d \in NamedIn(text, D, n), F(d) = F(h)
          PROVE  B(d) = B(h)
      <3>1. /\ B(d) \in BlocksOf(text) /\ B(d) \in Nat
            /\ B(h) \in BlocksOf(text) /\ B(h) \in Nat
        <4>1. h \in 1 .. h /\ d \in 1 .. h
          BY <1>1, <1>3
        <4> QED BY <1>1, <1>2, <4>1
      <3>2. /\ \/ B(d) = 0
               \/ B(d) \in 1 .. Len(text) /\ text[B(d)].kind = "block"
            /\ \/ B(h) = 0
               \/ B(h) \in 1 .. Len(text) /\ text[B(h)].kind = "block"
        <4>1. \A b \in BlocksOf(text) :
                b = 0 \/ (b \in 1 .. Len(text) /\ text[b].kind = "block")
          BY <1>1 DEF BlocksOf
        <4> QED BY <3>1, <4>1
      <3>3. /\ Ordinal(text, B(d)) \in Nat /\ Ordinal(text, B(h)) \in Nat
        BY <1>1, BeforeCounts DEF Ordinal
      <3>4. Ordinal(text, B(d)) = Ordinal(text, B(h))
        BY <2>3, <3>3 DEF F
      <3>5. ~(B(d) < B(h))
        BY <1>1, <3>1, <3>2, <3>3, <3>4, OrdinalGrows
      <3>6. ~(B(h) < B(d))
        BY <1>1, <3>1, <3>2, <3>3, <3>4, OrdinalGrows
      <3> QED BY <3>1, <3>5, <3>6
    <2>4. ASSUME NEW d \in NamedIn(text, D, n), B(d) = B(h)
          PROVE  F(d) = F(h)
      BY <2>4 DEF F
    <2> QED BY <2>2, <2>3, <2>4
  <1> QED BY <1>7, <1>8, <1>9 DEF B

\* The search in the open scopes finds a symbol of the innermost block that
\* has the name, and so the number of that block.
LEMMA ActiveIsInnermost ==
  ASSUME NEW V, NEW text \in Seq(V), NEW t, PlacedIn(text, t), NEW n,
         NEW D \in SUBSET DOMAIN text,
         SymbolsDeclared(text, t, D), DeclaredBound(text, t, D),
         NEW e \in NamedIn(text, D, n),
         OpenAt(text, BlockAt(text, e), Len(text) + 1),
         \A d \in NamedIn(text, D, n) :
           OpenAt(text, BlockAt(text, d), Len(text) + 1)
             => BlockAt(text, d) <= BlockAt(text, e)
  PROVE  LET i == LookupActive(t, n)
         IN  /\ i \in DOMAIN t.symbols /\ i # Null
             /\ t.symbols[i].name = n
             /\ t.symbols[i].scope_id = Ordinal(text, BlockAt(text, e))
  <1> DEFINE B(d) == BlockAt(text, d)
             F(d) == Ordinal(text, B(d)) + 1
             h == Len(text) + 1
             c == F(e)
  <1>1. /\ WellFormed(t) /\ FramesMatch(text, t)
        /\ SymbolsPlaced(text, t) /\ t \in Table /\ Owned(t)
        /\ h \in Nat \ {0} /\ Len(text) \in Nat
        /\ DOMAIN t.symbols \subseteq Nat \ {0}
    BY DEF PlacedIn, WellFormed, Table
  <1>2. \A d \in NamedIn(text, D, n) : d \in 1 .. h /\ d \in D
    BY <1>1 DEF NamedIn
  <1>3. ASSUME NEW d \in NamedIn(text, D, n)
        PROVE  /\ B(d) \in BlocksOf(text) /\ B(d) \in Nat
               /\ F(d) \in DOMAIN t.frames
               /\ t.frames[F(d)].active <=> OpenAt(text, B(d), h)
    <2>1. B(d) \in 0 .. d - 1 /\ OpenAt(text, B(d), d)
      BY <1>1, <1>2, InnermostBlock
    <2>2. B(d) \in BlocksOf(text) /\ B(d) \in Nat
      BY <1>1, <1>2, <2>1 DEF OpenAt, BlocksOf
    <2> QED BY <1>1, <2>2 DEF FramesMatch
  <1>4. \A d \in NamedIn(text, D, n) : Ordinal(text, B(d)) \in Nat
    BY BeforeCounts DEF Ordinal
  <1>5. ASSUME NEW d \in NamedIn(text, D, n), B(d) <= B(e)
        PROVE  F(d) <= F(e)
    <2>1. CASE B(d) = B(e)
      BY <1>4, <2>1
    <2>2. CASE B(d) < B(e)
      <3>1. /\ B(d) \in Nat /\ B(e) \in 1 .. Len(text)
            /\ B(d) = 0 \/ text[B(d)].kind = "block"
        <4>1. /\ B(d) \in BlocksOf(text) /\ B(d) \in Nat
              /\ B(e) \in BlocksOf(text) /\ B(e) \in Nat
          BY <1>3
        <4> HIDE DEF B
        <4> QED BY <2>2, <4>1 DEF BlocksOf
      <3>2. Ordinal(text, B(d)) < Ordinal(text, B(e))
        BY <2>2, <3>1, OrdinalGrows
      <3> QED BY <1>4, <3>2
    <2>3. B(d) \in Nat /\ B(e) \in Nat
      BY <1>3
    <2> QED BY <1>5, <2>1, <2>2, <2>3
  <1>6. \A s : \A i \in Holding(t, s, n) :
          /\ i \in DOMAIN t.symbols /\ t.symbols[i].owner = s /\ t.symbols[i].name = n
          /\ t.symbols[i].line \in NamedIn(text, D, n) /\ F(t.symbols[i].line) = s
    BY <1>1 DEF Holding, SymbolsDeclared, NamedIn, SymbolsPlaced
  <1>7. c \in DOMAIN t.frames /\ t.frames[c].active = TRUE
    <2>1. t.frames[c].active \in BOOLEAN
      BY <1>1, <1>3, FrameFields
    <2> QED BY <1>3, <2>1
  <1>8. Holding(t, c, n) # {}
    <2>1. e \in D /\ text[e].name = n
      BY DEF NamedIn
    <2>2. PICK i \in DOMAIN t.symbols : /\ t.symbols[i].name = text[e].name
                                        /\ t.symbols[i].owner = F(e)
      BY <2>1 DEF DeclaredBound
    <2> QED BY <2>1, <2>2 DEF Holding
  <1>9. ASSUME NEW s \in DOMAIN t.frames, t.frames[s].active = TRUE, s > c,
               Holding(t, s, n) # {}
        PROVE  FALSE
    <2>1. PICK d \in NamedIn(text, D, n) : F(d) = s
      BY <1>6, <1>9
    <2>2. OpenAt(text, B(d), h)
      BY <1>3, <1>9, <2>1
    <2>3. B(d) <= B(e)
      BY <2>2
    <2>4. s <= c
      BY <1>5, <2>1, <2>3
    <2>5. s \in Nat /\ c \in Nat
      BY <1>1, <1>7, FrameFields
    <2> QED BY <1>9, <2>4, <2>5
  <1> HIDE DEF c, F, B
  <1>10. LookupActive(t, n) = LookupInScope(t, c, n)
    BY <1>1, <1>7, <1>8, <1>9, FoundIsNewest DEF LookupActive
  <1>11. LookupInScope(t, c, n) \in Holding(t, c, n)
    BY <1>1, <1>8, LookupInScopeAnswer
  <1> DEFINE i == LookupActive(t, n)
  <1>12. i \in DOMAIN t.symbols /\ t.symbols[i].owner = c /\ t.symbols[i].name = n
    BY <1>6, <1>10, <1>11
  <1>13. t.symbols[i].scope_id = c - 1
    BY <1>1, <1>12 DEF Owned
  <1>14. c - 1 = Ordinal(text, B(e))
    BY <1>4 DEF c, F
  <1>15. i # Null
    BY <1>1, <1>12 DEF Null
  <1> HIDE DEF i
  <1> QED BY <1>12, <1>13, <1>14, <1>15 DEF i, B

-----------------------------------------------------------------------------
(* The call stack of a phase: the lists that it is in, one in the other, and *)
(* the statements that these belong to.                                      *)

ListsOf(items) == {i \in DOMAIN items : items[i].at = "list"}

\* What is not last is one of the callers.
Calls(items, depth, callers) ==
  /\ items # << >> /\ items[1].at = "list"
  /\ Cardinality(ListsOf(items)) = depth + 1
  /\ \A i \in DOMAIN items : i # Len(items) => items[i].at \in callers

\* The last item of a sequence, the rest, and both put together again.
LEMMA LastAndFront ==
  ASSUME NEW S, NEW s \in Seq(S), s # << >>
  PROVE  /\ Len(s) \in Nat \ {0} /\ DOMAIN s = 1 .. Len(s)
         /\ Last(s) = s[Len(s)] /\ Last(s) \in S
         /\ Front(s) \in Seq(S) /\ Len(Front(s)) = Len(s) - 1
         /\ \A i \in 1 .. Len(s) - 1 : Front(s)[i] = s[i]
         /\ s = Append(Front(s), Last(s))
  <1>1. Len(s) \in Nat \ {0} /\ DOMAIN s = 1 .. Len(s)
    BY EmptySeq
  <1>2. Last(s) = s[Len(s)] /\ Last(s) \in S
    BY <1>1 DEF Last
  <1>3. /\ Front(s) \in Seq(S) /\ Len(Front(s)) = Len(s) - 1
        /\ \A i \in 1 .. Len(s) - 1 : Front(s)[i] = s[i]
    BY <1>1 DEF Front
  <1> DEFINE t == Append(Front(s), Last(s))
  <1>4. /\ t \in Seq(S) /\ Len(t) = Len(s)
        /\ \A i \in 1 .. Len(s) : t[i] = s[i]
    <2> HIDE DEF t
    <2>1. /\ Append(Front(s), Last(s)) \in Seq(S)
          /\ Len(Append(Front(s), Last(s))) = Len(s) - 1 + 1
          /\ \A i \in 1 .. Len(s) - 1 : Append(Front(s), Last(s))[i] = Front(s)[i]
          /\ Append(Front(s), Last(s))[Len(s) - 1 + 1] = Last(s)
      BY <1>2, <1>3
    <2> QED BY <1>1, <1>2, <1>3, <2>1 DEF t
  <1> HIDE DEF t
  <1>5. t = s
    BY <1>4, SeqEqual
  <1> QED BY <1>1, <1>2, <1>3, <1>5 DEF t

\* What comes to the end of a sequence is its last item.
LEMMA LastOfAppend ==
  ASSUME NEW S, NEW s \in Seq(S), NEW e \in S
  PROVE  /\ Append(s, e) \in Seq(S) /\ Append(s, e) # << >>
         /\ Len(Append(s, e)) = Len(s) + 1 /\ Last(Append(s, e)) = e
         /\ \A i \in 1 .. Len(s) : Append(s, e)[i] = s[i]
         /\ Append(s, e)[Len(s) + 1] = e
  BY DEF Last

\* The lists can be counted.
LEMMA ListsFinite ==
  ASSUME NEW V, NEW items \in Seq(V)
  PROVE  IsFiniteSet(ListsOf(items))
  <1>1. Len(items) \in Int
    OBVIOUS
  <1>2. IsFiniteSet(1 .. Len(items))
    BY <1>1, FS_Interval
  <1>3. ListsOf(items) \in SUBSET (1 .. Len(items))
    BY DEF ListsOf
  <1> QED BY <1>2, <1>3, FS_Subset

\* A list that is begun is one more.
LEMMA ListsAppend ==
  ASSUME NEW V, NEW items \in Seq(V), NEW item \in V
  PROVE  /\ Cardinality(ListsOf(items)) \in Nat
         /\ Cardinality(ListsOf(Append(items, item))) =
              IF item.at = "list" THEN Cardinality(ListsOf(items)) + 1
              ELSE Cardinality(ListsOf(items))
  <1> DEFINE more == Append(items, item)
             n == Len(items)
  <1>1. /\ n \in Nat /\ DOMAIN items = 1 .. n /\ DOMAIN more = 1 .. n + 1
        /\ \A i \in 1 .. n : more[i] = items[i]
        /\ more[n + 1] = item
    OBVIOUS
  <1>2. IsFiniteSet(ListsOf(items))
    BY ListsFinite
  <1>3. n + 1 \notin ListsOf(items)
    BY <1>1 DEF ListsOf
  <1>4. ListsOf(more) = IF item.at = "list" THEN ListsOf(items) \cup {n + 1}
                        ELSE ListsOf(items)
    BY <1>1 DEF ListsOf
  <1> QED BY <1>2, <1>3, <1>4, FS_AddElement, FS_CardinalityType

\* A call: the caller is one that can be.
LEMMA CallsPush ==
  ASSUME NEW V, NEW items \in Seq(V), NEW depth \in Nat,
         NEW callers, Calls(items, depth, callers),
         Last(items).at \in callers, NEW item \in V
  PROVE  /\ Append(items, item) \in Seq(V)
         /\ Calls(Append(items, item),
                  IF item.at = "list" THEN depth + 1 ELSE depth, callers)
  <1> DEFINE more == Append(items, item)
             n == Len(items)
  <1>1. /\ n \in Nat \ {0} /\ DOMAIN items = 1 .. n /\ DOMAIN more = 1 .. n + 1
        /\ \A i \in 1 .. n : more[i] = items[i]
        /\ Len(more) = n + 1 /\ more # << >> /\ more \in Seq(V)
    BY LastOfAppend DEF Calls
  <1>2. Last(items) = items[n]
    BY LastAndFront DEF Calls
  <1>3. Cardinality(ListsOf(more)) =
          (IF item.at = "list" THEN depth + 1 ELSE depth) + 1
    BY ListsAppend DEF Calls
  <1> HIDE DEF more, n
  <1>4. more[1].at = "list"
    BY <1>1 DEF Calls
  <1>5. ASSUME NEW i \in DOMAIN more, i # Len(more)
        PROVE  more[i].at \in callers
    <2>1. i \in 1 .. n /\ more[i] = items[i] /\ i \in DOMAIN items
      BY <1>1, <1>5
    <2>2. CASE i = n
      BY <1>2, <2>1, <2>2
    <2>3. CASE i # n
      BY <2>1, <2>3 DEF Calls, n
    <2> QED BY <2>2, <2>3
  <1>6. Calls(more, IF item.at = "list" THEN depth + 1 ELSE depth, callers)
    BY <1>1, <1>3, <1>4, <1>5 DEF Calls
  <1> QED BY <1>1, <1>6 DEF more

\* A return: there is somewhere to return to, and what returns was not the
\* program's own list unless nothing else is left.
LEMMA CallsPop ==
  ASSUME NEW V, NEW items \in Seq(V), NEW depth \in Nat,
         NEW callers, Calls(items, depth, callers),
         Last(items).at # "list" \/ Len(items) > 1
  PROVE  /\ Front(items) \in Seq(V)
         /\ Last(Front(items)).at \in callers
         /\ IF Last(items).at = "list"
              THEN depth > 0 /\ Calls(Front(items), depth - 1, callers)
              ELSE Calls(Front(items), depth, callers)
  <1> DEFINE n == Len(items)
             front == Front(items)
             last == Last(items)
  <1>1. /\ n \in Nat \ {0} /\ DOMAIN items = 1 .. n
        /\ last = items[n] /\ last \in V
        /\ front \in Seq(V) /\ Len(front) = n - 1
        /\ \A i \in 1 .. n - 1 : front[i] = items[i]
    BY LastAndFront DEF Calls
  <1>2. n > 1
    BY <1>1 DEF Calls
  <1>3. items = Append(front, last)
    BY LastAndFront DEF Calls
  <1> HIDE DEF front, last, n
  <1>4. /\ front # << >> /\ DOMAIN front = 1 .. n - 1 /\ n - 1 \in Nat \ {0}
        /\ Last(front) = front[n - 1]
    <2>1. front # << >> /\ n - 1 \in Nat \ {0} /\ DOMAIN front = 1 .. n - 1
      BY <1>1, <1>2
    <2>2. Last(front) = front[n - 1]
      BY <1>1, <2>1, LastAndFront
    <2> QED BY <2>1, <2>2
  <1>5. \A i \in 1 .. n - 1 : front[i].at \in callers
    <2> TAKE i \in 1 .. n - 1
    <2>1. i \in DOMAIN items /\ i # n
      BY <1>1
    <2> QED BY <1>1, <2>1 DEF Calls, n
  <1>6. front[1].at = "list"
    BY <1>1, <1>4 DEF Calls
  <1>7. /\ Cardinality(ListsOf(front)) \in Nat
        /\ Cardinality(ListsOf(items)) =
              IF last.at = "list" THEN Cardinality(ListsOf(front)) + 1
              ELSE Cardinality(ListsOf(front))
    BY <1>1, <1>3, ListsAppend
  <1>8. Cardinality(ListsOf(front)) # 0
    <2>1. 1 \in ListsOf(front)
      BY <1>4, <1>6 DEF ListsOf
    <2>2. IsFiniteSet(ListsOf(front))
      BY <1>1, ListsFinite
    <2> QED BY <2>1, <2>2, FS_EmptySet
  <1>9. Cardinality(ListsOf(items)) = depth + 1
    BY DEF Calls
  <1>10. Last(front).at \in callers
    BY <1>4, <1>5
  <1>11. IF last.at = "list" THEN depth > 0 /\ Calls(front, depth - 1, callers)
         ELSE Calls(front, depth, callers)
    BY <1>1, <1>4, <1>5, <1>6, <1>7, <1>8, <1>9 DEF Calls
  <1> QED BY <1>1, <1>10, <1>11 DEF front, last

-----------------------------------------------------------------------------
(* What a step of a phase does to the text and the table. *)

\* A scope that is not the global one can be left.
LEMMA DeepIsNotGlobal ==
  ASSUME NEW t, WellFormed(t), CurrentFrame(t).depth # 0
  PROVE  ~AtGlobal(t)
  <1>1. t.current \in DOMAIN t.frames
    BY WellFormedIndices
  <1>2. t.frames[t.current].parent = Null => t.frames[t.current].depth = 0
    BY <1>1 DEF WellFormed, Rooted
  <1> QED BY <1>2 DEF AtGlobal, CurrentFrame

\* A block begins.
LEMMA EnterKeepsPlaces ==
  ASSUME NEW V, NEW text \in Seq(V), NEW v \in V, v.kind = "block",
         NEW t, PlacedIn(text, t)
  PROVE  /\ PlacedIn(Append(text, v), EnterScope(t))
         /\ CurrentFrame(EnterScope(t)).depth = CurrentFrame(t).depth + 1
         /\ EnterScope(t).symbols = t.symbols
  <1> DEFINE new == Append(text, v)
             u == EnterScope(t)
  <1>1. WellFormed(t) /\ Chain(t) /\ FramesMatch(text, t) /\ t.symbols \in Seq(Symbol)
    BY DEF PlacedIn, WellFormed, Table
  <1>2. WellFormed(u) /\ Chain(u)
    BY <1>1, EnterKeepsWellFormed, EnterKeepsChain
  <1>3. FramesMatch(new, u)
    BY <1>1, EnterKeepsFrames
  <1>4. SymbolsPlaced(new, t) /\ u.symbols = t.symbols
    BY TextKeepsSymbols DEF PlacedIn, EnterScope
  <1>5. SymbolsPlaced(new, u)
    <2> HIDE DEF new, u
    <2> QED BY <1>4 DEF SymbolsPlaced
  <1>6. CurrentFrame(u).depth = CurrentFrame(t).depth + 1
    <2>1. Len(new) + 1 = Len(text) + 2
      OBVIOUS
    <2>2. CurrentFrame(u).depth = Level(new, Len(text) + 2)
      BY <1>3, <2>1 DEF FramesMatch
    <2>3. CurrentFrame(t).depth = Level(text, Len(text) + 1)
      BY <1>1 DEF FramesMatch
    <2> HIDE DEF u
    <2> QED BY <2>2, <2>3, LevelAppend
  <1> QED BY <1>2, <1>3, <1>4, <1>5, <1>6 DEF PlacedIn

\* A block ends.
LEMMA ExitKeepsPlaces ==
  ASSUME NEW V, NEW text \in Seq(V), NEW v \in V, v.kind = "end",
         NEW t, PlacedIn(text, t), ~AtGlobal(t)
  PROVE  /\ PlacedIn(Append(text, v), ExitScope(t))
         /\ CurrentFrame(ExitScope(t)).depth = CurrentFrame(t).depth - 1
         /\ ExitScope(t).symbols = t.symbols
  <1> DEFINE new == Append(text, v)
             u == ExitScope(t)
  <1>1. WellFormed(t) /\ Chain(t) /\ FramesMatch(text, t) /\ t \in Table
    BY DEF PlacedIn, WellFormed
  <1>2. WellFormed(u) /\ Chain(u)
    BY <1>1, ExitKeepsWellFormed, ExitKeepsChain
  <1>3. FramesMatch(new, u)
    BY <1>1, ExitKeepsFrames
  <1>4. SymbolsPlaced(new, t) /\ u.symbols = t.symbols
    BY <1>1, TextKeepsSymbols DEF PlacedIn, ExitScope, Table
  <1>5. SymbolsPlaced(new, u)
    <2> HIDE DEF new, u
    <2> QED BY <1>4 DEF SymbolsPlaced
  <1>6. CurrentFrame(u).depth = CurrentFrame(t).depth - 1
    <2>1. Len(new) + 1 = Len(text) + 2
      OBVIOUS
    <2>2. CurrentFrame(u).depth = Level(new, Len(text) + 2)
      BY <1>3, <2>1 DEF FramesMatch
    <2>3. CurrentFrame(t).depth = Level(text, Len(text) + 1)
      BY <1>1 DEF FramesMatch
    <2> HIDE DEF u
    <2> QED BY <2>2, <2>3, LevelAppend
  <1> QED BY <1>2, <1>3, <1>4, <1>5, <1>6 DEF PlacedIn

\* Symbols and declarations correspond as before when neither are new.
LEMMA BoundAsBefore ==
  ASSUME NEW V, NEW text \in Seq(V), NEW v \in V, NEW t, NEW u,
         u.symbols = t.symbols, NEW D \in SUBSET DOMAIN text,
         SymbolsDeclared(text, t, D), DeclaredBound(text, t, D)
  PROVE  LET new == Append(text, v)
         IN  SymbolsDeclared(new, u, D) /\ DeclaredBound(new, u, D)
  <1> DEFINE new == Append(text, v)
  <1>1. ASSUME NEW d \in D
        PROVE  /\ new[d] = text[d]
               /\ Ordinal(new, BlockAt(new, d)) = Ordinal(text, BlockAt(text, d))
    <2>1. d \in 1 .. Len(text) + 1 /\ d \in Nat \ {0} /\ new[d] = text[d]
      OBVIOUS
    <2>2. BlockAt(new, d) = BlockAt(text, d)
      BY <2>1, BlockAtAppend
    <2>3. BlockAt(text, d) \in 0 .. Len(text) + 1
      BY <2>1, InnermostBlock
    <2> QED BY <2>1, <2>2, <2>3, OrdinalAppend
  <1> HIDE DEF new
  <1>2. SymbolsDeclared(new, u, D)
    BY <1>1 DEF SymbolsDeclared
  <1>3. DeclaredBound(new, u, D)
    BY <1>1 DEF DeclaredBound
  <1> QED BY <1>2, <1>3 DEF new

\* They still do when a declaration of the innermost block gets its symbol.
LEMMA BoundWithOneMore ==
  ASSUME NEW V, NEW text \in Seq(V), NEW t, PlacedIn(text, t),
         NEW D \in SUBSET DOMAIN text,
         SymbolsDeclared(text, t, D), DeclaredBound(text, t, D),
         NEW n, NEW ty, NEW line \in DOMAIN text, text[line].name = n,
         BlockAt(text, line) = BlockAt(text, Len(text) + 1)
  PROVE  LET u == Insert(t, n, ty, line)
         IN  /\ SymbolsDeclared(text, u, D \cup {line})
             /\ DeclaredBound(text, u, D \cup {line})
  <1> DEFINE u == Insert(t, n, ty, line)
             E == D \cup {line}
  <1>1. t.symbols \in Seq(Symbol) /\ t \in Table
    BY DEF PlacedIn, WellFormed, Table
  <1>2. PICK s : /\ u.symbols = Append(t.symbols, s)
                 /\ s.line = line /\ s.name = n /\ s.owner = t.current
    <2> DEFINE s == [name |-> n, type |-> ty, line |-> line,
                     scope_id |-> CurrentFrame(t).id,
                     scope_depth |-> CurrentFrame(t).depth, owner |-> t.current]
    <2>1. u.symbols = Append(t.symbols, s)
      BY <1>1 DEF Insert, Table
    <2>2. s.line = line /\ s.name = n /\ s.owner = t.current
      OBVIOUS
    <2> HIDE DEF s, u
    <2> QED BY <2>1, <2>2
  <1>3. s.owner = Ordinal(text, BlockAt(text, line)) + 1
    BY <1>2, CurrentIsInnermost DEF PlacedIn
  <1> HIDE DEF u
  <1>4. /\ \A i \in DOMAIN t.symbols : i \in DOMAIN u.symbols
                                        /\ u.symbols[i] = t.symbols[i]
        /\ \A i \in DOMAIN u.symbols :
             u.symbols[i] = s \/ (i \in DOMAIN t.symbols /\ u.symbols[i] = t.symbols[i])
        /\ \E i \in DOMAIN u.symbols : u.symbols[i] = s
    <2> DEFINE m == Len(t.symbols)
    <2>1. /\ m \in Nat /\ DOMAIN t.symbols = 1 .. m /\ DOMAIN u.symbols = 1 .. m + 1
          /\ \A i \in 1 .. m : u.symbols[i] = t.symbols[i]
          /\ u.symbols[m + 1] = s
      BY <1>1, <1>2
    <2> HIDE DEF m
    <2>2. \A i \in 1 .. m + 1 : i = m + 1 \/ i \in 1 .. m
      BY <2>1
    <2>3. m + 1 \in 1 .. m + 1 /\ 1 .. m \subseteq 1 .. m + 1
      BY <2>1
    <2> QED BY <2>1, <2>2, <2>3
  <1>5. SymbolsDeclared(text, u, E)
    BY <1>2, <1>4 DEF SymbolsDeclared
  <1>6. DeclaredBound(text, u, E)
    <2> SUFFICES ASSUME NEW d \in E
                 PROVE  \E i \in DOMAIN u.symbols :
                          /\ u.symbols[i].name = text[d].name
                          /\ u.symbols[i].owner = Ordinal(text, BlockAt(text, d)) + 1
      BY DEF DeclaredBound
    <2>1. CASE d = line
      <3>1. PICK i \in DOMAIN u.symbols : u.symbols[i] = s
        BY <1>4
      <3> QED BY <1>2, <1>3, <2>1, <3>1
    <2>2. CASE d \in D
      <3>1. PICK i \in DOMAIN t.symbols :
              /\ t.symbols[i].name = text[d].name
              /\ t.symbols[i].owner = Ordinal(text, BlockAt(text, d)) + 1
        BY <2>2 DEF DeclaredBound
      <3> QED BY <1>4, <3>1
    <2> QED BY <2>1, <2>2
  <1> QED BY <1>5, <1>6 DEF u

-----------------------------------------------------------------------------
(* A part of a text, from its beginning. *)

\* Up to its end, the part says what the text says.
LEMMA PartSays ==
  ASSUME NEW V, NEW ast \in Seq(V), NEW k \in 1 .. Len(ast) + 1
  PROVE  LET text == SubSeq(ast, 1, k - 1)
         IN  /\ \A p \in 0 .. k, b \in Nat : OpenAt(text, b, p) <=> OpenAt(ast, b, p)
             /\ \A p \in 1 .. k : BlockAt(text, p) = BlockAt(ast, p)
             /\ \A b \in 0 .. k : Ordinal(text, b) = Ordinal(ast, b)
  <1> DEFINE text == SubSeq(ast, 1, k - 1)
  <1>1. /\ k \in Nat \ {0} /\ DOMAIN ast = 1 .. Len(ast) /\ k - 1 <= Len(ast)
        /\ Len(ast) \in Nat
        /\ text \in Seq(V) /\ DOMAIN text = 1 .. k - 1
        /\ \A q \in 1 .. k - 1 : text[q] = ast[q]
    OBVIOUS
  <1> HIDE DEF text
  <1>0. \A p \in 0 .. k : \A kind : Before(text, p, kind) = Before(ast, p, kind)
    <2> TAKE p \in 0 .. k
    <2>1. \A kind : Counted(text, p, kind) = Counted(ast, p, kind)
      <3> TAKE kind
      <3>1. \A q \in Nat : q < p => q <= k - 1
        BY <1>1
      <3>2. \A q : q \in DOMAIN ast => q \in Nat
        BY <1>1
      <3>3. \A q : q \in DOMAIN text /\ q < p <=> q \in DOMAIN ast /\ q < p
        BY <1>1, <3>1
      <3> QED BY <1>1, <3>3 DEF Counted
    <2> QED BY <2>1 DEF Before, Counted
  <1>2. \A p \in 0 .. k : Level(text, p) = Level(ast, p)
    BY <1>0 DEF Level
  <1>3. ASSUME NEW p \in 0 .. k, NEW b \in Nat
        PROVE  OpenAt(text, b, p) <=> OpenAt(ast, b, p)
    <2>1. CASE b = 0 \/ ~(b < p)
      BY <2>1 DEF OpenAt
    <2>2. CASE b # 0 /\ b < p
      <3>1. b \in 1 .. k - 1 /\ text[b] = ast[b]
        BY <1>1, <2>2
      <3>2. \A q \in b .. p : q \in 0 .. k
        BY <1>1, <3>1
      <3>3. \A q \in b .. p : Level(text, q) = Level(ast, q)
        BY <1>2, <3>2
      <3>4. (\A q \in b + 1 .. p : Level(text, q) > Level(text, b))
              <=> (\A q \in b + 1 .. p : Level(ast, q) > Level(ast, b))
        BY <2>2, <3>3
      <3> QED BY <3>1, <3>4 DEF OpenAt
    <2> QED BY <2>1, <2>2
  <1>4. ASSUME NEW p \in 1 .. k
        PROVE  BlockAt(text, p) = BlockAt(ast, p)
    <2>1. \A b \in 0 .. p - 1 : OpenAt(text, b, p) <=> OpenAt(ast, b, p)
      BY <1>1, <1>3
    <2> QED BY <2>1 DEF BlockAt
  <1>5. \A b \in 0 .. k : Ordinal(text, b) = Ordinal(ast, b)
    BY <1>0 DEF Ordinal
  <1> QED BY <1>3, <1>4, <1>5 DEF text

-----------------------------------------------------------------------------
(* A table that records its text: besides the places of its symbols, where   *)
(* its scopes are in each other, and its symbols in the order of the text.   *)

RecordedIn(text, t) ==
  /\ \A b \in BlocksOf(text) \ {0} :
       t.frames[Ordinal(text, b) + 1].parent = Ordinal(text, BlockAt(text, b)) + 1
  /\ \A i \in DOMAIN t.symbols :
       /\ t.symbols[i].type = text[t.symbols[i].line].type
       /\ t.symbols[i].scope_depth = t.frames[t.symbols[i].owner].depth
  /\ \A i, j \in DOMAIN t.symbols : i < j => t.symbols[i].line < t.symbols[j].line

\* A visit that begins or ends no block comes, or none does.
Continues(text, new) ==
  new = text \/ \E v \in Visits : /\ new = Append(text, v)
                                  /\ v.kind \notin {"block", "end"}

\* What a step of a phase makes of text and table t.
Records(text, t, new, u) ==
  \/ Continues(text, new) /\ u = t
  \/ \E v \in Visits : v.kind = "block" /\ new = Append(text, v) /\ u = EnterScope(t)
  \/ \E v \in Visits : /\ v.kind = "end" /\ new = Append(text, v)
                       /\ ~AtGlobal(t) /\ u = ExitScope(t)
  \/ /\ Continues(text, new)
     /\ \E line \in DOMAIN new :
          /\ u = Insert(t, new[line].name, new[line].type, line)
          /\ \A i \in DOMAIN t.symbols : t.symbols[i].line < line

\* What the text says of its blocks and declarations stays.
LEMMA BlocksStay ==
  ASSUME NEW text \in Seq(Visits), NEW v \in Visits
  PROVE  LET new == Append(text, v)
         IN  /\ \A b \in BlocksOf(text) \ {0} :
                  /\ Ordinal(new, b) = Ordinal(text, b)
                  /\ Ordinal(new, BlockAt(new, b)) = Ordinal(text, BlockAt(text, b))
             /\ \A p \in DOMAIN text : new[p] = text[p]
  <1> DEFINE new == Append(text, v)
  <1>1. ASSUME NEW b \in BlocksOf(text) \ {0}
        PROVE  /\ Ordinal(new, b) = Ordinal(text, b)
               /\ Ordinal(new, BlockAt(new, b)) = Ordinal(text, BlockAt(text, b))
    <2>1. b \in 1 .. Len(text) + 1 /\ b \in 0 .. Len(text) + 1 /\ b \in Nat \ {0}
      BY DEF BlocksOf
    <2>2. BlockAt(new, b) = BlockAt(text, b)
      BY <2>1, BlockAtAppend
    <2>3. BlockAt(text, b) \in 0 .. Len(text) + 1
      BY <2>1, InnermostBlock
    <2> QED BY <2>1, <2>2, <2>3, OrdinalAppend
  <1> QED BY <1>1

LEMMA TextKeepsRecords ==
  ASSUME NEW text \in Seq(Visits), NEW new, Continues(text, new),
         NEW t, SymbolsPlaced(text, t), RecordedIn(text, t)
  PROVE  RecordedIn(new, t)
  <1>1. CASE new = text
    BY <1>1
  <1>2. CASE new # text
    <2>1. PICK v \in Visits : new = Append(text, v) /\ v.kind \notin {"block", "end"}
      BY <1>2 DEF Continues
    <2>2. BlocksOf(new) = BlocksOf(text)
      BY <2>1, BlocksAppend
    <2>3. /\ \A b \in BlocksOf(text) \ {0} :
               /\ Ordinal(new, b) = Ordinal(text, b)
               /\ Ordinal(new, BlockAt(new, b)) = Ordinal(text, BlockAt(text, b))
          /\ \A p \in DOMAIN text : new[p] = text[p]
      BY <2>1, BlocksStay
    <2>4. \A i \in DOMAIN t.symbols : new[t.symbols[i].line] = text[t.symbols[i].line]
      BY <2>3 DEF SymbolsPlaced
    <2> QED BY <2>2, <2>3, <2>4 DEF RecordedIn
  <1> QED BY <1>1, <1>2

LEMMA EnterKeepsRecords ==
  ASSUME NEW text \in Seq(Visits), NEW v \in Visits, v.kind = "block",
         NEW t, PlacedIn(text, t), RecordedIn(text, t)
  PROVE  RecordedIn(Append(text, v), EnterScope(t))
  <1> DEFINE new == Append(text, v)
             h == Len(text) + 1
             u == EnterScope(t)
             n == Len(t.frames)
             f == [id |-> t.next_scope_id, depth |-> CurrentFrame(t).depth + 1,
                   active |-> TRUE, parent |-> t.current]
  <1>1. /\ n \in Nat /\ DOMAIN t.frames = 1 .. n /\ t.frames \in Seq(Frame)
    BY DEF PlacedIn, WellFormed, Table
  <1>2. u.frames = Append(t.frames, f) /\ f.parent = t.current /\ u.symbols = t.symbols
    BY DEF EnterScope
  <1> HIDE DEF f, u
  <1>3. /\ \A s \in 1 .. n : u.frames[s] = t.frames[s]
        /\ u.frames[n + 1].parent = t.current
    BY <1>1, <1>2
  <1>4. /\ \A b \in BlocksOf(text) \ {0} :
             /\ Ordinal(new, b) = Ordinal(text, b)
             /\ Ordinal(new, BlockAt(new, b)) = Ordinal(text, BlockAt(text, b))
        /\ \A p \in DOMAIN text : new[p] = text[p]
    BY BlocksStay
  <1>5. /\ h \in Nat \ {0} /\ BlocksOf(new) = BlocksOf(text) \cup {h}
    BY BlocksAppend
  <1>6. /\ \A b \in BlocksOf(text) : Ordinal(text, b) + 1 \in 1 .. n
        /\ n = Before(text, h, "block") + 1
    BY <1>1 DEF PlacedIn, FramesMatch
  <1>7. Ordinal(new, h) = n
    <2>1. Before(new, h, "block") = Before(text, h, "block")
      BY BeforeAppend
    <2> QED BY <1>5, <1>6, <2>1 DEF Ordinal
  <1>8. t.current = Ordinal(new, BlockAt(new, h)) + 1
    <2>1. t.current = Ordinal(text, BlockAt(text, h)) + 1
      BY CurrentIsInnermost DEF PlacedIn
    <2>2. BlockAt(new, h) = BlockAt(text, h) /\ BlockAt(text, h) \in 0 .. Len(text) + 1
      BY BlockAtAppend, InnermostBlock
    <2> QED BY <2>1, <2>2, OrdinalAppend
  <1>9. \A i \in DOMAIN t.symbols :
          /\ t.symbols[i].line \in DOMAIN text
          /\ t.symbols[i].owner \in 1 .. n
    BY <1>1 DEF PlacedIn, SymbolsPlaced, WellFormed, Owned
  <1> HIDE DEF new, h, n
  <1>10. \A b \in BlocksOf(new) \ {0} :
           u.frames[Ordinal(new, b) + 1].parent = Ordinal(new, BlockAt(new, b)) + 1
    BY <1>3, <1>4, <1>5, <1>6, <1>7, <1>8 DEF RecordedIn
  <1>11. \A i \in DOMAIN u.symbols :
           /\ u.symbols[i].type = new[u.symbols[i].line].type
           /\ u.symbols[i].scope_depth = u.frames[u.symbols[i].owner].depth
    <2> TAKE i \in DOMAIN u.symbols
    <2>1. /\ t.symbols[i].type = text[t.symbols[i].line].type
          /\ t.symbols[i].scope_depth = t.frames[t.symbols[i].owner].depth
      BY <1>2 DEF RecordedIn
    <2>2. /\ new[t.symbols[i].line] = text[t.symbols[i].line]
          /\ u.frames[t.symbols[i].owner] = t.frames[t.symbols[i].owner]
      BY <1>2, <1>3, <1>4, <1>9
    <2> QED BY <1>2, <2>1, <2>2
  <1>12. RecordedIn(new, u)
    BY <1>2, <1>10, <1>11 DEF RecordedIn
  <1> QED BY <1>12 DEF new, u

LEMMA ExitKeepsRecords ==
  ASSUME NEW text \in Seq(Visits), NEW v \in Visits, v.kind = "end",
         NEW t, PlacedIn(text, t), RecordedIn(text, t), ~AtGlobal(t)
  PROVE  RecordedIn(Append(text, v), ExitScope(t))
  <1> DEFINE new == Append(text, v)
             u == ExitScope(t)
  <1>1. /\ t \in Table /\ t.frames \in Seq(Frame) /\ t.current \in DOMAIN t.frames
    BY WellFormedIndices DEF PlacedIn, WellFormed, Table
  <1>2. /\ u.symbols = t.symbols
        /\ u.frames = [t.frames EXCEPT ![t.current].active = FALSE]
    BY <1>1 DEF ExitScope, Table
  <1> HIDE DEF u
  <1>3. \A s \in DOMAIN t.frames : /\ u.frames[s].parent = t.frames[s].parent
                                   /\ u.frames[s].depth = t.frames[s].depth
    <2> TAKE s \in DOMAIN t.frames
    <2>1. t.frames[s] \in Frame
      BY <1>1
    <2> QED BY <1>2, <2>1 DEF Frame
  <1>4. /\ \A b \in BlocksOf(text) \ {0} :
             /\ Ordinal(new, b) = Ordinal(text, b)
             /\ Ordinal(new, BlockAt(new, b)) = Ordinal(text, BlockAt(text, b))
        /\ \A p \in DOMAIN text : new[p] = text[p]
    BY BlocksStay
  <1>5. BlocksOf(new) = BlocksOf(text)
    BY BlocksAppend
  <1>6. \A b \in BlocksOf(text) : Ordinal(text, b) + 1 \in DOMAIN t.frames
    BY DEF PlacedIn, FramesMatch
  <1>7. \A i \in DOMAIN t.symbols :
          /\ t.symbols[i].line \in DOMAIN text
          /\ t.symbols[i].owner \in DOMAIN t.frames
    BY DEF PlacedIn, SymbolsPlaced, WellFormed, Owned
  <1> HIDE DEF new
  <1>8. RecordedIn(new, u)
    BY <1>2, <1>3, <1>4, <1>5, <1>6, <1>7 DEF RecordedIn
  <1> QED BY <1>8 DEF new, u

LEMMA InsertKeepsRecords ==
  ASSUME NEW text \in Seq(Visits), NEW t, PlacedIn(text, t), RecordedIn(text, t),
         NEW line \in DOMAIN text, NEW n,
         \A i \in DOMAIN t.symbols : t.symbols[i].line < line
  PROVE  RecordedIn(text, Insert(t, n, text[line].type, line))
  <1> DEFINE u == Insert(t, n, text[line].type, line)
             s == [name |-> n, type |-> text[line].type, line |-> line,
                   scope_id |-> CurrentFrame(t).id,
                   scope_depth |-> CurrentFrame(t).depth, owner |-> t.current]
             m == Len(t.symbols)
  <1>1. t \in Table /\ t.symbols \in Seq(Symbol)
    BY DEF PlacedIn, WellFormed, Table
  <1>2. u.symbols = Append(t.symbols, s) /\ u.frames = t.frames
    BY <1>1 DEF Insert, Table
  <1>3. /\ s.type = text[s.line].type /\ s.line = line
        /\ s.scope_depth = t.frames[s.owner].depth
    BY DEF CurrentFrame
  <1> HIDE DEF u, s
  <1>4. /\ m \in Nat /\ DOMAIN t.symbols = 1 .. m /\ DOMAIN u.symbols = 1 .. m + 1
        /\ \A i \in 1 .. m : u.symbols[i] = t.symbols[i]
        /\ u.symbols[m + 1] = s
    BY <1>1, <1>2
  <1> HIDE DEF m
  <1>5. \A i \in 1 .. m + 1 : i \in 1 .. m \/ i = m + 1
    BY <1>4
  <1>6. \A i, j \in 1 .. m + 1 : i < j => i \in 1 .. m
    BY <1>4
  <1>7. \A i \in DOMAIN u.symbols :
           /\ u.symbols[i].type = text[u.symbols[i].line].type
           /\ u.symbols[i].scope_depth = u.frames[u.symbols[i].owner].depth
    BY <1>2, <1>3, <1>4, <1>5 DEF RecordedIn
  <1>8. \A i, j \in DOMAIN u.symbols : i < j => u.symbols[i].line < u.symbols[j].line
    <2> SUFFICES ASSUME NEW i \in 1 .. m + 1, NEW j \in 1 .. m + 1, i < j
                 PROVE  u.symbols[i].line < u.symbols[j].line
      BY <1>4
    <2>1. i \in 1 .. m
      BY <1>6
    <2>2. CASE j = m + 1
      BY <1>3, <1>4, <2>1, <2>2
    <2>3. CASE j \in 1 .. m
      BY <1>4, <2>1, <2>3 DEF RecordedIn
    <2> QED BY <1>5, <2>2, <2>3
  <1>9. RecordedIn(text, u)
    BY <1>2, <1>7, <1>8 DEF RecordedIn
  <1> QED BY <1>9 DEF u

\* The steps of a phase keep the record.
LEMMA RecordsKept ==
  ASSUME NEW text \in Seq(Visits), NEW t, PlacedIn(text, t), RecordedIn(text, t),
         NEW new, NEW u, Records(text, t, new, u)
  PROVE  RecordedIn(new, u)
  <1>1. CASE Continues(text, new)
    <2>1. new \in Seq(Visits) /\ PlacedIn(new, t) /\ RecordedIn(new, t)
      <3>1. RecordedIn(new, t)
        BY <1>1, TextKeepsRecords DEF PlacedIn
      <3>2. CASE new = text
        BY <3>1, <3>2
      <3>3. CASE new # text
        <4>1. PICK v \in Visits : new = Append(text, v) /\ v.kind \notin {"block", "end"}
          BY <1>1, <3>3 DEF Continues
        <4> QED BY <3>1, <4>1, TextKeepsPlaces
      <3> QED BY <3>2, <3>3
    <2>2. CASE u = t
      BY <2>1, <2>2
    <2>3. CASE \E line \in DOMAIN new :
                 /\ u = Insert(t, new[line].name, new[line].type, line)
                 /\ \A i \in DOMAIN t.symbols : t.symbols[i].line < line
      BY <2>1, <2>3, InsertKeepsRecords
    <2>4. CASE \/ \E v \in Visits : v.kind = "block" /\ new = Append(text, v)
                                    /\ u = EnterScope(t)
               \/ \E v \in Visits : /\ v.kind = "end" /\ new = Append(text, v)
                                    /\ ~AtGlobal(t) /\ u = ExitScope(t)
      BY <2>4, EnterKeepsRecords, ExitKeepsRecords
    <2> QED BY <2>2, <2>3, <2>4 DEF Records
  <1>2. CASE ~Continues(text, new)
    BY <1>2, EnterKeepsRecords, ExitKeepsRecords DEF Records
  <1> QED BY <1>1, <1>2

LEMMA NewIsRecorded == RecordedIn(<< >>, NewTable)
  BY DEF RecordedIn, BlocksOf, NewTable

\* Blocks have numbers of their own.
LEMMA OrdinalsDiffer ==
  ASSUME NEW text \in Seq(Visits), NEW a \in BlocksOf(text), NEW b \in BlocksOf(text),
         Ordinal(text, a) = Ordinal(text, b)
  PROVE  a = b
  <1>1. \A x, y \in BlocksOf(text) : x < y => Ordinal(text, x) < Ordinal(text, y)
    <2> SUFFICES ASSUME NEW x \in BlocksOf(text), NEW y \in BlocksOf(text), x < y
                 PROVE  Ordinal(text, x) < Ordinal(text, y)
      OBVIOUS
    <2>1. x \in Nat /\ y \in 1 .. Len(text) /\ (x = 0 \/ text[x].kind = "block")
      BY DEF BlocksOf
    <2> QED BY <2>1, OrdinalGrows
  <1>2. a \in Nat /\ b \in Nat
    BY DEF BlocksOf
  <1>3. Ordinal(text, a) \in Nat /\ Ordinal(text, b) \in Nat
    <2>1. Before(text, a, "block") \in Nat /\ Before(text, b, "block") \in Nat
      BY BeforeCounts
    <2> QED BY <2>1 DEF Ordinal
  <1> QED BY <1>1, <1>2, <1>3

\* The innermost block is one of the text.
LEMMA InnermostIsBlock ==
  ASSUME NEW text \in Seq(Visits), NEW p \in 1 .. Len(text) + 1
  PROVE  BlockAt(text, p) \in BlocksOf(text)
  <1>1. BlockAt(text, p) \in 0 .. p - 1 /\ OpenAt(text, BlockAt(text, p), p)
    BY InnermostBlock
  <1> QED BY <1>1 DEF OpenAt, BlocksOf

Increasing(f, m) == \A i, j \in 1 .. m : i < j => f[i] < f[j]
Occur(f, m, g, n) == \A i \in 1 .. m : \E j \in 1 .. n : g[j] = f[i]

\* Of two increasing sequences that have the same elements, the one goes on as
\* long as the other.
LEMMA SameIncreasing ==
  ASSUME NEW m \in Nat, NEW n \in Nat, NEW f \in [1 .. m -> Nat], NEW g \in [1 .. n -> Nat],
         Increasing(f, m), Increasing(g, n), Occur(f, m, g, n), Occur(g, n, f, m)
  PROVE  \A i \in 1 .. m : i \in 1 .. n /\ f[i] = g[i]
  <1> DEFINE S == {i \in 1 .. m : ~(i \in 1 .. n /\ f[i] = g[i])}
  <1> SUFFICES ASSUME S # {} PROVE FALSE
    OBVIOUS
  <1> DEFINE k == Min(S)
  <1>1. k \in S /\ \A i \in S : k <= i
    <2>1. S \in SUBSET Nat
      OBVIOUS
    <2> HIDE DEF S
    <2> QED BY <2>1, MinOfSet
  <1> HIDE DEF k
  <1>2. /\ k \in 1 .. m /\ ~(k \in 1 .. n /\ f[k] = g[k])
        /\ \A i \in 1 .. m : i < k => i \in 1 .. n /\ f[i] = g[i]
    BY <1>1
  <1> HIDE DEF S
  <1>3. PICK j \in 1 .. n : g[j] = f[k]
    BY <1>2 DEF Occur
  <1>4. ~(j < k)
    <2> SUFFICES ASSUME j < k PROVE FALSE
      OBVIOUS
    <2>1. j \in 1 .. m
      BY <1>2
    <2>2. f[j] = f[k]
      BY <1>2, <1>3, <2>1
    <2>3. f[j] < f[k] /\ f[k] \in Nat
      BY <1>2, <2>1 DEF Increasing
    <2> QED BY <2>2, <2>3
  <1>5. k \in 1 .. n /\ k < j
    <2>1. k \in Nat /\ j \in Nat /\ 1 <= k /\ j <= n
      BY <1>2
    <2>2. k \in 1 .. n
      BY <1>4, <2>1
    <2>3. j # k
      BY <1>2, <1>3, <2>2
    <2> QED BY <1>4, <2>1, <2>2, <2>3
  <1>6. g[k] < f[k] /\ g[k] \in Nat /\ f[k] \in Nat
    BY <1>2, <1>3, <1>5 DEF Increasing
  <1>7. PICK i \in 1 .. m : f[i] = g[k]
    BY <1>5 DEF Occur
  <1>8. i < k
    <2>1. i # k
      BY <1>6, <1>7
    <2>2. CASE k < i
      <3>1. f[k] < f[i]
        BY <1>2, <2>2 DEF Increasing
      <3> QED BY <1>6, <1>7, <3>1
    <2>3. i \in Nat /\ k \in Nat
      BY <1>2
    <2> QED BY <2>1, <2>2, <2>3
  <1>9. i \in 1 .. n /\ g[i] = g[k]
    BY <1>2, <1>7, <1>8
  <1>10. g[i] < g[k]
    BY <1>5, <1>8, <1>9 DEF Increasing
  <1> QED BY <1>6, <1>9, <1>10

\* Two tables that record the same text have the same frames, ...
LEMMA FramesAgree ==
  ASSUME NEW text \in Seq(Visits),
         NEW t, PlacedIn(text, t), RecordedIn(text, t),
         NEW u, PlacedIn(text, u), RecordedIn(text, u)
  PROVE  t.frames = u.frames
  <1> DEFINE n == Before(text, Len(text) + 1, "block") + 1
  <1>1. /\ t.frames \in Seq(Frame) /\ Len(t.frames) = n /\ DOMAIN t.frames = 1 .. n
        /\ u.frames \in Seq(Frame) /\ Len(u.frames) = n /\ DOMAIN u.frames = 1 .. n
        /\ n \in Nat
    BY DEF PlacedIn, WellFormed, Table, FramesMatch
  <1> HIDE DEF n
  <1>2. ASSUME NEW f \in 1 .. n
        PROVE  t.frames[f] = u.frames[f]
    <2>1. PICK b \in BlocksOf(text) : Ordinal(text, b) + 1 = f
      BY <1>1 DEF PlacedIn, FramesMatch
    <2>2. /\ t.frames[f].id = f - 1 /\ u.frames[f].id = f - 1
          /\ t.frames[f].parent = Null <=> f = 1
          /\ u.frames[f].parent = Null <=> f = 1
      BY <1>1 DEF PlacedIn, WellFormed, Rooted
    <2>3. /\ t.frames[f].active <=> u.frames[f].active
          /\ t.frames[f].depth = u.frames[f].depth
      BY <2>1 DEF PlacedIn, FramesMatch
    <2>4. t.frames[f].parent = u.frames[f].parent
      <3>1. CASE b = 0
        BY <2>1, <2>2, <3>1 DEF Ordinal
      <3>2. CASE b # 0
        <4>1. b \in BlocksOf(text) \ {0}
          BY <2>1, <3>2
        <4>2. t.frames[Ordinal(text, b) + 1].parent = Ordinal(text, BlockAt(text, b)) + 1
          BY <4>1 DEF RecordedIn
        <4>3. u.frames[Ordinal(text, b) + 1].parent = Ordinal(text, BlockAt(text, b)) + 1
          BY <4>1 DEF RecordedIn
        <4> QED BY <2>1, <4>2, <4>3
      <3> QED BY <3>1, <3>2
    <2>5. t.frames[f] \in Frame /\ u.frames[f] \in Frame
      BY <1>1
    <2>6. t.frames[f].active = u.frames[f].active
      BY <2>3, <2>5 DEF Frame
    <2>7. t.frames[f].id = u.frames[f].id
      BY <2>2
    <2> QED BY <2>3, <2>4, <2>5, <2>6, <2>7 DEF Frame
  <1> QED BY <1>1, <1>2, SeqEqual

\* No declaration of D repeats another.
Unrepeated(text, D) ==
  \A d, e \in D :
    text[d].name = text[e].name /\ BlockAt(text, d) = BlockAt(text, e) => d = e

\* Every declaration of D has its symbol.
LEMMA LinesBound ==
  ASSUME NEW text \in Seq(Visits), NEW D \in SUBSET DOMAIN text,
         Unrepeated(text, D),
         NEW t, PlacedIn(text, t), SymbolsDeclared(text, t, D), DeclaredBound(text, t, D),
         NEW d \in D
  PROVE  \E i \in DOMAIN t.symbols : t.symbols[i].line = d
  <1>1. PICK i \in DOMAIN t.symbols :
               /\ t.symbols[i].name = text[d].name
               /\ t.symbols[i].owner = Ordinal(text, BlockAt(text, d)) + 1
    BY DEF DeclaredBound
  <1> DEFINE e == t.symbols[i].line
  <1>2. e \in D /\ text[e].name = text[d].name
    BY <1>1 DEF SymbolsDeclared
  <1>3. t.symbols[i].owner = Ordinal(text, BlockAt(text, e)) + 1
    BY DEF PlacedIn, SymbolsPlaced
  <1> HIDE DEF e
  <1>4. BlockAt(text, d) \in BlocksOf(text) /\ BlockAt(text, e) \in BlocksOf(text)
    <2>1. d \in 1 .. Len(text) + 1 /\ e \in 1 .. Len(text) + 1
      BY <1>2
    <2> QED BY <2>1, InnermostIsBlock
  <1>5. Ordinal(text, BlockAt(text, d)) = Ordinal(text, BlockAt(text, e))
    <2>1. \A b : Ordinal(text, b) \in Nat
      BY BeforeCounts DEF Ordinal
    <2> QED BY <1>1, <1>3, <2>1
  <1>6. BlockAt(text, d) = BlockAt(text, e)
    BY <1>4, <1>5, OrdinalsDiffer
  <1>7. d = e
    BY <1>2, <1>6 DEF Unrepeated
  <1> QED BY <1>7 DEF e

LEMMA LinesAgree ==
  ASSUME NEW text \in Seq(Visits), NEW D \in SUBSET DOMAIN text,
         Unrepeated(text, D),
         NEW t, PlacedIn(text, t), RecordedIn(text, t),
         SymbolsDeclared(text, t, D), DeclaredBound(text, t, D),
         NEW u, PlacedIn(text, u), RecordedIn(text, u),
         SymbolsDeclared(text, u, D), DeclaredBound(text, u, D)
  PROVE  \A i \in DOMAIN t.symbols :
           i \in DOMAIN u.symbols /\ t.symbols[i].line = u.symbols[i].line
  <1> DEFINE m == Len(t.symbols)
             n == Len(u.symbols)
             f == [i \in 1 .. m |-> t.symbols[i].line]
             g == [i \in 1 .. n |-> u.symbols[i].line]
  <1>1. /\ m \in Nat /\ DOMAIN t.symbols = 1 .. m
        /\ n \in Nat /\ DOMAIN u.symbols = 1 .. n
    BY DEF PlacedIn, WellFormed, Table
  <1>2. /\ \A i \in 1 .. m : t.symbols[i].line \in D
        /\ \A i \in 1 .. n : u.symbols[i].line \in D
    BY <1>1 DEF SymbolsDeclared
  <1>3. D \in SUBSET Nat
    OBVIOUS
  <1>4. f \in [1 .. m -> Nat] /\ g \in [1 .. n -> Nat]
    BY <1>2, <1>3
  <1>5. Increasing(f, m) /\ Increasing(g, n)
    BY <1>1 DEF RecordedIn, Increasing
  <1>6. Occur(f, m, g, n)
    <2> SUFFICES ASSUME NEW i \in 1 .. m PROVE \E j \in 1 .. n : g[j] = f[i]
      BY DEF Occur
    <2>1. \A d \in D : \E j \in DOMAIN u.symbols : u.symbols[j].line = d
      BY LinesBound
    <2> QED BY <1>1, <1>2, <2>1
  <1>7. Occur(g, n, f, m)
    <2> SUFFICES ASSUME NEW j \in 1 .. n PROVE \E i \in 1 .. m : f[i] = g[j]
      BY DEF Occur
    <2>1. \A d \in D : \E i \in DOMAIN t.symbols : t.symbols[i].line = d
      BY LinesBound
    <2> QED BY <1>1, <1>2, <2>1
  <1>8. \A i \in 1 .. m : f[i] = t.symbols[i].line
    OBVIOUS
  <1>9. \A i \in 1 .. n : g[i] = u.symbols[i].line
    OBVIOUS
  <1> HIDE DEF f, g, m, n
  <1>10. \A i \in 1 .. m : i \in 1 .. n /\ f[i] = g[i]
    BY <1>1, <1>4, <1>5, <1>6, <1>7, SameIncreasing
  <1> QED BY <1>1, <1>8, <1>9, <1>10

\* ... and are the same if they bind the same declarations.
LEMMA TablesAgree ==
  ASSUME NEW text \in Seq(Visits), NEW D \in SUBSET DOMAIN text,
         Unrepeated(text, D),
         NEW t, PlacedIn(text, t), RecordedIn(text, t),
         SymbolsDeclared(text, t, D), DeclaredBound(text, t, D),
         NEW u, PlacedIn(text, u), RecordedIn(text, u),
         SymbolsDeclared(text, u, D), DeclaredBound(text, u, D)
  PROVE  t = u
  <1>1. /\ t \in Table /\ t.symbols \in Seq(Symbol)
        /\ u \in Table /\ u.symbols \in Seq(Symbol)
    BY DEF PlacedIn, WellFormed, Table
  <1>2. t.frames = u.frames
    BY FramesAgree
  <1>3. t.current = u.current /\ t.next_scope_id = u.next_scope_id
    <2>1. t.current = u.current
      BY CurrentIsInnermost DEF PlacedIn
    <2> QED BY <1>2, <2>1 DEF PlacedIn, WellFormed, Rooted
  <1>4. \A i \in DOMAIN t.symbols :
          i \in DOMAIN u.symbols /\ t.symbols[i].line = u.symbols[i].line
    BY LinesAgree
  <1>5. \A i \in DOMAIN u.symbols :
          i \in DOMAIN t.symbols /\ t.symbols[i].line = u.symbols[i].line
    BY LinesAgree
  <1>6. Len(t.symbols) = Len(u.symbols)
    <2>1. DOMAIN t.symbols = DOMAIN u.symbols
      BY <1>4, <1>5
    <2> QED BY <1>1, <2>1
  <1>7. ASSUME NEW i \in DOMAIN t.symbols
        PROVE  t.symbols[i] = u.symbols[i]
    <2> DEFINE r == t.symbols[i]
               s == u.symbols[i]
    <2>1. i \in DOMAIN u.symbols /\ r.line = s.line /\ r \in Symbol /\ s \in Symbol
      BY <1>1, <1>4
    <2>2. r.name = s.name
      BY <2>1 DEF SymbolsDeclared
    <2>3. r.owner = s.owner
      BY <2>1 DEF PlacedIn, SymbolsPlaced
    <2>4. r.scope_id = s.scope_id
      BY <2>1, <2>3 DEF PlacedIn, WellFormed, Owned
    <2>5. r.type = s.type /\ r.scope_depth = s.scope_depth
      BY <1>2, <2>1, <2>3 DEF RecordedIn
    <2> HIDE DEF r, s
    <2>6. r = s
      BY <2>1, <2>2, <2>3, <2>4, <2>5 DEF Symbol
    <2> QED BY <2>6 DEF r, s
  <1>8. t.symbols = u.symbols
    BY <1>1, <1>6, <1>7, SeqEqual
  <1> QED BY <1>1, <1>2, <1>3, <1>8 DEF Table

\* When no declaration repeats another of its block, they differ in block or name.
LEMMA NoneRepeated ==
  ASSUME NEW text \in Seq(Visits), NEW D \in SUBSET DOMAIN text,
         \A d \in D : Declares(text[d]) /\ ~Repeats(text, d)
  PROVE  Unrepeated(text, D)
  <1>1. ASSUME NEW d \in D, NEW e \in D, d < e, text[d].name = text[e].name,
               BlockAt(text, d) = BlockAt(text, e)
        PROVE  FALSE
    <2>1. d \in Nat /\ e \in Nat /\ e \in d + 1 .. e
      BY <1>1
    <2>2. ~IsExpression(text[e])
      BY DEF Declares, IsExpression
    <2>3. Over(text, d, e)
      BY <2>1, <2>2 DEF Over
    <2>4. d \in DeclarationsOf(text, text[e].name, e)
      BY <1>1, <2>3 DEF DeclarationsOf
    <2> QED BY <1>1, <2>4 DEF Repeats
  <1>2. \A d, e \in D : d < e \/ e < d \/ d = e
    OBVIOUS
  <1> QED BY <1>1, <1>2 DEF Unrepeated

-----------------------------------------------------------------------------
(* What the nodes of an expression, and those of a statement, are.         *)

Weighing(text, a, b, weight) == {i \in a .. b : Weight(text[i]) = weight}

\* What the visits from a to b make of the operands that wait: FirstOf looks
\* for one more.
Balance(text, a, b) ==
  Cardinality(Weighing(text, a, b, 1)) - Cardinality(Weighing(text, a, b, -1))

\* From a to b there are expressions only, and they make one operand.
OperandAt(text, a, b) ==
  /\ \A i \in a .. b : IsExpression(text[i])
  /\ Balance(text, a, b) = 1

\* What is weighed can be counted.
LEMMA WeighingCounts ==
  ASSUME NEW text, NEW a \in Nat, NEW b \in Nat, NEW weight
  PROVE  /\ IsFiniteSet(Weighing(text, a, b, weight))
         /\ Cardinality(Weighing(text, a, b, weight)) \in Nat
  <1>1. IsFiniteSet(a .. b) /\ Weighing(text, a, b, weight) \subseteq a .. b
    BY FS_Interval DEF Weighing
  <1> QED BY <1>1, FS_Subset, FS_CardinalityType

\* The balance of two parts is that of the first and that of the second.
LEMMA BalanceJoins ==
  ASSUME NEW text, NEW a \in Nat, NEW b \in Nat, NEW c \in Nat, a <= b, b < c
  PROVE  /\ Balance(text, a, b) \in Int
         /\ Balance(text, a, c) = Balance(text, a, b) + Balance(text, b + 1, c)
  <1>1. ASSUME NEW w
        PROVE  /\ Cardinality(Weighing(text, a, b, w)) \in Nat
               /\ Cardinality(Weighing(text, b + 1, c, w)) \in Nat
               /\ Cardinality(Weighing(text, a, c, w)) =
                    Cardinality(Weighing(text, a, b, w))
                      + Cardinality(Weighing(text, b + 1, c, w))
    <2> DEFINE S == Weighing(text, a, b, w)
               T == Weighing(text, b + 1, c, w)
    <2>1. b + 1 \in Nat
      OBVIOUS
    <2>2. /\ IsFiniteSet(S) /\ IsFiniteSet(T)
          /\ Cardinality(S) \in Nat /\ Cardinality(T) \in Nat
      BY <2>1, WeighingCounts
    <2>3. Weighing(text, a, c, w) = S \cup T /\ S \cap T = {}
      <3>1. \A i : /\ i \in a .. c <=> i \in a .. b \/ i \in b + 1 .. c
                   /\ ~(i \in a .. b /\ i \in b + 1 .. c)
        OBVIOUS
      <3> QED BY <3>1 DEF Weighing
    <2> HIDE DEF S, T
    <2>4. Cardinality(S \cup T) = Cardinality(S) + Cardinality(T) - Cardinality({})
      BY <2>2, <2>3, FS_Union
    <2>5. Cardinality({}) = 0
      BY FS_EmptySet
    <2> QED BY <2>2, <2>3, <2>4, <2>5 DEF S, T
  <1> DEFINE n(x, y, w) == Cardinality(Weighing(text, x, y, w))
  <1>2. /\ n(a, b, 1) \in Nat /\ n(b + 1, c, 1) \in Nat
        /\ n(a, c, 1) = n(a, b, 1) + n(b + 1, c, 1)
    BY <1>1
  <1>3. /\ n(a, b, -1) \in Nat /\ n(b + 1, c, -1) \in Nat
        /\ n(a, c, -1) = n(a, b, -1) + n(b + 1, c, -1)
    BY <1>1
  <1> HIDE DEF n
  <1>4. \A x, y : Balance(text, x, y) = n(x, y, 1) - n(x, y, -1)
    BY DEF Balance, n
  <1> QED BY <1>2, <1>3, <1>4

\* The balance of one visit is its weight.
LEMMA BalanceOfOne ==
  ASSUME NEW text, NEW a \in Nat
  PROVE  Balance(text, a, a) = Weight(text[a])
  <1>1. Cardinality({a}) = 1 /\ Cardinality({}) = 0
    BY FS_Singleton, FS_EmptySet
  <1>2. \A w : Weighing(text, a, a, w) = IF Weight(text[a]) = w THEN {a} ELSE {}
    BY DEF Weighing
  <1>3. Weight(text[a]) \in {-1, 0, 1}
    BY DEF Weight
  <1> HIDE DEF Weighing
  <1> QED BY <1>1, <1>2, <1>3 DEF Balance

\* Where two texts agree, so do what they weigh and their operands.
LEMMA OperandStays ==
  ASSUME NEW text, NEW new, NEW a, NEW b, \A i \in a .. b : new[i] = text[i]
  PROVE  /\ Balance(new, a, b) = Balance(text, a, b)
         /\ OperandAt(new, a, b) <=> OperandAt(text, a, b)
  <1>1. \A w : Weighing(new, a, b, w) = Weighing(text, a, b, w)
    BY DEF Weighing
  <1>2. Balance(new, a, b) = Balance(text, a, b)
    BY <1>1 DEF Balance
  <1> QED BY <1>2 DEF OperandAt

\* The positions at which FirstOf finds an operand that ends in r.
Starts(text, r) == {q \in 1 .. r : OperandAt(text, q, r)}

LEMMA FirstIsStart ==
  ASSUME NEW text, NEW r
  PROVE  FirstOf(text, r) = Max(Starts(text, r))
  BY DEF FirstOf, Starts, OperandAt, Balance, Weighing

\* An operand that ends in r holds all of the node at r.
LEMMA OperandHolds ==
  ASSUME NEW text, NEW r \in Nat, NEW a \in 1 .. r, OperandAt(text, a, r)
  PROVE  IsExpression(text[r]) /\ Within(text, r) \subseteq a .. r
  <1> DEFINE S == Starts(text, r)
  <1>1. S \in SUBSET Nat /\ a \in S /\ \A i \in S : i <= r
    BY DEF Starts
  <1> HIDE DEF S
  <1>2. Max(S) \in S /\ a <= Max(S)
    BY <1>1, MaxOfSet
  <1>3. FirstOf(text, r) \in Nat /\ a <= FirstOf(text, r)
    BY <1>1, <1>2, FirstIsStart DEF S
  <1>4. IsExpression(text[r]) /\ a \in Nat
    <2>1. r \in a .. r
      OBVIOUS
    <2> QED BY <2>1 DEF OperandAt
  <1> QED BY <1>3, <1>4 DEF Within

\* The positions that LastOf chooses from, for a statement at p.
Ends(text, p) ==
  {q \in p .. Len(text) : \A i \in p + 1 .. q : IsExpression(text[i])}

\* The last position of a statement is in the text.
LEMMA LastIsEnd ==
  ASSUME NEW V, NEW text \in Seq(V), NEW p \in DOMAIN text
  PROVE  /\ LastOf(text, p) \in Ends(text, p)
         /\ \A q \in Ends(text, p) : q <= LastOf(text, p)
  <1> DEFINE S == Ends(text, p)
  <1>1. Len(text) \in Nat /\ p \in 1 .. Len(text)
    OBVIOUS
  <1>2. S \in SUBSET Nat /\ p \in S /\ \A i \in S : i <= Len(text)
    BY <1>1 DEF Ends
  <1>3. LastOf(text, p) = Max(S)
    BY DEF LastOf, Ends
  <1> HIDE DEF S
  <1> QED BY <1>1, <1>2, <1>3, MaxOfSet DEF S

\* A statement holds what follows it at most.
LEMMA StatementHolds ==
  ASSUME NEW V, NEW text \in Seq(V), NEW p \in DOMAIN text, ~IsExpression(text[p])
  PROVE  Within(text, p) \subseteq p .. Len(text)
  <1>1. LastOf(text, p) \in p .. Len(text)
    BY LastIsEnd DEF Ends
  <1> QED BY <1>1 DEF Within

\* One more visit puts nothing into a node but itself.
LEMMA WithinGrows ==
  ASSUME NEW V, NEW text \in Seq(V), NEW v \in V, NEW p \in DOMAIN text,
         NEW x \in DOMAIN text, x \in Within(Append(text, v), p)
  PROVE  x \in Within(text, p)
  <1> DEFINE new == Append(text, v)
             n == Len(text)
  <1>1. /\ n \in Nat /\ DOMAIN text = 1 .. n /\ new \in Seq(V) /\ Len(new) = n + 1
        /\ DOMAIN new = 1 .. n + 1 /\ p \in 1 .. n /\ x \in 1 .. n
        /\ \A i \in 1 .. n : new[i] = text[i]
    OBVIOUS
  <1> HIDE DEF new, n
  <1>2. CASE IsExpression(text[p])
    <2>1. Starts(new, p) = Starts(text, p)
      <3>1. ASSUME NEW q \in 1 .. p
            PROVE  OperandAt(new, q, p) <=> OperandAt(text, q, p)
        <4>1. \A i \in q .. p : new[i] = text[i]
          BY <1>1
        <4> QED BY <4>1, OperandStays
      <3> QED BY <3>1 DEF Starts
    <2>2. FirstOf(new, p) = FirstOf(text, p) /\ new[p] = text[p]
      BY <1>1, <2>1, FirstIsStart
    <2> QED BY <1>2, <2>2 DEF Within, new
  <1>3. CASE ~IsExpression(text[p])
    <2> DEFINE q == LastOf(new, p)
    <2>1. x \in p .. q
      BY <1>1, <1>3 DEF Within, new
    <2>2. p \in DOMAIN new
      BY <1>1
    <2>3. q \in Ends(new, p)
      BY <1>1, <2>2, LastIsEnd
    <2> HIDE DEF q
    <2>4. q \in p .. n + 1 /\ \A i \in p + 1 .. q : IsExpression(new[i])
      BY <1>1, <2>3 DEF Ends
    <2>5. x \in Ends(text, p)
      <3>1. \A i \in p + 1 .. x : i \in p + 1 .. q /\ i \in 1 .. n
        BY <1>1, <2>1, <2>4
      <3>2. \A i \in p + 1 .. x : IsExpression(text[i])
        BY <1>1, <2>4, <3>1
      <3> QED BY <1>1, <2>1, <2>4, <3>2 DEF Ends, n
    <2>6. x <= LastOf(text, p) /\ LastOf(text, p) \in p .. Len(text)
      BY <2>5, LastIsEnd DEF Ends
    <2> QED BY <1>1, <1>3, <2>1, <2>4, <2>6 DEF Within
  <1> QED BY <1>2, <1>3

-----------------------------------------------------------------------------
(* The expressions of a program, as the statements that have one order them. *)

\* A statement that an expression follows.
Awaits(v) == \/ v.kind \in {"assignment", "if", "while"}
             \/ Declares(v) /\ v.initialized

\* Up to b there is the expression of the statement at s, or a part of it, of
\* which n operands wait.
Half(text, s, b, n) ==
  /\ s \in 1 .. b /\ Awaits(text[s])
  /\ \A i \in s + 1 .. b : IsExpression(text[i])
  /\ Balance(text, s + 1, b) = n

\* Every visit of an expression belongs to a statement and finds its operands.
Fed(text) ==
  \A p \in DOMAIN text :
    IsExpression(text[p]) =>
      \E s, n : n >= 1 - Weight(text[p]) /\ Half(text, s, p - 1, n)

\* And every statement that awaits an expression has one.
Formed(text) ==
  /\ Fed(text)
  /\ \A s \in DOMAIN text :
       Awaits(text[s]) => s + 1 \in DOMAIN text /\ IsExpression(text[s + 1])

\* No expression awaits another, and what it leaves is a number.
LEMMA ExpressionWeighs ==
  ASSUME NEW v
  PROVE  /\ IsExpression(v) => ~Awaits(v)
         /\ Weight(v) \in -1 .. 1
  BY DEF IsExpression, Awaits, Declares, Weight

\* Of nothing no operand waits.
LEMMA BalanceOfNone ==
  ASSUME NEW text, NEW a \in Nat
  PROVE  Balance(text, a + 1, a) = 0
  <1>1. a + 1 .. a = {}
    OBVIOUS
  <1>2. \A w : Weighing(text, a + 1, a, w) = {}
    BY <1>1 DEF Weighing
  <1>3. Cardinality({}) = 0
    BY FS_EmptySet
  <1> QED BY <1>2, <1>3 DEF Balance

\* A statement that awaits an expression begins one.
LEMMA HalfBegins ==
  ASSUME NEW text, NEW b \in Nat \ {0}, Awaits(text[b])
  PROVE  Half(text, b, b, 0)
  <1>1. b \in 1 .. b /\ b + 1 .. b = {}
    OBVIOUS
  <1> QED BY <1>1, BalanceOfNone DEF Half

\* One more expression changes the operands that wait by its weight.
LEMMA HalfGrows ==
  ASSUME NEW text, NEW b \in Nat, NEW s, NEW n, Half(text, s, b, n),
         IsExpression(text[b + 1])
  PROVE  n \in Int /\ Half(text, s, b + 1, n + Weight(text[b + 1]))
  <1> DEFINE v == text[b + 1]
             a == s + 1
  <1>1. /\ s \in 1 .. b /\ Awaits(text[s]) /\ Balance(text, a, b) = n
        /\ \A i \in a .. b : IsExpression(text[i])
    BY DEF Half
  <1>2. /\ a \in Nat /\ b + 1 \in Nat /\ s \in 1 .. b + 1
        /\ (a = b + 1 \/ a <= b) /\ b < b + 1
        /\ \A i \in a .. b + 1 : i \in a .. b \/ i = b + 1
    BY <1>1
  <1>3. \A i \in a .. b + 1 : IsExpression(text[i])
    BY <1>1, <1>2
  <1>4. Weight(v) \in Int /\ Balance(text, b + 1, b + 1) = Weight(v)
    BY <1>2, ExpressionWeighs, BalanceOfOne
  <1> HIDE DEF v, a
  <1>5. n \in Int /\ Balance(text, a, b + 1) = n + Weight(v)
    <2>1. CASE a = b + 1
      <3>1. n = 0
        BY <1>1, <2>1, BalanceOfNone
      <3> QED BY <1>4, <2>1, <3>1
    <2>2. CASE a <= b
      <3>1. /\ Balance(text, a, b) \in Int
            /\ Balance(text, a, b + 1)
                 = Balance(text, a, b) + Balance(text, b + 1, b + 1)
        BY <1>2, <2>2, BalanceJoins
      <3> QED BY <1>1, <1>4, <3>1
    <2> QED BY <1>2, <2>1, <2>2
  <1> QED BY <1>1, <1>2, <1>3, <1>5 DEF Half, v, a

\* How many operands wait is one number.
LEMMA HalfIsOne ==
  ASSUME NEW text, NEW b \in Nat, NEW s, NEW t, NEW n, NEW m,
         Half(text, s, b, n), Half(text, t, b, m)
  PROVE  n = m
  <1>1. /\ s \in 1 .. b /\ t \in 1 .. b
        /\ ~IsExpression(text[s]) /\ ~IsExpression(text[t])
    BY ExpressionWeighs DEF Half
  <1>2. s \notin t + 1 .. b /\ t \notin s + 1 .. b
    BY <1>1 DEF Half
  <1>3. s = t
    BY <1>1, <1>2
  <1> QED BY <1>3 DEF Half

\* What follows changes nothing.
LEMMA HalfStays ==
  ASSUME NEW text, NEW new, NEW b \in Nat, \A i \in 1 .. b : new[i] = text[i],
         NEW s, NEW n, Half(text, s, b, n)
  PROVE  Half(new, s, b, n)
  <1>1. /\ s \in 1 .. b /\ \A i \in s + 1 .. b : new[i] = text[i]
        /\ new[s] = text[s]
    BY DEF Half
  <1>2. Balance(new, s + 1, b) = Balance(text, s + 1, b)
    BY <1>1, OperandStays
  <1> QED BY <1>1, <1>2 DEF Half

\* A statement is not in the expression of another.
LEMMA HalfEnds ==
  ASSUME NEW text, NEW b \in Nat, NEW s, NEW n, Half(text, s, b, n),
         ~IsExpression(text[b])
  PROVE  Awaits(text[b]) /\ n = 0
  <1>1. s \in 1 .. b /\ b \notin s + 1 .. b
    BY DEF Half
  <1>2. s = b
    BY <1>1
  <1> QED BY <1>2, BalanceOfNone DEF Half

\* When no more of it comes, the expression has made an operand.
LEMMA HalfDone ==
  ASSUME NEW text, Formed(text), NEW b \in Nat, NEW s, NEW n, Half(text, s, b, n),
         DOMAIN text = 1 .. Len(text), b \in DOMAIN text, Len(text) \in Nat,
         ~(b + 1 \in DOMAIN text /\ IsExpression(text[b + 1]))
  PROVE  n \in Int /\ n >= 1
  <1>1. s \in 1 .. b /\ Awaits(text[s]) /\ \A i \in s + 1 .. b : IsExpression(text[i])
    BY DEF Half
  <1>2. s # b
    BY <1>1 DEF Formed
  <1>3. b - 1 \in Nat /\ b - 1 + 1 = b /\ IsExpression(text[b])
    BY <1>1, <1>2
  <1>4. PICK t, m : m >= 1 - Weight(text[b]) /\ Half(text, t, b - 1, m)
    BY <1>3 DEF Formed, Fed
  <1>5. m \in Int /\ Half(text, t, b, m + Weight(text[b]))
    BY <1>3, <1>4, HalfGrows
  <1>6. n = m + Weight(text[b])
    BY <1>5, HalfIsOne
  <1>7. Weight(text[b]) \in Int
    BY ExpressionWeighs
  <1> QED BY <1>4, <1>5, <1>6, <1>7

\* An expression comes only while there is one to be completed.
LEMMA ExpressionFed ==
  ASSUME NEW text, Fed(text), NEW p \in DOMAIN text, IsExpression(text[p]),
         DOMAIN text \subseteq Nat \ {0}
  PROVE  /\ p - 1 \in Nat
         /\ \E s, n : n >= 1 - Weight(text[p]) /\ Half(text, s, p - 1, n)
  BY DEF Fed

\* So the first of them comes after a statement that awaits it.
LEMMA ExpressionAwaited ==
  ASSUME NEW text, Fed(text), NEW p \in DOMAIN text, DOMAIN text \subseteq Nat \ {0},
         p = 1 \/ (~IsExpression(text[p - 1]) /\ ~Awaits(text[p - 1]))
  PROVE  ~IsExpression(text[p])
  <1> SUFFICES ASSUME IsExpression(text[p]) PROVE FALSE
    OBVIOUS
  <1>1. PICK s, n : p - 1 \in Nat /\ Half(text, s, p - 1, n)
    BY ExpressionFed
  <1>2. p # 1
    BY <1>1 DEF Half
  <1> QED BY <1>1, <1>2, HalfEnds
=============================================================================
